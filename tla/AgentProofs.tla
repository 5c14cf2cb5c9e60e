----------------------------- MODULE AgentProofs -----------------------------
(***************************************************************************)
(* Proofs about the services around an agent, for any number of            *)
(* administrators, requests, messages and credentials: the catalog that    *)
(* publishes its versions and issues its keys (AgentCatalog), and the      *)
(* gateway through which remote clients run it (A2aTasks).                 *)
(***************************************************************************)
EXTENDS AgentCatalog, A2aTasks, FiniteSetTheorems, SequenceTheorems, TLAPS

LEMMA AtMostOne ==
  ASSUME NEW S, \A c, d \in S : c = d
  PROVE  Cardinality(S) <= 1
  <1>1. CASE S = {} BY <1>1, FS_EmptySet
  <1>2. CASE S # {}
    <2>1. PICK c : S = {c} BY <1>2
    <2>2. Cardinality({c}) = 1 BY FS_Singleton
    <2> QED BY <2>1, <2>2
  <1> QED BY <1>1, <1>2

-----------------------------------------------------------------------------
(* The catalog.                                                            *)

CatalogRequests ==
  [op : {"idle"} \cup AllOps, phase : {"idle", "asked", "read"}, agent : Agents,
   review : BOOLEAN, activate : BOOLEAN, expected : SUBSET Nat, target : Nat,
   tries : 0..MaxVersionAttempts, snap : [made : BOOLEAN, seen : Nat]]
VersionRows == [agent : Agents, no : 1..MaxVersions, review : BOOLEAN]
CredRows == [agent : Agents, status : {"active", "rotated", "revoked"}, from : Nat]

CatalogRows ==
  /\ defs \in [Agents -> [made : BOOLEAN, active : Nat]]
  /\ versions \in Seq(VersionRows)
  /\ creds \in Seq(CredRows)
  /\ work \in [Admins -> CatalogRequests]

(* An agent has versions when it exists, and shows one of its own.         *)
Shown ==
  \A a \in Agents :
    IF defs[a].made THEN defs[a].active \in VersionsOf(a, Len(versions))
                    ELSE defs[a].active = 0 /\ VersionsOf(a, Len(versions)) = {}

(* What a request under way may rely on.                                   *)
Grounded(r) ==
  /\ r.snap.seen <= Len(versions)
  /\ r.op = "setActive" =>
       /\ r.target \in DOMAIN versions
       /\ r.phase = "read" => versions[r.target].agent = r.agent
  /\ r.op \in {"rotate", "revoke"} => r.target \in DOMAIN creds
  /\ r.op \in {"createVersion", "setActive"} /\ r.phase = "read" => defs[r.agent].made
RequestsGrounded == \A p \in Admins : Grounded(work[p])

(* A credential replaces one that was issued before it, and no two         *)
(* replace the same one.                                                   *)
RotationsApart ==
  \A d \in DOMAIN creds :
    /\ creds[d].from < d
    /\ creds[d].from # 0 => creds[creds[d].from].status # "active"
    /\ \A e \in DOMAIN creds : creds[d].from = creds[e].from /\ creds[d].from # 0 => d = e

CatalogInv == CatalogRows /\ Shown /\ RequestsGrounded /\ VersionsNumbered /\ RotationsApart

LEMMA RowsOf ==
  ASSUME CatalogRows
  PROVE  /\ Len(versions) \in Nat /\ DOMAIN versions = 1..Len(versions)
         /\ \A i \in 1..Len(versions) : versions[i] \in VersionRows
         /\ Len(creds) \in Nat /\ DOMAIN creds = 1..Len(creds)
         /\ \A c \in 1..Len(creds) : creds[c] \in CredRows
  BY LenProperties, ElementOfSeq DEF CatalogRows

LEMMA CatalogInvImplies ==
  ASSUME CatalogInv
  PROVE  overtaken \subseteq Admins => CatalogTypeOK /\ RotatedOnce
  <1> USE DEF CatalogInv
  <1>1. ASSUME NEW a \in Agents
        PROVE  /\ defs[a].active \in 0..Len(versions)
               /\ defs[a].made <=> defs[a].active # 0
               /\ defs[a].active # 0 => versions[defs[a].active].agent = a
    BY DEF Shown, VersionsOf, CatalogRows
  <1>2. ASSUME NEW i \in DOMAIN versions
        PROVE  versions[i].agent \in Agents /\ versions[i].no \in 1..MaxVersions
    BY RowsOf DEF VersionRows
  <1>3. ASSUME NEW c \in DOMAIN creds
        PROVE  creds[c].status \in {"active", "rotated", "revoked"} /\ creds[c].from \in 0..(c - 1)
    BY RowsOf DEF CredRows, RotationsApart
  <1>4. ASSUME NEW p \in Admins
        PROVE  work[p].op \in {"idle"} \cup AllOps /\ work[p].tries \in 0..MaxVersionAttempts
    BY DEF CatalogRows, CatalogRequests
  <1>5. overtaken \subseteq Admins => CatalogTypeOK BY <1>1, <1>2, <1>3, <1>4 DEF CatalogTypeOK
  <1>6. ASSUME NEW c \in DOMAIN creds
        PROVE  LET S == {d \in DOMAIN creds : creds[d].from = c} IN
               Cardinality(S) <= 1 /\ (creds[c].status = "active" => S = {})
    <2> DEFINE S == {d \in DOMAIN creds : creds[d].from = c}
    <2>1. c \in Nat /\ c # 0 BY DEF CatalogRows
    <2>2. \A d, e \in S : d = e BY <2>1 DEF RotationsApart
    <2>3. creds[c].status = "active" => S = {} BY <2>1 DEF RotationsApart
    <2>4. Cardinality(S) <= 1
      <3> HIDE DEF S
      <3> QED BY <2>2, AtMostOne
    <2> QED BY <2>3, <2>4
  <1> QED BY <1>5, <1>6 DEF RotatedOnce

-----------------------------------------------------------------------------
(* Versions of an agent, seen by a snapshot or now.                        *)
LEMMA VersionsOfFinite ==
  ASSUME versions \in Seq(VersionRows), NEW a \in Agents, NEW n \in 0..Len(versions)
  PROVE  LET k == Cardinality(VersionsOf(a, Len(versions)))
             s == Cardinality(VersionsOf(a, n))
         IN /\ k \in Nat /\ s \in Nat /\ s <= k
            /\ s = k => VersionsOf(a, n) = VersionsOf(a, Len(versions))
            /\ IsFiniteSet(VersionsOf(a, Len(versions)))
            /\ VersionsOf(a, n) \subseteq VersionsOf(a, Len(versions))
            /\ k = 0 <=> VersionsOf(a, Len(versions)) = {}
  <1>0. Len(versions) \in Nat BY LenProperties
  <1>1. IsFiniteSet(1..Len(versions)) BY <1>0, FS_Interval
  <1>2. VersionsOf(a, Len(versions)) \in SUBSET (1..Len(versions)) BY DEF VersionsOf
  <1>3. IsFiniteSet(VersionsOf(a, Len(versions))) BY <1>1, <1>2, FS_Subset
  <1>4. VersionsOf(a, n) \in SUBSET VersionsOf(a, Len(versions)) BY <1>0 DEF VersionsOf
  <1> QED BY <1>3, <1>4, FS_Subset, FS_CardinalityType, FS_EmptySet

LEMMA VersionsOfAppend ==
  ASSUME versions \in Seq(VersionRows), NEW a \in Agents, NEW n, NEW review,
         versions' = Append(versions, [agent |-> a, no |-> n, review |-> review])
  PROVE  /\ Len(versions)' = Len(versions) + 1
         /\ \A i \in 1..Len(versions) : versions'[i] = versions[i]
         /\ versions'[Len(versions) + 1] = [agent |-> a, no |-> n, review |-> review]
         /\ VersionsOf(a, Len(versions))' = VersionsOf(a, Len(versions)) \cup {Len(versions) + 1}
         /\ \A b \in Agents \ {a} : VersionsOf(b, Len(versions))' = VersionsOf(b, Len(versions))
         /\ \A b \in Agents : \A m \in 0..Len(versions) : VersionsOf(b, m)' = VersionsOf(b, m)
  <1>1. /\ Len(versions') = Len(versions) + 1 /\ Len(versions) \in Nat
        /\ \A i \in 1..Len(versions) : versions'[i] = versions[i]
        /\ versions'[Len(versions) + 1] = [agent |-> a, no |-> n, review |-> review]
    BY AppendProperties, LenProperties
  <1>2. \A i \in 1..Len(versions') : i \in 1..Len(versions) \/ i = Len(versions) + 1
    BY <1>1
  <1> QED BY <1>1, <1>2 DEF VersionsOf

(* A version that takes the number after the last one keeps the numbers    *)
(* without a gap.                                                          *)
LEMMA NextNumber ==
  ASSUME CatalogRows, VersionsNumbered, NEW a \in Agents, NEW n, NEW review \in BOOLEAN,
         CreateVersion(a, n, review), n = Cardinality(VersionsOf(a, Len(versions))) + 1
  PROVE  versions' \in Seq(VersionRows) /\ VersionsNumbered'
  <1> USE DEF CatalogRows
  <1> DEFINE V(b) == VersionsOf(b, Len(versions))
             k == Cardinality(V(a))
             row == [agent |-> a, no |-> n, review |-> review]
  <1>1. versions' = Append(versions, row) /\ n <= MaxVersions BY DEF CreateVersion
  <1>2. k \in Nat /\ IsFiniteSet(V(a)) BY RowsOf, VersionsOfFinite
  <1>3. row \in VersionRows BY <1>1, <1>2 DEF VersionRows
  <1>4. versions' \in Seq(VersionRows) BY <1>1, <1>3, AppendProperties
  <1>5. /\ Len(versions)' = Len(versions) + 1 /\ Len(versions) \in Nat
        /\ \A i \in 1..Len(versions) : versions'[i] = versions[i]
        /\ versions'[Len(versions) + 1] = row
        /\ V(a)' = V(a) \cup {Len(versions) + 1}
        /\ \A b \in Agents \ {a} : V(b)' = V(b)
    BY <1>1, VersionsOfAppend, RowsOf
  <1>6. \A b \in Agents : V(b) \subseteq 1..Len(versions) BY DEF VersionsOf
  <1>7. ASSUME NEW b \in Agents PROVE {versions'[i].no : i \in V(b)'} = 1..Cardinality(V(b)')
    <2>1. {versions[i].no : i \in V(b)} = 1..Cardinality(V(b)) BY DEF VersionsNumbered
    <2>2. {versions'[i].no : i \in V(b)} = {versions[i].no : i \in V(b)}
      <3>1. \A i \in V(b) : versions'[i] = versions[i] BY <1>5, <1>6
      <3> HIDE DEF V
      <3> QED BY <3>1
    <2>3. CASE b # a
      <3>1. V(b)' = V(b) BY <1>5, <2>3
      <3> HIDE DEF V
      <3> QED BY <3>1, <2>1, <2>2
    <2>4. CASE b = a
      <3>1. Len(versions) + 1 \notin V(a) BY <1>5, <1>6
      <3>2. Cardinality(V(a)') = k + 1 BY <3>1, <1>2, <1>5, FS_AddElement
      <3>3. {versions'[i].no : i \in V(a)'} = {versions'[i].no : i \in V(a)} \cup {n}
        <4> HIDE DEF V
        <4> QED BY <1>5, SMTT(60)
      <3>4. {versions'[i].no : i \in V(a)'} = (1..k) \cup {k + 1} BY <3>3, <2>1, <2>2, <2>4
      <3>5. (1..k) \cup {k + 1} = 1..(k + 1) BY <1>2
      <3> HIDE DEF V, k
      <3> QED BY <2>4, <3>2, <3>4, <3>5
    <2> QED BY <2>3, <2>4
  <1> QED BY <1>4, <1>7 DEF VersionsNumbered

(* nextVersionNo counts what its snapshot shows.  When the number is free, *)
(* the snapshot shows all there is.                                        *)
LEMMA FreeIsNext ==
  ASSUME CatalogInv, NEW p \in Admins, FreeNumber(work[p].agent, NextVersionNo(work[p]))
  PROVE  LET a == work[p].agent
         IN /\ VersionsOf(a, work[p].snap.seen) = VersionsOf(a, Len(versions))
            /\ NextVersionNo(work[p]) = Cardinality(VersionsOf(a, Len(versions))) + 1
  <1> USE DEF CatalogInv
  <1> DEFINE a == work[p].agent
             V == VersionsOf(a, Len(versions))
             s == Cardinality(VersionsOf(a, work[p].snap.seen))
             k == Cardinality(V)
  <1>1. a \in Agents /\ work[p].snap.seen \in 0..Len(versions)
    BY RowsOf DEF CatalogRows, CatalogRequests, RequestsGrounded, Grounded
  <1>2. /\ k \in Nat /\ s \in Nat /\ s <= k
        /\ s = k => VersionsOf(a, work[p].snap.seen) = V
    BY <1>1, VersionsOfFinite DEF CatalogRows
  <1>3. s + 1 \notin {versions[i].no : i \in V}
    BY RowsOf DEF FreeNumber, NextVersionNo, VersionsOf
  <1>4. {versions[i].no : i \in V} = 1..k BY <1>1 DEF VersionsNumbered
  <1>5. s + 1 \notin 1..k BY <1>3, <1>4
  <1>6. s = k
    <2> HIDE DEF s, k
    <2> QED BY <1>2, <1>5
  <1> QED BY <1>2, <1>6 DEF NextVersionNo

-----------------------------------------------------------------------------
(* What a step of the catalog does to the requests: it is a step of one of *)
(* them, and what the others rely on only grows.                           *)
Grows ==
  /\ Len(versions) <= Len(versions')
  /\ \A i \in 1..Len(versions) : versions'[i] = versions[i]
  /\ Len(creds) <= Len(creds')
  /\ \A a \in Agents : defs[a].made => defs'[a].made

LEMMA NoWorkType ==
  ASSUME CatalogAssumption
  PROVE  NoWork \in CatalogRequests /\ NoWork.op = "idle" /\ NoWork.snap.seen = 0
  BY DEF CatalogAssumption, NoWork, CatalogRequests

LEMMA OthersGrounded ==
  ASSUME CatalogInv, CatalogRows', Grows, NEW p \in Admins, Grounded(work[p])',
         \A q \in Admins \ {p} : work'[q] = work[q]
  PROVE  RequestsGrounded'
  <1> USE DEF CatalogInv
  <1> SUFFICES ASSUME NEW q \in Admins, q # p PROVE Grounded(work[q])'
    BY DEF RequestsGrounded
  <1>1. work'[q] = work[q] /\ Grounded(work[q]) /\ work[q] \in CatalogRequests
    BY DEF RequestsGrounded, CatalogRows
  <1>2. Len(versions') \in Nat /\ DOMAIN versions' = 1..Len(versions')
        /\ Len(creds') \in Nat /\ DOMAIN creds' = 1..Len(creds')
    BY LenProperties DEF CatalogRows
  <1> QED BY <1>1, <1>2, RowsOf DEF Grounded, Grows, CatalogRequests

LEMMA Finished ==
  ASSUME CatalogAssumption, CatalogInv, NEW p \in Admins, RequestDone(p), Len(versions') \in Nat
  PROVE  /\ work' \in [Admins -> CatalogRequests]
         /\ Grounded(work[p])'
         /\ \A q \in Admins \ {p} : work'[q] = work[q]
  <1>1. work' = [work EXCEPT ![p] = NoWork] BY DEF RequestDone
  <1>2. work' \in [Admins -> CatalogRequests] BY <1>1, NoWorkType DEF CatalogInv, CatalogRows
  <1>3. work'[p] = NoWork BY <1>1 DEF CatalogInv, CatalogRows
  <1>4. Grounded(work[p])' BY <1>3, NoWorkType DEF Grounded
  <1> QED BY <1>1, <1>2, <1>4 DEF CatalogInv, CatalogRows

LEMMA AskStep ==
  ASSUME CatalogAssumption, CatalogInv, NEW p \in Admins, Asks(p)
  PROVE  CatalogInv'
  <1> USE DEF CatalogInv
  <1>1. ASSUME NEW r \in CatalogRequests, Arrives(p, r), r.snap.seen = 0, r.phase = "asked",
               r.op = "setActive" => r.target \in DOMAIN versions,
               r.op \in {"rotate", "revoke"} => r.target \in DOMAIN creds
        PROVE  CatalogInv'
    <2>1. work' = [work EXCEPT ![p] = r] /\ UNCHANGED <<defs, versions, creds>>
      BY <1>1 DEF Arrives
    <2>2. CatalogRows' BY <2>1 DEF CatalogRows
    <2>3. work'[p] = r /\ \A q \in Admins \ {p} : work'[q] = work[q] BY <2>1 DEF CatalogRows
    <2>4. Grounded(work[p])' BY <1>1, <2>1, <2>3, RowsOf DEF Grounded
    <2>5. Grows BY <2>1, RowsOf DEF Grows
    <2>6. RequestsGrounded' BY <2>2, <2>3, <2>4, <2>5, OthersGrounded
    <2>7. Shown' /\ VersionsNumbered' /\ RotationsApart'
      BY <2>1 DEF Shown, VersionsNumbered, RotationsApart, VersionsOf
    <2> QED BY <2>2, <2>6, <2>7
  <1>2. ASSUME NEW op \in AllOps, NEW a \in Agents
        PROVE  LET r == Request(op, a)
               IN r \in CatalogRequests /\ r.snap.seen = 0 /\ r.phase = "asked" /\ r.op = op /\ r.agent = a
    BY NoWorkType DEF Request, NoWork, CatalogRequests
  <1>3. \A a \in Agents : Seen(a) \subseteq SUBSET Nat BY RowsOf DEF Seen, VersionsOf
  <1>4. ASSUME NEW a \in Agents, NEW review \in BOOLEAN, AskCreateAgent(p, a, review)
        PROVE  CatalogInv'
    <2> DEFINE r == [Request("createAgent", a) EXCEPT !.review = review]
    <2>1. r \in CatalogRequests /\ r.snap.seen = 0 /\ r.phase = "asked" /\ r.op = "createAgent"
      BY <1>2 DEF AllOps, CatalogRequests
    <2>2. Arrives(p, r) BY <1>4 DEF AskCreateAgent
    <2> HIDE DEF r
    <2> QED BY <1>1, <2>1, <2>2
  <1>5. ASSUME NEW a \in Agents, NEW review \in BOOLEAN, NEW on \in BOOLEAN, NEW e \in Seen(a),
               AskCreateVersion(p, a, review, on, e)
        PROVE  CatalogInv'
    <2> DEFINE base == Request("createVersion", a)
               r == [base EXCEPT !.review = review, !.activate = on, !.expected = e]
    <2>1. r \in CatalogRequests /\ r.snap.seen = 0 /\ r.phase = "asked" /\ r.op = "createVersion"
      <3>1. base \in CatalogRequests /\ base.snap.seen = 0 /\ base.phase = "asked" /\ base.op = "createVersion"
        BY <1>2 DEF AllOps
      <3>2. e \in SUBSET Nat BY <1>3
      <3> HIDE DEF base
      <3> QED BY <3>1, <3>2 DEF CatalogRequests
    <2>2. Arrives(p, r) BY <1>5 DEF AskCreateVersion
    <2> HIDE DEF r
    <2> QED BY <1>1, <2>1, <2>2
  <1>6. ASSUME NEW a \in Agents, NEW v \in DOMAIN versions, NEW e \in Seen(a), AskSetActive(p, a, v, e)
        PROVE  CatalogInv'
    <2> DEFINE base == Request("setActive", a)
               r == [base EXCEPT !.target = v, !.expected = e]
    <2>1. r \in CatalogRequests /\ r.snap.seen = 0 /\ r.phase = "asked" /\ r.op = "setActive" /\ r.target = v
      <3>1. base \in CatalogRequests /\ base.snap.seen = 0 /\ base.phase = "asked" /\ base.op = "setActive"
        BY <1>2 DEF AllOps
      <3>2. e \in SUBSET Nat /\ v \in Nat BY <1>3, RowsOf
      <3> HIDE DEF base
      <3> QED BY <3>1, <3>2 DEF CatalogRequests
    <2>2. Arrives(p, r) BY <1>6 DEF AskSetActive
    <2> HIDE DEF r
    <2> QED BY <1>1, <2>1, <2>2
  <1>7. ASSUME NEW op \in {"issue", "rotate", "revoke"}, NEW a \in Agents, NEW c \in {0} \cup DOMAIN creds,
               AskCredential(p, op, a, c), op # "issue" => c \in DOMAIN creds
        PROVE  CatalogInv'
    <2> DEFINE r == [Request(op, a) EXCEPT !.target = c]
    <2>1. r \in CatalogRequests /\ r.snap.seen = 0 /\ r.phase = "asked" /\ r.op = op /\ r.target = c
      <3>1. c \in Nat BY RowsOf
      <3> QED BY <3>1, <1>2 DEF AllOps, CatalogRequests
    <2>2. Arrives(p, r) BY <1>7 DEF AskCredential
    <2> HIDE DEF r
    <2> QED BY <1>1, <1>7, <2>1, <2>2
  <1>8. ASSUME AskEnsureDefault(p) PROVE CatalogInv'
    <2>1. "ensureDefault" \in AllOps /\ Default \in Agents BY DEF AllOps, CatalogAssumption
    <2>2. Arrives(p, Request("ensureDefault", Default)) BY <1>8 DEF AskEnsureDefault
    <2> QED BY <1>1, <1>2, <2>1, <2>2
  <1>9. \A c \in DOMAIN creds : creds[c].agent \in Agents BY RowsOf DEF CredRows
  <1>10. Reviews \subseteq BOOLEAN BY DEF CatalogAssumption
  <1> QED BY <1>4, <1>5, <1>6, <1>7, <1>8, <1>9, <1>10 DEF Asks

LEMMA ReadStep ==
  ASSUME CatalogAssumption, CatalogInv, NEW p \in Admins, Read(p)
  PROVE  CatalogInv'
  <1> USE DEF CatalogInv
  <1> DEFINE r == work[p]
             read == [r EXCEPT !.phase = "read", !.snap = Snapshot(r.agent)]
  <1>1. /\ work' = [work EXCEPT ![p] = IF ReadPasses(r) THEN read ELSE NoWork]
        /\ UNCHANGED <<defs, versions, creds>>
    BY DEF Read
  <1>2. r \in CatalogRequests /\ Grounded(r) BY DEF CatalogRows, RequestsGrounded
  <1>3. Snapshot(r.agent) \in [made : BOOLEAN, seen : Nat] /\ Snapshot(r.agent).seen = Len(versions)
    BY <1>2, RowsOf DEF Snapshot, CatalogRows, CatalogRequests
  <1>4. /\ read \in CatalogRequests /\ read.op = r.op /\ read.agent = r.agent /\ read.target = r.target
        /\ read.snap.seen = Len(versions)
    BY <1>2, <1>3 DEF CatalogRequests
  <1>5. work' \in [Admins -> CatalogRequests] BY <1>1, <1>4, NoWorkType DEF CatalogRows
  <1>6. CatalogRows' BY <1>1, <1>5 DEF CatalogRows
  <1>7. \A q \in Admins \ {p} : work'[q] = work[q] BY <1>1 DEF CatalogRows
  <1>8. Grounded(work[p])'
    <2>1. CASE ReadPasses(r)
      <3>1. work'[p] = read BY <1>1, <2>1 DEF CatalogRows
      <3>2. r.op = "setActive" => versions[r.target].agent = r.agent /\ defs[r.agent].made
        BY <2>1 DEF ReadPasses, OwnVersion
      <3>3. r.op = "createVersion" => defs[r.agent].made BY <2>1 DEF ReadPasses
      <3> HIDE DEF r, read
      <3> QED BY <1>1, <1>2, <1>4, <3>1, <3>2, <3>3, RowsOf DEF Grounded
    <2>2. CASE ~ReadPasses(r)
      <3>1. work'[p] = NoWork BY <1>1, <2>2 DEF CatalogRows
      <3>2. Len(versions') \in Nat BY <1>1, RowsOf
      <3> QED BY <3>1, <3>2, NoWorkType DEF Grounded
    <2> QED BY <2>1, <2>2
  <1>9. Grows BY <1>1, RowsOf DEF Grows
  <1>10. RequestsGrounded' BY <1>6, <1>7, <1>8, <1>9, OthersGrounded
  <1>11. Shown' /\ VersionsNumbered' /\ RotationsApart'
    BY <1>1 DEF Shown, VersionsNumbered, RotationsApart, VersionsOf
  <1> QED BY <1>6, <1>10, <1>11

(* What every write but a refused publication has to show.                 *)
TablesKept ==
  /\ defs' \in [Agents -> [made : BOOLEAN, active : Nat]]
  /\ versions' \in Seq(VersionRows)
  /\ creds' \in Seq(CredRows)

LEMMA WriteKeeps ==
  ASSUME CatalogAssumption, CatalogInv, NEW p \in Admins, RequestDone(p), TablesKept, Grows,
         Shown', VersionsNumbered', RotationsApart'
  PROVE  CatalogInv'
  <1>1. Len(versions') \in Nat BY LenProperties DEF TablesKept
  <1>2. /\ work' \in [Admins -> CatalogRequests] /\ Grounded(work[p])'
        /\ \A q \in Admins \ {p} : work'[q] = work[q]
    BY <1>1, Finished
  <1>3. CatalogRows' BY <1>2 DEF CatalogRows, TablesKept
  <1>4. RequestsGrounded' BY <1>2, <1>3, OthersGrounded
  <1> QED BY <1>3, <1>4 DEF CatalogInv

(* A version is added; the agent comes to show it, or goes on as it was.   *)
LEMMA Published ==
  ASSUME CatalogInv, NEW a \in Agents, NEW n, NEW review \in BOOLEAN, NEW on \in BOOLEAN,
         CreateVersion(a, n, review), n = Cardinality(VersionsOf(a, Len(versions))) + 1,
         IF on THEN SetActiveVersion(a, Len(versions) + 1) ELSE defs[a].made /\ UNCHANGED defs,
         UNCHANGED creds
  PROVE  TablesKept /\ Grows /\ Shown' /\ VersionsNumbered' /\ RotationsApart'
  <1> USE DEF CatalogInv
  <1>1. versions' \in Seq(VersionRows) /\ VersionsNumbered' BY NextNumber
  <1>2. Len(versions) \in Nat BY RowsOf
  <1>3. /\ defs' \in [Agents -> [made : BOOLEAN, active : Nat]]
        /\ \A b \in Agents : defs[b].made => defs'[b].made
    <2>1. CASE on
      <3>1. SetActiveVersion(a, Len(versions) + 1) BY <2>1
      <3>2. Len(versions) + 1 \in Nat BY <1>2
      <3>3. defs' \in [Agents -> [made : BOOLEAN, active : Nat]]
        BY <3>1, <3>2 DEF SetActiveVersion, CatalogRows
      <3>4. \A b \in Agents : defs[b].made => defs'[b].made
        BY <3>1 DEF SetActiveVersion, CatalogRows
      <3> QED BY <3>3, <3>4
    <2>2. CASE ~on
      <3>1. UNCHANGED defs BY <2>2
      <3> QED BY <3>1 DEF CatalogRows
    <2> QED BY <2>1, <2>2
  <1>4. TablesKept BY <1>1, <1>3 DEF TablesKept, CatalogRows
  <1>5. /\ Len(versions)' = Len(versions) + 1
        /\ \A i \in 1..Len(versions) : versions'[i] = versions[i]
        /\ VersionsOf(a, Len(versions))' = VersionsOf(a, Len(versions)) \cup {Len(versions) + 1}
        /\ \A b \in Agents \ {a} : VersionsOf(b, Len(versions))' = VersionsOf(b, Len(versions))
    BY VersionsOfAppend DEF CreateVersion, CatalogRows
  <1>6. Grows BY <1>2, <1>3, <1>5, RowsOf DEF Grows
  <1>7. ASSUME NEW b \in Agents
        PROVE  IF defs'[b].made THEN defs'[b].active \in VersionsOf(b, Len(versions))'
                                ELSE defs'[b].active = 0 /\ VersionsOf(b, Len(versions))' = {}
    <2>1. CASE b = a /\ on
      <3>1. defs'[a].made /\ defs'[a].active = Len(versions) + 1
        BY <2>1 DEF SetActiveVersion, CatalogRows
      <3> QED BY <2>1, <3>1, <1>5
    <2>2. CASE b = a /\ ~on BY <2>2, <1>5 DEF Shown
    <2>3. CASE b # a
      <3>1. defs'[b] = defs[b] BY <2>3 DEF SetActiveVersion, CatalogRows
      <3> QED BY <2>3, <3>1, <1>5 DEF Shown
    <2> QED BY <2>1, <2>2, <2>3
  <1>8. Shown' BY <1>7 DEF Shown
  <1>9. RotationsApart' BY DEF RotationsApart
  <1> QED BY <1>1, <1>4, <1>6, <1>8, <1>9

(* An agent comes to show another of its versions.                         *)
LEMMA Activated ==
  ASSUME CatalogInv, NEW a \in Agents, NEW v \in VersionsOf(a, Len(versions)), SetActiveVersion(a, v),
         UNCHANGED <<versions, creds>>
  PROVE  TablesKept /\ Grows /\ Shown' /\ VersionsNumbered' /\ RotationsApart'
  <1> USE DEF CatalogInv
  <1>1. v \in Nat BY RowsOf DEF VersionsOf
  <1>2. defs' \in [Agents -> [made : BOOLEAN, active : Nat]] BY <1>1 DEF SetActiveVersion, CatalogRows
  <1>3. TablesKept BY <1>2 DEF TablesKept, CatalogRows
  <1>4. Grows BY RowsOf DEF Grows, SetActiveVersion, CatalogRows
  <1>5. defs'[a].made /\ defs'[a].active = v /\ \A b \in Agents \ {a} : defs'[b] = defs[b]
    BY DEF SetActiveVersion, CatalogRows
  <1>6. \A b \in Agents : VersionsOf(b, Len(versions))' = VersionsOf(b, Len(versions)) BY DEF VersionsOf
  <1>7. Shown' BY <1>5, <1>6 DEF Shown
  <1>8. VersionsNumbered' /\ RotationsApart' BY DEF VersionsNumbered, RotationsApart, VersionsOf
  <1> QED BY <1>3, <1>4, <1>7, <1>8

LEMMA NothingPublished ==
  ASSUME CatalogInv, UNCHANGED <<defs, versions>>
  PROVE  Shown' /\ VersionsNumbered'
  BY DEF CatalogInv, Shown, VersionsNumbered, VersionsOf

LEMMA PublicationStep ==
  ASSUME CatalogAssumption, CatalogInv, NEW p \in Admins, work[p].phase = "read",
         WriteCreateAgent(p) \/ WriteCreateVersion(p) \/ WriteSetActive(p) \/ WriteEnsureDefault(p)
  PROVE  CatalogInv'
  <1> USE DEF CatalogInv
  <1> DEFINE r == work[p]
  <1>1. r \in CatalogRequests /\ Grounded(r) BY DEF CatalogRows, RequestsGrounded
  <1>2. /\ r.agent \in Agents /\ r.review \in BOOLEAN /\ r.activate \in BOOLEAN /\ r.tries \in 0..MaxVersionAttempts
        /\ Default \in Agents
    BY <1>1 DEF CatalogRequests, CatalogAssumption
  <1>4. ASSUME UNCHANGED <<defs, versions, creds>>, RequestDone(p) PROVE CatalogInv'
    <2>1. TablesKept /\ Grows BY <1>4, RowsOf DEF TablesKept, CatalogRows, Grows
    <2>2. RotationsApart' BY <1>4 DEF RotationsApart
    <2> QED BY <1>4, <2>1, <2>2, NothingPublished, WriteKeeps
  <1>5. \A a \in Agents : ~defs[a].made => Cardinality(VersionsOf(a, Len(versions))) = 0
    BY FS_EmptySet DEF Shown
  <1>6. CASE WriteCreateAgent(p)
    <2> USE <1>6 DEF WriteCreateAgent
    <2>1. CASE defs[r.agent].made BY <2>1, <1>4
    <2>2. CASE ~defs[r.agent].made
      <3>1. /\ CreateVersion(r.agent, 1, r.review) /\ SetActiveVersion(r.agent, Len(versions) + 1)
            /\ UNCHANGED creds /\ RequestDone(p)
        BY <2>2
      <3>2. 1 = Cardinality(VersionsOf(r.agent, Len(versions))) + 1 BY <1>2, <1>5, <2>2
      <3> HIDE <1>6 DEF WriteCreateAgent, r
      <3> QED BY <1>2, <3>1, <3>2, Published, WriteKeeps
    <2> QED BY <2>1, <2>2
  <1>7. CASE WriteCreateVersion(p)
    <2>1. CASE FreeNumber(r.agent, NextVersionNo(r))
      <3>1. /\ RequestDone(p) /\ CreateVersion(r.agent, NextVersionNo(r), r.review) /\ UNCHANGED creds
            /\ IF r.activate THEN SetActiveVersion(r.agent, Len(versions) + 1) ELSE UNCHANGED defs
            /\ r.op = "createVersion"
        BY <1>7, <2>1 DEF WriteCreateVersion
      <3>2. NextVersionNo(r) = Cardinality(VersionsOf(r.agent, Len(versions))) + 1 BY <2>1, FreeIsNext
      <3>3. defs[r.agent].made BY <1>1, <3>1 DEF Grounded
      <3> HIDE DEF r
      <3> QED BY <1>2, <3>1, <3>2, <3>3, Published, WriteKeeps
    <2>2. CASE ~FreeNumber(r.agent, NextVersionNo(r))
      <3>1. /\ work' = [work EXCEPT ![p] = IF r.tries + 1 < MaxVersionAttempts
                                          THEN [r EXCEPT !.phase = "asked", !.tries = r.tries + 1] ELSE NoWork]
            /\ UNCHANGED <<defs, versions, creds>> /\ r.op = "createVersion"
        BY <1>7, <2>2 DEF WriteCreateVersion
      <3>2. CASE r.tries + 1 < MaxVersionAttempts
        <4> DEFINE again == [r EXCEPT !.phase = "asked", !.tries = r.tries + 1]
        <4>1. /\ again \in CatalogRequests /\ again.op = r.op /\ again.phase = "asked"
              /\ again.snap = r.snap
          <5>1. r.tries + 1 \in 0..MaxVersionAttempts BY <1>2, <3>2 DEF CatalogAssumption
          <5> HIDE DEF r
          <5> QED BY <1>1, <5>1 DEF CatalogRequests
        <4>2. work' = [work EXCEPT ![p] = again] BY <3>1, <3>2
        <4> HIDE DEF again
        <4>3. work'[p] = again /\ \A q \in Admins \ {p} : work'[q] = work[q] BY <4>2 DEF CatalogRows
        <4>4. CatalogRows' BY <3>1, <4>1, <4>2 DEF CatalogRows
        <4>5. Grounded(work[p])' BY <1>1, <3>1, <4>1, <4>3 DEF Grounded
        <4>6. Grows BY <3>1, RowsOf DEF Grows
        <4>7. RequestsGrounded' BY <4>3, <4>4, <4>5, <4>6, OthersGrounded
        <4>8. RotationsApart' BY <3>1 DEF RotationsApart
        <4> QED BY <3>1, <4>4, <4>7, <4>8, NothingPublished
      <3>3. CASE ~(r.tries + 1 < MaxVersionAttempts) BY <3>1, <3>3, <1>4 DEF RequestDone
      <3> QED BY <3>2, <3>3
    <2> QED BY <2>1, <2>2
  <1>8. CASE WriteSetActive(p)
    <2>1. /\ RequestDone(p) /\ SetActiveVersion(r.agent, r.target) /\ UNCHANGED <<versions, creds>>
          /\ r.op = "setActive"
      BY <1>8 DEF WriteSetActive
    <2>2. r.target \in VersionsOf(r.agent, Len(versions)) BY <1>1, <2>1, RowsOf DEF Grounded, VersionsOf
    <2> HIDE DEF r
    <2> QED BY <1>2, <2>1, <2>2, Activated, WriteKeeps
  <1>9. CASE WriteEnsureDefault(p)
    <2> DEFINE FirstOnes == {i \in DOMAIN versions : versions[i].agent = Default /\ versions[i].no = 1}
    <2>1. CASE r.snap.made BY <1>4, <1>9, <2>1 DEF WriteEnsureDefault
    <2>2. CASE ~r.snap.made /\ ~defs[Default].made
      <3>1. /\ CreateVersion(Default, 1, FALSE) /\ SetActiveVersion(Default, Len(versions) + 1)
            /\ UNCHANGED creds /\ RequestDone(p)
        BY <1>9, <2>2 DEF WriteEnsureDefault
      <3>2. 1 = Cardinality(VersionsOf(Default, Len(versions))) + 1 BY <1>2, <1>5, <2>2
      <3> HIDE DEF r
      <3> QED BY <1>2, <3>1, <3>2, Published, WriteKeeps
    <2>3. CASE ~r.snap.made /\ defs[Default].made
      <3>1. /\ SetActiveVersion(Default, CHOOSE i \in FirstOnes : TRUE)
            /\ UNCHANGED <<versions, creds>> /\ RequestDone(p)
        BY <1>9, <2>3 DEF WriteEnsureDefault
      <3>2. FirstOnes # {}
        <4> DEFINE V == VersionsOf(Default, Len(versions))
        <4>1. V # {} BY <1>2, <2>3 DEF Shown
        <4>2. Cardinality(V) \in Nat /\ Cardinality(V) # 0 BY <1>2, <4>1, VersionsOfFinite, RowsOf DEF CatalogRows
        <4>3. 1 \in {versions[i].no : i \in V} BY <1>2, <4>2 DEF VersionsNumbered
        <4> QED BY <4>3, RowsOf DEF VersionsOf
      <3>3. (CHOOSE i \in FirstOnes : TRUE) \in VersionsOf(Default, Len(versions))
        <4>1. (CHOOSE i \in FirstOnes : TRUE) \in FirstOnes BY <3>2
        <4> QED BY <4>1, RowsOf DEF VersionsOf
      <3> HIDE DEF FirstOnes
      <3> QED BY <1>2, <3>1, <3>3, Activated, WriteKeeps
    <2> QED BY <2>1, <2>2, <2>3
  <1> QED BY <1>6, <1>7, <1>8, <1>9

LEMMA CredentialStep ==
  ASSUME CatalogAssumption, CatalogInv, NEW p \in Admins, work[p].phase = "read",
         WriteIssue(p) \/ WriteRotate(p) \/ WriteRevoke(p)
  PROVE  CatalogInv'
  <1> USE DEF CatalogInv
  <1> DEFINE r == work[p]
  <1>1. r \in CatalogRequests /\ Grounded(r) BY DEF CatalogRows, RequestsGrounded
  <1>2. RequestDone(p) /\ UNCHANGED <<defs, versions>>
    BY DEF WriteIssue, WriteRotate, WriteRevoke
  <1>3. ASSUME creds' \in Seq(CredRows), Len(creds) <= Len(creds'), RotationsApart'
        PROVE  CatalogInv'
    <2>1. TablesKept BY <1>2, <1>3 DEF TablesKept, CatalogRows
    <2>2. Grows BY <1>2, <1>3, RowsOf DEF Grows
    <2> QED BY <1>2, <1>3, <2>1, <2>2, NothingPublished, WriteKeeps
  <1>4. creds \in Seq(CredRows) /\ Len(creds) \in Nat /\ DOMAIN creds = 1..Len(creds)
    BY RowsOf DEF CatalogRows
  <1>5. \A d \in 1..Len(creds) : creds[d] \in CredRows BY RowsOf
  <1>6. CASE WriteIssue(p)
    <2> DEFINE new == NewCredential(r.agent, 0)
    <2>1. new \in CredRows /\ new.from = 0 /\ new.status = "active"
      BY <1>1 DEF NewCredential, CredRows, CatalogRequests
    <2>2. creds' = Append(creds, new) BY <1>6 DEF WriteIssue
    <2> HIDE DEF new, r
    <2>3. /\ creds' \in Seq(CredRows) /\ Len(creds') = Len(creds) + 1 /\ creds'[Len(creds) + 1] = new
          /\ \A d \in 1..Len(creds) : creds'[d] = creds[d]
      BY <1>4, <2>1, <2>2, AppendProperties
    <2>4. DOMAIN creds' = 1..(Len(creds) + 1) BY <2>3, LenProperties
    <2>5. \A d \in 1..(Len(creds) + 1) : d \in 1..Len(creds) \/ d = Len(creds) + 1 BY <1>4
    <2>6. \A d \in 1..Len(creds) : creds[d].from \in Nat /\ creds[d].from < d
      BY <1>4, <1>5 DEF RotationsApart, CredRows
    <2>7. ASSUME NEW d \in 1..(Len(creds) + 1)
          PROVE  /\ creds'[d].from < d
                 /\ creds'[d].from # 0 => creds'[creds'[d].from].status # "active"
                 /\ \A e \in 1..(Len(creds) + 1) :
                      creds'[d].from = creds'[e].from /\ creds'[d].from # 0 => d = e
      <3>1. CASE d \in 1..Len(creds)
        <4>1. creds[d].from # 0 => creds[d].from \in 1..Len(creds) BY <1>4, <2>6, <3>1
        <4>2. creds[d].from # 0 => creds[creds[d].from].status # "active"
          BY <1>4, <3>1 DEF RotationsApart
        <4>3. \A e \in 1..Len(creds) : creds[d].from = creds[e].from /\ creds[d].from # 0 => d = e
          BY <1>4, <3>1 DEF RotationsApart
        <4> QED BY <2>1, <2>3, <2>5, <2>6, <3>1, <4>1, <4>2, <4>3
      <3>2. CASE d = Len(creds) + 1
        BY <1>4, <2>1, <2>3, <3>2
      <3> QED BY <2>5, <3>1, <3>2
    <2>8. RotationsApart' BY <2>4, <2>7 DEF RotationsApart
    <2> QED BY <1>3, <1>4, <2>3, <2>8
  <1>7. CASE WriteRotate(p)
    <2> DEFINE c == r.target
    <2>1. c \in 1..Len(creds) BY <1>1, <1>4, <1>7 DEF WriteRotate, Grounded
    <2>2. CASE ~StillActive(c)
      <3>1. UNCHANGED creds BY <1>7, <2>2 DEF WriteRotate
      <3> QED BY <1>3, <1>4, <3>1 DEF RotationsApart
    <2>3. CASE StillActive(c)
      <3> DEFINE gone == [creds EXCEPT ![c].status = "rotated"]
                 new == NewCredential(creds[c].agent, c)
      <3>1. creds' = Append(gone, new) BY <1>7, <2>3 DEF WriteRotate
      <3>2. new \in CredRows /\ new.from = c /\ new.status = "active"
        BY <1>4, <1>5, <2>1 DEF NewCredential, CredRows
      <3>3. [creds[c] EXCEPT !.status = "rotated"] \in CredRows BY <1>5, <2>1 DEF CredRows
      <3>4. /\ gone \in Seq(CredRows) /\ Len(gone) = Len(creds)
            /\ \A d \in 1..Len(creds) :
                 gone[d] = IF d = c THEN [creds[c] EXCEPT !.status = "rotated"] ELSE creds[d]
        <4>1. gone = [creds EXCEPT ![c] = [creds[c] EXCEPT !.status = "rotated"]] BY <1>4, <2>1
        <4> HIDE DEF gone, c
        <4> QED BY <1>4, <2>1, <3>3, <4>1, ExceptSeq
      <3> HIDE DEF gone, new, r
      <3>5. /\ creds' \in Seq(CredRows) /\ Len(creds') = Len(creds) + 1 /\ creds'[Len(creds) + 1] = new
            /\ \A d \in 1..Len(creds) : creds'[d] = gone[d]
        BY <1>4, <3>1, <3>2, <3>4, AppendProperties
      <3>6. DOMAIN creds' = 1..(Len(creds) + 1) BY <3>5, LenProperties
      <3>7. \A d \in 1..(Len(creds) + 1) : d \in 1..Len(creds) \/ d = Len(creds) + 1 BY <1>4
      <3>8. \A d \in 1..Len(creds) :
              /\ creds'[d].from = creds[d].from
              /\ creds'[d].status = IF d = c THEN "rotated" ELSE creds[d].status
        <4> HIDE DEF c
        <4>1. LET row == [creds[c] EXCEPT !.status = "rotated"]
              IN row.from = creds[c].from /\ row.status = "rotated"
          BY <1>5, <2>1 DEF CredRows
        <4> QED BY <3>4, <3>5, <4>1
      <3>9. \A d \in 1..Len(creds) : creds[d].from \in Nat /\ creds[d].from < d /\ creds[d].from # c
        BY <1>4, <1>5, <2>1, <2>3 DEF RotationsApart, StillActive, CredRows
      <3>10. ASSUME NEW d \in 1..(Len(creds) + 1)
             PROVE  /\ creds'[d].from < d
                    /\ creds'[d].from # 0 => creds'[creds'[d].from].status # "active"
                    /\ \A e \in 1..(Len(creds) + 1) :
                         creds'[d].from = creds'[e].from /\ creds'[d].from # 0 => d = e
        <4> HIDE DEF c
        <4>1. CASE d \in 1..Len(creds)
          <5>1. creds[d].from # 0 => creds[d].from \in 1..Len(creds) BY <1>4, <3>9, <4>1
          <5>2. creds[d].from # 0 => creds[creds[d].from].status # "active"
            BY <1>4, <4>1 DEF RotationsApart
          <5>3. \A e \in 1..Len(creds) : creds[d].from = creds[e].from /\ creds[d].from # 0 => d = e
            BY <1>4, <4>1 DEF RotationsApart
          <5> QED BY <3>2, <3>5, <3>7, <3>8, <3>9, <4>1, <5>1, <5>2, <5>3, SMTT(60)
        <4>2. CASE d = Len(creds) + 1
          <5>1. creds'[d].from = c /\ creds'[c].status = "rotated" /\ c < d
            BY <1>4, <2>1, <3>2, <3>5, <3>8, <4>2
          <5> QED BY <3>7, <3>8, <3>9, <4>2, <5>1
        <4> QED BY <3>7, <4>1, <4>2
      <3>11. RotationsApart' BY <3>6, <3>10 DEF RotationsApart
      <3> QED BY <1>3, <1>4, <3>5, <3>11
    <2> QED BY <2>2, <2>3
  <1>8. CASE WriteRevoke(p)
    <2> DEFINE c == r.target
    <2>1. c \in 1..Len(creds) /\ creds' = [creds EXCEPT ![c].status = "revoked"]
      BY <1>1, <1>4, <1>8 DEF WriteRevoke, Grounded
    <2> HIDE DEF c
    <2>2. [creds[c] EXCEPT !.status = "revoked"] \in CredRows BY <1>5, <2>1 DEF CredRows
    <2>3. /\ creds' \in Seq(CredRows) /\ Len(creds') = Len(creds)
          /\ \A d \in 1..Len(creds) :
               creds'[d] = IF d = c THEN [creds[c] EXCEPT !.status = "revoked"] ELSE creds[d]
      <3>1. creds' = [creds EXCEPT ![c] = [creds[c] EXCEPT !.status = "revoked"]] BY <1>4, <2>1
      <3> QED BY <1>4, <2>1, <2>2, <3>1, ExceptSeq
    <2>4. DOMAIN creds' = 1..Len(creds) BY <2>3, LenProperties
    <2>5. \A d \in 1..Len(creds) :
            /\ creds'[d].from = creds[d].from
            /\ creds'[d].status = IF d = c THEN "revoked" ELSE creds[d].status
      BY <1>5, <2>3 DEF CredRows
    <2>6. \A d \in 1..Len(creds) : creds[d].from # 0 => creds[d].from \in 1..Len(creds)
      BY <1>4, <1>5 DEF RotationsApart, CredRows
    <2>7. RotationsApart' BY <1>4, <2>4, <2>5, <2>6 DEF RotationsApart
    <2> QED BY <1>3, <1>4, <2>3, <2>7
  <1> QED BY <1>6, <1>7, <1>8

LEMMA CatalogInitially == ASSUME CatalogAssumption, CatalogInit PROVE CatalogInv
  <1> USE DEF CatalogInit
  <1>1. /\ Len(versions) = 0 /\ Len(creds) = 0 /\ DOMAIN creds = {}
        /\ versions \in Seq(VersionRows) /\ creds \in Seq(CredRows)
    BY EmptySeq
  <1>2. CatalogRows BY <1>1, NoWorkType DEF CatalogRows, NoDefinition
  <1>3. \A a \in Agents : VersionsOf(a, Len(versions)) = {} BY <1>1 DEF VersionsOf
  <1>4. Shown BY <1>3 DEF Shown, NoDefinition
  <1>5. RequestsGrounded BY <1>1, NoWorkType DEF RequestsGrounded, Grounded
  <1>6. VersionsNumbered
    <2> SUFFICES ASSUME NEW a \in Agents
                 PROVE  {versions[i].no : i \in {}} = 1..Cardinality({})
      BY <1>3 DEF VersionsNumbered
    <2> QED BY FS_EmptySet
  <1>7. RotationsApart BY <1>1 DEF RotationsApart
  <1> QED BY <1>2, <1>4, <1>5, <1>6, <1>7 DEF CatalogInv

LEMMA CatalogStep ==
  ASSUME CatalogAssumption, CatalogInv, [CatalogNext]_catalogVars
  PROVE  CatalogInv'
  <1>1. ASSUME NEW p \in Admins, Asks(p) \/ Read(p) \/ Writes(p) PROVE CatalogInv'
    <2>1. CASE Asks(p) BY <2>1, AskStep
    <2>2. CASE Read(p) BY <2>2, ReadStep
    <2>3. CASE Writes(p) BY <2>3, PublicationStep, CredentialStep DEF Writes
    <2> QED BY <1>1, <2>1, <2>2, <2>3
  <1>2. CASE UNCHANGED catalogVars
    <2> USE <1>2 DEF catalogVars, CatalogInv
    <2>1. CatalogRows' BY DEF CatalogRows
    <2>2. RequestsGrounded' BY DEF RequestsGrounded, Grounded
    <2>3. Shown' /\ VersionsNumbered' BY NothingPublished
    <2>4. RotationsApart' BY DEF RotationsApart
    <2> QED BY <2>1, <2>2, <2>3, <2>4
  <1> QED BY <1>1, <1>2 DEF CatalogNext

(* For any number of administrators at work at once, whatever the interval *)
(* between the snapshot of a request and its writes: the versions of each  *)
(* agent are numbered without a gap or a repeat, an agent shows a version  *)
(* of its own from the moment it exists (agent-catalog-repository.ts), and *)
(* a credential has one successor at most, none while it is good           *)
(* (credential-service.ts).                                                *)
THEOREM CatalogKept ==
  ASSUME CatalogAssumption
  PROVE  CatalogSpec => [](CatalogTypeOK /\ VersionsNumbered /\ RotatedOnce)
  <1> DEFINE marked == overtaken \subseteq Admins
  <1>1. CatalogInit => CatalogInv /\ marked BY CatalogInitially DEF CatalogInit
  <1>2. CatalogInv /\ [CatalogNext]_catalogVars => CatalogInv' BY CatalogStep
  <1>3. marked /\ [CatalogNext]_catalogVars => marked'
    BY DEF CatalogNext, catalogVars, Asks, AskCreateAgent, AskCreateVersion, AskSetActive, AskEnsureDefault,
       AskCredential, Arrives, Read, Writes
  <1>4. CatalogInv /\ marked => CatalogTypeOK /\ VersionsNumbered /\ RotatedOnce
    BY CatalogInvImplies DEF CatalogInv
  <1> QED BY <1>1, <1>2, <1>3, <1>4, PTL DEF CatalogSpec

-----------------------------------------------------------------------------
(* The expected version.  createVersion compares it in a snapshot and      *)
(* writes the active one unconditionally; what makes up for it is the      *)
(* number it takes: if another version was published in between, the       *)
(* number is taken.  The other requests that move the pointer publish      *)
(* nothing, and those they overtake are in overtaken.                      *)

(* A request that read what it expected still finds it, or was overtaken   *)
(* by a version it has not seen or by a switch.                            *)
FoundOrOvertaken(p) ==
  LET r == work[p] IN
  Publishing(p) =>
    \/ AssertExpectedActiveVersion(r.expected, defs[r.agent].active)
    \/ VersionsOf(r.agent, r.snap.seen) # VersionsOf(r.agent, Len(versions))
    \/ p \in overtaken

ExpectedInv == \A p \in Admins : FoundOrOvertaken(p)

(* A version differs from all its agent had.                               *)
LEMMA NewVersion ==
  ASSUME CatalogAssumption, CatalogInv, NEW p \in Admins, Writes(p)
  PROVE  \/ UNCHANGED versions
         \/ \E a \in Agents, n \in Nat, review \in BOOLEAN :
              CreateVersion(a, n, review) /\ \A b \in Agents \ {a} : defs'[b] = defs[b]
  <1> DEFINE r == work[p]
  <1>1. /\ r \in CatalogRequests /\ r.agent \in Agents /\ r.review \in BOOLEAN
        /\ \A a \in Agents : \A v : SetActiveVersion(a, v) => \A b \in Agents \ {a} : defs'[b] = defs[b]
    BY DEF CatalogInv, CatalogRows, CatalogRequests, SetActiveVersion
  <1>2. CASE WriteCreateAgent(p) BY <1>1, <1>2 DEF WriteCreateAgent
  <1>3. CASE WriteCreateVersion(p)
    <2>1. CASE ~UNCHANGED versions
      <3>1. /\ CreateVersion(r.agent, NextVersionNo(r), r.review)
            /\ SetActiveVersion(r.agent, Len(versions) + 1) \/ UNCHANGED defs
            /\ FreeNumber(r.agent, NextVersionNo(r))
        BY <1>3, <2>1 DEF WriteCreateVersion
      <3>2. NextVersionNo(r) = Cardinality(VersionsOf(r.agent, Len(versions))) + 1
        BY <1>1, <3>1, FreeIsNext DEF CatalogInv
      <3>3. Cardinality(VersionsOf(r.agent, Len(versions))) \in Nat
        BY <1>1, VersionsOfFinite, RowsOf DEF CatalogInv, CatalogRows
      <3>4. NextVersionNo(r) \in Nat BY <3>2, <3>3
      <3>5. \A b \in Agents \ {r.agent} : defs'[b] = defs[b] BY <1>1, <3>1
      <3> QED BY <1>1, <3>1, <3>4, <3>5
    <2> QED BY <2>1
  <1>4. CASE WriteSetActive(p) BY <1>4 DEF WriteSetActive
  <1>5. CASE WriteEnsureDefault(p)
    <2>1. \/ UNCHANGED versions
          \/ CreateVersion(Default, 1, FALSE) /\ SetActiveVersion(Default, Len(versions) + 1)
      BY <1>1, <1>5 DEF WriteEnsureDefault
    <2>2. CASE ~UNCHANGED versions
      <3>1. CreateVersion(Default, 1, FALSE) /\ SetActiveVersion(Default, Len(versions) + 1) BY <2>1, <2>2
      <3>2. Default \in Agents BY DEF CatalogAssumption
      <3> QED BY <1>1, <3>1, <3>2
    <2> QED BY <2>2
  <1>6. CASE WriteIssue(p) \/ WriteRotate(p) \/ WriteRevoke(p) BY <1>6 DEF WriteIssue, WriteRotate, WriteRevoke
  <1> QED BY <1>2, <1>3, <1>4, <1>5, <1>6 DEF Writes

LEMMA OthersFound ==
  ASSUME CatalogInv, CatalogInv', NEW q \in Admins, work'[q] = work[q], FoundOrOvertaken(q),
         q \in overtaken \/ (Publishing(q) /\ Switched(work[q].agent)) => q \in overtaken',
         \/ UNCHANGED versions
         \/ \E a \in Agents, n \in Nat, review \in BOOLEAN :
              CreateVersion(a, n, review) /\ \A b \in Agents \ {a} : defs'[b] = defs[b]
  PROVE  FoundOrOvertaken(q)'
  <1> DEFINE b == work[q].agent
             m == work[q].snap.seen
  <1>1. b \in Agents /\ m \in 0..Len(versions) /\ Len(versions) \in Nat
    <2>1. work[q] \in CatalogRequests /\ Grounded(work[q]) /\ Len(versions) \in Nat
      BY RowsOf DEF CatalogInv, CatalogRows, RequestsGrounded
    <2> QED BY <2>1 DEF CatalogRequests, Grounded
  <1>2. CASE UNCHANGED versions
    <2>1. CASE defs'[b] = defs[b]
      BY <1>2, <2>1 DEF FoundOrOvertaken, VersionsOf, AssertExpectedActiveVersion, Publishing
    <2>2. CASE defs'[b] # defs[b] BY <1>2, <2>2 DEF FoundOrOvertaken, Switched, Publishing
    <2> QED BY <2>1, <2>2
  <1>3. CASE ~UNCHANGED versions
    <2>1. PICK a \in Agents, n \in Nat, review \in BOOLEAN :
            CreateVersion(a, n, review) /\ \A c \in Agents \ {a} : defs'[c] = defs[c]
      BY <1>3
    <2>2. /\ VersionsOf(a, Len(versions))' = VersionsOf(a, Len(versions)) \cup {Len(versions) + 1}
          /\ \A c \in Agents \ {a} : VersionsOf(c, Len(versions))' = VersionsOf(c, Len(versions))
          /\ {i \in 1..m : versions'[i].agent = b} = VersionsOf(b, m)
      <3>1. \A i \in 1..Len(versions) : versions'[i] = versions[i]
        BY <2>1, VersionsOfAppend DEF CreateVersion, CatalogInv, CatalogRows
      <3>2. {i \in 1..m : versions'[i].agent = b} = VersionsOf(b, m) BY <1>1, <3>1 DEF VersionsOf
      <3> QED BY <2>1, <3>2, VersionsOfAppend DEF CreateVersion, CatalogInv, CatalogRows
    <2>3. CASE b = a
      <3>1. Len(versions) + 1 \notin VersionsOf(b, m) BY <1>1 DEF VersionsOf
      <3>2. VersionsOf(b, m) # VersionsOf(b, Len(versions))' BY <2>2, <2>3, <3>1
      <3>3. {i \in 1..m : versions'[i].agent = b} # VersionsOf(b, Len(versions))' BY <2>2, <3>2
      <3> QED BY <3>3 DEF FoundOrOvertaken, VersionsOf
    <2>4. CASE b # a
      <3>1. VersionsOf(b, Len(versions))' = VersionsOf(b, Len(versions)) BY <1>1, <2>2, <2>4
      <3>2. defs'[b] = defs[b] BY <1>1, <2>1, <2>4
      <3> HIDE DEF b, m
      <3>3. Publishing(q) =>
              \/ AssertExpectedActiveVersion(work[q].expected, defs[b].active)
              \/ VersionsOf(b, m) # VersionsOf(b, Len(versions))
              \/ q \in overtaken
        BY DEF FoundOrOvertaken, b, m
      <3>4. Publishing(q)' =>
              \/ AssertExpectedActiveVersion(work'[q].expected, defs'[b].active)
              \/ {i \in 1..m : versions'[i].agent = b} # VersionsOf(b, Len(versions))'
              \/ q \in overtaken'
        BY <2>2, <3>1, <3>2, <3>3 DEF Publishing
      <3> QED BY <3>4 DEF FoundOrOvertaken, VersionsOf, b, m, AssertExpectedActiveVersion
    <2> QED BY <2>3, <2>4
  <1> QED BY <1>2, <1>3

LEMMA ExpectedStep ==
  ASSUME CatalogAssumption, CatalogInv, CatalogInv', ExpectedInv, [CatalogNext]_catalogVars
  PROVE  ExpectedInv'
  <1> USE DEF ExpectedInv
  <1>1. ASSUME NEW p \in Admins, Asks(p) PROVE ExpectedInv'
    <2>1. PICK r : Arrives(p, r) /\ r.phase = "asked"
      <3>1. ASSUME NEW a, NEW review, AskCreateAgent(p, a, review)
            PROVE  \E r : Arrives(p, r) /\ r.phase = "asked"
        <4> DEFINE r == [Request("createAgent", a) EXCEPT !.review = review]
        <4>1. r.phase = "asked" BY DEF Request, NoWork
        <4>2. Arrives(p, r) BY <3>1 DEF AskCreateAgent
        <4> HIDE DEF r
        <4> QED BY <4>1, <4>2
      <3>2. ASSUME NEW a, NEW review, NEW on, NEW e, AskCreateVersion(p, a, review, on, e)
            PROVE  \E r : Arrives(p, r) /\ r.phase = "asked"
        <4> DEFINE r == [Request("createVersion", a) EXCEPT !.review = review, !.activate = on, !.expected = e]
        <4>1. r.phase = "asked" BY DEF Request, NoWork
        <4>2. Arrives(p, r) BY <3>2 DEF AskCreateVersion
        <4> HIDE DEF r
        <4> QED BY <4>1, <4>2
      <3>3. ASSUME NEW a, NEW v, NEW e, AskSetActive(p, a, v, e)
            PROVE  \E r : Arrives(p, r) /\ r.phase = "asked"
        <4> DEFINE r == [Request("setActive", a) EXCEPT !.target = v, !.expected = e]
        <4>1. r.phase = "asked" BY DEF Request, NoWork
        <4>2. Arrives(p, r) BY <3>3 DEF AskSetActive
        <4> HIDE DEF r
        <4> QED BY <4>1, <4>2
      <3>4. ASSUME NEW op, NEW a, NEW c, AskCredential(p, op, a, c)
            PROVE  \E r : Arrives(p, r) /\ r.phase = "asked"
        <4> DEFINE r == [Request(op, a) EXCEPT !.target = c]
        <4>1. r.phase = "asked" BY DEF Request, NoWork
        <4>2. Arrives(p, r) BY <3>4 DEF AskCredential
        <4> HIDE DEF r
        <4> QED BY <4>1, <4>2
      <3>5. ASSUME AskEnsureDefault(p)
            PROVE  \E r : Arrives(p, r) /\ r.phase = "asked"
        <4> DEFINE r == Request("ensureDefault", Default)
        <4>1. r.phase = "asked" BY DEF Request, NoWork
        <4>2. Arrives(p, r) BY <3>5 DEF AskEnsureDefault
        <4> HIDE DEF r
        <4> QED BY <4>1, <4>2
      <3> QED BY <1>1, <3>1, <3>2, <3>3, <3>4, <3>5 DEF Asks
    <2>2. /\ work' = [work EXCEPT ![p] = r] /\ UNCHANGED <<defs, versions, overtaken>>
          /\ work'[p] = r /\ \A q \in Admins \ {p} : work'[q] = work[q]
      BY <2>1 DEF Arrives, CatalogInv, CatalogRows
    <2>3. FoundOrOvertaken(p)' BY <2>1, <2>2 DEF FoundOrOvertaken, Publishing
    <2>4. ASSUME NEW q \in Admins, q # p PROVE FoundOrOvertaken(q)' BY <2>2, <2>4, OthersFound DEF Switched
    <2> QED BY <2>3, <2>4
  <1>2. ASSUME NEW p \in Admins, Read(p) PROVE ExpectedInv'
    <2> DEFINE r == work[p]
               read == [r EXCEPT !.phase = "read", !.snap = Snapshot(r.agent)]
    <2>1. /\ work' = [work EXCEPT ![p] = IF ReadPasses(r) THEN read ELSE NoWork]
          /\ UNCHANGED <<defs, versions, overtaken>>
      BY <1>2 DEF Read
    <2>2. r \in CatalogRequests BY DEF CatalogInv, CatalogRows
    <2>3. \A q \in Admins \ {p} : work'[q] = work[q] BY <2>1 DEF CatalogInv, CatalogRows
    <2>4. FoundOrOvertaken(p)'
      <3>1. CASE ReadPasses(r)
        <4>1. work'[p] = read BY <2>1, <3>1 DEF CatalogInv, CatalogRows
        <4>2. read.op = r.op /\ read.agent = r.agent /\ read.expected = r.expected /\ read.activate = r.activate
          BY <2>2 DEF CatalogRequests
        <4>3. r.op = "createVersion" /\ r.activate => AssertExpectedActiveVersion(r.expected, defs[r.agent].active)
          BY <3>1 DEF ReadPasses
        <4> HIDE DEF read, r
        <4> QED BY <2>1, <4>1, <4>2, <4>3 DEF FoundOrOvertaken, AssertExpectedActiveVersion, Publishing
      <3>2. CASE ~ReadPasses(r)
        <4>1. work'[p] = NoWork BY <2>1, <3>2 DEF CatalogInv, CatalogRows
        <4> QED BY <4>1, NoWorkType DEF FoundOrOvertaken, Publishing
      <3> QED BY <3>1, <3>2
    <2>5. ASSUME NEW q \in Admins, q # p PROVE FoundOrOvertaken(q)'
      BY <2>1, <2>3, <2>5, OthersFound DEF Switched
    <2> QED BY <2>4, <2>5
  <1>3. ASSUME NEW p \in Admins, Writes(p) PROVE ExpectedInv'
    <2>1. \A q \in Admins \ {p} : work'[q] = work[q]
      BY <1>3 DEF Writes, WriteCreateAgent, WriteCreateVersion, WriteSetActive, WriteEnsureDefault, WriteIssue,
         WriteRotate, WriteRevoke, RequestDone, CatalogInv, CatalogRows
    <2>2. work'[p] = NoWork \/ work'[p].phase = "asked"
      <3> DEFINE r == work[p]
      <3>1. r \in CatalogRequests BY DEF CatalogInv, CatalogRows
      <3>2. [r EXCEPT !.phase = "asked", !.tries = r.tries + 1].phase = "asked" BY <3>1 DEF CatalogRequests
      <3>3. \A w : work' = [work EXCEPT ![p] = w] => work'[p] = w BY DEF CatalogInv, CatalogRows
      <3>4. CASE RequestDone(p) BY <3>3, <3>4 DEF RequestDone
      <3>5. CASE ~RequestDone(p)
        <4>1. work' = [work EXCEPT ![p] = IF r.tries + 1 < MaxVersionAttempts
                                         THEN [r EXCEPT !.phase = "asked", !.tries = r.tries + 1] ELSE NoWork]
          BY <1>3, <3>5 DEF Writes, WriteCreateAgent, WriteCreateVersion, WriteSetActive, WriteEnsureDefault,
             WriteIssue, WriteRotate, WriteRevoke
        <4> HIDE DEF r
        <4>2. work'[p] = IF r.tries + 1 < MaxVersionAttempts
                         THEN [r EXCEPT !.phase = "asked", !.tries = r.tries + 1] ELSE NoWork
          BY <3>3, <4>1
        <4> QED BY <3>2, <4>2
      <3> QED BY <3>4, <3>5
    <2>3. FoundOrOvertaken(p)' BY <2>2, NoWorkType DEF FoundOrOvertaken, Publishing
    <2>4. ASSUME NEW q \in Admins, q # p PROVE FoundOrOvertaken(q)'
      <3>1. q \in overtaken \/ (Publishing(q) /\ Switched(work[q].agent)) => q \in overtaken'
        BY <1>3, <2>4 DEF Writes
      <3> QED BY <1>3, <2>1, <2>4, <3>1, NewVersion, OthersFound
    <2> QED BY <2>3, <2>4
  <1>4. CASE UNCHANGED catalogVars
    BY <1>4 DEF catalogVars, FoundOrOvertaken, VersionsOf, AssertExpectedActiveVersion, Publishing
  <1> QED BY <1>1, <1>2, <1>3, <1>4 DEF CatalogNext

(* An activation that comes with a new version and names the version it    *)
(* replaces replaces that one (#assertExpectedActiveVersion), although the *)
(* comparison is made on a snapshot: for any number of administrators,     *)
(* agents and retries, whatever of the seven requests they have under way. *)
(* The one thing that makes it replace another is a switch to an old       *)
(* version between the two, which takes no number.                         *)
THEOREM PublicationsSeeWhatTheyReplace ==
  ASSUME CatalogAssumption
  PROVE  CatalogSpec => [][ExpectedHonoured]_catalogVars
  <1>1. CatalogInit => CatalogInv /\ ExpectedInv
    BY CatalogInitially, NoWorkType DEF CatalogInit, ExpectedInv, FoundOrOvertaken, Publishing
  <1>2. CatalogInv /\ ExpectedInv /\ [CatalogNext]_catalogVars => (CatalogInv /\ ExpectedInv)'
    BY CatalogStep, ExpectedStep
  <1>3. CatalogInv /\ ExpectedInv /\ [CatalogNext]_catalogVars => [ExpectedHonoured]_catalogVars
    <2> SUFFICES ASSUME CatalogInv, CatalogInv', ExpectedInv, CatalogNext, NEW p \in Admins, Publishes(p)
                 PROVE  p \in overtaken \/ AssertExpectedActiveVersion(work[p].expected, defs[work[p].agent].active)
      BY CatalogStep DEF ExpectedHonoured
    <2> DEFINE r == work[p]
    <2>1. PICK q \in Admins : Asks(q) \/ Read(q) \/ Writes(q) BY DEF CatalogNext
    <2>2. versions' # versions BY DEF Publishes
    <2>3. Writes(q)
      BY <2>1, <2>2 DEF Asks, AskCreateAgent, AskCreateVersion, AskSetActive, AskEnsureDefault, AskCredential, Arrives, Read
    <2>4. q = p
      <3>1. q # p => work'[p] = work[p]
        BY <2>3 DEF Writes, WriteCreateAgent, WriteCreateVersion, WriteSetActive, WriteEnsureDefault, WriteIssue,
           WriteRotate, WriteRevoke, RequestDone, CatalogInv, CatalogRows
      <3> QED BY <3>1 DEF Publishes, Publishing
    <2>5. FreeNumber(r.agent, NextVersionNo(r))
      BY <2>2, <2>3, <2>4 DEF Publishes, Publishing, Writes, WriteCreateAgent, WriteCreateVersion, WriteSetActive,
         WriteEnsureDefault, WriteIssue, WriteRotate, WriteRevoke
    <2>6. VersionsOf(r.agent, r.snap.seen) = VersionsOf(r.agent, Len(versions)) BY <2>5, FreeIsNext
    <2> QED BY <2>6 DEF ExpectedInv, FoundOrOvertaken, Publishes
  <1> QED BY <1>1, <1>2, <1>3, PTL DEF CatalogSpec

(* Both together: what is published or handed out stays so.                *)
THEOREM CatalogIsHonoured ==
  ASSUME CatalogAssumption
  PROVE  CatalogSpec => CatalogHonoured
  <1>1. CatalogSpec => [](CatalogTypeOK /\ VersionsNumbered /\ RotatedOnce) BY CatalogKept
  <1>2. CatalogSpec => [][ExpectedHonoured]_catalogVars BY PublicationsSeeWhatTheyReplace
  <1> QED BY <1>1, <1>2, PTL DEF CatalogHonoured

-----------------------------------------------------------------------------
(* The gateway.                                                            *)

RequestPcs == {"idle", "parsed", "created", "absent", "failed", "orphan", "inserted",
               "replay", "owned", "cancelled", "answered", "error", "left"}
RequestRows == [pc : RequestPcs, method : Methods \cup {None}, msg : Messages \cup {None}, cred : Creds \cup {0}]
KeyRows == [status : {None, "ACTIVE", "ROTATED", "REVOKED"}, from : Creds \cup {0}]

A2aRows ==
  /\ run \in [Messages -> Active \cup Ended \cup {None, "CANCELLING"}]
  /\ mapped \subseteq Messages /\ asked \subseteq mapped
  /\ audit \subseteq Requests \X (Methods \cup {"replay"})
  /\ req \in [Requests -> RequestRows]
  /\ cred \in [Creds -> KeyRows]
  /\ adm \in [KeyAdmins -> Creds \cup {0}]
  /\ faults \in 0..MaxFaults

(* What the step a request is at says of the tables.                       *)
Vouched(q) ==
  /\ req[q].pc # "idle" => req[q].method \in Methods /\ req[q].msg \in Messages
  /\ req[q].pc \in {"inserted", "replay", "owned", "cancelled", "answered"} => req[q].msg \in mapped
  /\ req[q].pc = "answered" => \E e \in Methods \cup {"replay"} : <<q, e>> \in audit

OneActiveKey == \A c, d \in Creds : cred[c].status = "ACTIVE" /\ cred[d].status = "ACTIVE" => c = d

A2aInv == A2aRows /\ (\A q \in Requests : Vouched(q)) /\ OneActiveKey

LEMMA A2aInvImplies ==
  ASSUME A2aAssumption, A2aInv
  PROVE  A2aTypeOK /\ AnswerIsAudited /\ OneKeyLive
  <1> USE DEF A2aInv
  <1>1. A2aTypeOK BY DEF A2aRows, RequestRows, RequestPcs, KeyRows, A2aTypeOK
  <1>2. AnswerIsAudited BY DEF Vouched, AnswerIsAudited
  <1>3. OneKeyLive
    <2> DEFINE S == {c \in Creds : cred[c].status = "ACTIVE"}
    <2>1. \A c, d \in S : c = d BY DEF OneActiveKey
    <2>2. Cardinality(S) <= 1
      <3> HIDE DEF S
      <3> QED BY <2>1, AtMostOne
    <2> QED BY <2>2 DEF OneKeyLive
  <1> QED BY <1>1, <1>2, <1>3

(* A step of a request.                                                    *)
LEMMA ToEffect ==
  ASSUME A2aRows, NEW q \in Requests, NEW pc \in RequestPcs, To(q, pc)
  PROVE  /\ req' \in [Requests -> RequestRows]
         /\ req'[q].pc = pc /\ req'[q].msg = req[q].msg /\ req'[q].method = req[q].method
         /\ \A o \in Requests \ {q} : req'[o] = req[o]
  BY DEF To, A2aRows, RequestRows

LEMMA RequestMoves ==
  ASSUME A2aInv, NEW q \in Requests, NEW pc \in RequestPcs, To(q, pc),
         req[q].pc # "idle", mapped \subseteq mapped', audit \subseteq audit',
         pc \in {"inserted", "replay", "owned", "cancelled", "answered"} => req[q].msg \in mapped',
         pc = "answered" => \E e \in Methods \cup {"replay"} : <<q, e>> \in audit'
  PROVE  req' \in [Requests -> RequestRows] /\ \A o \in Requests : Vouched(o)'
  <1> USE DEF A2aInv
  <1>1. /\ req' \in [Requests -> RequestRows]
        /\ req'[q].pc = pc /\ req'[q].msg = req[q].msg /\ req'[q].method = req[q].method
        /\ \A o \in Requests \ {q} : req'[o] = req[o]
    BY ToEffect
  <1>2. Vouched(q)' BY <1>1 DEF Vouched
  <1>3. ASSUME NEW o \in Requests \ {q} PROVE Vouched(o)'
    <2>1. Vouched(o) /\ req'[o] = req[o] BY <1>1
    <2> QED BY <2>1 DEF Vouched
  <1> QED BY <1>1, <1>2, <1>3

(* cancelRunService.execute.                                               *)
LEMMA CancelRunType ==
  ASSUME A2aRows, NEW m \in Messages, CancelRun(m)
  PROVE  /\ run' \in [Messages -> Active \cup Ended \cup {None, "CANCELLING"}]
         /\ run'[m] \notin Active
         /\ \A o \in Messages \ {m} : run'[o] = run[o]
  BY DEF CancelRun, A2aRows, Active, Ended, None

LEMMA HandleStep ==
  ASSUME A2aAssumption, A2aInv, NEW q \in Requests, Handle(q) \/ HandleFails(q)
  PROVE  A2aInv'
  <1> USE DEF A2aInv
  <1> DEFINE m == req[q].msg
             moved == req' \in [Requests -> RequestRows] /\ \A o \in Requests : Vouched(o)'
  <1>1. /\ req[q] \in RequestRows /\ Vouched(q)
        /\ req[q].pc # "idle" => m \in Messages /\ req[q].method \in Methods
        /\ faults \in 0..MaxFaults
    BY DEF A2aRows, Vouched
  <1>2. UNCHANGED cred => OneActiveKey' BY DEF OneActiveKey
  <1>3. ASSUME moved, UNCHANGED <<cred, adm>>, mapped' \subseteq Messages, asked' \subseteq mapped',
               audit' \subseteq Requests \X (Methods \cup {"replay"}), faults' \in 0..MaxFaults,
               run' \in [Messages -> Active \cup Ended \cup {None, "CANCELLING"}]
        PROVE  A2aInv'
    BY <1>2, <1>3 DEF A2aRows
  <1>4. Fault => faults' \in 0..MaxFaults BY <1>1 DEF Fault, A2aAssumption
  <1>5. CASE CreateRun(q)
    <2>1. \/ To(q, "created") /\ run' = [run EXCEPT ![m] = IF @ = None THEN "RUNNING" ELSE @]
          \/ To(q, "error") /\ UNCHANGED run
      BY <1>5 DEF CreateRun
    <2>2. req[q].pc = "parsed" /\ UNCHANGED <<mapped, audit, asked, cred, adm, faults>> BY <1>5 DEF CreateRun
    <2>3. run' \in [Messages -> Active \cup Ended \cup {None, "CANCELLING"}]
      BY <2>1 DEF A2aRows, Active
    <2>4. moved BY <2>1, <2>2, RequestMoves DEF RequestPcs
    <2> HIDE DEF moved, m
    <2> QED BY <1>3, <2>2, <2>3, <2>4 DEF A2aRows
  <1>6. CASE LookUp(q) \/ LookUpRaced(q)
    <2>1. /\ req[q].pc \in {"created", "failed"} /\ UNCHANGED <<run, mapped, audit, asked, cred, adm, faults>>
          /\ \/ m \in mapped /\ To(q, "replay")
             \/ To(q, "absent") \/ To(q, "orphan")
      BY <1>6 DEF LookUp, LookUpRaced, reqOnly
    <2>2. moved BY <2>1, RequestMoves DEF RequestPcs
    <2> HIDE DEF moved, m
    <2> QED BY <1>3, <2>1, <2>2 DEF A2aRows
  <1>7. CASE InsertMapping(q)
    <2>1. /\ req[q].pc = "absent" /\ UNCHANGED <<run, audit, asked, cred, adm, faults>>
          /\ \/ To(q, "failed") /\ UNCHANGED mapped
             \/ To(q, "inserted") /\ mapped' = mapped \cup {m}
      BY <1>7 DEF InsertMapping
    <2>2. moved BY <2>1, RequestMoves DEF RequestPcs
    <2>3. mapped' \subseteq Messages /\ mapped \subseteq mapped' BY <1>1, <2>1 DEF A2aRows
    <2> HIDE DEF moved, m
    <2> QED BY <1>3, <2>1, <2>2, <2>3 DEF A2aRows
  <1>8. CASE CompensateOrphanRun(q)
    <2>1. /\ req[q].pc = "orphan" /\ UNCHANGED <<mapped, audit, asked, cred, adm, faults>>
          /\ CancelRun(m) /\ To(q, "error")
      BY <1>8 DEF CompensateOrphanRun, Compensated
    <2>2. moved BY <2>1, RequestMoves DEF RequestPcs
    <2>3. run' \in [Messages -> Active \cup Ended \cup {None, "CANCELLING"}] BY <1>1, <2>1, CancelRunType
    <2> HIDE DEF moved, m
    <2> QED BY <1>3, <2>1, <2>2, <2>3 DEF A2aRows
  <1>9. CASE LoadOwned(q)
    <2>1. /\ req[q].pc = "parsed" /\ UNCHANGED <<run, mapped, audit, asked, cred, adm, faults>>
          /\ (m \in mapped /\ To(q, "owned")) \/ To(q, "error")
      BY <1>9 DEF LoadOwned, reqOnly, Owned
    <2>2. moved BY <2>1, RequestMoves DEF RequestPcs
    <2> HIDE DEF moved, m
    <2> QED BY <1>3, <2>1, <2>2 DEF A2aRows
  <1>10. CASE CancelTask(q)
    <2>1. /\ req[q].pc = "owned" /\ UNCHANGED <<mapped, audit, cred, adm, faults>>
          /\ \/ (To(q, "error") \/ To(q, "cancelled")) /\ UNCHANGED <<run, asked>>
             \/ To(q, "cancelled") /\ CancelRun(m) /\ asked' = asked \cup {m}
      BY <1>10 DEF CancelTask
    <2>2. m \in mapped /\ m \in Messages BY <1>1, <2>1 DEF Vouched
    <2>3. moved BY <2>1, <2>2, RequestMoves DEF RequestPcs
    <2>4. run' \in [Messages -> Active \cup Ended \cup {None, "CANCELLING"}]
      <3>1. CASE UNCHANGED run BY <3>1 DEF A2aRows
      <3>2. CASE CancelRun(m) BY <2>2, <3>2, CancelRunType
      <3> QED BY <2>1, <3>1, <3>2
    <2>5. asked' \subseteq mapped' BY <2>1, <2>2 DEF A2aRows
    <2> HIDE DEF moved, m
    <2> QED BY <1>3, <2>1, <2>3, <2>4, <2>5 DEF A2aRows
  <1>11. CASE Audit(q) \/ DownloadFails(q)
    <2>1. UNCHANGED <<run, mapped, asked, cred, adm>> /\ faults' \in 0..MaxFaults
      BY <1>1, <1>4, <1>11 DEF Audit, DownloadFails, Auditable
    <2>2. /\ Auditable(q) /\ audit' = audit \cup {<<q, Event(q)>>}
          /\ To(q, "answered") \/ To(q, "error")
      BY <1>11 DEF Audit, DownloadFails, Auditable
    <2>3. /\ req[q].pc \in {"inserted", "replay", "owned", "cancelled"}
          /\ m \in mapped /\ Event(q) \in Methods \cup {"replay"}
      BY <1>1, <2>2 DEF Auditable, Readable, Event, Vouched, Methods, Reads
    <2>4. audit' \subseteq Requests \X (Methods \cup {"replay"}) BY <2>2, <2>3 DEF A2aRows
    <2>5. moved BY <2>1, <2>2, <2>3, RequestMoves DEF RequestPcs
    <2> HIDE DEF moved, m
    <2> QED BY <1>3, <2>1, <2>4, <2>5 DEF A2aRows
  <1>12. CASE LookUpFails(q) \/ InsertFails(q) \/ CompensationFails(q) \/ ReadFails(q) \/ AuditFails(q) \/ GatewayDies(q)
    <2>1. /\ req[q].pc # "idle" /\ UNCHANGED <<run, mapped, audit, asked, cred, adm>> /\ faults' \in 0..MaxFaults
          /\ To(q, "failed") \/ To(q, "error") \/ To(q, "left")
      BY <1>1, <1>4, <1>12 DEF LookUpFails, InsertFails, CompensationFails, ReadFails, AuditFails, GatewayDies, AuditClosed,
         Auditable, Readable
    <2>2. moved BY <2>1, RequestMoves DEF RequestPcs
    <2> HIDE DEF moved, m
    <2> QED BY <1>3, <2>1, <2>2 DEF A2aRows
  <1> QED BY <1>5, <1>6, <1>7, <1>8, <1>9, <1>10, <1>11, <1>12 DEF Handle, HandleFails

LEMMA KeyStep ==
  ASSUME A2aAssumption, A2aInv,
         \/ \E d \in KeyAdmins : Rotate(d) \/ \E c \in Creds : RotateRead(d, c)
         \/ \E c \in Creds : Revoke(c)
  PROVE  A2aInv'
  <1> USE DEF A2aInv
  <1>1. UNCHANGED <<run, mapped, audit, req, asked, faults>> BY DEF Rotate, RotateRead, Revoke
  <1>2. \A q \in Requests : Vouched(q)' BY <1>1 DEF Vouched
  <1>3. ASSUME cred' \in [Creds -> KeyRows], adm' \in [KeyAdmins -> Creds \cup {0}], OneActiveKey' PROVE A2aInv'
    BY <1>1, <1>2, <1>3 DEF A2aRows
  <1>4. ASSUME NEW d \in KeyAdmins, NEW c \in Creds, RotateRead(d, c) PROVE A2aInv'
    BY <1>3, <1>4 DEF RotateRead, A2aRows, OneActiveKey
  <1>5. ASSUME NEW d \in KeyAdmins, Rotate(d) PROVE A2aInv'
    <2> DEFINE c == adm[d]
               n == CHOOSE k \in FreshKeys : TRUE
    <2>1. c \in Creds /\ adm' \in [KeyAdmins -> Creds \cup {0}] BY <1>5 DEF Rotate, A2aRows
    <2>2. CASE Rotatable(c) /\ FreshKeys # {}
      <3>1. n \in Creds /\ cred[n].status = None BY <2>2 DEF FreshKeys
      <3>2. cred[c].status = "ACTIVE" /\ c # n BY <2>2, <3>1 DEF Rotatable, None
      <3>3. cred' = [cred EXCEPT ![c].status = "ROTATED", ![n] = [status |-> "ACTIVE", from |-> c]]
        BY <1>5, <2>2 DEF Rotate
      <3> HIDE DEF c, n
      <3>4. [cred[c] EXCEPT !.status = "ROTATED"] \in KeyRows /\ [status |-> "ACTIVE", from |-> c] \in KeyRows
        BY <2>1 DEF A2aRows, KeyRows
      <3>5. cred' \in [Creds -> KeyRows] BY <2>1, <3>1, <3>2, <3>3, <3>4 DEF A2aRows
      <3>6. /\ cred'[c].status = "ROTATED" /\ cred'[n].status = "ACTIVE"
            /\ \A k \in Creds \ {c, n} : cred'[k] = cred[k]
        BY <2>1, <3>1, <3>2, <3>3 DEF A2aRows, KeyRows
      <3>7. \A k \in Creds \ {c} : cred[k].status # "ACTIVE" BY <2>1, <3>2 DEF OneActiveKey
      <3>8. OneActiveKey' BY <3>6, <3>7 DEF OneActiveKey
      <3> QED BY <1>3, <2>1, <3>5, <3>8
    <2>3. CASE ~(Rotatable(c) /\ FreshKeys # {})
      <3>1. UNCHANGED cred BY <1>5, <2>3 DEF Rotate
      <3> QED BY <1>3, <2>1, <3>1 DEF A2aRows, OneActiveKey
    <2> QED BY <2>2, <2>3
  <1>6. ASSUME NEW c \in Creds, Revoke(c) PROVE A2aInv'
    <2>1. cred' = [cred EXCEPT ![c].status = "REVOKED"] /\ UNCHANGED adm BY <1>6 DEF Revoke
    <2>2. cred' \in [Creds -> KeyRows] BY <2>1 DEF A2aRows, KeyRows
    <2>3. \A k \in Creds : cred'[k].status = "ACTIVE" => cred[k].status = "ACTIVE"
      BY <2>1 DEF A2aRows, KeyRows
    <2> QED BY <1>3, <2>1, <2>2, <2>3 DEF A2aRows, OneActiveKey
  <1> QED BY <1>4, <1>5, <1>6

LEMMA A2aOtherStep ==
  ASSUME A2aAssumption, A2aInv,
         \/ \E q \in Requests, t \in Methods, m \in Messages, c \in Creds : Authenticate(q, t, m, c)
         \/ \E m \in Messages : RunMoves(m)
         \/ UNCHANGED a2aVars
  PROVE  A2aInv'
  <1> USE DEF A2aInv
  <1>1. ASSUME NEW q \in Requests, NEW t \in Methods, NEW m \in Messages, NEW c \in Creds, Authenticate(q, t, m, c)
        PROVE  A2aInv'
    <2>1. /\ req' = [req EXCEPT ![q] = [pc |-> "parsed", method |-> t, msg |-> m, cred |-> c]]
          /\ UNCHANGED <<run, mapped, audit, asked, cred, adm, faults>>
      BY <1>1 DEF Authenticate, reqOnly
    <2>2. req' \in [Requests -> RequestRows] BY <2>1 DEF A2aRows, RequestRows, RequestPcs
    <2>3. Vouched(q)' BY <2>1 DEF Vouched, A2aRows
    <2>4. ASSUME NEW o \in Requests \ {q} PROVE Vouched(o)'
      <3>1. Vouched(o) /\ req'[o] = req[o] BY <2>1 DEF A2aRows
      <3>2. UNCHANGED <<mapped, audit>> BY <2>1
      <3> QED BY <3>1, <3>2 DEF Vouched
    <2> QED BY <2>1, <2>2, <2>3, <2>4 DEF A2aRows, OneActiveKey
  <1>2. ASSUME NEW m \in Messages, RunMoves(m) PROVE A2aInv'
    <2>1. UNCHANGED <<mapped, audit, req, asked, cred, adm, faults>> BY <1>2 DEF RunMoves
    <2>2. run' \in [Messages -> Active \cup Ended \cup {None, "CANCELLING"}]
      BY <1>2 DEF RunMoves, A2aRows, Active, Ended
    <2> QED BY <2>1, <2>2 DEF A2aRows, OneActiveKey, Vouched
  <1>3. UNCHANGED a2aVars => A2aInv' BY DEF a2aVars, A2aRows, Vouched, OneActiveKey
  <1> QED BY <1>1, <1>2, <1>3

LEMMA A2aInitially == ASSUME A2aAssumption, A2aInit PROVE A2aInv
  <1>1. A2aRows
    BY DEF A2aAssumption, A2aInit, A2aRows, RequestRows, RequestPcs, KeyRows, NoMessage, None, Active, Ended
  <1>2. \A q \in Requests : Vouched(q) BY DEF A2aInit, Vouched, NoMessage
  <1>3. OneActiveKey BY DEF A2aInit, OneActiveKey, None
  <1> QED BY <1>1, <1>2, <1>3 DEF A2aInv

LEMMA A2aStep ==
  ASSUME A2aAssumption, A2aInv, [A2aNext]_a2aVars
  PROVE  A2aInv'
  BY HandleStep, KeyStep, A2aOtherStep DEF A2aNext, A2aDone

(* For any number of messages, requests, administrators and failures, and  *)
(* whether or not the gateway dies in the middle of a request: a request   *)
(* that is answered was audited and names a mapped task                    *)
(* (#auditRequired and #loadOwnedTask of task-service.ts), and of the      *)
(* chain of rotations that started with one credential one at most is live *)
(* (updateStatus with expectedStatus ACTIVE).                              *)
THEOREM AnswersAreAudited ==
  ASSUME A2aAssumption
  PROVE  A2aSpec => [](A2aTypeOK /\ AnswerIsAudited /\ OneKeyLive)
  <1>1. A2aInit => A2aInv BY A2aInitially
  <1>2. A2aInv /\ [A2aNext]_a2aVars => A2aInv' BY A2aStep
  <1>3. A2aInv => A2aTypeOK /\ AnswerIsAudited /\ OneKeyLive BY A2aInvImplies
  <1> QED BY <1>1, <1>2, <1>3, PTL DEF A2aSpec

-----------------------------------------------------------------------------
(* Orphans.  A send that has a run and no mapping yet is on its way to     *)
(* write the mapping or to cancel the run, unless it left both as they     *)
(* were.                                                                   *)
OnItsWay(m) == \E q \in Requests : req[q].msg = m /\ req[q].pc \in BetweenRunAndMapping \cup {"left"}
NotLost == \A m \in Messages : run[m] \in Active /\ m \notin mapped => OnItsWay(m)

LEMMA OrphanStep ==
  ASSUME A2aAssumption, A2aInv, NotLost, [A2aNext]_a2aVars
  PROVE  NotLost'
  <1> USE DEF A2aInv, BetweenRunAndMapping
  <1> DEFINE Way == BetweenRunAndMapping \cup {"left"}
  (* A request goes one step.                                              *)
  <1>1. ASSUME NEW q \in Requests, NEW pc \in RequestPcs, To(q, pc), mapped \subseteq mapped', req[q].pc # "idle",
               \A m \in Messages : m # req[q].msg /\ run'[m] \in Active => run[m] \in Active,
               \/ pc \in Way
               \/ req[q].msg \in mapped' \/ run'[req[q].msg] \notin Active
               \/ /\ req[q].pc \notin Way
                  /\ run'[req[q].msg] \in Active => run[req[q].msg] \in Active
        PROVE  NotLost'
    <2>1. /\ req'[q].pc = pc /\ req'[q].msg = req[q].msg
          /\ \A o \in Requests \ {q} : req'[o] = req[o]
          /\ req[q].msg \in Messages
      BY <1>1, ToEffect DEF Vouched, A2aRows
    <2>2. ASSUME NEW m \in Messages, run'[m] \in Active, m \notin mapped'
          PROVE  OnItsWay(m)'
      <3>1. CASE m = req[q].msg /\ pc \in Way
        BY <2>1, <3>1 DEF OnItsWay
      <3>2. CASE ~(m = req[q].msg /\ pc \in Way)
        <4>1. OnItsWay(m) BY <1>1, <2>1, <2>2, <3>2 DEF NotLost
        <4>2. PICK o \in Requests : req[o].msg = m /\ req[o].pc \in Way
          BY <4>1 DEF OnItsWay
        <4>3. o # q BY <1>1, <2>2, <3>2, <4>2
        <4> QED BY <2>1, <4>2, <4>3 DEF OnItsWay
      <3> QED BY <3>1, <3>2
    <2> QED BY <2>2 DEF NotLost
  <1>2. ASSUME UNCHANGED <<mapped, req>>, \A m \in Messages : run'[m] \in Active => run[m] \in Active
        PROVE  NotLost'
    BY <1>2 DEF NotLost, OnItsWay
  <1>5. ASSUME NEW q \in Requests, Handle(q) \/ HandleFails(q) PROVE NotLost'
    <2> DEFINE m == req[q].msg
    <2>1. req[q].pc # "idle"
      BY <1>5 DEF Handle, HandleFails, CreateRun, LookUp, InsertMapping, LookUpRaced, CompensateOrphanRun,
                  LoadOwned, CancelTask, Audit, LookUpFails, InsertFails, CompensationFails, ReadFails, AuditFails, DownloadFails,
                  GatewayDies, Auditable, Readable
    <2>2. Vouched(q) /\ m \in Messages BY <2>1 DEF Vouched
    <2>3. CASE CreateRun(q)
      <3>1. /\ req[q].pc = "parsed" /\ UNCHANGED mapped
            /\ \/ To(q, "created") /\ run' = [run EXCEPT ![m] = IF @ = None THEN "RUNNING" ELSE @]
               \/ To(q, "error") /\ UNCHANGED run
        BY <2>3 DEF CreateRun
      <3>2. \A o \in Messages : o # m /\ run'[o] \in Active => run[o] \in Active BY <3>1 DEF A2aRows
      <3>3. CASE To(q, "created")
        BY <1>1, <2>1, <3>1, <3>2, <3>3 DEF RequestPcs
      <3>4. CASE To(q, "error") /\ UNCHANGED run
        BY <1>1, <2>1, <3>1, <3>4 DEF RequestPcs
      <3> QED BY <3>1, <3>3, <3>4
    <2>4. CASE LookUp(q)
      <3>1. /\ UNCHANGED <<run, mapped>>
            /\ (m \in mapped /\ To(q, "replay")) \/ To(q, "absent")
        BY <2>4 DEF LookUp, reqOnly
      <3> QED BY <1>1, <2>1, <3>1 DEF RequestPcs
    <2>5. CASE LookUpRaced(q)
      <3>1. /\ UNCHANGED <<run, mapped>> /\ req[q].pc = "failed"
            /\ (m \in mapped /\ To(q, "replay")) \/ To(q, "orphan")
        BY <2>5 DEF LookUpRaced, reqOnly
      <3> QED BY <1>1, <2>1, <3>1 DEF RequestPcs
    <2>6. CASE InsertMapping(q)
      <3>1. /\ UNCHANGED run
            /\ \/ m \in mapped /\ To(q, "failed") /\ UNCHANGED mapped
               \/ To(q, "inserted") /\ mapped' = mapped \cup {m}
        BY <2>6 DEF InsertMapping
      <3> QED BY <1>1, <2>1, <3>1 DEF RequestPcs
    <2>7. CASE InsertFails(q)
      <3>1. UNCHANGED <<run, mapped>> /\ Fault /\ To(q, "failed") BY <2>7 DEF InsertFails
      <3> QED BY <1>1, <2>1, <3>1 DEF RequestPcs
    <2>8. CASE CompensateOrphanRun(q)
      <3>1. UNCHANGED mapped /\ CancelRun(m) /\ To(q, "error")
        BY <2>8 DEF CompensateOrphanRun, Compensated
      <3>2. run'[m] \notin Active /\ \A o \in Messages \ {m} : run'[o] = run[o]
        BY <2>2, <3>1, CancelRunType
      <3> HIDE DEF m
      <3>3. \A o \in Messages : o # m /\ run'[o] \in Active => run[o] \in Active BY <3>2
      <3> QED BY <1>1, <2>1, <3>1, <3>2, <3>3 DEF RequestPcs, m
    <2>9. CASE CompensationFails(q) \/ LookUpFails(q)
      <3>1. UNCHANGED <<run, mapped>> /\ To(q, "left") BY <2>9 DEF CompensationFails, LookUpFails
      <3> QED BY <1>1, <2>1, <3>1 DEF RequestPcs
    <2>13. CASE GatewayDies(q)
      <3>1. /\ UNCHANGED <<run, mapped>>
            /\ IF req[q].pc \in BetweenRunAndMapping THEN To(q, "left") ELSE To(q, "error") /\ req[q].pc # "left"
        BY <2>13 DEF GatewayDies
      <3> QED BY <1>1, <2>1, <3>1 DEF RequestPcs
    <2>10. CASE LoadOwned(q)
      <3>1. UNCHANGED <<run, mapped>> /\ req[q].pc = "parsed" /\ (To(q, "owned") \/ To(q, "error"))
        BY <2>10 DEF LoadOwned, reqOnly
      <3> QED BY <1>1, <2>1, <3>1 DEF RequestPcs
    <2>11. CASE CancelTask(q)
      <3>1. /\ req[q].pc = "owned" /\ UNCHANGED mapped
            /\ To(q, "error") \/ To(q, "cancelled")
            /\ UNCHANGED run \/ CancelRun(m)
        BY <2>11 DEF CancelTask
      <3>2. m \in mapped BY <2>2, <3>1 DEF Vouched
      <3>3. \A o \in Messages : o # m /\ run'[o] \in Active => run[o] \in Active
        BY <2>2, <3>1, CancelRunType
      <3> QED BY <1>1, <2>1, <3>1, <3>2, <3>3 DEF RequestPcs
    <2>12. CASE Audit(q) \/ DownloadFails(q) \/ ReadFails(q) \/ AuditFails(q)
      <3>1. /\ req[q].pc \in {"inserted", "replay", "cancelled", "owned"} /\ UNCHANGED <<run, mapped>>
            /\ To(q, "answered") \/ To(q, "error")
        BY <2>12 DEF Audit, DownloadFails, ReadFails, AuditFails, AuditClosed, Auditable, Readable
      <3>2. m \in mapped BY <2>2, <3>1 DEF Vouched
      <3> QED BY <1>1, <2>1, <3>1, <3>2 DEF RequestPcs
    <2> QED BY <1>5, <2>3, <2>4, <2>5, <2>6, <2>7, <2>8, <2>9, <2>10, <2>11, <2>12, <2>13 DEF Handle, HandleFails
  <1>6. ASSUME NEW q \in Requests, NEW t \in Methods, NEW m \in Messages, NEW c \in Creds, Authenticate(q, t, m, c)
        PROVE  NotLost'
    <2>1. /\ req' = [req EXCEPT ![q] = [pc |-> "parsed", method |-> t, msg |-> m, cred |-> c]]
          /\ UNCHANGED <<run, mapped>> /\ req[q].pc = "idle"
      BY <1>6 DEF Authenticate, reqOnly
    <2>2. req'[q].pc = "parsed" /\ \A o \in Requests \ {q} : req'[o] = req[o] BY <2>1 DEF A2aRows
    <2>3. \A n \in Messages : OnItsWay(n) => OnItsWay(n)' BY <2>1, <2>2 DEF OnItsWay
    <2> QED BY <2>1, <2>2, <2>3 DEF NotLost
  <1>7. ASSUME NEW m \in Messages, RunMoves(m) PROVE NotLost'
    <2>1. UNCHANGED <<mapped, req>> BY <1>7 DEF RunMoves
    <2>2. \A n \in Messages : run'[n] \in Active => run[n] \in Active BY <1>7 DEF RunMoves, A2aRows, Active
    <2> QED BY <1>2, <2>1, <2>2
  <1>8. ASSUME UNCHANGED <<run, mapped, req>> PROVE NotLost' BY <1>2, <1>8
  <1>9. ASSUME \/ \E d \in KeyAdmins : Rotate(d) \/ \E c \in Creds : RotateRead(d, c)
               \/ \E c \in Creds : Revoke(c)
               \/ A2aDone \/ UNCHANGED a2aVars
        PROVE  NotLost'
    BY <1>8, <1>9 DEF Rotate, RotateRead, Revoke, A2aDone, a2aVars
  <1> QED BY <1>5, <1>6, <1>7, <1>9 DEF A2aNext

(* For any number of messages, requests, failures and deaths of the        *)
(* process: an active run without a mapping has a request that is at work  *)
(* on it or that left it behind, by dying between the two or because its   *)
(* look-up or its cancellation failed (task-service.ts:6-7).  A failed     *)
(* insert leaves none.                                                     *)
THEOREM NoRunIsLost ==
  ASSUME A2aAssumption
  PROVE  A2aSpec => []NoOrphanRun
  <1>1. A2aInit => A2aInv /\ NotLost BY A2aInitially DEF A2aInit, NotLost, Active, None
  <1>2. A2aInv /\ NotLost /\ [A2aNext]_a2aVars => (A2aInv /\ NotLost)' BY A2aStep, OrphanStep
  <1>3. NotLost => NoOrphanRun BY DEF NotLost, NoOrphanRun, OnItsWay, Unfinished, BetweenRunAndMapping
  <1> QED BY <1>1, <1>2, <1>3, PTL DEF A2aSpec

(* All three together: what the gateway promises of the messages, the runs *)
(* and the keys of its clients.                                            *)
THEOREM MessagesAreAccounted ==
  ASSUME A2aAssumption
  PROVE  A2aSpec => []A2aAccounted
  <1>1. A2aSpec => [](A2aTypeOK /\ AnswerIsAudited /\ OneKeyLive) BY AnswersAreAudited
  <1>2. A2aSpec => []NoOrphanRun BY NoRunIsLost
  <1>3. AnswerIsAudited /\ NoOrphanRun /\ OneKeyLive => A2aAccounted BY DEF A2aAccounted
  <1> QED BY <1>1, <1>2, <1>3, PTL

=============================================================================
