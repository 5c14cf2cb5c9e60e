----------------------------- MODULE FilePaths -----------------------------
(***************************************************************************)
(* The path policy of the execution service: how a path the model writes is *)
(* parsed into a scope and a relative path, located under a physical root, *)
(* resolved through symbolic links, shown back as a display path, and used *)
(* by the operations that follow: read with the resolved target, write and *)
(* edit with a second look at the links, search and lstat from the path    *)
(* again.                                                                  *)
(*                                                                         *)
(* A path is a prefix and a sequence of names.  A physical place is a root *)
(* and a sequence of names; the roots are the scopes, the two skill        *)
(* packages and "outside".                                                 *)
(***************************************************************************)
EXTENDS Naturals, Sequences, FiniteSets, SequencesExt

CONSTANTS Names,      \* names of files and directories
          Tilde, Drive, Blank,   \* those that begin with ~, look like a drive, begin with a blank
          Trimmed,    \* what a blank name is without its blank
          Link, Pkg,  \* the name that is a link in the workspace; the name of a package
          MaxSegs     \* bound: names in a path

Dot == "."
DotDot == ".."
Scopes == {"workspace", "temp", "skill-draft", "skill", "skill-user", "skill-org"}
PathPrefixes == Scopes \cup {"none", "other"}

PathAssumption ==
  /\ Names \subseteq STRING /\ {Link, Pkg, Trimmed} \subseteq Names
  /\ Tilde \cup Drive \cup Blank \subseteq Names /\ {Dot, DotDot} \cap Names = {}
  /\ MaxSegs \in Nat

\* The link may lead to the temp root, to a file of the system skills, to a
\* package of them, or out of every root.
LinkTargets == {[root |-> "temp", segs |-> <<>>], [root |-> "skill", segs |-> <<>>],
                [root |-> "skill", segs |-> <<Pkg>>], [root |-> "outside", segs |-> <<>>]}

VARIABLES path,       \* the path of the request
          draft,      \* a draft skill root is configured
          listed,     \* the request carries a list of system packages
          allowed,    \* the system package is on it
          link,       \* where the link of the workspace leads
          target,     \* the resolved target: none, denied, or [key, display]
          op,         \* read, write, search, lstat
          at,         \* the place the operation used
          pc

vars == <<path, draft, listed, allowed, link, target, op, at, pc>>
request == <<path, draft, listed, allowed, link, op>>

Segs == UNION {[1..n -> Names \cup {Dot, DotDot}] : n \in 0..MaxSegs}
None == [root |-> "none", segs |-> <<>>]
Denied == [root |-> "denied", segs |-> <<>>]

Init ==
  /\ path \in [pre : PathPrefixes, segs : Segs]
  /\ draft \in BOOLEAN /\ listed \in BOOLEAN /\ allowed \in BOOLEAN
  /\ link \in LinkTargets
  /\ target = [key |-> None, display |-> path] /\ op \in {"read", "write", "search", "lstat"}
  /\ at = None /\ pc = "resolve"

(***************************************************************************)
(* path-policy.ts                                                          *)
(***************************************************************************)
Refused == [scope |-> "denied", rel |-> <<>>]

\* Empty and "." segments go, ".." anywhere refuses the path.
SplitSegments(s) == SelectSeq(s, LAMBDA n : n # Dot)
Traverses(s) == DotDot \in ToSet(s)

\* The raw text is trimmed first: a blank in front of a relative path is lost.
TrimRaw(p) ==
  IF p.pre = "none" /\ p.segs # <<>> /\ p.segs[1] \in Blank
  THEN [p EXCEPT !.segs[1] = Trimmed] ELSE p
StartsWith(p, S) == p.pre = "none" /\ p.segs # <<>> /\ p.segs[1] \in S

\* Home expansion, drive letters, other absolute paths and traversal are
\* refused; a relative path is one of the workspace.
ParseAnySegment(raw) ==
  LET p == TrimRaw(raw) IN
  IF StartsWith(p, Tilde) \/ StartsWith(p, Drive) \/ p.pre = "other"
  THEN Refused
  ELSE [scope |-> IF p.pre = "none" THEN "workspace" ELSE p.pre, rel |-> SplitSegments(p.segs)]
ParseSandboxPath(raw) ==
  LET p == TrimRaw(raw)
      s == SplitSegments(p.segs)
  IN IF StartsWith(p, Tilde) \/ StartsWith(p, Drive) \/ p.pre = "other" \/ Traverses(p.segs)
     THEN Refused
     ELSE [scope |-> IF p.pre = "none" THEN "workspace" ELSE p.pre, rel |-> s]

\* Paths of the workspace are shown relative, the others absolute.
OrgShownRelative(parsed) ==
  [pre |-> IF parsed.scope \in {"workspace", "skill-org"} THEN "none" ELSE parsed.scope,
   segs |-> IF parsed.rel = <<>> THEN <<Dot>> ELSE parsed.rel]
ToDisplayPath(parsed) ==
  [pre |-> IF parsed.scope = "workspace" THEN "none" ELSE parsed.scope,
   segs |-> IF parsed.scope = "workspace" /\ parsed.rel = <<>> THEN <<Dot>> ELSE parsed.rel]

(***************************************************************************)
(* workspace-fs.ts and writable-roots.ts                                   *)
(***************************************************************************)
\* Scopes that are addressed package by package.
PackagesForScope(s) ==
  CASE s = "skill-user" -> {"user-pkg"}
    [] s = "skill-org" -> {"org-pkg"}
    [] s = "skill" /\ listed -> IF allowed THEN {"sys-pkg"} ELSE {}
    [] OTHER -> {"whole"}
PackageRoot(s) == IF s = "skill-user" THEN "user-pkg" ELSE IF s = "skill-org" THEN "org-pkg" ELSE "sys-pkg"

\* A package lies in its own root; the system packages are below the system
\* root as well.
Locate(parsed) ==
  LET packages == PackagesForScope(parsed.scope) IN
  IF parsed.scope = "denied" \/ (parsed.scope = "skill-draft" /\ ~draft) THEN Denied
  ELSE IF packages = {"whole"} THEN [root |-> parsed.scope, segs |-> parsed.rel]
  ELSE IF parsed.rel = <<>> \/ parsed.rel[1] # Pkg \/ packages = {} THEN Denied
  ELSE [root |-> PackageRoot(parsed.scope), segs |-> Tail(parsed.rel)]

\* realpath: the one link of the workspace is followed; the system packages
\* are seen where they physically are.
Physical(loc) == IF loc.root = "sys-pkg" THEN [root |-> "skill", segs |-> <<Pkg>> \o loc.segs] ELSE loc
Canonical(loc) ==
  IF loc.root = "workspace" /\ loc.segs # <<>> /\ loc.segs[1] = Link
  THEN [root |-> link.root, segs |-> link.segs \o Tail(loc.segs)]
  ELSE Physical(loc)

\* readableRoots: the whole system root only without a list of packages.
ReadableWithSystem(loc) ==
  \/ loc.root \in {"workspace", "temp", "user-pkg", "org-pkg", "skill"}
  \/ loc.root = "skill-draft" /\ draft
Readable(loc) ==
  \/ loc.root \in {"workspace", "temp", "user-pkg", "org-pkg"}
  \/ loc.root = "skill-draft" /\ draft
  \/ loc.root = "skill" /\ (~listed \/ (allowed /\ loc.segs # <<>> /\ loc.segs[1] = Pkg))
WritableAsReadable(loc) == Readable(loc)
Writable(loc) == loc.root \in {"workspace", "temp"} \/ (loc.root = "skill-draft" /\ draft)

Fence(loc) == IF loc.root # "denied" /\ Readable(Canonical(loc)) THEN Canonical(loc) ELSE Denied

\* resolve: parse, locate, follow the links, refuse what is not readable.
ResolvePath(p) == Fence(Locate(ParseSandboxPath(p)))

Resolve ==
  /\ pc = "resolve"
  /\ target' = [key |-> ResolvePath(path),
                display |-> IF ParseSandboxPath(path) = Refused THEN path
                            ELSE ToDisplayPath(ParseSandboxPath(path))]
  /\ pc' = IF op = "lstat" \/ ResolvePath(path) # Denied THEN "use" ELSE "done"
  /\ UNCHANGED at /\ UNCHANGED request

\* read-text, read-bytes, stat, list: the target as it was resolved.
ReadTarget ==
  /\ pc = "use" /\ op = "read"
  /\ at' = target.key /\ pc' = "done"
  /\ UNCHANGED target /\ UNCHANGED request

\* writeText, editText: the target's links are followed again and must end in
\* a writable root.
WriteTarget ==
  /\ pc = "use" /\ op = "write"
  /\ at' = IF Writable(Canonical(target.key)) THEN target.key ELSE Denied
  /\ pc' = "done"
  /\ UNCHANGED target /\ UNCHANGED request

\* find, grep: searchRootOf resolves the display path of the target.
SearchRootOf ==
  /\ pc = "use" /\ op = "search"
  /\ at' = ResolvePath(target.display) /\ pc' = "done"
  /\ UNCHANGED target /\ UNCHANGED request

\* lstat: the links of the directory are followed, not that of the name itself.
LstatUnresolved(loc) == IF loc.root # "denied" /\ Readable(loc) THEN loc ELSE Denied
LstatPath(loc) ==
  IF loc.root = "denied" THEN Denied
  ELSE IF loc.segs = <<>> THEN Fence(loc)
  ELSE LET dir == Canonical([loc EXCEPT !.segs = Front(loc.segs)])
           place == [dir EXCEPT !.segs = Append(dir.segs, Last(loc.segs))]
       IN IF Readable(place) THEN place ELSE Denied
Lstat ==
  /\ pc = "use" /\ op = "lstat"
  /\ at' = LstatPath(Locate(ParseSandboxPath(path))) /\ pc' = "done"
  /\ UNCHANGED target /\ UNCHANGED request

Done == pc = "done" /\ UNCHANGED vars

Next == Resolve \/ ReadTarget \/ WriteTarget \/ SearchRootOf \/ Lstat \/ Done

Spec == Init /\ [][Next]_vars

-----------------------------------------------------------------------------
(* Properties *)

PlaceRoots == Scopes \cup {"user-pkg", "org-pkg", "outside", "none", "denied"}
TypeOK ==
  /\ pc \in {"resolve", "use", "done"} /\ at.root \in PlaceRoots /\ target.key.root \in PlaceRoots
  /\ target.display.pre \in PathPrefixes /\ DotDot \notin ToSet(at.segs)

\* A search looks where the path resolved to: the display path a target is
\* shown with leads back to the target, unless it is one of the workspace that
\* begins with a name the parser takes for something else when it comes first.
SearchesWhereResolved ==
  pc = "done" /\ op = "search" /\ target.key # Denied =>
    at = target.key \/ StartsWith(target.display, Tilde \cup Drive \cup Blank)

\* No operation reaches a skill package that is not enabled for the request,
\* nor anything outside the roots, whatever the links of the workspace.
PackagesGated ==
  pc = "done" /\ at \notin {None, Denied} =>
    /\ at.root # "outside"
    /\ at.root = "skill" /\ listed => allowed /\ at.segs # <<>> /\ at.segs[1] = Pkg

\* Skills are never written, through a link neither.
SkillsReadOnly ==
  pc = "done" /\ op = "write" => at.root \notin {"skill", "user-pkg", "org-pkg"}

=============================================================================
