------------------------- MODULE WorkspaceSnapshot -------------------------
(***************************************************************************)
(* A snapshot on its way from the developer's workspace to an Agent: the   *)
(* capture of packages/snapshot (captureFullSnapshot, or                   *)
(* captureGitOverlaySnapshot against HEAD), which reads the workspace with *)
(* one git or file-system call after another while the developer goes on   *)
(* editing, and the tree that materializeFullSnapshot or applyGitOverlay   *)
(* rebuilds from it.                                                       *)
(*                                                                         *)
(* A path is a number, its place in the sorted order the code walks paths  *)
(* in; no path is a directory of another.  Every write gives a file a      *)
(* fresh stamp, which stands for what statFileIdentity compares (type,     *)
(* size, mtime, inode): an edit that leaves all four alone is not          *)
(* modelled.  Submodules, mode bits and empty directories are left out.    *)
(***************************************************************************)
EXTENDS Integers, FiniteSets, FiniteSetsExt

CONSTANTS
    Paths,              \* the paths of the repository and of the additional roots
    Roots,              \* the paths that lie under an additional root
    Ignored,            \* the paths .gitignore excludes
    IncludeIgnored,     \* those of them source_policy.include_ignored asks for
    IncludeUntracked,   \* source_policy.include_untracked
    Secrets,            \* the paths a blocking secret policy refuses
    MaxFiles,           \* limits.maxRegularFileCount
    Values,             \* what a path can hold: [file |-> data] or [link |-> path]
    Absent,             \* what a path holds when it is not there
    Starts              \* the workspaces, modes and numbers of edits to begin with

GitPaths == Paths \ Roots
IsLink(v) == v # Absent /\ "link" \in DOMAIN v
IsFile(v) == v # Absent /\ "file" \in DOMAIN v
Trees == [Paths -> Values \cup {Absent}]

ASSUME SnapshotAssumption ==
    /\ Paths \subseteq Nat /\ Roots \subseteq Paths
    /\ IncludeIgnored \subseteq Ignored /\ Ignored \subseteq GitPaths
    /\ Secrets \subseteq Paths /\ MaxFiles \in Nat /\ IncludeUntracked \in BOOLEAN
    /\ Absent \notin Values
    /\ \A v \in Values : DOMAIN v = {"file"} \/ (DOMAIN v = {"link"} /\ v.link \in Paths)
    /\ \A s \in Starts :
          /\ s.mode \in {"full", "git_overlay"} /\ s.edits \in Nat
          /\ {s.head, s.index, s.work} \subseteq Trees
          /\ \A p \in Roots : s.head[p] = Absent /\ s.index[p] = Absent

VARIABLES
    work, stamp,    \* the working tree, and when each path was last written
    index,          \* the git index
    head,           \* HEAD: the number of the commit, and its tree
    edits,          \* the edits still to come
    past,           \* the workspaces there were since the capture began
    mode,           \* "full" or "git_overlay"
    pc,             \* where the capture, then the Agent, is
    todo,           \* the paths left in the loop it is in
    guardHead,      \* CaptureGuardState.head
    base,           \* repoInfo: the commit the overlay is taken against
    deletions,      \* OverlayPlan.deletions
    guard,          \* CaptureGuardState.identities, additional roots included
    shipped,        \* the entries of the archive
    storage,        \* whether the capture's storage directory is there
    tree            \* the tree on the Agent

workspaceVars == <<work, stamp, index, head, edits, past>>
planVars == <<guardHead, base, deletions, guard>>
vars == <<workspaceVars, mode, pc, todo, planVars, shipped, storage, tree>>

Missing == 0                    \* the identity of a path that is not there
Nowhere == [p \in {} |-> Absent]

Init ==
    /\ \E s \in Starts :
          /\ work = s.work /\ index = s.index
          /\ head = [id |-> 0, tree |-> s.head]
          /\ edits = s.edits /\ mode = s.mode
    /\ stamp = [p \in Paths |-> IF work[p] = Absent THEN Missing ELSE 1]
    /\ past = {[work |-> work, index |-> index]}
    /\ pc = "idle" /\ todo = {}
    /\ guardHead = 0 /\ base = head /\ deletions = {} /\ guard = Nowhere
    /\ shipped = Nowhere /\ storage = FALSE
    /\ tree = [p \in Paths |-> Absent]

-----------------------------------------------------------------------------
(* The developer.                                                           *)

Capturing == pc \notin {"idle", "published", "extract", "verify", "ready", "failed"}

\* Something happens to the workspace while it is being captured.
Edited ==
    /\ Capturing /\ edits > 0
    /\ edits' = edits - 1
    /\ past' = past \cup {[work |-> work', index |-> index']}
    /\ UNCHANGED <<mode, pc, todo, planVars, shipped, storage, tree>>

\* Stamps only have to differ from the earlier ones of the same path.  A link
\* stays inside the repository (assertSymlinkAllowed refuses the others).
WriteFile(p, v) ==
    /\ v # work[p]
    /\ IsLink(v) => p \in GitPaths /\ v.link # p
    /\ work' = [work EXCEPT ![p] = v]
    /\ stamp' = [stamp EXCEPT ![p] = 2 + edits]
    /\ UNCHANGED <<index, head>>
    /\ Edited

RemoveFile(p) ==
    /\ work[p] # Absent
    /\ work' = [work EXCEPT ![p] = Absent]
    /\ stamp' = [stamp EXCEPT ![p] = Missing]
    /\ UNCHANGED <<index, head>>
    /\ Edited

GitAdd(p) ==
    /\ p \in GitPaths \ Ignored /\ index[p] # work[p]
    /\ index' = [index EXCEPT ![p] = work[p]]
    /\ UNCHANGED <<work, stamp, head>>
    /\ Edited

GitRmCached(p) ==
    /\ index[p] # Absent
    /\ index' = [index EXCEPT ![p] = Absent]
    /\ UNCHANGED <<work, stamp, head>>
    /\ Edited

GitCommit ==
    /\ index # head.tree
    /\ head' = [id |-> head.id + 1, tree |-> index]
    /\ UNCHANGED <<work, stamp, index>>
    /\ Edited

-----------------------------------------------------------------------------
(* What git says of a workspace.                                            *)

Tracked == {p \in GitPaths : index[p] # Absent}
Untracked == {p \in GitPaths \ Ignored : index[p] = Absent /\ work[p] # Absent}
IgnoredThere == {p \in Ignored : index[p] = Absent /\ work[p] # Absent}

\* The two columns of `git status --porcelain=v2`.
X(p) == IF index[p] = head.tree[p] THEN "."
        ELSE CASE index[p] = Absent -> "D"
               [] head.tree[p] = Absent -> "A"
               [] OTHER -> "M"
Y(p) == IF index[p] = Absent \/ work[p] = index[p] THEN "."
        ELSE IF work[p] = Absent THEN "D" ELSE "M"

\* A staged deletion and a staged addition of the same content are one rename
\* entry: the addition's path, and the deletion's as origPath.
SameContent(q) == {p \in GitPaths : X(p) = "D" /\ head.tree[p] = index[q]}
OrigPaths(q) ==
    {p \in SameContent(q) :
        /\ X(q) = "A" /\ p = Min(SameContent(q))
        /\ q = Min({r \in GitPaths : X(r) = "A" /\ index[r] = head.tree[p]})}
Renamed == {q \in GitPaths : OrigPaths(q) # {}}
Originals == UNION {OrigPaths(q) : q \in Renamed}

Changed == {p \in GitPaths : X(p) # "." \/ Y(p) # "."}

\* computeOverlayPlan.  A deletion with a change in its other column is shipped
\* with its current bytes; a path is never both shipped and deleted.  Entries of
\* kind `ignored` are handled too, but `git status` is not asked for any.
IsDeletionXy(p) == X(p) = "D" \/ Y(p) = "D"
OtherSide(p) == IF X(p) = "D" THEN Y(p) ELSE X(p)
PlainEntries == Changed \ (Renamed \cup Originals)
PlanFiles ==
    (IF IncludeUntracked THEN Untracked ELSE {})
        \cup Renamed
        \cup {p \in PlainEntries : IsDeletionXy(p) => OtherSide(p) \notin {".", "D"}}
\* PlanDeletions without the old path of a rename.
PlanDeletionsOfPlainEntries ==
    {p \in PlainEntries : IsDeletionXy(p)} \ PlanFiles

PlanDeletions ==
    (Originals \cup {p \in PlainEntries : IsDeletionXy(p)}) \ PlanFiles

\* enumerateFullCapturePaths: ls-files, with what the policy includes.
FullCapturePaths ==
    Tracked
        \cup (IF IncludeUntracked THEN Untracked ELSE {})
        \cup (IgnoredThere \cap IncludeIgnored)

\* enumerateAdditionalRootPaths walks the roots.
RootPaths == {p \in Roots : work[p] # Absent}

-----------------------------------------------------------------------------
(* The capture.                                                             *)

KeepWorkspace == UNCHANGED <<workspaceVars, mode, tree>>

\* The loops take the paths in sorted order.
NextPath(p) == todo # {} /\ p = Min(todo)

\* An exception in the try block removes the storage directory; one before it
\* does not.
Fail ==
    /\ pc' = "failed" /\ todo' = {}
    /\ storage' = FALSE
    /\ UNCHANGED <<planVars, shipped>>

\* captureFullSnapshot makes its directory first.  git status gives HEAD and,
\* for an overlay, the entries the plan is computed from.
ReadStatus ==
    /\ pc = "idle"
    /\ pc' = "described"
    /\ storage' = (mode = "full")
    /\ guardHead' = head.id
    /\ deletions' = IF mode = "git_overlay" THEN PlanDeletions ELSE {}
    /\ todo' = IF mode = "git_overlay" THEN PlanFiles ELSE {}
    /\ UNCHANGED <<base, guard, shipped>>
    /\ KeepWorkspace

\* describeRepository asks git for HEAD once more; its answer is base_commit.
DescribeRepository ==
    /\ pc = "described"
    /\ base' = head
    /\ pc' = "enumerate"
    /\ UNCHANGED <<todo, guardHead, deletions, guard, shipped, storage>>
    /\ KeepWorkspace

\* A submodule or LFS file that is not ready refuses the capture before the try
\* block is entered.
RefuseSource ==
    /\ pc = "enumerate"
    /\ pc' = "failed" /\ todo' = {}
    /\ UNCHANGED <<planVars, shipped, storage>>
    /\ KeepWorkspace

\* The path set the guard is built for; an overlay's is the plan's.
EnumeratePaths ==
    /\ pc = "enumerate"
    /\ todo' = IF mode = "full" THEN FullCapturePaths ELSE todo
    /\ pc' = "guard"
    /\ UNCHANGED <<planVars, shipped, storage>>
    /\ KeepWorkspace

\* buildCaptureGuard: one lstat after the other, the repository's paths first.
GuardPath(p) ==
    /\ pc \in {"guard", "guardRoots"} /\ NextPath(p)
    /\ guard' = [q \in DOMAIN guard \cup {p} |-> IF q = p THEN stamp[p] ELSE guard[q]]
    /\ todo' = todo \ {p}
    /\ UNCHANGED <<pc, guardHead, base, deletions, shipped, storage>>
    /\ KeepWorkspace

GuardRoots ==
    /\ pc = "guard" /\ todo = {}
    /\ todo' = RootPaths
    /\ pc' = "guardRoots"
    /\ UNCHANGED <<planVars, shipped, storage>>
    /\ KeepWorkspace

StartPreflight ==
    /\ pc = "guardRoots" /\ todo = {}
    /\ storage' = TRUE
    /\ todo' = DOMAIN guard \ Roots
    /\ pc' = "preflight"
    /\ UNCHANGED <<planVars, shipped>>
    /\ KeepWorkspace

\* captureMetadataPreflightEntry: a link's target is kept, a file's bytes are
\* read later.  Only captureFullSnapshot skips a path that is not there.
Pending == [file |-> Absent]
Preflight(p) ==
    /\ pc \in {"preflight", "preflightRoots"} /\ NextPath(p)
    /\ work[p] # Absent
    /\ shipped' = [q \in DOMAIN shipped \cup {p} |->
                      IF q # p THEN shipped[q]
                      ELSE IF IsLink(work[p]) THEN work[p] ELSE Pending]
    /\ todo' = todo \ {p}
    /\ UNCHANGED <<pc, planVars, storage>>
    /\ KeepWorkspace

PreflightMissing(p) ==
    /\ pc \in {"preflight", "preflightRoots"} /\ NextPath(p)
    /\ work[p] = Absent
    /\ IF pc = "preflight" /\ mode = "full"
       THEN todo' = todo \ {p} /\ UNCHANGED <<pc, planVars, shipped, storage>>
       ELSE Fail
    /\ KeepWorkspace

\* The additional roots are walked again: what is there now is captured.
PreflightRoots ==
    /\ pc = "preflight" /\ todo = {}
    /\ todo' = RootPaths
    /\ pc' = "preflightRoots"
    /\ UNCHANGED <<planVars, shipped, storage>>
    /\ KeepWorkspace

\* assertSourceCaptureLimits, throwIfSecretViolations (the byte limits like the
\* count).
Admitted ==
    /\ Cardinality({p \in DOMAIN shipped : IsFile(shipped[p])}) <= MaxFiles
    /\ DOMAIN shipped \cap Secrets = {}

Admit ==
    /\ pc = "preflightRoots" /\ todo = {}
    /\ IF Admitted
       THEN pc' = "head1" /\ UNCHANGED <<todo, planVars, shipped, storage>>
       ELSE Fail
    /\ KeepWorkspace

\* validateCaptureGuard, before and after the archive is written: HEAD first.
ValidateHead ==
    /\ pc \in {"head1", "head2"}
    /\ IF head.id = guardHead
       THEN /\ pc' = IF pc = "head1" THEN "paths1" ELSE "paths2"
            /\ UNCHANGED <<todo, planVars, shipped, storage>>
       ELSE Fail
    /\ KeepWorkspace

\* The path set of the repository, which only the full capture enumerates again.
ValidatePaths ==
    /\ pc \in {"paths1", "paths2"}
    /\ IF mode = "full" => FullCapturePaths = DOMAIN guard \ Roots
       THEN /\ todo' = DOMAIN guard \ Roots
            /\ pc' = IF pc = "paths1" THEN "ids1" ELSE "ids2"
            /\ UNCHANGED <<planVars, shipped, storage>>
       ELSE Fail
    /\ KeepWorkspace

\* identitiesEqual, path by path.
ValidateIdentity(p) ==
    /\ pc \in {"ids1", "ids2", "rootIds1", "rootIds2"} /\ NextPath(p)
    /\ IF stamp[p] = guard[p]
       THEN todo' = todo \ {p} /\ UNCHANGED <<pc, planVars, shipped, storage>>
       ELSE Fail
    /\ KeepWorkspace

\* The roots: again only the full capture compares the path sets.
ValidateRoots ==
    /\ pc \in {"ids1", "ids2"} /\ todo = {}
    /\ IF mode = "full" => RootPaths = DOMAIN guard \cap Roots
       THEN /\ todo' = DOMAIN guard \cap Roots
            /\ pc' = IF pc = "ids1" THEN "rootIds1" ELSE "rootIds2"
            /\ UNCHANGED <<planVars, shipped, storage>>
       ELSE Fail
    /\ KeepWorkspace

StartArchive ==
    /\ pc = "rootIds1" /\ todo = {}
    /\ todo' = {p \in DOMAIN shipped : shipped[p] = Pending}
    /\ pc' = "archive"
    /\ UNCHANGED <<planVars, shipped, storage>>
    /\ KeepWorkspace

\* writeZstdTarArchiveCandidate: a path that is no regular file any more fails,
\* and so does a file whose stat changes while it is streamed.
ArchiveFile(p) ==
    /\ pc = "archive" /\ NextPath(p)
    /\ IF IsFile(work[p])
       THEN /\ shipped' = [shipped EXCEPT ![p] = work[p]]
            /\ todo' = todo \ {p}
            /\ UNCHANGED <<pc, planVars, storage>>
       ELSE Fail
    /\ KeepWorkspace

\* What becomes of a written archive: over the limit, or validated once more.
WrittenTooLarge ==
    /\ pc = "archive" /\ todo = {}
    /\ Fail
    /\ KeepWorkspace

\* FinishArchive that takes the first validation for enough.
FinishArchiveUnvalidated ==
    /\ pc = "archive" /\ todo = {}
    /\ pc' = "published"
    /\ UNCHANGED <<todo, planVars, shipped, storage>>
    /\ KeepWorkspace

FinishArchive ==
    /\ pc = "archive" /\ todo = {}
    /\ pc' = "head2"
    /\ UNCHANGED <<todo, planVars, shipped, storage>>
    /\ KeepWorkspace

\* The manifest gets the archive's sizes and hashes; the capture is over.
Publish ==
    /\ pc = "rootIds2" /\ todo = {}
    /\ pc' = "published"
    /\ UNCHANGED <<todo, planVars, shipped, storage>>
    /\ KeepWorkspace

-----------------------------------------------------------------------------
(* The Agent.                                                               *)

KeepCapture == UNCHANGED <<workspaceVars, mode, planVars, shipped, storage>>

\* A worktree of base_commit without the overlay's deletions, or, for a full
\* snapshot, an empty directory.
StartMaterialize ==
    /\ pc = "published"
    /\ tree' = [p \in Paths |->
                   IF mode = "full" \/ p \in deletions THEN Absent ELSE base.tree[p]]
    /\ todo' = DOMAIN shipped
    /\ pc' = "extract"
    /\ KeepCapture

\* writeFile follows a link that is already there.
WriteTarget(p) == IF IsLink(tree[p]) THEN tree[p].link ELSE p

\* The entries, in the archive's sorted order; symlink fails on a path that
\* exists, writeFile on a link to itself.
ExtractEntry(p) ==
    /\ pc = "extract" /\ NextPath(p)
    /\ IF IsLink(shipped[p])
       THEN tree[p] = Absent /\ tree' = [tree EXCEPT ![p] = shipped[p]]
       ELSE ~IsLink(tree[WriteTarget(p)])
              /\ tree' = [tree EXCEPT ![WriteTarget(p)] = shipped[p]]
    /\ todo' = todo \ {p}
    /\ UNCHANGED <<pc>>
    /\ KeepCapture

ExtractFails(p) ==
    /\ pc = "extract" /\ NextPath(p)
    /\ IF IsLink(shipped[p]) THEN tree[p] # Absent ELSE IsLink(tree[WriteTarget(p)])
    /\ pc' = "failed" /\ todo' = {}
    /\ UNCHANGED <<tree>>
    /\ KeepCapture

\* Every regular file of the manifest is read back and hashed; the additional
\* roots are not listed in it file by file.
VerifyHashes ==
    /\ pc = "extract" /\ todo = {}
    /\ pc' = IF \A p \in DOMAIN shipped \ Roots :
                   IsFile(shipped[p]) => tree[WriteTarget(p)] = shipped[p]
             THEN "ready" ELSE "failed"
    /\ UNCHANGED <<todo, tree>>
    /\ KeepCapture

Done == pc \in {"ready", "failed"} /\ UNCHANGED vars

Edit ==
    \/ \E p \in Paths : (\E v \in Values : WriteFile(p, v)) \/ RemoveFile(p)
    \/ \E p \in GitPaths : GitAdd(p) \/ GitRmCached(p)
    \/ GitCommit

Capture ==
    \/ ReadStatus \/ DescribeRepository \/ RefuseSource \/ EnumeratePaths
    \/ GuardRoots \/ StartPreflight \/ PreflightRoots \/ Admit
    \/ \E p \in Paths : GuardPath(p) \/ Preflight(p) \/ PreflightMissing(p)
                          \/ ValidateIdentity(p) \/ ArchiveFile(p)
    \/ ValidateHead \/ ValidatePaths \/ ValidateRoots
    \/ StartArchive \/ WrittenTooLarge \/ FinishArchive \/ Publish

Materialize ==
    \/ StartMaterialize \/ VerifyHashes
    \/ \E p \in Paths : ExtractEntry(p) \/ ExtractFails(p)

Next == Edit \/ Capture \/ Materialize \/ Done

Spec == Init /\ [][Next]_vars

-----------------------------------------------------------------------------
(* Properties.                                                              *)

Workspaces == [work : Trees, index : Trees]
Commits == [id : Nat, tree : Trees]
Places == {"idle", "described", "enumerate", "guard", "guardRoots", "preflight",
           "preflightRoots", "head1", "paths1", "ids1", "rootIds1", "archive", "head2",
           "paths2", "ids2", "rootIds2", "published", "extract", "ready", "failed"}

TypeOK ==
    /\ work \in Trees /\ index \in Trees /\ tree \in Trees
    /\ stamp \in [Paths -> Nat] /\ edits \in Nat
    /\ head \in Commits /\ base \in Commits /\ guardHead \in Nat
    /\ past \subseteq Workspaces
    /\ mode \in {"full", "git_overlay"} /\ pc \in Places /\ storage \in BOOLEAN
    /\ todo \subseteq Paths /\ deletions \subseteq GitPaths
    /\ DOMAIN guard \subseteq Paths /\ guard \in [DOMAIN guard -> Nat]
    /\ DOMAIN shipped \subseteq Paths
    /\ shipped \in [DOMAIN shipped -> Values \cup {Pending}]

\* The paths a snapshot of workspace w is about.
SourcesOf(w) ==
    {p \in GitPaths :
        \/ w.index[p] # Absent
        \/ w.work[p] # Absent /\ IF p \in Ignored THEN p \in IncludeIgnored
                                                   ELSE IncludeUntracked}

\* All missing paths have one identity: one that was not there when the guard was
\* built may have come and gone since, and the guard does not tell.
Flickered(p) ==
    p \in DOMAIN guard /\ guard[p] = Missing /\ \E w \in past : w.work[p] # Absent

ShippedAt(p) == IF p \in DOMAIN shipped THEN shipped[p] ELSE Absent

\* A capture that succeeds shows the guarded paths as they were at one moment
\* of the capture, however its calls interleave with edits: two files are never
\* taken from two different states of the workspace (captureFullSnapshot,
\* captureGitOverlaySnapshot).  A full capture also holds every source path of
\* that moment and no other.  Only paths that came and went behind the guard's
\* back are excepted.
ShippedIsOneMoment ==
    pc = "published" =>
        \E w \in past :
            /\ \A p \in DOMAIN guard : Flickered(p) \/ ShippedAt(p) = w.work[p]
            /\ mode = "full" => DOMAIN guard \ Roots = SourcesOf(w)

\* The same without the exception.  It does not hold: see the README.
ShippedIsAlwaysOneMoment ==
    pc = "published" =>
        \E w \in past : \A p \in DOMAIN guard : ShippedAt(p) = w.work[p]

\* The overlay ships a file where the base commit has a link, which
\* applyGitOverlay writes through.
ThroughLink ==
    mode = "git_overlay" /\ \E p \in DOMAIN shipped : IsLink(base.tree[p])

\* The tree an Agent reports ready holds, at every path of the repository, what
\* the developer's workspace held at one moment of the capture, in whichever
\* combination of committed, staged and unstaged changes the path was
\* (computeOverlayPlan, applyGitOverlay, materializeFullSnapshot).  An overlay
\* is held to this when nobody edited during its capture, for workspaces
\* without a link that became a file and without included ignored files, and no
\* path that came and went behind the guard's back is.
RebuiltIsExact ==
    pc = "ready" /\ ~ThroughLink
                 /\ (mode = "git_overlay" => Cardinality(past) = 1) =>
        \E w \in past : \A p \in GitPaths :
            \/ tree[p] = IF p \in SourcesOf(w) THEN w.work[p] ELSE Absent
            \/ mode = "git_overlay" /\ p \in IncludeIgnored
            \/ Flickered(p)

\* The same for every snapshot: what an "exact dirty-tree overlay" (capture.ts)
\* would have to keep.  It does not hold: see the README.
RebuiltIsAlwaysExact ==
    pc = "ready" =>
        \E w \in past : \A p \in GitPaths :
            tree[p] = IF p \in SourcesOf(w) THEN w.work[p] ELSE Absent

=============================================================================
