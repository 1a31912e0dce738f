----------------------- MODULE WorkspaceSnapshotProofs -----------------------
(***************************************************************************)
(* A capture that is not refused shows one moment of the workspace, and    *)
(* the tree rebuilt from it is exact, for any number of paths, edits and   *)
(* commits.                                                                *)
(***************************************************************************)
EXTENDS WorkspaceSnapshot, FiniteSetTheorems, WellFoundedInduction, TLAPS

(* The workspace as it is now. *)
Present == [work |-> work, index |-> index]

(* The present is a moment of the capture, and a path without identity is one
   that is not there. *)
PresentKnown ==
    /\ Present \in past /\ IsFiniteSet(past)
    /\ \A p \in Paths : stamp[p] = Missing <=> work[p] = Absent

(* No stamp of the past is given again. *)
Spent(n) == n <= 1 \/ n > 2 + edits
StampsSpent ==
    /\ \A p \in Paths : Spent(stamp[p])
    /\ \A p \in DOMAIN guard : Spent(guard[p])

(* A path that has not been written since the guard looked at it. *)
Steady(p) == p \in DOMAIN guard /\ guard[p] # Missing /\ stamp[p] = guard[p]

(* The phases of a capture and what follows it. *)
BeforeGuard == {"idle", "described", "enumerate"}
Guarding == {"guard", "guardRoots"}
Preflighting == {"preflight", "preflightRoots"}
Validating == {"head1", "paths1", "ids1", "rootIds1"}
Written == {"head2", "paths2", "ids2", "rootIds2", "published", "extract", "ready"}
Compared == {"ids2", "rootIds2", "published", "extract", "ready"}

(* Where the loops are, and which paths they are about. *)
PhasesInOrder ==
    /\ pc \in BeforeGuard => DOMAIN guard = {} /\ todo \subseteq GitPaths
    /\ pc \in BeforeGuard \cup Guarding => DOMAIN shipped = {}
    /\ pc = "guard" => DOMAIN guard \subseteq GitPaths /\ todo \subseteq GitPaths
    /\ pc \in {"guardRoots", "preflightRoots"} => todo \subseteq Roots
    /\ pc = "preflight" => todo \subseteq DOMAIN guard \ Roots
    /\ pc = "extract" => todo \subseteq DOMAIN shipped
    /\ pc = "ready" => todo = {}
    /\ DOMAIN shipped \ Roots \subseteq DOMAIN guard

(* The paths whose preflight is over. *)
Preflighted(p) ==
    \/ pc = "preflight" /\ p \notin Roots \cup todo
    \/ pc = "preflightRoots" /\ p \notin todo
    \/ pc \in Validating \cup {"archive"} \cup Written

(* The files whose bytes are still to be read. *)
Unread(p) ==
    \/ pc \in Preflighting \cup Validating
    \/ pc = "archive" /\ p \in todo

(* What is shipped of a path that was not written is what the path holds. *)
ShippedIsCurrent ==
    /\ \A p \in Paths : Steady(p) /\ Preflighted(p) => p \in DOMAIN shipped
    /\ \A p \in DOMAIN shipped :
          /\ Steady(p) => shipped[p] = work[p] \/ (Unread(p) /\ shipped[p] = Pending)
          /\ Unread(p) \/ shipped[p] \in Values
    /\ mode = "git_overlay" =>
          \A p \in DOMAIN guard \ Roots : Preflighted(p) => p \in DOMAIN shipped

(* Whatever was shipped or missing was so at some moment. *)
SeenInPast ==
    /\ \A p \in DOMAIN shipped : \E w \in past : w.work[p] # Absent
    /\ \A p \in DOMAIN guard : guard[p] = Missing => \E w \in past : w.work[p] = Absent

(* The commit of the overlay is the one git status saw. *)
HeadFollowed ==
    /\ pc # "idle" => guardHead <= head.id
    /\ pc \notin {"idle", "described"} => guardHead <= base.id /\ base.id <= head.id
    /\ pc \in (Validating \ {"head1"}) \cup {"archive"} \cup Written => base.id = guardHead

(* The paths the second validation has compared. *)
ComparedPath(p) ==
    \/ pc = "ids2" /\ p \notin Roots \cup todo
    \/ pc = "rootIds2" /\ p \notin todo
    \/ pc \in {"published", "extract", "ready"}

ShowsMoment(w) ==
    /\ mode = "full" => DOMAIN guard \ Roots = SourcesOf(w)
    /\ \A p \in DOMAIN guard :
          guard[p] # Missing /\ (Steady(p) \/ ComparedPath(p)) =>
              p \in DOMAIN shipped /\ shipped[p] = w.work[p]

(* The moment is that of the second comparison of the path sets. *)
MomentFound == pc \in Compared => \E w \in past : ShowsMoment(w)

(* What the overlay's plan owes to a path, given the commit's tree. *)
PlannedRight(p, files, dels, t, w) ==
    IF p \in files THEN p \in SourcesOf(w)
    ELSE \/ p \in IncludeIgnored
         \/ (IF p \in dels THEN Absent ELSE t[p]) = IF p \in SourcesOf(w) THEN w.work[p] ELSE Absent

FilesOfPlan == IF pc \in {"described", "enumerate", "guard"} THEN todo \cup DOMAIN guard
                                                           ELSE DOMAIN guard
CommitOfPlan == IF pc = "described" THEN head ELSE base

PlanHolds ==
    mode = "git_overlay" /\ past = {Present} /\ pc # "idle" /\ CommitOfPlan.id = guardHead =>
        \A p \in GitPaths : PlannedRight(p, FilesOfPlan, deletions, CommitOfPlan.tree, Present)

(* The Agent's tree: what has been extracted over what it started from. *)
StartingTree(p) == IF mode = "full" \/ p \in deletions THEN Absent ELSE base.tree[p]
TreeFollows ==
    pc \in {"extract", "ready"} /\ ~ThroughLink =>
        \A p \in Paths : tree[p] = IF p \in DOMAIN shipped \ todo THEN shipped[p] ELSE StartingTree(p)

(* The inductive invariant. *)
Progress ==
    /\ PhasesInOrder /\ ShippedIsCurrent /\ HeadFollowed /\ MomentFound /\ PlanHolds /\ TreeFollows
SnapshotInv == TypeOK /\ PresentKnown /\ StampsSpent /\ SeenInPast /\ (pc # "failed" => Progress)

-----------------------------------------------------------------------------
(* Values, paths and what git says of them. *)

(* The least of a set of natural numbers is one of them. *)
LEMMA MinIn ==
    ASSUME NEW S, S \subseteq Nat, S # {}
    PROVE  Min(S) \in S
<1>1. PICK x \in S : \A y \in S : ~(<<y, x>> \in OpToRel(<, Nat))
    BY NatLessThanWellFounded, WFMin
<1>2. \A y \in S : ~(y < x)
  <2>1. \A y \in S : y \in Nat /\ x \in Nat
      OBVIOUS
  <2> QED
      BY <1>1, <2>1, Zenon DEF OpToRel
<1>3. \A y \in S : x <= y
    BY <1>2
<1> QED
    BY <1>3 DEF Min

(* The loops take a path they have not had. *)
LEMMA NextIn ==
    ASSUME TypeOK, NEW p, NextPath(p)
    PROVE  p \in todo /\ p \in Paths
<1>1. todo \subseteq Nat /\ todo # {} /\ p = Min(todo)
    BY SnapshotAssumption DEF TypeOK, NextPath
<1> QED
    BY <1>1, MinIn DEF TypeOK

(* A path holds a file or a link. *)
LEMMA KindOfValue ==
    ASSUME NEW v \in Values
    PROVE  /\ v # Absent /\ (IsFile(v) <=> ~IsLink(v))
           /\ IsLink(v) => v.link \in Paths
<1>1. v # Absent /\ (DOMAIN v = {"file"} \/ (DOMAIN v = {"link"} /\ v.link \in Paths))
    BY SnapshotAssumption
<1> QED
    BY <1>1 DEF IsFile, IsLink

(* A file whose bytes have not been read is no link. *)
LEMMA PendingIsFile == Pending # Absent => ~IsLink(Pending)
BY DEF Pending, IsLink

(* enumerateFullCapturePaths enumerates the sources of the present. *)
LEMMA SourcesAreEnumerated ==
    ASSUME TypeOK
    PROVE  FullCapturePaths = SourcesOf(Present)
<1>1. Present.work = work /\ Present.index = index
    BY DEF Present
<1>2. Ignored \subseteq GitPaths /\ IncludeIgnored \subseteq Ignored
    BY SnapshotAssumption
<1> QED
    BY <1>1, <1>2 DEF FullCapturePaths, SourcesOf, Tracked, Untracked, IgnoredThere

(* The columns of git status. *)
LEMMA StatusColumns ==
    ASSUME NEW p \in GitPaths
    PROVE  /\ X(p) \in {".", "D", "A", "M"} /\ Y(p) \in {".", "D", "M"}
           /\ X(p) = "." <=> index[p] = head.tree[p]
           /\ X(p) = "D" <=> index[p] = Absent /\ head.tree[p] # Absent
           /\ X(p) = "A" => index[p] # Absent
           /\ Y(p) = "." <=> index[p] = Absent \/ work[p] = index[p]
           /\ Y(p) = "D" <=> index[p] # Absent /\ work[p] = Absent
BY DEF X, Y

(* A rename entry is a staged addition, and its old path a staged deletion. *)
LEMMA RenamesAreStaged ==
    /\ \A q \in Renamed : q \in GitPaths /\ X(q) = "A"
    /\ \A p \in Originals : p \in GitPaths /\ X(p) = "D"
BY DEF Renamed, Originals, OrigPaths, SameContent

(* computeOverlayPlan: every path that is not shipped comes out right from the
   commit and the deletions. *)
LEMMA PlanIsRight ==
    ASSUME TypeOK, NEW p \in GitPaths
    PROVE  PlannedRight(p, PlanFiles, PlanDeletions, head.tree, Present)
<1>1. Present.work = work /\ Present.index = index
    BY DEF Present
<1>2. /\ p \in SourcesOf(Present) <=>
             \/ index[p] # Absent
             \/ work[p] # Absent /\ IF p \in Ignored THEN p \in IncludeIgnored ELSE IncludeUntracked
      /\ p \in Untracked <=> p \notin Ignored /\ index[p] = Absent /\ work[p] # Absent
    BY <1>1 DEF SourcesOf, Untracked
<1>3. IncludeUntracked \in BOOLEAN
    BY SnapshotAssumption
<1>4. p \in PlainEntries <=> (X(p) # "." \/ Y(p) # ".") /\ p \notin Renamed /\ p \notin Originals
    BY DEF PlainEntries, Changed
<1>5. p \in PlanFiles <=> \/ IncludeUntracked /\ p \in Untracked
                          \/ p \in Renamed
                          \/ p \in PlainEntries /\ (IsDeletionXy(p) => OtherSide(p) \notin {".", "D"})
    BY <1>3 DEF PlanFiles, PlainEntries, Changed
<1>6. p \in PlanDeletions <=> /\ p \notin PlanFiles
                              /\ p \in Originals \/ (p \in PlainEntries /\ IsDeletionXy(p))
    BY DEF PlanDeletions
<1>7. (p \in Renamed => X(p) = "A") /\ (p \in Originals => X(p) = "D")
    BY RenamesAreStaged
<1>8. CASE p \in PlanFiles
  <2>1. p \in SourcesOf(Present)
    <3>1. CASE IncludeUntracked /\ p \in Untracked
        BY <1>2, <3>1
    <3>2. CASE p \in Renamed
        BY <1>2, <1>7, <3>2, StatusColumns
    <3>3. CASE p \in PlainEntries /\ (IsDeletionXy(p) => OtherSide(p) \notin {".", "D"})
        BY <1>2, <1>4, <3>3, StatusColumns DEF IsDeletionXy, OtherSide
    <3> QED
        BY <1>5, <1>8, <3>1, <3>2, <3>3
  <2> QED
      BY <1>8, <2>1 DEF PlannedRight
<1>9. CASE p \notin PlanFiles /\ p \in PlanDeletions
  <2>1. (X(p) = "D" \/ Y(p) = "D")
      BY <1>6, <1>7, <1>9 DEF IsDeletionXy
  <2>2. p \notin SourcesOf(Present) \/ work[p] = Absent \/ p \in IncludeIgnored
      BY <1>2, <1>3, <1>5, <1>9, <2>1, StatusColumns
  <2> QED
      BY <1>1, <1>9, <2>2 DEF PlannedRight
<1>10. CASE p \notin PlanFiles /\ p \notin PlanDeletions
  <2>1. X(p) = "." /\ Y(p) = "."
      BY <1>4, <1>5, <1>6, <1>10
  <2>2. \/ head.tree[p] = IF p \in SourcesOf(Present) THEN work[p] ELSE Absent
        \/ p \in IncludeIgnored
      BY <1>2, <1>3, <1>5, <1>10, <2>1, StatusColumns
  <2> QED
      BY <1>1, <1>10, <2>2 DEF PlannedRight
<1> QED
    BY <1>8, <1>9, <1>10

-----------------------------------------------------------------------------
(* The developer. *)

(* What an edit of any kind does to the invariant: a path that it writes is not
   steady any more, and never will be. *)
LEMMA EditedKeeps ==
    ASSUME SnapshotInv, Edited, TypeOK',
           \A p \in Paths : stamp'[p] = Missing <=> work'[p] = Absent,
           \A p \in Paths : \/ stamp'[p] = stamp[p] /\ work'[p] = work[p]
                            \/ stamp'[p] = Missing
                            \/ stamp'[p] = 2 + edits,
           head' = head \/ head'.id = head.id + 1
    PROVE  SnapshotInv'
<1>1. /\ pc # "failed" /\ pc # "idle" /\ edits > 0 /\ edits' = edits - 1 /\ edits \in Nat
      /\ pc \notin {"published", "extract", "ready"}
      /\ past' = past \cup {Present'}
      /\ UNCHANGED <<mode, pc, todo, guardHead, base, deletions, guard, shipped, tree>>
    BY DEF Edited, Capturing, SnapshotInv, TypeOK, Present, planVars
<1>2. PresentKnown'
  <2>1. IsFiniteSet(past')
      BY <1>1, FS_AddElement DEF SnapshotInv, PresentKnown
  <2> QED
      BY <1>1, <2>1 DEF PresentKnown
<1>3. StampsSpent'
  <2>1. (\A p \in Paths : stamp[p] \in Nat) /\ (\A p \in DOMAIN guard : guard[p] \in Nat)
      BY DEF SnapshotInv, TypeOK
  <2>2. \A p \in Paths : stamp'[p] <= 1 \/ stamp'[p] > 2 + edits'
      BY <1>1, <2>1 DEF SnapshotInv, StampsSpent, Spent, Missing
  <2>3. \A p \in DOMAIN guard : guard[p] <= 1 \/ guard[p] > 2 + edits'
      BY <1>1, <2>1 DEF SnapshotInv, StampsSpent, Spent
  <2> QED
      BY <1>1, <2>2, <2>3 DEF StampsSpent, Spent
<1>4. SeenInPast'
    BY <1>1 DEF SnapshotInv, SeenInPast
<1>5. \A p \in Paths : Steady(p)' => Steady(p) /\ work'[p] = work[p]
  <2> SUFFICES ASSUME NEW p \in Paths, Steady(p)' PROVE Steady(p) /\ work'[p] = work[p]
      OBVIOUS
  <2>1. p \in DOMAIN guard /\ guard[p] # Missing /\ stamp'[p] = guard[p] /\ guard[p] \in Nat
      BY <1>1 DEF Steady, SnapshotInv, TypeOK
  <2>2. guard[p] <= 1 \/ guard[p] > 2 + edits
      BY <2>1 DEF SnapshotInv, StampsSpent, Spent
  <2>3. stamp'[p] # 2 + edits
      BY <1>1, <2>1, <2>2
  <2> QED
      BY <2>1, <2>3 DEF Steady
<1>6. \A p : (Preflighted(p)' <=> Preflighted(p)) /\ (Unread(p)' <=> Unread(p))
             /\ (ComparedPath(p)' <=> ComparedPath(p))
    BY <1>1 DEF Preflighted, Unread, ComparedPath
<1>7. PhasesInOrder' /\ TreeFollows'
    BY <1>1 DEF SnapshotInv, Progress, PhasesInOrder, TreeFollows
<1>8. ShippedIsCurrent'
    BY <1>1, <1>5, <1>6 DEF SnapshotInv, Progress, ShippedIsCurrent, TypeOK
<1>9. HeadFollowed'
  <2>1. guardHead \in Nat /\ head.id \in Nat /\ base.id \in Nat
      BY DEF SnapshotInv, TypeOK, Commits
  <2> QED
      BY <1>1, <2>1 DEF SnapshotInv, Progress, HeadFollowed
<1>10. MomentFound'
  <2> SUFFICES ASSUME pc \in Compared PROVE \E w \in past' : ShowsMoment(w)'
      BY <1>1 DEF MomentFound
  <2>1. PICK w \in past : ShowsMoment(w)
      BY <1>1 DEF SnapshotInv, Progress, MomentFound
  <2>2. ShowsMoment(w)'
      BY <1>1, <1>5, <1>6, <2>1 DEF ShowsMoment, SnapshotInv, TypeOK, SourcesOf
  <2> QED
      BY <1>1, <2>2
<1>11. PlanHolds'
  <2> SUFFICES ASSUME mode = "git_overlay", past' = {Present'}, (CommitOfPlan.id)' = guardHead
               PROVE  \A p \in GitPaths : PlannedRight(p, FilesOfPlan, deletions, CommitOfPlan.tree, Present)'
      BY <1>1 DEF PlanHolds
  <2>1. past = {Present} /\ Present' = Present
      BY <1>1 DEF SnapshotInv, PresentKnown
  <2>2. CommitOfPlan' = CommitOfPlan
    <3>1. CASE pc = "described"
      <4>1. guardHead \in Nat /\ head.id \in Nat /\ guardHead <= head.id
          BY <1>1 DEF SnapshotInv, TypeOK, Commits, Progress, HeadFollowed
      <4>2. head'.id = guardHead
          BY <1>1, <3>1 DEF CommitOfPlan
      <4>3. head' = head
          BY <4>1, <4>2
      <4> QED
          BY <1>1, <4>3 DEF CommitOfPlan
    <3>2. CASE pc # "described"
        BY <1>1, <3>2 DEF CommitOfPlan
    <3> QED
        BY <3>1, <3>2
  <2>3. FilesOfPlan' = FilesOfPlan
      BY <1>1 DEF FilesOfPlan
  <2>4. \A p \in GitPaths : PlannedRight(p, FilesOfPlan, deletions, CommitOfPlan.tree, Present)
      BY <1>1, <2>1, <2>2 DEF SnapshotInv, Progress, PlanHolds
  <2> QED
      BY <1>1, <2>1, <2>2, <2>3, <2>4 DEF PlannedRight, SourcesOf
<1> QED
    BY <1>2, <1>3, <1>4, <1>7, <1>8, <1>9, <1>10, <1>11 DEF SnapshotInv, Progress

(* A path is written, removed or staged, or what is staged is committed. *)
LEMMA EditKeeps ==
    ASSUME SnapshotInv, Edit
    PROVE  SnapshotInv'
<1>1. TypeOK /\ PresentKnown /\ work \in Trees /\ index \in Trees /\ head \in Commits /\ edits \in Nat
    BY DEF SnapshotInv, TypeOK
<1>2. ASSUME Edited, work' \in Trees, index' \in Trees, stamp' \in [Paths -> Nat], head' \in Commits
      PROVE  TypeOK'
  <2>1. /\ edits' \in Nat
        /\ UNCHANGED <<mode, pc, todo, guardHead, base, deletions, guard, shipped, storage, tree>>
      BY <1>1, <1>2 DEF Edited, planVars
  <2>2. past' \subseteq Workspaces
      BY <1>1, <1>2 DEF Edited, Workspaces, TypeOK
  <2> QED
      BY <1>1, <1>2, <2>1, <2>2 DEF TypeOK
<1>3. ASSUME NEW p \in Paths, NEW v \in Values, WriteFile(p, v) PROVE SnapshotInv'
  <2>1. /\ work' = [work EXCEPT ![p] = v] /\ stamp' = [stamp EXCEPT ![p] = 2 + edits]
        /\ index' = index /\ head' = head /\ Edited
      BY <1>3 DEF WriteFile
  <2>2. work' \in Trees /\ stamp' \in [Paths -> Nat]
      BY <1>1, <2>1 DEF Trees, TypeOK
  <2>3. TypeOK'
      BY <1>1, <1>2, <2>1, <2>2
  <2>4. v # Absent /\ 2 + edits # Missing
      BY <1>1, KindOfValue DEF Missing
  <2>5. \A q \in Paths : stamp'[q] = Missing <=> work'[q] = Absent
      BY <1>1, <2>1, <2>4 DEF PresentKnown, Trees, TypeOK
  <2>6. \A q \in Paths : \/ stamp'[q] = stamp[q] /\ work'[q] = work[q]
                         \/ stamp'[q] = Missing
                         \/ stamp'[q] = 2 + edits
      BY <1>1, <2>1 DEF Trees, TypeOK
  <2> QED
      BY <2>1, <2>3, <2>5, <2>6, EditedKeeps
<1>4. ASSUME NEW p \in Paths, RemoveFile(p) PROVE SnapshotInv'
  <2>1. /\ work' = [work EXCEPT ![p] = Absent] /\ stamp' = [stamp EXCEPT ![p] = Missing]
        /\ index' = index /\ head' = head /\ Edited
      BY <1>4 DEF RemoveFile
  <2>2. work' \in Trees /\ stamp' \in [Paths -> Nat]
      BY <1>1, <2>1 DEF Trees, TypeOK, Missing
  <2>3. TypeOK'
      BY <1>1, <1>2, <2>1, <2>2
  <2>5. \A q \in Paths : stamp'[q] = Missing <=> work'[q] = Absent
      BY <1>1, <2>1 DEF PresentKnown, Trees, TypeOK
  <2>6. \A q \in Paths : \/ stamp'[q] = stamp[q] /\ work'[q] = work[q]
                         \/ stamp'[q] = Missing
                         \/ stamp'[q] = 2 + edits
      BY <1>1, <2>1 DEF Trees, TypeOK
  <2> QED
      BY <2>1, <2>3, <2>5, <2>6, EditedKeeps
<1>5. ASSUME NEW p \in GitPaths, GitAdd(p) \/ GitRmCached(p) PROVE SnapshotInv'
  <2>1. /\ index' = [index EXCEPT ![p] = work[p]] \/ index' = [index EXCEPT ![p] = Absent]
        /\ work' = work /\ stamp' = stamp /\ head' = head /\ Edited
      BY <1>5 DEF GitAdd, GitRmCached
  <2>2. index' \in Trees
      BY <1>1, <2>1 DEF Trees, GitPaths
  <2>3. TypeOK'
      BY <1>1, <1>2, <2>1, <2>2 DEF TypeOK
  <2> QED
      BY <1>1, <2>1, <2>3, EditedKeeps DEF PresentKnown
<1>6. ASSUME GitCommit PROVE SnapshotInv'
  <2>1. /\ head' = [id |-> head.id + 1, tree |-> index]
        /\ work' = work /\ stamp' = stamp /\ index' = index /\ Edited
      BY <1>6 DEF GitCommit
  <2>2. head' \in Commits /\ head'.id = head.id + 1
      BY <1>1, <2>1 DEF Commits
  <2>3. TypeOK'
      BY <1>1, <1>2, <2>1, <2>2 DEF TypeOK
  <2> QED
      BY <1>1, <2>1, <2>2, <2>3, EditedKeeps DEF PresentKnown
<1> QED
    BY <1>3, <1>4, <1>5, <1>6 DEF Edit

-----------------------------------------------------------------------------
(* The capture: steps that fail, and steps of the loops. *)

(* The workspace is what it was; so are its stamps, while the guard is. *)
LEMMA WorkspaceKept ==
    ASSUME SnapshotInv, KeepWorkspace, guard' = guard, shipped' = shipped
    PROVE  PresentKnown' /\ StampsSpent' /\ SeenInPast'
<1>1. UNCHANGED <<work, stamp, index, head, edits, past, mode, tree>>
    BY DEF KeepWorkspace, workspaceVars
<1>2. Present' = Present
    BY <1>1 DEF Present
<1> QED
    BY <1>1, <1>2 DEF SnapshotInv, PresentKnown, StampsSpent, Spent, SeenInPast

(* A capture that fails keeps what the invariant says of the workspace. *)
LEMMA FailKeeps ==
    ASSUME SnapshotInv, KeepWorkspace, pc' = "failed", todo' = {}, storage' \in BOOLEAN,
           UNCHANGED <<planVars, shipped>>
    PROVE  SnapshotInv'
<1>1. guard' = guard /\ shipped' = shipped
    BY DEF planVars
<1>2. TypeOK'
    BY DEF SnapshotInv, TypeOK, KeepWorkspace, workspaceVars, planVars, Places
<1> QED
    BY <1>1, <1>2, WorkspaceKept DEF SnapshotInv

(* A step from one loop of the capture to another, or within one, that records
   nothing. *)
LEMMA MoveKeeps ==
    ASSUME SnapshotInv, KeepWorkspace, UNCHANGED <<planVars, shipped>>,
           NEW t \in SUBSET Paths, todo' = t, storage' \in BOOLEAN,
           pc \notin {"idle", "described", "failed"},
           pc' \in Places \ {"idle", "described", "extract", "ready", "failed"},
           PhasesInOrder', HeadFollowed', MomentFound',
           \A p \in Paths : Preflighted(p)' =>
               Preflighted(p) \/ (~Steady(p) /\ (mode = "full" \/ p \notin DOMAIN guard \ Roots)),
           \A p \in DOMAIN shipped : Unread(p) => Unread(p)' \/ shipped[p] # Pending,
           mode = "git_overlay" => \A p \in GitPaths : p \in FilesOfPlan' <=> p \in FilesOfPlan
    PROVE  SnapshotInv'
<1>1. /\ UNCHANGED <<work, stamp, index, head, edits, past, mode, tree>>
      /\ UNCHANGED <<guardHead, base, deletions, guard, shipped>>
    BY DEF KeepWorkspace, workspaceVars, planVars
<1>2. TypeOK'
    BY <1>1 DEF SnapshotInv, TypeOK
<1>3. PresentKnown' /\ StampsSpent' /\ SeenInPast'
    BY <1>1, WorkspaceKept
<1>4. \A p : Steady(p)' <=> Steady(p)
    BY <1>1 DEF Steady
<1>5. ShippedIsCurrent'
  <2>1. ShippedIsCurrent /\ shipped \in [DOMAIN shipped -> Values \cup {Pending}]
        /\ DOMAIN guard \subseteq Paths
      BY DEF SnapshotInv, Progress, TypeOK
  <2> QED
      BY <1>1, <1>4, <2>1 DEF ShippedIsCurrent
<1>6. PlanHolds'
  <2>1. CommitOfPlan' = CommitOfPlan /\ Present' = Present
      BY <1>1 DEF CommitOfPlan, Present
  <2>2. PlanHolds
      BY DEF SnapshotInv, Progress
  <2> QED
      BY <1>1, <2>1, <2>2 DEF PlanHolds, PlannedRight, SourcesOf
<1>7. TreeFollows'
    BY DEF TreeFollows
<1> QED
    BY <1>2, <1>3, <1>5, <1>6, <1>7 DEF SnapshotInv, Progress

(* The moment is kept while only paths that are steady are ticked off. *)
LEMMA MomentKept ==
    ASSUME SnapshotInv, KeepWorkspace, UNCHANGED <<planVars, shipped>>, pc # "failed",
           pc' \in Compared => pc \in Compared,
           \A p \in DOMAIN guard : ComparedPath(p)' => ComparedPath(p) \/ Steady(p) \/ guard[p] = Missing
    PROVE  MomentFound'
<1>1. UNCHANGED <<stamp, past, mode, guard, shipped>>
    BY DEF KeepWorkspace, workspaceVars, planVars
<1> SUFFICES ASSUME pc' \in Compared PROVE \E w \in past' : ShowsMoment(w)'
    BY DEF MomentFound
<1>2. PICK w \in past : ShowsMoment(w)
    BY DEF SnapshotInv, Progress, MomentFound
<1>3. \A p : Steady(p)' <=> Steady(p)
    BY <1>1 DEF Steady
<1>4. ShowsMoment(w)'
    BY <1>1, <1>2, <1>3 DEF ShowsMoment, SourcesOf
<1> QED
    BY <1>1, <1>4

-----------------------------------------------------------------------------
(* The steps from one loop of the capture to the next. *)

(* What is enumerated lies in the repository. *)
LEMMA FullInGit == TypeOK => FullCapturePaths \subseteq GitPaths
BY SourcesAreEnumerated DEF SourcesOf

(* At the second comparison of the path sets every steady path is shipped as it is:
   the present is the moment the snapshot shows. *)
LEMMA MomentBegins ==
    ASSUME SnapshotInv, KeepWorkspace, UNCHANGED <<planVars, shipped>>,
           pc = "paths2", pc' = "ids2", todo' = DOMAIN guard \ Roots,
           mode = "full" => FullCapturePaths = DOMAIN guard \ Roots
    PROVE  MomentFound'
<1>1. UNCHANGED <<stamp, past, mode, guard, shipped>>
    BY DEF KeepWorkspace, workspaceVars, planVars
<1>2. TypeOK /\ ShippedIsCurrent /\ Present \in past /\ DOMAIN guard \subseteq Paths
    BY DEF SnapshotInv, Progress, PresentKnown, TypeOK
<1>3. PICK w \in past : w = Present
    BY <1>2
<1>4. w.work = work
    BY <1>3 DEF Present
<1>5. mode = "full" => DOMAIN guard \ Roots = SourcesOf(w)
    BY <1>2, <1>3, SourcesAreEnumerated
<1>6. \A p \in DOMAIN guard : Steady(p) => p \in DOMAIN shipped /\ shipped[p] = w.work[p]
  <2> SUFFICES ASSUME NEW p \in DOMAIN guard, Steady(p)
               PROVE  p \in DOMAIN shipped /\ shipped[p] = w.work[p]
      OBVIOUS
  <2>1. Preflighted(p) /\ ~Unread(p)
      BY DEF Preflighted, Unread, Preflighting, Validating, Written
  <2> QED
      BY <1>2, <1>4, <2>1 DEF ShippedIsCurrent
<1>7. \A p \in DOMAIN guard : ~ComparedPath(p)' /\ (Steady(p)' <=> Steady(p))
    BY <1>1 DEF ComparedPath, Steady
<1>8. ShowsMoment(w)'
    BY <1>1, <1>5, <1>6, <1>7 DEF ShowsMoment, SourcesOf
<1> QED
    BY <1>1, <1>8 DEF MomentFound

(* The paths of the repository are enumerated. *)
LEMMA EnumerateKeeps ==
    ASSUME SnapshotInv, EnumeratePaths
    PROVE  SnapshotInv'
<1>1. /\ KeepWorkspace /\ UNCHANGED <<planVars, shipped>> /\ storage' \in BOOLEAN
      /\ UNCHANGED <<work, stamp, head, mode, guardHead, base, guard, past>>
      /\ pc = "enumerate" /\ pc' = "guard" /\ todo' = IF mode = "full" THEN FullCapturePaths ELSE todo
    BY DEF EnumeratePaths, KeepWorkspace, workspaceVars, planVars, SnapshotInv, TypeOK
<1>2. /\ TypeOK /\ PhasesInOrder /\ HeadFollowed /\ PresentKnown
      /\ guardHead \in Nat /\ head.id \in Nat /\ base.id \in Nat
    BY <1>1 DEF SnapshotInv, Progress, TypeOK, Commits
<1>3. todo' \in SUBSET Paths
    BY <1>1, <1>2, FullInGit DEF TypeOK, GitPaths
<1>4. PhasesInOrder'
    BY <1>1, <1>2, FullInGit DEF PhasesInOrder, BeforeGuard, Guarding
<1>5. HeadFollowed'
    BY <1>1, <1>2 DEF HeadFollowed, Validating, Written
<1>6. MomentFound'
    BY <1>1, MomentKept DEF Compared, ComparedPath
<1>7. \A p \in Paths : Preflighted(p)' =>
          Preflighted(p) \/ (~Steady(p) /\ (mode = "full" \/ p \notin DOMAIN guard \ Roots))
    BY <1>1, <1>2 DEF Preflighted, Validating, Written
<1>8. \A p \in DOMAIN shipped : Unread(p) => Unread(p)' \/ shipped[p] # Pending
    BY <1>1, <1>2 DEF Unread, Preflighting, Validating, PhasesInOrder, BeforeGuard, Guarding
<1>9. mode = "git_overlay" => \A p \in GitPaths : p \in FilesOfPlan' <=> p \in FilesOfPlan
    BY <1>1, <1>2 DEF FilesOfPlan
<1>10. pc' \in Places \ {"idle", "described", "extract", "ready", "failed"}
    BY <1>1 DEF Places
<1> QED
    BY <1>1, <1>3, <1>4, <1>5, <1>6, <1>7, <1>8, <1>9, <1>10, MoveKeeps

(* The guard goes on with the additional roots. *)
LEMMA GuardRootsKeeps ==
    ASSUME SnapshotInv, GuardRoots
    PROVE  SnapshotInv'
<1>1. /\ KeepWorkspace /\ UNCHANGED <<planVars, shipped>> /\ storage' \in BOOLEAN
      /\ UNCHANGED <<work, stamp, head, mode, guardHead, base, guard, past>>
      /\ pc = "guard" /\ pc' = "guardRoots" /\ todo = {} /\ todo' = RootPaths
    BY DEF GuardRoots, KeepWorkspace, workspaceVars, planVars, SnapshotInv, TypeOK
<1>2. /\ TypeOK /\ PhasesInOrder /\ HeadFollowed /\ PresentKnown
      /\ guardHead \in Nat /\ head.id \in Nat /\ base.id \in Nat
    BY <1>1 DEF SnapshotInv, Progress, TypeOK, Commits
<1>3. todo' \in SUBSET Paths
    BY <1>1, SnapshotAssumption DEF RootPaths
<1>4. PhasesInOrder'
    BY <1>1, <1>2 DEF PhasesInOrder, BeforeGuard, Guarding, RootPaths
<1>5. HeadFollowed'
    BY <1>1, <1>2 DEF HeadFollowed, Validating, Written
<1>6. MomentFound'
    BY <1>1, MomentKept DEF Compared, ComparedPath
<1>7. \A p \in Paths : Preflighted(p)' =>
          Preflighted(p) \/ (~Steady(p) /\ (mode = "full" \/ p \notin DOMAIN guard \ Roots))
    BY <1>1, <1>2 DEF Preflighted, Validating, Written
<1>8. \A p \in DOMAIN shipped : Unread(p) => Unread(p)' \/ shipped[p] # Pending
    BY <1>1, <1>2 DEF Unread, Preflighting, Validating, PhasesInOrder, BeforeGuard, Guarding
<1>9. mode = "git_overlay" => \A p \in GitPaths : p \in FilesOfPlan' <=> p \in FilesOfPlan
    BY <1>1, <1>2 DEF FilesOfPlan
<1>10. pc' \in Places \ {"idle", "described", "extract", "ready", "failed"}
    BY <1>1 DEF Places
<1> QED
    BY <1>1, <1>3, <1>4, <1>5, <1>6, <1>7, <1>8, <1>9, <1>10, MoveKeeps

(* The guard is built. *)
LEMMA StartPreflightKeeps ==
    ASSUME SnapshotInv, StartPreflight
    PROVE  SnapshotInv'
<1>1. /\ KeepWorkspace /\ UNCHANGED <<planVars, shipped>> /\ storage' \in BOOLEAN
      /\ UNCHANGED <<work, stamp, head, mode, guardHead, base, guard, past>>
      /\ pc = "guardRoots" /\ pc' = "preflight" /\ todo = {} /\ todo' = DOMAIN guard \ Roots
    BY DEF StartPreflight, KeepWorkspace, workspaceVars, planVars, SnapshotInv, TypeOK
<1>2. /\ TypeOK /\ PhasesInOrder /\ HeadFollowed /\ PresentKnown
      /\ guardHead \in Nat /\ head.id \in Nat /\ base.id \in Nat
    BY <1>1 DEF SnapshotInv, Progress, TypeOK, Commits
<1>3. todo' \in SUBSET Paths
    BY <1>1, <1>2 DEF TypeOK
<1>4. PhasesInOrder'
    BY <1>1, <1>2 DEF PhasesInOrder, BeforeGuard, Guarding, TypeOK, GitPaths
<1>5. HeadFollowed'
    BY <1>1, <1>2 DEF HeadFollowed, Validating, Written
<1>6. MomentFound'
    BY <1>1, MomentKept DEF Compared, ComparedPath
<1>7. \A p \in Paths : Preflighted(p)' =>
          Preflighted(p) \/ (~Steady(p) /\ (mode = "full" \/ p \notin DOMAIN guard \ Roots))
    BY <1>1, <1>2 DEF Preflighted, Validating, Written, Steady
<1>8. \A p \in DOMAIN shipped : Unread(p) => Unread(p)' \/ shipped[p] # Pending
    BY <1>1, <1>2 DEF Unread, Preflighting, Validating, PhasesInOrder, BeforeGuard, Guarding
<1>9. mode = "git_overlay" => \A p \in GitPaths : p \in FilesOfPlan' <=> p \in FilesOfPlan
    BY <1>1, <1>2 DEF FilesOfPlan
<1>10. pc' \in Places \ {"idle", "described", "extract", "ready", "failed"}
    BY <1>1 DEF Places
<1> QED
    BY <1>1, <1>3, <1>4, <1>5, <1>6, <1>7, <1>8, <1>9, <1>10, MoveKeeps

(* The preflight goes on with the additional roots. *)
LEMMA PreflightRootsKeeps ==
    ASSUME SnapshotInv, PreflightRoots
    PROVE  SnapshotInv'
<1>1. /\ KeepWorkspace /\ UNCHANGED <<planVars, shipped>> /\ storage' \in BOOLEAN
      /\ UNCHANGED <<work, stamp, head, mode, guardHead, base, guard, past>>
      /\ pc = "preflight" /\ pc' = "preflightRoots" /\ todo = {} /\ todo' = RootPaths
    BY DEF PreflightRoots, KeepWorkspace, workspaceVars, planVars, SnapshotInv, TypeOK
<1>2. /\ TypeOK /\ PhasesInOrder /\ HeadFollowed /\ PresentKnown
      /\ guardHead \in Nat /\ head.id \in Nat /\ base.id \in Nat
    BY <1>1 DEF SnapshotInv, Progress, TypeOK, Commits
<1>3. todo' \in SUBSET Paths
    BY <1>1, SnapshotAssumption DEF RootPaths
<1>4. PhasesInOrder'
    BY <1>1, <1>2 DEF PhasesInOrder, BeforeGuard, Guarding, RootPaths
<1>5. HeadFollowed'
    BY <1>1, <1>2 DEF HeadFollowed, Validating, Written
<1>6. MomentFound'
    BY <1>1, MomentKept DEF Compared, ComparedPath
<1>7. \A p \in Paths : Preflighted(p)' =>
          Preflighted(p) \/ (~Steady(p) /\ (mode = "full" \/ p \notin DOMAIN guard \ Roots))
    BY <1>1, <1>2 DEF Preflighted, Validating, Written, Steady, RootPaths, PresentKnown, TypeOK
<1>8. \A p \in DOMAIN shipped : Unread(p) => Unread(p)' \/ shipped[p] # Pending
    BY <1>1, <1>2 DEF Unread, Preflighting, Validating, PhasesInOrder, BeforeGuard, Guarding
<1>9. mode = "git_overlay" => \A p \in GitPaths : p \in FilesOfPlan' <=> p \in FilesOfPlan
    BY <1>1, <1>2 DEF FilesOfPlan
<1>10. pc' \in Places \ {"idle", "described", "extract", "ready", "failed"}
    BY <1>1 DEF Places
<1> QED
    BY <1>1, <1>3, <1>4, <1>5, <1>6, <1>7, <1>8, <1>9, <1>10, MoveKeeps

(* The limits and the secret policy admit what was found. *)
LEMMA AdmitKeeps ==
    ASSUME SnapshotInv, Admit, Admitted
    PROVE  SnapshotInv'
<1>1. /\ KeepWorkspace /\ UNCHANGED <<planVars, shipped>> /\ storage' \in BOOLEAN
      /\ UNCHANGED <<work, stamp, head, mode, guardHead, base, guard, past>>
      /\ pc = "preflightRoots" /\ pc' = "head1" /\ todo = {} /\ todo' = todo
    BY DEF Admit, KeepWorkspace, workspaceVars, planVars, SnapshotInv, TypeOK
<1>2. /\ TypeOK /\ PhasesInOrder /\ HeadFollowed /\ PresentKnown
      /\ guardHead \in Nat /\ head.id \in Nat /\ base.id \in Nat
    BY <1>1 DEF SnapshotInv, Progress, TypeOK, Commits
<1>3. todo' \in SUBSET Paths
    BY <1>1, <1>2 DEF TypeOK
<1>4. PhasesInOrder'
    BY <1>1, <1>2 DEF PhasesInOrder, BeforeGuard, Guarding, TypeOK, GitPaths
<1>5. HeadFollowed'
    BY <1>1, <1>2 DEF HeadFollowed, Validating, Written
<1>6. MomentFound'
    BY <1>1, MomentKept DEF Compared, ComparedPath
<1>7. \A p \in Paths : Preflighted(p)' =>
          Preflighted(p) \/ (~Steady(p) /\ (mode = "full" \/ p \notin DOMAIN guard \ Roots))
    BY <1>1, <1>2 DEF Preflighted, Validating, Written
<1>8. \A p \in DOMAIN shipped : Unread(p) => Unread(p)' \/ shipped[p] # Pending
    BY <1>1, <1>2 DEF Unread, Preflighting, Validating, PhasesInOrder, BeforeGuard, Guarding
<1>9. mode = "git_overlay" => \A p \in GitPaths : p \in FilesOfPlan' <=> p \in FilesOfPlan
    BY <1>1, <1>2 DEF FilesOfPlan
<1>10. pc' \in Places \ {"idle", "described", "extract", "ready", "failed"}
    BY <1>1 DEF Places
<1> QED
    BY <1>1, <1>3, <1>4, <1>5, <1>6, <1>7, <1>8, <1>9, <1>10, MoveKeeps

(* HEAD is still the commit git status saw. *)
LEMMA ValidateHeadKeeps ==
    ASSUME SnapshotInv, ValidateHead, head.id = guardHead
    PROVE  SnapshotInv'
<1>1. /\ KeepWorkspace /\ UNCHANGED <<planVars, shipped>> /\ storage' \in BOOLEAN
      /\ UNCHANGED <<work, stamp, head, mode, guardHead, base, guard, past>>
      /\ todo' = todo /\ ((pc = "head1" /\ pc' = "paths1") \/ (pc = "head2" /\ pc' = "paths2"))
      /\ head.id = guardHead
    BY DEF ValidateHead, KeepWorkspace, workspaceVars, planVars, SnapshotInv, TypeOK
<1>2. /\ TypeOK /\ PhasesInOrder /\ HeadFollowed /\ PresentKnown
      /\ guardHead \in Nat /\ head.id \in Nat /\ base.id \in Nat
    BY <1>1 DEF SnapshotInv, Progress, TypeOK, Commits
<1>3. todo' \in SUBSET Paths
    BY <1>1, <1>2 DEF TypeOK
<1>4. PhasesInOrder'
    BY <1>1, <1>2 DEF PhasesInOrder, BeforeGuard, Guarding, TypeOK, GitPaths
<1>5. HeadFollowed'
    BY <1>1, <1>2 DEF HeadFollowed, Validating, Written
<1>6. MomentFound'
    BY <1>1, MomentKept DEF Compared, ComparedPath
<1>7. \A p \in Paths : Preflighted(p)' =>
          Preflighted(p) \/ (~Steady(p) /\ (mode = "full" \/ p \notin DOMAIN guard \ Roots))
    BY <1>1, <1>2 DEF Preflighted, Validating, Written
<1>8. \A p \in DOMAIN shipped : Unread(p) => Unread(p)' \/ shipped[p] # Pending
    BY <1>1, <1>2 DEF Unread, Preflighting, Validating, PhasesInOrder, BeforeGuard, Guarding
<1>9. mode = "git_overlay" => \A p \in GitPaths : p \in FilesOfPlan' <=> p \in FilesOfPlan
    BY <1>1, <1>2 DEF FilesOfPlan
<1>10. pc' \in Places \ {"idle", "described", "extract", "ready", "failed"}
    BY <1>1 DEF Places
<1> QED
    BY <1>1, <1>3, <1>4, <1>5, <1>6, <1>7, <1>8, <1>9, <1>10, MoveKeeps

(* The path set is still the one the guard was built for. *)
LEMMA ValidatePathsKeeps ==
    ASSUME SnapshotInv, ValidatePaths, mode = "full" => FullCapturePaths = DOMAIN guard \ Roots
    PROVE  SnapshotInv'
<1>1. /\ KeepWorkspace /\ UNCHANGED <<planVars, shipped>> /\ storage' \in BOOLEAN
      /\ UNCHANGED <<work, stamp, head, mode, guardHead, base, guard, past>>
      /\ todo' = DOMAIN guard \ Roots
      /\ ((pc = "paths1" /\ pc' = "ids1") \/ (pc = "paths2" /\ pc' = "ids2"))
    BY DEF ValidatePaths, KeepWorkspace, workspaceVars, planVars, SnapshotInv, TypeOK
<1>2. /\ TypeOK /\ PhasesInOrder /\ HeadFollowed /\ PresentKnown
      /\ guardHead \in Nat /\ head.id \in Nat /\ base.id \in Nat
    BY <1>1 DEF SnapshotInv, Progress, TypeOK, Commits
<1>3. todo' \in SUBSET Paths
    BY <1>1, <1>2 DEF TypeOK
<1>4. PhasesInOrder'
    BY <1>1, <1>2 DEF PhasesInOrder, BeforeGuard, Guarding, TypeOK, GitPaths
<1>5. HeadFollowed'
    BY <1>1, <1>2 DEF HeadFollowed, Validating, Written
<1>6. MomentFound'
    BY <1>1, MomentBegins DEF MomentFound, Compared
<1>7. \A p \in Paths : Preflighted(p)' =>
          Preflighted(p) \/ (~Steady(p) /\ (mode = "full" \/ p \notin DOMAIN guard \ Roots))
    BY <1>1, <1>2 DEF Preflighted, Validating, Written
<1>8. \A p \in DOMAIN shipped : Unread(p) => Unread(p)' \/ shipped[p] # Pending
    BY <1>1, <1>2 DEF Unread, Preflighting, Validating, PhasesInOrder, BeforeGuard, Guarding
<1>9. mode = "git_overlay" => \A p \in GitPaths : p \in FilesOfPlan' <=> p \in FilesOfPlan
    BY <1>1, <1>2 DEF FilesOfPlan
<1>10. pc' \in Places \ {"idle", "described", "extract", "ready", "failed"}
    BY <1>1 DEF Places
<1> QED
    BY <1>1, <1>3, <1>4, <1>5, <1>6, <1>7, <1>8, <1>9, <1>10, MoveKeeps

(* The roots are compared after the repository. *)
LEMMA ValidateRootsKeeps ==
    ASSUME SnapshotInv, ValidateRoots, mode = "full" => RootPaths = DOMAIN guard \cap Roots
    PROVE  SnapshotInv'
<1>1. /\ KeepWorkspace /\ UNCHANGED <<planVars, shipped>> /\ storage' \in BOOLEAN
      /\ UNCHANGED <<work, stamp, head, mode, guardHead, base, guard, past>>
      /\ todo = {} /\ todo' = DOMAIN guard \cap Roots
      /\ ((pc = "ids1" /\ pc' = "rootIds1") \/ (pc = "ids2" /\ pc' = "rootIds2"))
    BY DEF ValidateRoots, KeepWorkspace, workspaceVars, planVars, SnapshotInv, TypeOK
<1>2. /\ TypeOK /\ PhasesInOrder /\ HeadFollowed /\ PresentKnown
      /\ guardHead \in Nat /\ head.id \in Nat /\ base.id \in Nat
    BY <1>1 DEF SnapshotInv, Progress, TypeOK, Commits
<1>3. todo' \in SUBSET Paths
    BY <1>1, <1>2 DEF TypeOK
<1>4. PhasesInOrder'
    BY <1>1, <1>2 DEF PhasesInOrder, BeforeGuard, Guarding, TypeOK, GitPaths
<1>5. HeadFollowed'
    BY <1>1, <1>2 DEF HeadFollowed, Validating, Written
<1>6. MomentFound'
    BY <1>1, MomentKept DEF Compared, ComparedPath
<1>7. \A p \in Paths : Preflighted(p)' =>
          Preflighted(p) \/ (~Steady(p) /\ (mode = "full" \/ p \notin DOMAIN guard \ Roots))
    BY <1>1, <1>2 DEF Preflighted, Validating, Written
<1>8. \A p \in DOMAIN shipped : Unread(p) => Unread(p)' \/ shipped[p] # Pending
    BY <1>1, <1>2 DEF Unread, Preflighting, Validating, PhasesInOrder, BeforeGuard, Guarding
<1>9. mode = "git_overlay" => \A p \in GitPaths : p \in FilesOfPlan' <=> p \in FilesOfPlan
    BY <1>1, <1>2 DEF FilesOfPlan
<1>10. pc' \in Places \ {"idle", "described", "extract", "ready", "failed"}
    BY <1>1 DEF Places
<1> QED
    BY <1>1, <1>3, <1>4, <1>5, <1>6, <1>7, <1>8, <1>9, <1>10, MoveKeeps

(* A path has kept its identity. *)
LEMMA ValidateIdentityKeeps ==
    ASSUME SnapshotInv, NEW q \in Paths, ValidateIdentity(q), stamp[q] = guard[q]
    PROVE  SnapshotInv'
<1>1. /\ KeepWorkspace /\ UNCHANGED <<planVars, shipped>> /\ storage' \in BOOLEAN
      /\ UNCHANGED <<work, stamp, head, mode, guardHead, base, guard, past>>
      /\ todo' = todo \ {q} /\ pc' = pc /\ pc \in {"ids1", "ids2", "rootIds1", "rootIds2"}
      /\ stamp[q] = guard[q]
    BY DEF ValidateIdentity, KeepWorkspace, workspaceVars, planVars, SnapshotInv, TypeOK
<1>2. /\ TypeOK /\ PhasesInOrder /\ HeadFollowed /\ PresentKnown
      /\ guardHead \in Nat /\ head.id \in Nat /\ base.id \in Nat
    BY <1>1 DEF SnapshotInv, Progress, TypeOK, Commits
<1>3. todo' \in SUBSET Paths
    BY <1>1, <1>2 DEF TypeOK
<1>4. PhasesInOrder'
    BY <1>1, <1>2 DEF PhasesInOrder, BeforeGuard, Guarding, TypeOK, GitPaths
<1>5. HeadFollowed'
    BY <1>1, <1>2 DEF HeadFollowed, Validating, Written
<1>6. MomentFound'
    BY <1>1, MomentKept DEF Compared, ComparedPath, Steady
<1>7. \A p \in Paths : Preflighted(p)' =>
          Preflighted(p) \/ (~Steady(p) /\ (mode = "full" \/ p \notin DOMAIN guard \ Roots))
    BY <1>1, <1>2 DEF Preflighted, Validating, Written
<1>8. \A p \in DOMAIN shipped : Unread(p) => Unread(p)' \/ shipped[p] # Pending
    BY <1>1, <1>2 DEF Unread, Preflighting, Validating, PhasesInOrder, BeforeGuard, Guarding
<1>9. mode = "git_overlay" => \A p \in GitPaths : p \in FilesOfPlan' <=> p \in FilesOfPlan
    BY <1>1, <1>2 DEF FilesOfPlan
<1>10. pc' \in Places \ {"idle", "described", "extract", "ready", "failed"}
    BY <1>1 DEF Places
<1> QED
    BY <1>1, <1>3, <1>4, <1>5, <1>6, <1>7, <1>8, <1>9, <1>10, MoveKeeps

(* The archive is begun: the files are still to be read. *)
LEMMA StartArchiveKeeps ==
    ASSUME SnapshotInv, StartArchive
    PROVE  SnapshotInv'
<1>1. /\ KeepWorkspace /\ UNCHANGED <<planVars, shipped>> /\ storage' \in BOOLEAN
      /\ UNCHANGED <<work, stamp, head, mode, guardHead, base, guard, past>>
      /\ todo' = {p \in DOMAIN shipped : shipped[p] = Pending} /\ pc = "rootIds1" /\ pc' = "archive"
    BY DEF StartArchive, KeepWorkspace, workspaceVars, planVars, SnapshotInv, TypeOK
<1>2. /\ TypeOK /\ PhasesInOrder /\ HeadFollowed /\ PresentKnown
      /\ guardHead \in Nat /\ head.id \in Nat /\ base.id \in Nat
    BY <1>1 DEF SnapshotInv, Progress, TypeOK, Commits
<1>3. todo' \in SUBSET Paths
    BY <1>1, <1>2 DEF TypeOK
<1>4. PhasesInOrder'
    BY <1>1, <1>2 DEF PhasesInOrder, BeforeGuard, Guarding, TypeOK, GitPaths
<1>5. HeadFollowed'
    BY <1>1, <1>2 DEF HeadFollowed, Validating, Written
<1>6. MomentFound'
    BY <1>1, MomentKept DEF Compared, ComparedPath
<1>7. \A p \in Paths : Preflighted(p)' =>
          Preflighted(p) \/ (~Steady(p) /\ (mode = "full" \/ p \notin DOMAIN guard \ Roots))
    BY <1>1, <1>2 DEF Preflighted, Validating, Written
<1>8. \A p \in DOMAIN shipped : Unread(p) => Unread(p)' \/ shipped[p] # Pending
    BY <1>1, <1>2 DEF Unread, Preflighting, Validating, PhasesInOrder, BeforeGuard, Guarding
<1>9. mode = "git_overlay" => \A p \in GitPaths : p \in FilesOfPlan' <=> p \in FilesOfPlan
    BY <1>1, <1>2 DEF FilesOfPlan
<1>10. pc' \in Places \ {"idle", "described", "extract", "ready", "failed"}
    BY <1>1 DEF Places
<1> QED
    BY <1>1, <1>3, <1>4, <1>5, <1>6, <1>7, <1>8, <1>9, <1>10, MoveKeeps

(* The archive is written. *)
LEMMA FinishArchiveKeeps ==
    ASSUME SnapshotInv, FinishArchive
    PROVE  SnapshotInv'
<1>1. /\ KeepWorkspace /\ UNCHANGED <<planVars, shipped>> /\ storage' \in BOOLEAN
      /\ UNCHANGED <<work, stamp, head, mode, guardHead, base, guard, past>>
      /\ todo = {} /\ todo' = todo /\ pc = "archive" /\ pc' = "head2"
    BY DEF FinishArchive, KeepWorkspace, workspaceVars, planVars, SnapshotInv, TypeOK
<1>2. /\ TypeOK /\ PhasesInOrder /\ HeadFollowed /\ PresentKnown
      /\ guardHead \in Nat /\ head.id \in Nat /\ base.id \in Nat
    BY <1>1 DEF SnapshotInv, Progress, TypeOK, Commits
<1>3. todo' \in SUBSET Paths
    BY <1>1, <1>2 DEF TypeOK
<1>4. PhasesInOrder'
    BY <1>1, <1>2 DEF PhasesInOrder, BeforeGuard, Guarding, TypeOK, GitPaths
<1>5. HeadFollowed'
    BY <1>1, <1>2 DEF HeadFollowed, Validating, Written
<1>6. MomentFound'
    BY <1>1, MomentKept DEF Compared, ComparedPath
<1>7. \A p \in Paths : Preflighted(p)' =>
          Preflighted(p) \/ (~Steady(p) /\ (mode = "full" \/ p \notin DOMAIN guard \ Roots))
    BY <1>1, <1>2 DEF Preflighted, Validating, Written
<1>8. \A p \in DOMAIN shipped : Unread(p) => Unread(p)' \/ shipped[p] # Pending
    BY <1>1, <1>2 DEF Unread, Preflighting, Validating, PhasesInOrder, BeforeGuard, Guarding
<1>9. mode = "git_overlay" => \A p \in GitPaths : p \in FilesOfPlan' <=> p \in FilesOfPlan
    BY <1>1, <1>2 DEF FilesOfPlan
<1>10. pc' \in Places \ {"idle", "described", "extract", "ready", "failed"}
    BY <1>1 DEF Places
<1> QED
    BY <1>1, <1>3, <1>4, <1>5, <1>6, <1>7, <1>8, <1>9, <1>10, MoveKeeps

(* Everything was compared once more. *)
LEMMA PublishKeeps ==
    ASSUME SnapshotInv, Publish
    PROVE  SnapshotInv'
<1>1. /\ KeepWorkspace /\ UNCHANGED <<planVars, shipped>> /\ storage' \in BOOLEAN
      /\ UNCHANGED <<work, stamp, head, mode, guardHead, base, guard, past>>
      /\ todo = {} /\ todo' = todo /\ pc = "rootIds2" /\ pc' = "published"
    BY DEF Publish, KeepWorkspace, workspaceVars, planVars, SnapshotInv, TypeOK
<1>2. /\ TypeOK /\ PhasesInOrder /\ HeadFollowed /\ PresentKnown
      /\ guardHead \in Nat /\ head.id \in Nat /\ base.id \in Nat
    BY <1>1 DEF SnapshotInv, Progress, TypeOK, Commits
<1>3. todo' \in SUBSET Paths
    BY <1>1, <1>2 DEF TypeOK
<1>4. PhasesInOrder'
    BY <1>1, <1>2 DEF PhasesInOrder, BeforeGuard, Guarding, TypeOK, GitPaths
<1>5. HeadFollowed'
    BY <1>1, <1>2 DEF HeadFollowed, Validating, Written
<1>6. MomentFound'
    BY <1>1, MomentKept DEF Compared, ComparedPath
<1>7. \A p \in Paths : Preflighted(p)' =>
          Preflighted(p) \/ (~Steady(p) /\ (mode = "full" \/ p \notin DOMAIN guard \ Roots))
    BY <1>1, <1>2 DEF Preflighted, Validating, Written
<1>8. \A p \in DOMAIN shipped : Unread(p) => Unread(p)' \/ shipped[p] # Pending
    BY <1>1, <1>2 DEF Unread, Preflighting, Validating, PhasesInOrder, BeforeGuard, Guarding
<1>9. mode = "git_overlay" => \A p \in GitPaths : p \in FilesOfPlan' <=> p \in FilesOfPlan
    BY <1>1, <1>2 DEF FilesOfPlan
<1>10. pc' \in Places \ {"idle", "described", "extract", "ready", "failed"}
    BY <1>1 DEF Places
<1> QED
    BY <1>1, <1>3, <1>4, <1>5, <1>6, <1>7, <1>8, <1>9, <1>10, MoveKeeps

(* A path of a full capture that is not there is passed over. *)
LEMMA SkipKeeps ==
    ASSUME SnapshotInv, NEW q \in Paths, PreflightMissing(q), pc = "preflight" /\ mode = "full"
    PROVE  SnapshotInv'
<1>1. /\ KeepWorkspace /\ UNCHANGED <<planVars, shipped>> /\ storage' \in BOOLEAN
      /\ UNCHANGED <<work, stamp, head, mode, guardHead, base, guard, past>>
      /\ todo' = todo \ {q} /\ pc = "preflight" /\ pc' = pc /\ work[q] = Absent /\ mode = "full"
    BY DEF PreflightMissing, KeepWorkspace, workspaceVars, planVars, SnapshotInv, TypeOK
<1>2. /\ TypeOK /\ PhasesInOrder /\ HeadFollowed /\ PresentKnown
      /\ guardHead \in Nat /\ head.id \in Nat /\ base.id \in Nat
    BY <1>1 DEF SnapshotInv, Progress, TypeOK, Commits
<1>3. todo' \in SUBSET Paths
    BY <1>1, <1>2 DEF TypeOK
<1>4. PhasesInOrder'
    BY <1>1, <1>2 DEF PhasesInOrder, BeforeGuard, Guarding, TypeOK, GitPaths
<1>5. HeadFollowed'
    BY <1>1, <1>2 DEF HeadFollowed, Validating, Written
<1>6. MomentFound'
    BY <1>1, MomentKept DEF Compared, ComparedPath
<1>7. \A p \in Paths : Preflighted(p)' =>
          Preflighted(p) \/ (~Steady(p) /\ (mode = "full" \/ p \notin DOMAIN guard \ Roots))
    BY <1>1, <1>2 DEF Preflighted, Validating, Written, Steady, PresentKnown
<1>8. \A p \in DOMAIN shipped : Unread(p) => Unread(p)' \/ shipped[p] # Pending
    BY <1>1, <1>2 DEF Unread, Preflighting, Validating, PhasesInOrder, BeforeGuard, Guarding
<1>9. mode = "git_overlay" => \A p \in GitPaths : p \in FilesOfPlan' <=> p \in FilesOfPlan
    BY <1>1, <1>2 DEF FilesOfPlan
<1>10. pc' \in Places \ {"idle", "described", "extract", "ready", "failed"}
    BY <1>1 DEF Places
<1> QED
    BY <1>1, <1>3, <1>4, <1>5, <1>6, <1>7, <1>8, <1>9, <1>10, MoveKeeps

-----------------------------------------------------------------------------
(* The steps that record something. *)

(* git status and the overlay's plan. *)
LEMMA ReadStatusKeeps ==
    ASSUME SnapshotInv, ReadStatus
    PROVE  SnapshotInv'
<1>1. /\ KeepWorkspace /\ pc = "idle" /\ pc' = "described" /\ storage' \in BOOLEAN
      /\ UNCHANGED <<work, stamp, index, head, edits, past, mode, tree, base, guard, shipped>>
      /\ guardHead' = head.id
      /\ deletions' = IF mode = "git_overlay" THEN PlanDeletions ELSE {}
      /\ todo' = IF mode = "git_overlay" THEN PlanFiles ELSE {}
    BY DEF ReadStatus, KeepWorkspace, workspaceVars
<1>2. TypeOK /\ PhasesInOrder /\ head.id \in Nat
    BY <1>1 DEF SnapshotInv, Progress, TypeOK, Commits
<1>3. PlanFiles \subseteq GitPaths /\ PlanDeletions \subseteq GitPaths
    BY RenamesAreStaged DEF PlanFiles, PlanDeletions, Untracked, PlainEntries, Changed
<1>4. TypeOK'
    BY <1>1, <1>2, <1>3 DEF TypeOK, Places, GitPaths
<1>5. PresentKnown' /\ StampsSpent' /\ SeenInPast'
    BY <1>1, WorkspaceKept
<1>6. PhasesInOrder'
    BY <1>1, <1>2, <1>3 DEF PhasesInOrder, BeforeGuard, Guarding
<1>7. ShippedIsCurrent'
    BY <1>1, <1>2 DEF ShippedIsCurrent, PhasesInOrder, BeforeGuard, Preflighted, Steady, Validating,
                      Written
<1>8. HeadFollowed' /\ MomentFound' /\ TreeFollows'
    BY <1>1, <1>2 DEF HeadFollowed, MomentFound, TreeFollows, Validating, Written, Compared
<1>9. PlanHolds'
  <2> SUFFICES ASSUME mode = "git_overlay"
               PROVE  \A p \in GitPaths : PlannedRight(p, FilesOfPlan, deletions, CommitOfPlan.tree, Present)'
      BY <1>1 DEF PlanHolds
  <2>1. FilesOfPlan' = PlanFiles
      BY <1>1, <1>2 DEF FilesOfPlan, PhasesInOrder, BeforeGuard
  <2>2. CommitOfPlan' = head /\ Present' = Present
      BY <1>1 DEF CommitOfPlan, Present
  <2>3. \A p \in GitPaths : PlannedRight(p, PlanFiles, PlanDeletions, head.tree, Present)
      BY <1>2, PlanIsRight
  <2> QED
      BY <1>1, <2>1, <2>2, <2>3 DEF PlannedRight, SourcesOf
<1> QED
    BY <1>4, <1>5, <1>6, <1>7, <1>8, <1>9 DEF SnapshotInv, Progress

(* The commit the overlay is taken against. *)
LEMMA DescribeKeeps ==
    ASSUME SnapshotInv, DescribeRepository
    PROVE  SnapshotInv'
<1>1. /\ KeepWorkspace /\ pc = "described" /\ pc' = "enumerate" /\ base' = head
      /\ UNCHANGED <<work, stamp, index, head, edits, past, mode, tree, todo, guardHead, deletions,
                     guard, shipped, storage>>
    BY DEF DescribeRepository, KeepWorkspace, workspaceVars
<1>2. TypeOK /\ PhasesInOrder /\ HeadFollowed /\ PlanHolds /\ head.id \in Nat /\ guardHead \in Nat
    BY <1>1 DEF SnapshotInv, Progress, TypeOK, Commits
<1>3. TypeOK'
    BY <1>1, <1>2 DEF TypeOK, Places
<1>4. PresentKnown' /\ StampsSpent' /\ SeenInPast'
    BY <1>1, WorkspaceKept
<1>5. PhasesInOrder'
    BY <1>1, <1>2 DEF PhasesInOrder, BeforeGuard, Guarding
<1>6. ShippedIsCurrent'
    BY <1>1, <1>2 DEF ShippedIsCurrent, PhasesInOrder, BeforeGuard, Preflighted, Steady, Validating,
                      Written
<1>7. HeadFollowed' /\ MomentFound' /\ TreeFollows'
    BY <1>1, <1>2 DEF HeadFollowed, MomentFound, TreeFollows, Validating, Written, Compared
<1>8. PlanHolds'
  <2>1. FilesOfPlan' = FilesOfPlan /\ CommitOfPlan' = CommitOfPlan /\ Present' = Present
      BY <1>1 DEF FilesOfPlan, CommitOfPlan, Present
  <2> QED
      BY <1>1, <1>2, <2>1 DEF PlanHolds, PlannedRight, SourcesOf
<1> QED
    BY <1>3, <1>4, <1>5, <1>6, <1>7, <1>8 DEF SnapshotInv, Progress

(* The identity of a path is recorded. *)
LEMMA GuardPathKeeps ==
    ASSUME SnapshotInv, NEW q \in Paths, GuardPath(q)
    PROVE  SnapshotInv'
<1>1. /\ pc \in {"guard", "guardRoots"} /\ pc' = pc /\ NextPath(q) /\ todo' = todo \ {q}
      /\ guard' = [p \in DOMAIN guard \cup {q} |-> IF p = q THEN stamp[q] ELSE guard[p]]
      /\ UNCHANGED <<work, stamp, index, head, edits, past, mode, tree, guardHead, base, deletions,
                     shipped, storage>>
    BY DEF GuardPath, KeepWorkspace, workspaceVars
<1>2. /\ TypeOK /\ PhasesInOrder /\ HeadFollowed /\ PlanHolds /\ PresentKnown /\ StampsSpent
      /\ SeenInPast
    BY <1>1 DEF SnapshotInv, Progress
<1>3. q \in todo
    BY <1>1, <1>2, NextIn
<1>4. /\ DOMAIN guard' = DOMAIN guard \cup {q} /\ guard'[q] = stamp[q]
      /\ \A p \in DOMAIN guard : p # q => guard'[p] = guard[p]
      /\ guard' \in [DOMAIN guard' -> Nat]
    BY <1>1, <1>2 DEF TypeOK
<1>5. TypeOK'
    BY <1>1, <1>2, <1>4 DEF TypeOK
<1>6. PresentKnown'
  <2>1. Present' = Present
      BY <1>1 DEF Present
  <2> QED
      BY <1>1, <1>2, <2>1 DEF PresentKnown
<1>7. StampsSpent'
    BY <1>1, <1>2, <1>4 DEF StampsSpent, Spent
<1>8. SeenInPast'
  <2>1. stamp[q] = Missing => Present \in past /\ Present.work[q] = Absent
      BY <1>2 DEF PresentKnown, Present
  <2>2. \A p \in DOMAIN guard' : guard'[p] = Missing => \E w \in past : w.work[p] = Absent
      BY <1>2, <1>4, <2>1 DEF SeenInPast
  <2> QED
      BY <1>1, <1>2, <2>2 DEF SeenInPast
<1>9. PhasesInOrder'
    BY <1>1, <1>2, <1>3, <1>4 DEF PhasesInOrder, BeforeGuard, Guarding
<1>10. ShippedIsCurrent'
    BY <1>1, <1>2 DEF ShippedIsCurrent, PhasesInOrder, Guarding, Preflighted, Validating, Written
<1>11. HeadFollowed' /\ MomentFound' /\ TreeFollows'
    BY <1>1, <1>2 DEF HeadFollowed, MomentFound, TreeFollows, Validating, Written, Compared
<1>12. PlanHolds'
  <2>1. CommitOfPlan' = CommitOfPlan /\ Present' = Present
      BY <1>1 DEF CommitOfPlan, Present
  <2>2. \A p \in GitPaths : p \in FilesOfPlan' <=> p \in FilesOfPlan
      BY <1>1, <1>2, <1>3, <1>4 DEF FilesOfPlan, PhasesInOrder, GitPaths
  <2> QED
      BY <1>1, <1>2, <2>1, <2>2 DEF PlanHolds, PlannedRight, SourcesOf
<1> QED
    BY <1>5, <1>6, <1>7, <1>8, <1>9, <1>10, <1>11, <1>12 DEF SnapshotInv, Progress

(* A path is found: its link is shipped, or its bytes will be. *)
LEMMA PreflightKeeps ==
    ASSUME SnapshotInv, NEW q \in Paths, Preflight(q)
    PROVE  SnapshotInv'
<1>1. PICK v : v = IF IsLink(work[q]) THEN work[q] ELSE Pending
    OBVIOUS
<1>2. /\ pc \in {"preflight", "preflightRoots"} /\ pc' = pc /\ NextPath(q) /\ todo' = todo \ {q}
      /\ work[q] # Absent
      /\ shipped' = [p \in DOMAIN shipped \cup {q} |-> IF p # q THEN shipped[p] ELSE v]
      /\ UNCHANGED <<work, stamp, index, head, edits, past, mode, tree, guardHead, base, deletions,
                     guard, storage>>
    BY <1>1 DEF Preflight, KeepWorkspace, workspaceVars, planVars
<1>3. /\ TypeOK /\ PhasesInOrder /\ HeadFollowed /\ PlanHolds /\ PresentKnown /\ StampsSpent
      /\ SeenInPast /\ ShippedIsCurrent
    BY <1>2 DEF SnapshotInv, Progress
<1>4. q \in todo
    BY <1>2, <1>3, NextIn
<1>5. v \in Values \cup {Pending} /\ (v = work[q] \/ v = Pending)
    BY <1>1, <1>2, <1>3 DEF TypeOK, Trees
<1>6. /\ DOMAIN shipped' = DOMAIN shipped \cup {q} /\ shipped'[q] = v
      /\ \A p \in DOMAIN shipped : p # q => shipped'[p] = shipped[p]
    BY <1>2
<1>7. shipped' \in [DOMAIN shipped' -> Values \cup {Pending}]
    BY <1>2, <1>3, <1>5, <1>6 DEF TypeOK
<1>8. TypeOK'
    BY <1>2, <1>3, <1>6, <1>7 DEF TypeOK
<1>9. PresentKnown' /\ StampsSpent'
  <2>1. Present' = Present
      BY <1>2 DEF Present
  <2> QED
      BY <1>2, <1>3, <2>1 DEF PresentKnown, StampsSpent, Spent
<1>10. SeenInPast'
  <2>1. Present \in past /\ Present.work[q] # Absent
      BY <1>2, <1>3 DEF PresentKnown, Present
  <2> QED
      BY <1>2, <1>3, <1>6, <2>1 DEF SeenInPast
<1>11. PhasesInOrder'
    BY <1>2, <1>3, <1>4, <1>6 DEF PhasesInOrder, BeforeGuard, Guarding
<1>12. ShippedIsCurrent'
  <2>1. \A p : (Steady(p)' <=> Steady(p)) /\ Unread(p)'
      BY <1>2 DEF Steady, Unread, Preflighting
  <2>2. \A p : Preflighted(p)' => Preflighted(p) \/ p = q
      BY <1>2 DEF Preflighted
  <2> QED
      BY <1>2, <1>3, <1>5, <1>6, <2>1, <2>2 DEF ShippedIsCurrent
<1>13. HeadFollowed' /\ MomentFound' /\ TreeFollows'
    BY <1>2, <1>3 DEF HeadFollowed, MomentFound, TreeFollows, Validating, Written, Compared
<1>14. PlanHolds'
  <2>1. CommitOfPlan' = CommitOfPlan /\ Present' = Present /\ FilesOfPlan' = FilesOfPlan
      BY <1>2 DEF CommitOfPlan, Present, FilesOfPlan
  <2> QED
      BY <1>2, <1>3, <2>1 DEF PlanHolds, PlannedRight, SourcesOf
<1> QED
    BY <1>8, <1>9, <1>10, <1>11, <1>12, <1>13, <1>14 DEF SnapshotInv, Progress

(* The bytes of a file are read. *)
LEMMA ArchiveFileKeeps ==
    ASSUME SnapshotInv, NEW q \in Paths, ArchiveFile(q), IsFile(work[q])
    PROVE  SnapshotInv'
<1>1. /\ pc = "archive" /\ pc' = pc /\ NextPath(q) /\ todo' = todo \ {q}
      /\ shipped' = [shipped EXCEPT ![q] = work[q]]
      /\ UNCHANGED <<work, stamp, index, head, edits, past, mode, tree, guardHead, base, deletions,
                     guard, storage>>
    BY DEF ArchiveFile, KeepWorkspace, workspaceVars, planVars
<1>2. /\ TypeOK /\ PhasesInOrder /\ HeadFollowed /\ PlanHolds /\ PresentKnown /\ StampsSpent
      /\ SeenInPast /\ ShippedIsCurrent
    BY <1>1 DEF SnapshotInv, Progress
<1>3. work[q] \in Values
    BY <1>2 DEF TypeOK, Trees, IsFile
<1>4. /\ DOMAIN shipped' = DOMAIN shipped /\ (q \in DOMAIN shipped => shipped'[q] = work[q])
      /\ \A p \in DOMAIN shipped : p # q => shipped'[p] = shipped[p]
    BY <1>1
<1>5. shipped' \in [DOMAIN shipped' -> Values \cup {Pending}]
    BY <1>1, <1>2, <1>3, <1>4 DEF TypeOK
<1>6. TypeOK'
    BY <1>1, <1>2, <1>4, <1>5 DEF TypeOK
<1>7. PresentKnown' /\ StampsSpent'
  <2>1. Present' = Present
      BY <1>1 DEF Present
  <2> QED
      BY <1>1, <1>2, <2>1 DEF PresentKnown, StampsSpent, Spent
<1>8. SeenInPast'
    BY <1>1, <1>2, <1>4 DEF SeenInPast
<1>9. PhasesInOrder'
    BY <1>1, <1>2, <1>4 DEF PhasesInOrder, BeforeGuard, Guarding
<1>10. ShippedIsCurrent'
  <2>1. \A p : (Steady(p)' <=> Steady(p)) /\ (Preflighted(p)' <=> Preflighted(p))
      BY <1>1 DEF Steady, Preflighted
  <2>2. \A p : Unread(p)' <=> Unread(p) /\ p # q
      BY <1>1 DEF Unread, Preflighting, Validating
  <2> QED
      BY <1>1, <1>2, <1>3, <1>4, <2>1, <2>2 DEF ShippedIsCurrent
<1>11. HeadFollowed' /\ MomentFound' /\ TreeFollows'
    BY <1>1, <1>2 DEF HeadFollowed, MomentFound, TreeFollows, Validating, Written, Compared
<1>12. PlanHolds'
  <2>1. CommitOfPlan' = CommitOfPlan /\ Present' = Present /\ FilesOfPlan' = FilesOfPlan
      BY <1>1 DEF CommitOfPlan, Present, FilesOfPlan
  <2> QED
      BY <1>1, <1>2, <2>1 DEF PlanHolds, PlannedRight, SourcesOf
<1> QED
    BY <1>6, <1>7, <1>8, <1>9, <1>10, <1>11, <1>12 DEF SnapshotInv, Progress

-----------------------------------------------------------------------------
(* The Agent. *)

(* What a step of the Agent leaves alone. *)
LEMMA AgentKeeps ==
    ASSUME SnapshotInv, KeepCapture, pc \in {"published", "extract"}, pc' \in {"extract", "ready"},
           todo' \subseteq DOMAIN shipped, pc' = "ready" => todo' = {}, tree' \in Trees, TreeFollows'
    PROVE  SnapshotInv'
<1>1. UNCHANGED <<work, stamp, index, head, edits, past, mode, guardHead, base, deletions, guard,
                  shipped, storage>>
    BY DEF KeepCapture, workspaceVars, planVars
<1>2. /\ TypeOK /\ PhasesInOrder /\ HeadFollowed /\ PlanHolds /\ PresentKnown /\ StampsSpent
      /\ SeenInPast /\ ShippedIsCurrent /\ MomentFound
    BY DEF SnapshotInv, Progress
<1>3. TypeOK'
    BY <1>1, <1>2 DEF TypeOK, Places
<1>4. PresentKnown' /\ StampsSpent' /\ SeenInPast'
  <2>1. Present' = Present
      BY <1>1 DEF Present
  <2> QED
      BY <1>1, <1>2, <2>1 DEF PresentKnown, StampsSpent, Spent, SeenInPast
<1>5. PhasesInOrder'
    BY <1>1, <1>2 DEF PhasesInOrder, BeforeGuard, Guarding
<1>6. \A p : /\ Steady(p)' <=> Steady(p)
             /\ Preflighted(p) /\ ~Unread(p)' /\ ~Unread(p) /\ ComparedPath(p)
    BY <1>1 DEF Steady, Preflighted, Unread, ComparedPath, Preflighting, Validating, Written
<1>7. ShippedIsCurrent'
    BY <1>1, <1>2, <1>6 DEF ShippedIsCurrent
<1>8. HeadFollowed'
    BY <1>1, <1>2 DEF HeadFollowed, Validating, Written
<1>9. MomentFound'
  <2>1. PICK w \in past : ShowsMoment(w)
      BY <1>2 DEF MomentFound, Compared
  <2>2. ShowsMoment(w)'
      BY <1>1, <1>6, <2>1 DEF ShowsMoment, SourcesOf
  <2> QED
      BY <1>1, <2>2 DEF MomentFound
<1>10. PlanHolds'
  <2>1. CommitOfPlan' = CommitOfPlan /\ Present' = Present /\ FilesOfPlan' = FilesOfPlan
      BY <1>1 DEF CommitOfPlan, Present, FilesOfPlan
  <2> QED
      BY <1>1, <1>2, <2>1 DEF PlanHolds, PlannedRight, SourcesOf
<1> QED
    BY <1>3, <1>4, <1>5, <1>7, <1>8, <1>9, <1>10 DEF SnapshotInv, Progress

(* The Agent begins with the commit's tree, or with nothing. *)
LEMMA StartMaterializeKeeps ==
    ASSUME SnapshotInv, StartMaterialize
    PROVE  SnapshotInv'
<1>1. /\ KeepCapture /\ pc = "published" /\ pc' = "extract" /\ todo' = DOMAIN shipped
      /\ tree' = [p \in Paths |-> IF mode = "full" \/ p \in deletions THEN Absent ELSE base.tree[p]]
      /\ UNCHANGED <<mode, base, deletions, shipped>>
    BY DEF StartMaterialize, KeepCapture, planVars
<1>2. base.tree \in Trees
    BY DEF SnapshotInv, TypeOK, Commits
<1>3. tree' \in Trees
    BY <1>1, <1>2 DEF Trees
<1>4. TreeFollows'
    BY <1>1 DEF TreeFollows, StartingTree
<1> QED
    BY <1>1, <1>3, <1>4, AgentKeeps

(* An entry is extracted: where the commit has no link it goes where it belongs. *)
LEMMA ExtractEntryKeeps ==
    ASSUME SnapshotInv, NEW q \in Paths, ExtractEntry(q)
    PROVE  SnapshotInv'
<1>1. /\ KeepCapture /\ pc = "extract" /\ pc' = pc /\ todo' = todo \ {q} /\ NextPath(q)
      /\ UNCHANGED <<mode, base, deletions, shipped>>
      /\ IF IsLink(shipped[q]) THEN tree' = [tree EXCEPT ![q] = shipped[q]]
                               ELSE tree' = [tree EXCEPT ![WriteTarget(q)] = shipped[q]]
    BY DEF ExtractEntry, KeepCapture, planVars
<1>2. TypeOK /\ PhasesInOrder /\ ShippedIsCurrent /\ TreeFollows
    BY <1>1 DEF SnapshotInv, Progress
<1>3. q \in todo /\ todo \subseteq DOMAIN shipped
    BY <1>1, <1>2, NextIn DEF PhasesInOrder
<1>4. shipped[q] \in Values
    BY <1>1, <1>2, <1>3 DEF ShippedIsCurrent, Unread, Preflighting, Validating
<1>5. WriteTarget(q) \in Paths
  <2>1. tree[q] \in Values \cup {Absent}
      BY <1>2 DEF TypeOK, Trees
  <2> QED
      BY <2>1, KindOfValue DEF WriteTarget, IsLink
<1>6. tree' \in Trees
    BY <1>1, <1>2, <1>4, <1>5 DEF TypeOK, Trees
<1>7. TreeFollows'
  <2> SUFFICES ASSUME ~ThroughLink
               PROVE  \A p \in Paths : tree'[p] = IF p \in DOMAIN shipped \ todo' THEN shipped[p]
                                                                                ELSE StartingTree(p)
      BY <1>1 DEF TreeFollows, ThroughLink, StartingTree
  <2>1. \A p \in Paths : tree[p] = IF p \in DOMAIN shipped \ todo THEN shipped[p] ELSE StartingTree(p)
      BY <1>1, <1>2 DEF TreeFollows
  <2>2. tree[q] = StartingTree(q)
      BY <1>3, <2>1
  <2>3. ~IsLink(tree[q])
    <3>1. CASE mode = "full" \/ q \in deletions
        BY <2>2, <3>1 DEF StartingTree, IsLink
    <3>2. CASE mode # "full" /\ q \notin deletions
        BY <1>2, <1>3, <2>2, <3>2 DEF StartingTree, ThroughLink, TypeOK
    <3> QED
        BY <3>1, <3>2
  <2>4. tree' = [tree EXCEPT ![q] = shipped[q]]
      BY <1>1, <2>3 DEF WriteTarget
  <2>5. tree'[q] = shipped[q] /\ \A p \in Paths : p # q => tree'[p] = tree[p]
      BY <1>2, <2>4 DEF TypeOK, Trees
  <2> QED
      BY <1>1, <1>3, <2>1, <2>5
<1> QED
    BY <1>1, <1>3, <1>6, <1>7, AgentKeeps

(* The hashes are verified, or not. *)
LEMMA VerifyHashesKeeps ==
    ASSUME SnapshotInv, VerifyHashes
    PROVE  SnapshotInv'
<1>1. /\ KeepCapture /\ pc = "extract" /\ pc' \in {"ready", "failed"} /\ todo = {}
      /\ UNCHANGED <<mode, base, deletions, shipped, todo, tree>>
    BY DEF VerifyHashes, KeepCapture, planVars
<1>2. CASE pc' = "ready"
  <2>1. tree' \in Trees
      BY <1>1 DEF SnapshotInv, TypeOK
  <2>2. TreeFollows'
      BY <1>1 DEF SnapshotInv, Progress, TreeFollows, ThroughLink, StartingTree
  <2> QED
      BY <1>1, <1>2, <2>1, <2>2, AgentKeeps
<1>3. CASE pc' = "failed"
  <2>1. KeepWorkspace /\ UNCHANGED <<planVars, shipped>> /\ storage' \in BOOLEAN
      BY <1>1 DEF KeepCapture, KeepWorkspace, SnapshotInv, TypeOK
  <2> QED
      BY <1>1, <1>3, <2>1, FailKeeps
<1> QED
    BY <1>1, <1>2, <1>3

-----------------------------------------------------------------------------
(* The invariant. *)

(* A step of the capture that is refused: the failures of all its phases. *)
LEMMA RefusalKeeps ==
    ASSUME SnapshotInv, KeepWorkspace, Fail
    PROVE  SnapshotInv'
BY FailKeeps DEF Fail

(* Every step of the capture keeps the invariant. *)
LEMMA CaptureKeeps ==
    ASSUME SnapshotInv, Capture
    PROVE  SnapshotInv'
<1>1. CASE ReadStatus
    BY <1>1, ReadStatusKeeps
<1>2. CASE DescribeRepository
    BY <1>2, DescribeKeeps
<1>3. CASE RefuseSource
  <2>1. storage' \in BOOLEAN
      BY <1>3 DEF RefuseSource, SnapshotInv, TypeOK
  <2> QED
      BY <1>3, <2>1, FailKeeps DEF RefuseSource
<1>4. CASE EnumeratePaths
    BY <1>4, EnumerateKeeps
<1>5. CASE GuardRoots
    BY <1>5, GuardRootsKeeps
<1>6. CASE StartPreflight
    BY <1>6, StartPreflightKeeps
<1>7. CASE PreflightRoots
    BY <1>7, PreflightRootsKeeps
<1>8. CASE Admit
  <2>1. CASE Admitted
      BY <1>8, <2>1, AdmitKeeps
  <2>2. CASE ~Admitted
      BY <1>8, <2>2, RefusalKeeps DEF Admit
  <2> QED
      BY <2>1, <2>2
<1>9. ASSUME NEW p \in Paths, GuardPath(p) PROVE SnapshotInv'
    BY <1>9, GuardPathKeeps
<1>10. ASSUME NEW p \in Paths, Preflight(p) PROVE SnapshotInv'
    BY <1>10, PreflightKeeps
<1>11. ASSUME NEW p \in Paths, PreflightMissing(p) PROVE SnapshotInv'
  <2>1. CASE pc = "preflight" /\ mode = "full"
      BY <1>11, <2>1, SkipKeeps
  <2>2. CASE ~(pc = "preflight" /\ mode = "full")
      BY <1>11, <2>2, RefusalKeeps DEF PreflightMissing
  <2> QED
      BY <2>1, <2>2
<1>12. ASSUME NEW p \in Paths, ValidateIdentity(p) PROVE SnapshotInv'
  <2>1. CASE stamp[p] = guard[p]
      BY <1>12, <2>1, ValidateIdentityKeeps
  <2>2. CASE stamp[p] # guard[p]
      BY <1>12, <2>2, RefusalKeeps DEF ValidateIdentity
  <2> QED
      BY <2>1, <2>2
<1>13. ASSUME NEW p \in Paths, ArchiveFile(p) PROVE SnapshotInv'
  <2>1. CASE IsFile(work[p])
      BY <1>13, <2>1, ArchiveFileKeeps
  <2>2. CASE ~IsFile(work[p])
      BY <1>13, <2>2, RefusalKeeps DEF ArchiveFile
  <2> QED
      BY <2>1, <2>2
<1>14. CASE ValidateHead
  <2>1. CASE head.id = guardHead
      BY <1>14, <2>1, ValidateHeadKeeps
  <2>2. CASE head.id # guardHead
      BY <1>14, <2>2, RefusalKeeps DEF ValidateHead
  <2> QED
      BY <2>1, <2>2
<1>15. CASE ValidatePaths
  <2>1. CASE mode = "full" => FullCapturePaths = DOMAIN guard \ Roots
      BY <1>15, <2>1, ValidatePathsKeeps
  <2>2. CASE ~(mode = "full" => FullCapturePaths = DOMAIN guard \ Roots)
      BY <1>15, <2>2, RefusalKeeps DEF ValidatePaths
  <2> QED
      BY <2>1, <2>2
<1>16. CASE ValidateRoots
  <2>1. CASE mode = "full" => RootPaths = DOMAIN guard \cap Roots
      BY <1>16, <2>1, ValidateRootsKeeps
  <2>2. CASE ~(mode = "full" => RootPaths = DOMAIN guard \cap Roots)
      BY <1>16, <2>2, RefusalKeeps DEF ValidateRoots
  <2> QED
      BY <2>1, <2>2
<1>17. CASE StartArchive
    BY <1>17, StartArchiveKeeps
<1>18. CASE WrittenTooLarge
    BY <1>18, RefusalKeeps DEF WrittenTooLarge
<1>19. CASE FinishArchive
    BY <1>19, FinishArchiveKeeps
<1>20. CASE Publish
    BY <1>20, PublishKeeps
<1> QED
    BY <1>1, <1>2, <1>3, <1>4, <1>5, <1>6, <1>7, <1>8, <1>9, <1>10, <1>11, <1>12, <1>13, <1>14,
       <1>15, <1>16, <1>17, <1>18, <1>19, <1>20 DEF Capture

(* So does every step of the Agent. *)
LEMMA MaterializeKeeps ==
    ASSUME SnapshotInv, Materialize
    PROVE  SnapshotInv'
<1>1. ASSUME NEW p \in Paths, ExtractFails(p) PROVE SnapshotInv'
  <2>1. KeepWorkspace /\ UNCHANGED <<planVars, shipped>> /\ storage' \in BOOLEAN
      BY <1>1 DEF ExtractFails, KeepCapture, KeepWorkspace, SnapshotInv, TypeOK
  <2> QED
      BY <1>1, <2>1, FailKeeps DEF ExtractFails
<1> QED
    BY <1>1, StartMaterializeKeeps, ExtractEntryKeeps, VerifyHashesKeeps DEF Materialize

(* A step that changes nothing. *)
LEMMA StutterKeeps ==
    ASSUME SnapshotInv, UNCHANGED vars
    PROVE  SnapshotInv'
<1>1. UNCHANGED <<work, stamp, index, head, edits, past, mode, pc, todo, guardHead, base, deletions,
                  guard, shipped, storage, tree>>
    BY DEF vars, workspaceVars, planVars
<1>2. TypeOK' /\ PresentKnown' /\ StampsSpent' /\ SeenInPast'
    BY <1>1 DEF SnapshotInv, TypeOK, PresentKnown, Present, StampsSpent, Spent, SeenInPast
<1>3. ASSUME pc # "failed" PROVE Progress'
  <2>1. PhasesInOrder' /\ HeadFollowed' /\ TreeFollows'
      BY <1>1, <1>3 DEF SnapshotInv, Progress, PhasesInOrder, HeadFollowed, TreeFollows, ThroughLink,
                        StartingTree
  <2>2. \A p : /\ Steady(p)' <=> Steady(p)
               /\ Preflighted(p)' <=> Preflighted(p)
               /\ Unread(p)' <=> Unread(p)
               /\ ComparedPath(p)' <=> ComparedPath(p)
      BY <1>1 DEF Steady, Preflighted, Unread, ComparedPath
  <2>3. ShippedIsCurrent'
      BY <1>1, <1>3, <2>2 DEF SnapshotInv, Progress, ShippedIsCurrent
  <2>4. MomentFound'
      BY <1>1, <1>3, <2>2 DEF SnapshotInv, Progress, MomentFound, ShowsMoment, SourcesOf
  <2>5. PlanHolds'
    <3>1. CommitOfPlan' = CommitOfPlan /\ Present' = Present /\ FilesOfPlan' = FilesOfPlan
        BY <1>1 DEF CommitOfPlan, Present, FilesOfPlan
    <3> QED
        BY <1>1, <1>3, <3>1 DEF SnapshotInv, Progress, PlanHolds, PlannedRight, SourcesOf
  <2> QED
      BY <2>1, <2>3, <2>4, <2>5 DEF Progress
<1> QED
    BY <1>1, <1>2, <1>3 DEF SnapshotInv

(* It holds of every workspace a capture may begin with. *)
LEMMA InitHolds == Init => SnapshotInv
<1> SUFFICES ASSUME Init PROVE SnapshotInv
    OBVIOUS
<1>1. PICK s \in Starts : /\ work = s.work /\ index = s.index /\ head = [id |-> 0, tree |-> s.head]
                          /\ edits = s.edits /\ mode = s.mode
    BY DEF Init
<1>2. /\ s.mode \in {"full", "git_overlay"} /\ s.edits \in Nat
      /\ s.head \in Trees /\ s.index \in Trees /\ s.work \in Trees
    BY SnapshotAssumption
<1>3. /\ pc = "idle" /\ todo = {} /\ guardHead = 0 /\ base = head /\ deletions = {}
      /\ DOMAIN guard = {} /\ DOMAIN shipped = {} /\ storage = FALSE
      /\ past = {Present}
      /\ tree = [p \in Paths |-> Absent]
    BY DEF Init, Nowhere, Present
<1>4. /\ stamp = [p \in Paths |-> IF work[p] = Absent THEN Missing ELSE 1]
      /\ guard = Nowhere /\ shipped = Nowhere
    BY DEF Init
<1>5. TypeOK
  <2>1. work \in Trees /\ index \in Trees /\ tree \in Trees /\ head \in Commits /\ base \in Commits
      BY <1>1, <1>2, <1>3 DEF Trees, Commits
  <2>2. stamp \in [Paths -> Nat] /\ edits \in Nat /\ mode \in {"full", "git_overlay"}
      BY <1>1, <1>2, <1>4 DEF Missing
  <2>3. past \subseteq Workspaces
      BY <1>3, <2>1 DEF Present, Workspaces
  <2>4. guard \in [DOMAIN guard -> Nat] /\ shipped \in [DOMAIN shipped -> Values \cup {Pending}]
      BY <1>4 DEF Nowhere
  <2> QED
      BY <1>3, <2>1, <2>2, <2>3, <2>4 DEF TypeOK, Places
<1>6. PresentKnown
  <2>1. IsFiniteSet(past)
      BY <1>3, FS_Singleton
  <2> QED
      BY <1>3, <1>4, <2>1 DEF PresentKnown, Missing
<1>7. StampsSpent /\ SeenInPast
    BY <1>3, <1>4 DEF StampsSpent, Spent, SeenInPast, Missing
<1>8. PhasesInOrder
    BY <1>3 DEF PhasesInOrder
<1>9. ShippedIsCurrent
    BY <1>3 DEF ShippedIsCurrent, Steady
<1>10. HeadFollowed /\ MomentFound /\ PlanHolds /\ TreeFollows
    BY <1>3 DEF HeadFollowed, MomentFound, PlanHolds, TreeFollows, Validating, Written, Compared
<1> QED
    BY <1>5, <1>6, <1>7, <1>8, <1>9, <1>10 DEF SnapshotInv, Progress

(* The invariant holds of every capture and rebuild. *)
THEOREM SnapshotInvariant == Spec => []SnapshotInv
<1>1. SnapshotInv /\ [Next]_vars => SnapshotInv'
    BY EditKeeps, CaptureKeeps, MaterializeKeeps, StutterKeeps DEF Next, Done
<1> QED
    BY <1>1, InitHolds, PTL DEF Spec

(* Every variable of the capture and of the Agent keeps its type. *)
THEOREM SnapshotTypeCorrect == Spec => []TypeOK
<1>1. SnapshotInv => TypeOK
    BY DEF SnapshotInv
<1> QED
    BY <1>1, SnapshotInvariant, PTL

(* What is shipped of a guarded path is what it held at the moment the snapshot
   shows, unless the path came and went behind the guard's back. *)
LEMMA MomentOfPath ==
    ASSUME SnapshotInv, pc \in {"published", "extract", "ready"}, NEW w \in past, ShowsMoment(w),
           NEW p \in DOMAIN guard
    PROVE  Flickered(p) \/ ShippedAt(p) = w.work[p]
<1>1. CASE guard[p] # Missing
    BY <1>1 DEF ShowsMoment, ComparedPath, ShippedAt
<1>2. CASE guard[p] = Missing /\ p \in DOMAIN shipped
    BY <1>2 DEF SnapshotInv, SeenInPast, Flickered
<1>3. CASE guard[p] = Missing /\ p \notin DOMAIN shipped
    BY <1>3 DEF Flickered, ShippedAt
<1> QED
    BY <1>1, <1>2, <1>3

(* A capture that is published shows one moment of the workspace, however edits,
   commits and index updates interleave with its calls (captureFullSnapshot,
   captureGitOverlaySnapshot, validateCaptureGuard). *)
THEOREM SnapshotIsOneMoment == Spec => []ShippedIsOneMoment
<1>1. SnapshotInv => ShippedIsOneMoment
  <2> SUFFICES ASSUME SnapshotInv, pc = "published"
               PROVE  \E w \in past :
                          /\ \A p \in DOMAIN guard : Flickered(p) \/ ShippedAt(p) = w.work[p]
                          /\ mode = "full" => DOMAIN guard \ Roots = SourcesOf(w)
      BY DEF ShippedIsOneMoment
  <2>1. PICK w \in past : ShowsMoment(w)
      BY DEF SnapshotInv, Progress, MomentFound, Compared
  <2>2. \A p \in DOMAIN guard : Flickered(p) \/ ShippedAt(p) = w.work[p]
      BY <2>1, MomentOfPath
  <2> QED
      BY <2>1, <2>2 DEF ShowsMoment
<1> QED
    BY <1>1, SnapshotInvariant, PTL

(* The tree an Agent reports ready is the developer's workspace of that moment
   (computeOverlayPlan, applyGitOverlay, materializeFullSnapshot). *)
THEOREM RebuildIsExact == Spec => []RebuiltIsExact
<1>1. SnapshotInv => RebuiltIsExact
  <2> SUFFICES ASSUME SnapshotInv, pc = "ready", ~ThroughLink,
                      mode = "git_overlay" => Cardinality(past) = 1
               PROVE  \E w \in past : \A p \in GitPaths :
                          \/ tree[p] = IF p \in SourcesOf(w) THEN w.work[p] ELSE Absent
                          \/ mode = "git_overlay" /\ p \in IncludeIgnored
                          \/ Flickered(p)
      BY DEF RebuiltIsExact
  <2>1. /\ TypeOK /\ PhasesInOrder /\ ShippedIsCurrent /\ HeadFollowed /\ MomentFound /\ PlanHolds
        /\ TreeFollows /\ PresentKnown /\ SeenInPast
      BY DEF SnapshotInv, Progress
  <2>2. PICK w \in past : ShowsMoment(w)
      BY <2>1 DEF MomentFound, Compared
  <2> SUFFICES ASSUME NEW p \in GitPaths, ~Flickered(p)
               PROVE  \/ tree[p] = IF p \in SourcesOf(w) THEN w.work[p] ELSE Absent
                      \/ mode = "git_overlay" /\ p \in IncludeIgnored
      BY <2>2
  <2>3. p \in Paths /\ p \notin Roots /\ todo = {}
      BY <2>1 DEF GitPaths, PhasesInOrder
  <2>4. tree[p] = IF p \in DOMAIN shipped THEN shipped[p] ELSE StartingTree(p)
      BY <2>1, <2>3 DEF TreeFollows
  <2>5. p \in DOMAIN shipped => p \in DOMAIN guard
      BY <2>1, <2>3 DEF PhasesInOrder
  <2>6. p \in DOMAIN guard => ShippedAt(p) = w.work[p]
      BY <2>2, MomentOfPath
  <2>7. CASE mode = "full"
    <3>1. p \in DOMAIN guard <=> p \in SourcesOf(w)
        BY <2>2, <2>3, <2>7 DEF ShowsMoment
    <3>2. tree[p] = ShippedAt(p)
        BY <2>4, <2>7 DEF ShippedAt, StartingTree
    <3> QED
        BY <2>5, <2>6, <3>1, <3>2 DEF ShippedAt
  <2>8. CASE mode = "git_overlay"
    <3>1. past = {Present} /\ w = Present
      <4>1. PICK x : past = {x}
          BY <2>1, <2>8, FS_Singleton DEF PresentKnown
      <4> QED
          BY <2>1, <4>1 DEF PresentKnown
    <3>2. CommitOfPlan = base /\ FilesOfPlan = DOMAIN guard /\ base.id = guardHead
        BY <2>1 DEF CommitOfPlan, FilesOfPlan, HeadFollowed, Written
    <3>3. PlannedRight(p, DOMAIN guard, deletions, base.tree, Present)
        BY <2>1, <2>8, <3>1, <3>2 DEF PlanHolds
    <3>4. p \in DOMAIN guard => p \in DOMAIN shipped
        BY <2>1, <2>3, <2>8 DEF ShippedIsCurrent, Preflighted, Written
    <3>5. CASE p \in DOMAIN guard
        BY <2>4, <2>6, <3>1, <3>3, <3>4, <3>5 DEF PlannedRight, ShippedAt
    <3>6. CASE p \notin DOMAIN guard
        BY <2>4, <2>5, <2>8, <3>1, <3>3, <3>6 DEF PlannedRight, StartingTree
    <3> QED
        BY <3>5, <3>6
  <2> QED
      BY <2>1, <2>7, <2>8 DEF TypeOK
<1> QED
    BY <1>1, SnapshotInvariant, PTL
=============================================================================
