------------------------ MODULE MCWorkspaceSnapshot ------------------------
(***************************************************************************)
(* Paths 1 and 2 are ordinary files of the repository, 3 is ignored but    *)
(* asked for, 4 lies under an additional root.                             *)
(***************************************************************************)
EXTENDS WorkspaceSnapshot

A == [file |-> "a"]
B == [file |-> "b"]
L == [link |-> 2]
MCValues == {A, B, L}

At2(x, y) == [p \in Paths |-> CASE p = 1 -> x [] p = 2 -> y [] OTHER -> Absent]

\* What two tracked or untracked paths can be like: every combination over one
\* content for an overlay without edits, the typical ones while edits go on.
Dirty ==
    {[mode |-> m, edits |-> 0, head |-> At2(h1, h2), index |-> At2(i1, i2),
      work |-> At2(w1, w2)] :
        m \in {"git_overlay", "full"},
        h1 \in {Absent, A}, i1 \in {Absent, A, B}, w1 \in {Absent, A, B},
        h2 \in {Absent, A}, i2 \in {Absent, A}, w2 \in {Absent, A, B}}

Linked ==
    {[mode |-> "git_overlay", edits |-> 0, head |-> At2(h, A), index |-> At2(h, A),
      work |-> At2(w, A)] : h \in {Absent, A, L}, w \in {A, B, L}}

Restless ==
    {[mode |-> m, edits |-> 3, head |-> At2(A, A), index |-> At2(A, A),
      work |-> [At2(w, A) EXCEPT ![3] = x, ![4] = A]] :
        m \in {"git_overlay", "full"}, w \in {B, L}, x \in {Absent, B}}

MCStarts == Dirty \cup Linked \cup Restless

\* Two tracked paths that were deleted from the working tree and come and go as
\* links while the capture runs.
FlickerValues == {A, [link |-> 1], [link |-> 2]}
Flickering ==
    {[mode |-> "full", edits |-> 4, head |-> At2(A, A), index |-> At2(A, A),
      work |-> At2(Absent, Absent)]}
=============================================================================
