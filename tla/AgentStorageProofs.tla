-------------------------- MODULE AgentStorageProofs --------------------------
(***************************************************************************)
(* The locks and the published entry of the Agent's build cache, for any   *)
(* number of attempts, cleanups and crashes.                               *)
(***************************************************************************)
EXTENDS AgentStorage, FiniteSetTheorems, TLAPS

(* The attempts past the count of their worktree: none counts twice. *)
Counted == {a \in Attempts : pc[a] \notin {"idle", "fetch", "fetching", "checkout", "counting"}}

(* active_worktree_count is at most the number of worktrees ever counted, so that
   it never reads as "no metadata". *)
CountBounded == worktrees # NoMeta => worktrees <= Cardinality(Counted)

(* The attempt that fetches is at the head of the promise chain. *)
ChainHeld == \A a \in Attempts : pc[a] = "fetching" => chain # <<>> /\ Head(chain) = a

(* Whoever runs or publishes under the lock missed the cache and may write it. *)
MissWrites ==
    /\ \A a \in Attempts : pc[a] \in {"run_miss", "stage", "swap", "promote"} => mode[a] = "miss"
    /\ \A a \in Attempts : mode[a] = "miss" => a \in Writers

(* The attempts whose directory is, was or may become the entry. *)
Sources ==
    {b \in Attempts : \/ entry.origin = b
                      \/ pc[b] \in {"swap", "promote"}
                      \/ \E a \in Attempts : backup[a].origin = b}

(* The attempts that may publish and succeeded, from then on. *)
Trusted ==
    {b \in Writers : /\ outcome[b] = "succeeded" /\ mode[b] = "miss"
                     /\ pc[b] \in {"swap", "promote", "discard", "uncount", "unlock", "untree",
                                   "uncounting", "done", "lost"}}

SourcesTrusted == Sources \subseteq Trusted

KeyInv == MissWrites /\ LiveLockHasHolder /\ SourcesTrusted

(* The inductive invariant. *)
StorageInv == TypeOK /\ CountBounded /\ ChainHeld /\ KeyInv

-----------------------------------------------------------------------------
(* The mirror's count and the promise chain. *)

(* Only the attempts' places and the count matter to the count. *)
LEMMA CountStep ==
    ASSUME TypeOK, CountBounded, Counted \subseteq Counted',
           worktrees' \in {worktrees, 0, NoMeta}
    PROVE  CountBounded' /\ worktrees' \in 0..NoMeta
<1>1. Cardinality(Attempts) \in Nat /\ NoMeta \in Nat
    BY StorageAssumption, FS_CardinalityType DEF NoMeta
<1>2. IsFiniteSet(Counted') /\ IsFiniteSet(Counted)
    BY StorageAssumption, FS_Subset DEF Counted
<1>3. /\ Cardinality(Counted) \in Nat /\ Cardinality(Counted') \in Nat
      /\ Cardinality(Counted) <= Cardinality(Counted')
    BY <1>2, FS_CardinalityType, FS_Subset
<1> QED
    BY <1>1, <1>3 DEF CountBounded, TypeOK

(* A new worktree is counted by an attempt that was not counted before. *)
LEMMA CountUp ==
    ASSUME TypeOK, CountBounded, NEW a \in Attempts, a \notin Counted, Counted' = Counted \cup {a},
           worktrees' = IF worktrees = NoMeta THEN 1 ELSE worktrees + 1
    PROVE  CountBounded' /\ worktrees' \in 0..NoMeta
<1>1. Cardinality(Attempts) \in Nat /\ NoMeta = Cardinality(Attempts) + 1
    BY StorageAssumption, FS_CardinalityType DEF NoMeta
<1>2. IsFiniteSet(Counted) /\ Counted \cup {a} \subseteq Attempts
    BY StorageAssumption, FS_Subset DEF Counted
<1>3. Cardinality(Counted) \in Nat /\ Cardinality(Counted \cup {a}) = Cardinality(Counted) + 1
    BY <1>2, FS_CardinalityType, FS_AddElement
<1>4. Cardinality(Counted \cup {a}) <= Cardinality(Attempts)
    BY <1>2, StorageAssumption, FS_Subset
<1> QED
    BY <1>1, <1>3, <1>4 DEF CountBounded, TypeOK

(* A removed worktree is taken off the count. *)
LEMMA CountDown ==
    ASSUME TypeOK, CountBounded, Counted' = Counted,
           worktrees' = IF worktrees \in {NoMeta, 0} THEN 0 ELSE worktrees - 1
    PROVE  CountBounded' /\ worktrees' \in 0..NoMeta
<1>1. Cardinality(Attempts) \in Nat /\ NoMeta \in Nat
    BY StorageAssumption, FS_CardinalityType DEF NoMeta
<1>2. IsFiniteSet(Counted)
    BY StorageAssumption, FS_Subset DEF Counted
<1>3. Cardinality(Counted) \in Nat
    BY <1>2, FS_CardinalityType
<1> QED
    BY <1>1, <1>3 DEF CountBounded, TypeOK

(* How the chain may change, given who is where afterwards. *)
LEMMA ChainStep ==
    ASSUME TypeOK, ChainHeld, NEW a \in Attempts, NEW p \in Places, Goto(a, p),
           p = "fetching" => chain' = chain /\ MyTurn(a),
           \/ chain' = chain
           \/ chain' = Append(chain, a)
           \/ /\ MyTurn(a) \/ pc[a] = "fetching"
              /\ chain' = Tail(chain) \/ chain' = Append(Tail(chain), a)
    PROVE  chain' \in Seq(Attempts) /\ ChainHeld' /\ pc' \in [Attempts -> Places]
<1>1. pc' = [pc EXCEPT ![a] = p] /\ pc' \in [Attempts -> Places] /\ pc'[a] = p
    BY DEF Goto, TypeOK
<1>2. \A b \in Attempts : b # a => pc'[b] = pc[b]
    BY <1>1 DEF TypeOK
<1>3. chain \in Seq(Attempts)
    BY DEF TypeOK
<1>4. CASE chain' = chain
    BY <1>1, <1>2, <1>3, <1>4 DEF ChainHeld, MyTurn
<1>5. CASE chain' = Append(chain, a) /\ p # "fetching"
  <2>1. chain' \in Seq(Attempts) /\ (chain # <<>> => chain' # <<>> /\ Head(chain') = Head(chain))
      BY <1>3, <1>5
  <2> QED
      BY <1>1, <1>2, <1>5, <2>1 DEF ChainHeld
<1>6. CASE /\ MyTurn(a) \/ pc[a] = "fetching"
           /\ chain' = Tail(chain) \/ chain' = Append(Tail(chain), a)
           /\ p # "fetching"
  <2>1. chain # <<>> /\ Head(chain) = a
      BY <1>6 DEF ChainHeld, MyTurn
  <2>2. chain' \in Seq(Attempts)
    <3>1. Tail(chain) \in Seq(Attempts)
        BY <1>3, <2>1
    <3>2. Append(Tail(chain), a) \in Seq(Attempts)
        BY <3>1
    <3> QED
        BY <1>6, <3>1, <3>2
  <2>3. \A b \in Attempts : pc'[b] # "fetching"
      BY <1>1, <1>2, <1>6, <2>1 DEF ChainHeld
  <2> QED
      BY <1>1, <2>2, <2>3 DEF ChainHeld
<1> QED
    BY <1>4, <1>5, <1>6

-----------------------------------------------------------------------------
(* The key of the build cache. *)

(* A step of one attempt, and what it owes to the lock, the mode and the entry. *)
LEMMA KeyStep ==
    ASSUME TypeOK, KeyInv, NEW a \in Attempts, NEW p \in Places, Goto(a, p),
           \A b \in Attempts \ {a} : mode'[b] = mode[b] /\ outcome'[b] = outcome[b],
           \/ lock' = NoLock
           \/ lock' = [by |-> a, text |-> "empty"]
           \/ lock' = lock /\ (pc[a] \in Holding => p \in Holding)
           \/ lock'.by = a /\ p \in Holding,
           p \in {"run_miss", "stage", "swap", "promote"} => mode'[a] = "miss",
           mode'[a] = "miss" => a \in Writers,
           a \in Trusted => a \in Trusted',
           p \in {"swap", "promote"} => a \in Trusted',
           \/ entry'.origin \in {entry.origin, "absent", "slot", backup[a].origin}
           \/ entry'.origin = a /\ a \in Trusted',
           \A b \in Attempts : backup'[b].origin \in {backup[b].origin, "absent", "slot", entry.origin}
    PROVE  KeyInv'
<1>1. /\ pc'[a] = p /\ \A b \in Attempts : b # a => pc'[b] = pc[b]
    BY DEF Goto, TypeOK
<1>2. MissWrites'
    BY <1>1 DEF KeyInv, MissWrites
<1>3. LiveLockHasHolder'
    BY <1>1 DEF KeyInv, LiveLockHasHolder, NoLock
<1>4. \A b \in Trusted : b \in Trusted'
    BY <1>1, StorageAssumption DEF Trusted
<1>5. ASSUME NEW b \in Sources' PROVE b \in Trusted'
  <2>1. b \in Attempts /\ b \notin {"absent", "slot"}
      BY StorageAssumption DEF Sources
  <2>2. CASE entry'.origin = b
    <3>1. b \in Sources \/ (b = a /\ a \in Trusted')
        BY <2>1, <2>2 DEF Sources
    <3> QED
        BY <1>4, <3>1 DEF KeyInv, SourcesTrusted
  <2>3. CASE pc'[b] \in {"swap", "promote"}
    <3>1. CASE b = a
        BY <1>1, <2>3, <3>1
    <3>2. CASE b # a
      <4>1. b \in Sources
          BY <1>1, <2>1, <2>3, <3>2 DEF Sources
      <4> QED
          BY <1>4, <4>1 DEF KeyInv, SourcesTrusted
    <3> QED
        BY <3>1, <3>2
  <2>4. CASE \E c \in Attempts : backup'[c].origin = b
    <3>1. b \in Sources
        BY <2>1, <2>4 DEF Sources
    <3> QED
        BY <1>4, <3>1 DEF KeyInv, SourcesTrusted
  <2> QED
      BY <2>2, <2>3, <2>4 DEF Sources
<1> QED
    BY <1>2, <1>3, <1>5 DEF KeyInv, SourcesTrusted

-----------------------------------------------------------------------------
(* Steps on the mirror. *)

Early == {"idle", "fetch", "fetching", "checkout", "counting"}

(* An attempt that does not go back before its count stays counted. *)
LEMMA CountedStays ==
    ASSUME TypeOK, NEW a \in Attempts, NEW p \in Places, Goto(a, p), pc[a] \in Early \/ p \notin Early
    PROVE  Counted \subseteq Counted'
BY DEF Goto, TypeOK, Counted, Early

(* The places around the mirror. *)
LEMMA MirrorMoves ==
    ASSUME StorageInv, NEW a \in Attempts, Prepare(a) \/ MirrorStep(a) \/ PrepareFails(a)
    PROVE  /\ UNCHANGED <<mode, outcome, cacheVars, cleanVars, crashes>>
           /\ \E p \in {"fetch", "fetching", "checkout", "counting", "acquire", "untree",
                        "uncounting", "done"} :
                 /\ Goto(a, p)
                 /\ pc[a] \in {"untree", "uncounting"} => p \in {"uncounting", "done"}
                 /\ pc[a] \in Early \/ p \notin Early
                 /\ p = "fetching" => chain' = chain /\ MyTurn(a)
           /\ pc[a] \in {"idle", "fetch", "fetching", "checkout", "counting", "acquire", "untree",
                         "uncounting"}
           /\ \/ chain' = chain
              \/ chain' = Append(chain, a)
              \/ /\ MyTurn(a) \/ pc[a] = "fetching"
                 /\ chain' = Tail(chain) \/ chain' = Append(Tail(chain), a)
           /\ tries' = tries \/ tries' = [tries EXCEPT ![a] = 1]
           /\ {fetchLock', recent', mirror'} \subseteq {TRUE, FALSE, fetchLock, recent, mirror}
           /\ trees' \subseteq trees \cup {a}
<1>1. CASE Prepare(a)
    BY <1>1 DEF Prepare, At, EnterChain, Early
<1>2. CASE LockFetch(a)
    BY <1>2 DEF LockFetch, At, Early
<1>3. CASE Fetched(a)
    BY <1>3 DEF Fetched, At, LeaveChain, Early
<1>4. CASE FetchFailed(a)
    BY <1>4 DEF FetchFailed, SecondTry, At, LeaveChain, Early
<1>5. CASE FetchRefused(a)
    BY <1>5 DEF FetchRefused, SecondTry, At, LeaveChain, Early
<1>6. CASE CreateWorktree(a)
    BY <1>6 DEF CreateWorktree, At, EnterChain, Early
<1>7. CASE CountWorktree(a)
    BY <1>7 DEF CountWorktree, At, LeaveChain, Early
<1>8. CASE RemoveWorktree(a)
    BY <1>8 DEF RemoveWorktree, At, EnterChain, Early
<1>9. CASE UncountWorktree(a)
    BY <1>9 DEF UncountWorktree, At, LeaveChain, Early
<1>10. CASE PrepareFails(a)
    BY <1>10 DEF PrepareFails, At, mirrorVars, Early
<1> QED
    BY <1>1, <1>2, <1>3, <1>4, <1>5, <1>6, <1>7, <1>8, <1>9, <1>10 DEF MirrorStep

(* The mirror keeps its count bounded. *)
LEMMA MirrorCount ==
    ASSUME StorageInv, NEW a \in Attempts, Prepare(a) \/ MirrorStep(a) \/ PrepareFails(a)
    PROVE  CountBounded' /\ worktrees' \in 0..NoMeta
<1> USE DEF StorageInv
<1>1. PICK p \in Places : Goto(a, p) /\ (pc[a] \in Early \/ p \notin Early)
    BY MirrorMoves DEF Places
<1>2. CASE worktrees' \in {worktrees, 0, NoMeta}
    BY <1>1, <1>2, CountedStays, CountStep
<1>3. CASE CountWorktree(a)
  <2>1. pc[a] = "counting" /\ pc' = [pc EXCEPT ![a] = "acquire"]
      BY <1>3 DEF CountWorktree, At, Goto
  <2>2. a \notin Counted /\ Counted' = Counted \cup {a}
      BY <2>1 DEF Counted, TypeOK
  <2> QED
      BY <1>3, <2>2, CountUp DEF CountWorktree
<1>4. CASE UncountWorktree(a)
  <2>1. pc[a] = "uncounting" /\ pc' = [pc EXCEPT ![a] = "done"]
      BY <1>4 DEF UncountWorktree, At, Goto
  <2>2. Counted' = Counted
      BY <2>1 DEF Counted, TypeOK
  <2> QED
      BY <1>4, <2>2, CountDown DEF UncountWorktree
<1> QED
    BY <1>2, <1>3, <1>4 DEF MirrorStep, Prepare, PrepareFails, LockFetch, Fetched, FetchFailed,
        FetchRefused, CreateWorktree, RemoveWorktree, mirrorVars

(* And everything else. *)
LEMMA MirrorKept ==
    ASSUME StorageInv, NEW a \in Attempts, Prepare(a) \/ MirrorStep(a) \/ PrepareFails(a)
    PROVE  StorageInv'
<1> USE DEF StorageInv
<1>1. UNCHANGED <<mode, outcome, lock, entry, backup, seen, sweep, pass, sweeps, crashes>>
    BY MirrorMoves DEF cacheVars, cleanVars
<1>2. PICK p \in {"fetch", "fetching", "checkout", "counting", "acquire", "untree",
                  "uncounting", "done"} :
         /\ Goto(a, p)
         /\ pc[a] \in {"untree", "uncounting"} => p \in {"uncounting", "done"}
         /\ p = "fetching" => chain' = chain /\ MyTurn(a)
    BY MirrorMoves
<1>3. p \in Places
    BY DEF Places
<1>4. chain' \in Seq(Attempts) /\ ChainHeld' /\ pc' \in [Attempts -> Places]
    BY <1>2, <1>3, MirrorMoves, ChainStep
<1>5. pc[a] \in {"idle", "fetch", "fetching", "checkout", "counting", "acquire", "untree",
                 "uncounting"}
    BY MirrorMoves
<1>6. a \in Trusted => a \in Trusted'
    BY <1>1, <1>2, <1>5 DEF Trusted, Goto, TypeOK
<1>7. pc[a] \notin Holding
    BY <1>5 DEF Holding
<1>8. mode'[a] = "miss" => a \in Writers
    BY <1>1 DEF KeyInv, MissWrites
<1>9. KeyInv'
    BY <1>1, <1>2, <1>3, <1>6, <1>7, <1>8, KeyStep
<1>10. CountBounded' /\ worktrees' \in 0..NoMeta
    BY MirrorCount
<1>11. /\ tries' \in [Attempts -> 0..1] /\ trees' \subseteq Attempts
       /\ fetchLock' \in BOOLEAN /\ mirror' \in BOOLEAN /\ recent' \in BOOLEAN
  <2>1. /\ tries' = tries \/ tries' = [tries EXCEPT ![a] = 1]
        /\ trees' \subseteq trees \cup {a}
        /\ {fetchLock', recent', mirror'} \subseteq {TRUE, FALSE, fetchLock, recent, mirror}
      BY MirrorMoves
  <2>2. fetchLock \in BOOLEAN /\ mirror \in BOOLEAN /\ recent \in BOOLEAN
      BY DEF TypeOK
  <2>3. fetchLock' \in BOOLEAN /\ mirror' \in BOOLEAN /\ recent' \in BOOLEAN
      BY <2>1, <2>2, Zenon
  <2>4. tries' \in [Attempts -> 0..1] /\ trees' \subseteq Attempts
      BY <2>1 DEF TypeOK
  <2> QED
      BY <2>3, <2>4
<1>12. TypeOK'
    BY <1>1, <1>4, <1>10, <1>11 DEF TypeOK
<1> QED
    BY <1>4, <1>9, <1>10, <1>12

-----------------------------------------------------------------------------
(* Steps on the key. *)

(* A step of an attempt that is past its worktree leaves the mirror alone. *)
LEMMA PastMirror ==
    ASSUME TypeOK, CountBounded, ChainHeld, NEW a \in Attempts, NEW p \in Places \ Early,
           Goto(a, p), UNCHANGED <<chain, worktrees>>
    PROVE  CountBounded' /\ ChainHeld' /\ pc' \in [Attempts -> Places]
<1>1. Counted \subseteq Counted'
    BY CountedStays
<1>2. p # "fetching"
    BY DEF Early
<1> QED
    BY <1>1, <1>2, CountStep, ChainStep

(* The lock of the key. *)
LEMMA LockKept ==
    ASSUME StorageInv, NEW a \in Attempts, LockStep(a)
    PROVE  StorageInv'
<1> USE DEF StorageInv
<1>1. UNCHANGED <<outcome, mirrorVars, entry, backup, seen, cleanVars, crashes>>
    BY DEF LockStep, OpenLock, WritePid, InspectLock, ReclaimLock, RetryLock, LockTimeout, cacheVars
<1>2. /\ pc[a] \in Locking
      /\ \E p \in Locking \cup {"look", "run", "untree"} :
            /\ Goto(a, p)
            /\ \/ lock' = NoLock
               \/ lock' = [by |-> a, text |-> "empty"]
               \/ lock' = lock
               \/ pc[a] = "writing" /\ lock.by = a /\ p = "look" /\ lock' = [lock EXCEPT !.text = "live"]
      /\ mode' = mode \/ mode' = [mode EXCEPT ![a] = "off"]
    BY DEF LockStep, OpenLock, WritePid, InspectLock, ReclaimLock, RetryLock, LockTimeout, At, Locking,
           cacheVars
<1>3. PICK p \in Locking \cup {"look", "run", "untree"} :
            /\ Goto(a, p)
            /\ \/ lock' = NoLock
               \/ lock' = [by |-> a, text |-> "empty"]
               \/ lock' = lock
               \/ lock.by = a /\ p = "look" /\ lock' = [lock EXCEPT !.text = "live"]
    BY <1>2
<1>4. /\ p \in Places \ Early /\ pc[a] \notin Holding /\ a \notin Trusted
      /\ p \notin {"run_miss", "stage", "swap", "promote"} /\ "look" \in Holding
    BY <1>2 DEF Places, Early, Locking, Holding, Trusted
<1>5. CountBounded' /\ ChainHeld' /\ pc' \in [Attempts -> Places]
    BY <1>1, <1>3, <1>4, PastMirror DEF mirrorVars
<1>6. mode' \in [Attempts -> {"none", "hit", "miss", "off"}] /\ (mode'[a] = "miss" => mode[a] = "miss")
      /\ \A b \in Attempts \ {a} : mode'[b] = mode[b]
    BY <1>2 DEF TypeOK
<1>7. /\ lock' \in [by : Attempts, text : {"empty", "live", "dead"}] \cup {NoLock}
      /\ \/ lock' = NoLock
         \/ lock' = [by |-> a, text |-> "empty"]
         \/ lock' = lock
         \/ lock'.by = a /\ p \in Holding
  <2>1. CASE lock.by = a /\ p = "look" /\ lock' = [lock EXCEPT !.text = "live"]
    <3>1. lock # NoLock
        BY <2>1, StorageAssumption DEF NoLock
    <3> QED
        BY <1>4, <2>1, <3>1 DEF TypeOK
  <2>2. CASE lock' \in {NoLock, [by |-> a, text |-> "empty"], lock}
      BY <2>2 DEF TypeOK
  <2> QED
      BY <1>3, <2>1, <2>2
<1>8. KeyInv'
    BY <1>1, <1>3, <1>4, <1>6, <1>7, KeyStep DEF KeyInv, MissWrites
<1>9. TypeOK'
    BY <1>1, <1>5, <1>6, <1>7 DEF TypeOK, mirrorVars, cleanVars
<1> QED
    BY <1>5, <1>8, <1>9

(* A step on the key, put together. *)
LEMMA UseCore ==
    ASSUME StorageInv, NEW a \in Attempts, NEW p \in Places \ Early, Goto(a, p),
           UNCHANGED <<mirrorVars, cleanVars, crashes>>,
           lock' = NoLock \/ (lock' = lock /\ (pc[a] \in Holding => p \in Holding)),
           entry' \in Entries, backup' \in [Attempts -> Entries], seen' \in [Attempts -> Nat],
           NEW m \in {"none", "hit", "miss", "off"}, mode' = [mode EXCEPT ![a] = m],
           NEW o \in {"none", "succeeded", "failed"}, outcome' = [outcome EXCEPT ![a] = o],
           p \in {"run_miss", "stage", "swap", "promote"} => m = "miss",
           m = "miss" => a \in Writers,
           a \in Trusted =>
              /\ m = "miss" /\ o = "succeeded"
              /\ p \in {"swap", "promote", "discard", "uncount", "unlock", "untree"},
           p \in {"swap", "promote"} => o = "succeeded",
           \/ entry'.origin \in {entry.origin, "absent", "slot", backup[a].origin}
           \/ entry'.origin = a /\ a \in Trusted /\ p = "discard",
           \A b \in Attempts : backup'[b].origin \in {backup[b].origin, "absent", "slot", entry.origin}
    PROVE  StorageInv'
<1> USE DEF StorageInv
<1>1. /\ mode' \in [Attempts -> {"none", "hit", "miss", "off"}] /\ mode'[a] = m
      /\ outcome' \in [Attempts -> {"none", "succeeded", "failed"}] /\ outcome'[a] = o
      /\ \A b \in Attempts \ {a} : mode'[b] = mode[b] /\ outcome'[b] = outcome[b]
    BY DEF TypeOK
<1>2. CountBounded' /\ ChainHeld' /\ pc' \in [Attempts -> Places]
    BY PastMirror DEF mirrorVars
<1>3. pc'[a] = p
    BY DEF Goto, TypeOK
<1>4. a \in Trusted => a \in Trusted'
    BY <1>1, <1>3 DEF Trusted
<1>5. p \in {"swap", "promote"} => a \in Trusted'
    BY <1>1, <1>3 DEF Trusted
<1>6. KeyInv'
    BY <1>1, <1>4, <1>5, KeyStep
<1>7. lock' \in [by : Attempts, text : {"empty", "live", "dead"}] \cup {NoLock}
    BY DEF TypeOK
<1>8. TypeOK'
    BY <1>1, <1>2, <1>7 DEF TypeOK, mirrorVars, cleanVars
<1> QED
    BY <1>2, <1>6, <1>8

(* What the invariant says of an attempt. *)
LEMMA OfAttempt ==
    ASSUME StorageInv, NEW a \in Attempts
    PROVE  /\ mode[a] \in {"none", "hit", "miss", "off"} /\ mode = [mode EXCEPT ![a] = mode[a]]
           /\ outcome[a] \in {"none", "succeeded", "failed"}
           /\ outcome = [outcome EXCEPT ![a] = outcome[a]]
           /\ pc[a] \in {"run_miss", "stage", "swap", "promote"} => mode[a] = "miss"
           /\ mode[a] = "miss" => a \in Writers
           /\ a \in Trusted =>
                 /\ mode[a] = "miss" /\ outcome[a] = "succeeded"
                 /\ pc[a] \in {"swap", "promote", "discard", "uncount", "unlock", "untree",
                               "uncounting", "done", "lost"}
           /\ pc[a] \in {"swap", "promote"} => a \in Trusted
           /\ entry \in Entries /\ backup \in [Attempts -> Entries] /\ seen \in [Attempts -> Nat]
           /\ seen[a] \in Nat /\ backup[a] \in Entries /\ entry.users \in Nat
<1>1. pc[a] \in {"swap", "promote"} => a \in Trusted
    BY DEF StorageInv, KeyInv, SourcesTrusted, Sources
<1>2. a \in Trusted =>
         /\ mode[a] = "miss" /\ outcome[a] = "succeeded"
         /\ pc[a] \in {"swap", "promote", "discard", "uncount", "unlock", "untree",
                       "uncounting", "done", "lost"}
    BY DEF Trusted
<1>3. entry.users \in Nat
    BY DEF StorageInv, TypeOK, Entries
<1> QED
    BY <1>1, <1>2, <1>3 DEF StorageInv, TypeOK, KeyInv, MissWrites

(* The two directories that are no entry. *)
LEMMA NoEntryType ==
    /\ Absent \in Entries /\ Absent.origin = "absent" /\ Slot \in Entries /\ Slot.origin = "slot"
BY DEF Absent, Slot, Entries

(* Taking and looking at the key. *)
LEMMA LookKept ==
    ASSUME StorageInv, NEW a \in Attempts, AcquireForJob(a) \/ Look(a) \/ Stage(a) \/ Discard(a)
    PROVE  StorageInv'
<1>1. /\ mode[a] \in {"none", "hit", "miss", "off"} /\ mode = [mode EXCEPT ![a] = mode[a]]
      /\ outcome[a] \in {"none", "succeeded", "failed"}
      /\ outcome = [outcome EXCEPT ![a] = outcome[a]]
      /\ pc[a] \in {"run_miss", "stage", "swap", "promote"} => mode[a] = "miss"
      /\ mode[a] = "miss" => a \in Writers
      /\ a \in Trusted =>
            /\ mode[a] = "miss" /\ outcome[a] = "succeeded"
            /\ pc[a] \in {"swap", "promote", "discard", "uncount", "unlock", "untree",
                          "uncounting", "done", "lost"}
      /\ entry \in Entries /\ backup \in [Attempts -> Entries] /\ seen \in [Attempts -> Nat]
      /\ entry.users \in Nat
    BY OfAttempt
<1>2. [seen EXCEPT ![a] = entry.users] \in [Attempts -> Nat]
    BY <1>1
<1>3. {"open", "run", "count", "run_miss", "unlock", "uncount", "swap", "discard"} \subseteq Places \ Early
      /\ {"count", "run_miss", "unlock", "uncount", "swap", "discard"} \subseteq Holding
    BY DEF Places, Early, Locking, Holding
<1>4. CASE AcquireForJob(a)
  <2>1. /\ pc[a] = "acquire" /\ lock' = lock /\ backup' = backup /\ seen' = seen /\ outcome' = outcome
        /\ UNCHANGED <<mirrorVars, cleanVars, crashes>>
        /\ entry' = entry \/ entry' = Slot
        /\ \/ Goto(a, "open") /\ mode' = mode
           \/ Goto(a, "run") /\ mode' = [mode EXCEPT ![a] = "off"]
      BY <1>4 DEF AcquireForJob, At
  <2>2. entry' \in Entries /\ entry'.origin \in {entry.origin, "slot"}
      BY <1>1, <2>1, NoEntryType
  <2>3. pc[a] \notin Holding
      BY <2>1 DEF Holding
  <2> QED
      BY <1>1, <1>3, <2>1, <2>2, <2>3, UseCore
<1>5. CASE Look(a)
  <2>1. /\ pc[a] = "look" /\ lock' = lock /\ backup' = backup /\ entry' = entry /\ outcome' = outcome
        /\ UNCHANGED <<mirrorVars, cleanVars, crashes>>
        /\ seen' = [seen EXCEPT ![a] = entry.users]
        /\ \/ Goto(a, "count") /\ mode' = mode
           \/ Goto(a, "run_miss") /\ mode' = [mode EXCEPT ![a] = "miss"] /\ a \in Writers
           \/ Goto(a, "unlock") /\ mode' = [mode EXCEPT ![a] = "off"]
           \/ Goto(a, "uncount") /\ mode' = mode
           \/ Goto(a, "unlock") /\ mode' = mode
      BY <1>5 DEF Look, At
  <2> QED
      BY <1>1, <1>2, <1>3, <2>1, UseCore
<1>6. CASE Stage(a)
  <2>1. /\ pc[a] = "stage" /\ UNCHANGED <<mode, outcome, mirrorVars, cleanVars, crashes>>
        /\ lock' = lock /\ entry' = entry /\ backup' = backup /\ seen' = seen
        /\ (Goto(a, "swap") /\ outcome[a] = "succeeded") \/ Goto(a, "discard")
      BY <1>6 DEF Stage, At, cacheVars
  <2> QED
      BY <1>1, <1>3, <2>1, UseCore
<1>7. CASE Discard(a)
  <2>1. /\ pc[a] = "discard" /\ lock' = lock /\ UNCHANGED <<mode, outcome, mirrorVars, cleanVars, crashes>>
        /\ entry' = entry /\ backup' = backup /\ seen' = [seen EXCEPT ![a] = entry.users]
        /\ Goto(a, "uncount") \/ Goto(a, "unlock")
      BY <1>7 DEF Discard, At
  <2> QED
      BY <1>1, <1>2, <1>3, <2>1, UseCore
<1> QED
    BY <1>4, <1>5, <1>6, <1>7

(* Counting users, unlocking and running. *)
LEMMA RunKept ==
    ASSUME StorageInv, NEW a \in Attempts, CountUser(a) \/ Unlock(a) \/ RunJob(a) \/ UncountUser(a)
    PROVE  StorageInv'
<1>1. /\ mode[a] \in {"none", "hit", "miss", "off"} /\ mode = [mode EXCEPT ![a] = mode[a]]
      /\ outcome[a] \in {"none", "succeeded", "failed"}
      /\ outcome = [outcome EXCEPT ![a] = outcome[a]]
      /\ pc[a] \in {"run_miss", "stage", "swap", "promote"} => mode[a] = "miss"
      /\ mode[a] = "miss" => a \in Writers
      /\ a \in Trusted =>
            /\ mode[a] = "miss" /\ outcome[a] = "succeeded"
            /\ pc[a] \in {"swap", "promote", "discard", "uncount", "unlock", "untree",
                          "uncounting", "done", "lost"}
      /\ entry \in Entries /\ backup \in [Attempts -> Entries] /\ seen \in [Attempts -> Nat]
      /\ seen[a] \in Nat
    BY OfAttempt
<1>2. {"open", "run", "unlock", "stage", "untree"} \subseteq Places \ Early
      /\ {"unlock", "stage"} \subseteq Holding /\ {"count", "uncount"} \subseteq Holding
    BY DEF Places, Early, Locking, Holding
<1>3. \A n \in Nat : [entry EXCEPT !.users = n] \in Entries
                     /\ [entry EXCEPT !.users = n].origin = entry.origin
    BY <1>1 DEF Entries
<1>4. CASE CountUser(a)
  <2>1. /\ pc[a] = "count" /\ lock' = lock /\ backup' = backup /\ seen' = seen /\ Goto(a, "unlock")
        /\ UNCHANGED <<mirrorVars, cleanVars, crashes>>
        /\ entry' = entry \/ entry' = [entry EXCEPT !.users = seen[a] + 1]
        /\ \/ mode' = [mode EXCEPT ![a] = "off"] /\ outcome' = [outcome EXCEPT ![a] = "failed"]
           \/ mode' = [mode EXCEPT ![a] = "hit"] /\ outcome' = outcome
      BY <1>4 DEF CountUser, At
  <2>2. seen[a] + 1 \in Nat
      BY <1>1
  <2>3. entry' \in Entries /\ entry'.origin = entry.origin
      BY <1>1, <1>3, <2>1, <2>2
  <2> QED
      BY <1>1, <1>2, <2>1, <2>3, UseCore
<1>5. CASE Unlock(a)
  <2>1. /\ pc[a] = "unlock" /\ lock' = NoLock /\ backup' = backup /\ seen' = seen
        /\ UNCHANGED <<mode, outcome, mirrorVars, cleanVars, crashes>>
        /\ entry' = entry \/ entry' = Slot
        /\ (Goto(a, "run") /\ outcome[a] = "none") \/ Goto(a, "untree")
      BY <1>5 DEF Unlock, At
  <2>2. entry' \in Entries /\ entry'.origin \in {entry.origin, "slot"}
      BY <1>1, <2>1, NoEntryType
  <2> QED
      BY <1>1, <1>2, <2>1, <2>2, UseCore
<1>6. CASE RunJob(a)
  <2>1. /\ pc[a] \in {"run", "run_miss"} /\ lock' = lock /\ backup' = backup /\ seen' = seen
        /\ UNCHANGED <<mode, mirrorVars, cleanVars, crashes>>
        /\ entry' = entry \/ entry' = Slot
        /\ \/ outcome' = [outcome EXCEPT ![a] = "succeeded"]
           \/ outcome' = [outcome EXCEPT ![a] = "failed"]
      BY <1>6 DEF RunJob
  <2>2. entry' \in Entries /\ entry'.origin \in {entry.origin, "slot"}
      BY <1>1, <2>1, NoEntryType
  <2>3. (mode[a] = "miss" /\ Goto(a, "stage")) \/
        (mode[a] # "miss" /\ (Goto(a, "open") \/ Goto(a, "untree")))
      BY <1>6 DEF RunJob
  <2>4. pc[a] \in Holding => mode[a] = "miss"
      BY <1>1, <2>1 DEF Holding
  <2> QED
      BY <1>1, <1>2, <2>1, <2>2, <2>3, <2>4, UseCore
<1>7. CASE UncountUser(a)
  <2>1. /\ pc[a] = "uncount" /\ lock' = lock /\ backup' = backup /\ seen' = seen /\ Goto(a, "unlock")
        /\ UNCHANGED <<mode, outcome, mirrorVars, cleanVars, crashes>>
        /\ \/ entry' = entry
           \/ entry' = [entry EXCEPT !.users = 0] /\ seen[a] = 0
           \/ entry' = [entry EXCEPT !.users = seen[a] - 1] /\ seen[a] # 0
      BY <1>7 DEF UncountUser, At
  <2>2. seen[a] # 0 => seen[a] - 1 \in Nat
      BY <1>1
  <2>3. entry' \in Entries /\ entry'.origin = entry.origin
      BY <1>1, <1>3, <2>1, <2>2
  <2> QED
      BY <1>1, <1>2, <2>1, <2>3, UseCore
<1> QED
    BY <1>4, <1>5, <1>6, <1>7

(* Publishing. *)
LEMMA PublishKept ==
    ASSUME StorageInv, NEW a \in Attempts, Swap(a) \/ Promote(a) \/ PromoteFails(a)
    PROVE  StorageInv'
<1>1. /\ mode[a] \in {"none", "hit", "miss", "off"} /\ mode = [mode EXCEPT ![a] = mode[a]]
      /\ outcome[a] \in {"none", "succeeded", "failed"}
      /\ outcome = [outcome EXCEPT ![a] = outcome[a]]
      /\ mode[a] = "miss" => a \in Writers
      /\ a \in Trusted => mode[a] = "miss" /\ outcome[a] = "succeeded"
      /\ pc[a] \in {"swap", "promote"} => a \in Trusted
      /\ entry \in Entries /\ backup \in [Attempts -> Entries] /\ seen \in [Attempts -> Nat]
      /\ backup[a] \in Entries
    BY OfAttempt
<1>2. {"promote", "discard"} \subseteq Places \ Early /\ {"promote", "discard"} \subseteq Holding
    BY DEF Places, Early, Holding
<1>3. /\ pc[a] \in {"swap", "promote"} /\ a \in Trusted /\ lock' = lock /\ seen' = seen
      /\ UNCHANGED <<mode, outcome, mirrorVars, cleanVars, crashes>>
    BY <1>1 DEF Swap, Promote, PromoteFails, At
<1>4. ASSUME NEW e \in Entries, backup' = [backup EXCEPT ![a] = e]
      PROVE  backup' \in [Attempts -> Entries] /\ backup'[a] = e
             /\ \A b \in Attempts : b # a => backup'[b] = backup[b]
    BY <1>1, <1>4
<1>5. CASE Swap(a)
  <2>1. Goto(a, "promote") /\ backup' = [backup EXCEPT ![a] = entry] /\ entry' = Absent
      BY <1>5 DEF Swap
  <2>2. /\ backup' \in [Attempts -> Entries]
        /\ \A b \in Attempts : backup'[b].origin \in {backup[b].origin, entry.origin}
      BY <1>1, <1>4, <2>1
  <2> QED
      BY <1>1, <1>2, <1>3, <2>1, <2>2, NoEntryType, UseCore
<1>6. CASE Promote(a) \/ PromoteFails(a)
  <2>1. /\ Goto(a, "discard") /\ backup' = [backup EXCEPT ![a] = Absent]
        /\ entry' \in {[origin |-> a, users |-> 1], entry, backup[a]}
      BY <1>6 DEF Promote, PromoteFails
  <2>2. /\ backup' \in [Attempts -> Entries]
        /\ \A b \in Attempts : backup'[b].origin \in {backup[b].origin, "absent"}
      BY <1>4, <2>1, NoEntryType
  <2>3. [origin |-> a, users |-> 1] \in Entries
      BY DEF Entries
  <2>4. entry' \in Entries /\ entry'.origin \in {a, entry.origin, backup[a].origin}
      BY <1>1, <2>1, <2>3
  <2> QED
      BY <1>1, <1>2, <1>3, <2>1, <2>2, <2>4, UseCore
<1> QED
    BY <1>5, <1>6

-----------------------------------------------------------------------------
(* The cleanup and the environment. *)

(* A cleanup may take the mirror, the entry and the lock away, and gives nothing. *)
LEMMA CleanKept ==
    ASSUME StorageInv, NEW c \in Cleaners, StartCleanup(c) \/ CleanStep(c)
    PROVE  StorageInv'
<1> USE DEF StorageInv
<1>1. /\ UNCHANGED <<pc, mode, outcome, crashes, tries, chain, trees, backup, seen>>
      /\ lock' = lock \/ lock' = NoLock
      /\ entry' = entry \/ entry' = Absent
      /\ worktrees' = worktrees \/ worktrees' = NoMeta
    BY DEF StartCleanup, CleanStep, EvictRepo, EvictScan, EvictReclaim, EvictMeta, EvictDelete,
           EvictUnlock, UnchangedByCleaner, mirrorVars, cacheVars
<1>3. fetchLock' \in BOOLEAN /\ mirror' \in BOOLEAN /\ recent' \in BOOLEAN
  <2>1. CASE UNCHANGED <<fetchLock, mirror, recent>>
      BY <2>1 DEF TypeOK
  <2>2. CASE EvictRepo(c)
      BY <2>2 DEF EvictRepo
  <2> QED
      BY <2>1, <2>2 DEF StartCleanup, CleanStep, EvictScan, EvictReclaim, EvictMeta, EvictDelete,
           EvictUnlock, mirrorVars
<1>4. /\ \E p \in {"idle", "repo", "scan", "reclaim", "meta", "delete", "unlock"} : CleanTo(c, p)
      /\ pass' = pass \/ pass' = [pass EXCEPT ![c] = 1] \/ pass' = [pass EXCEPT ![c] = 2]
    BY DEF StartCleanup, CleanStep, EvictRepo, EvictScan, EvictReclaim, EvictMeta, EvictDelete,
           EvictUnlock
<1>5. /\ sweep' \in [Cleaners -> {"idle", "repo", "scan", "reclaim", "meta", "delete", "unlock"}]
      /\ pass' \in [Cleaners -> 1..2]
  <2>1. PICK p \in {"idle", "repo", "scan", "reclaim", "meta", "delete", "unlock"} : CleanTo(c, p)
      BY <1>4
  <2>2. sweep' = [sweep EXCEPT ![c] = p]
      BY <2>1 DEF CleanTo
  <2>3. sweep' \in [Cleaners -> {"idle", "repo", "scan", "reclaim", "meta", "delete", "unlock"}]
      BY <2>2 DEF TypeOK
  <2>4. pass' \in [Cleaners -> 1..2]
    <3>1. pass \in [Cleaners -> 1..2] /\ 1 \in 1..2 /\ 2 \in 1..2
        BY DEF TypeOK
    <3>2. \A n \in 1..2 : [pass EXCEPT ![c] = n] \in [Cleaners -> 1..2]
        BY <3>1, Zenon
    <3> QED
        BY <1>4, <3>1, <3>2, Zenon
  <2> QED
      BY <2>3, <2>4
<1>6. sweeps' \in 0..MaxSweeps
  <2>1. sweeps' = sweeps \/ (sweeps < MaxSweeps /\ sweeps' = sweeps + 1)
      BY DEF StartCleanup, CleanStep, EvictRepo, EvictScan, EvictReclaim, EvictMeta, EvictDelete,
           EvictUnlock
  <2> QED
      BY <2>1, StorageAssumption DEF TypeOK
<1>7. CountBounded' /\ worktrees' \in 0..NoMeta
  <2>1. Counted' = Counted
      BY <1>1 DEF Counted
  <2> QED
      BY <1>1, <2>1, CountStep
<1>8. ChainHeld'
    BY <1>1 DEF ChainHeld
<1>9. MissWrites' /\ Trusted' = Trusted
    BY <1>1 DEF KeyInv, MissWrites, Trusted
<1>10. LiveLockHasHolder'
    BY <1>1 DEF KeyInv, LiveLockHasHolder, NoLock
<1>11. Sources' \subseteq Sources
    BY <1>1, NoEntryType, StorageAssumption DEF Sources
<1>12. KeyInv'
    BY <1>9, <1>10, <1>11 DEF KeyInv, SourcesTrusted
<1>13. TypeOK'
    BY <1>1, <1>3, <1>5, <1>6, <1>7, NoEntryType DEF TypeOK
<1> QED
    BY <1>7, <1>8, <1>12, <1>13

(* Two weeks pass. *)
LEMMA AgeKept ==
    ASSUME StorageInv, Age
    PROVE  StorageInv'
<1> USE DEF StorageInv
<1>1. /\ UNCHANGED <<pc, mode, outcome, tries, chain, fetchLock, mirror, trees, worktrees, lock, entry,
                     backup, seen, sweep, pass, sweeps, crashes>>
      /\ recent' = FALSE
    BY DEF Age, cacheVars, cleanVars
<1>2. TypeOK'
    BY <1>1 DEF TypeOK
<1>3. CountBounded' /\ ChainHeld'
    BY <1>1 DEF CountBounded, Counted, ChainHeld
<1>4. KeyInv'
    BY <1>1 DEF KeyInv, MissWrites, LiveLockHasHolder, SourcesTrusted, Sources, Trusted
<1> QED
    BY <1>2, <1>3, <1>4

(* A crash forgets the promises, and its locks name no live process. *)
LEMMA CrashKept ==
    ASSUME StorageInv, Crash
    PROVE  StorageInv'
<1> USE DEF StorageInv
<1>1. /\ UNCHANGED <<mode, outcome, tries, fetchLock, mirror, worktrees, recent, entry, backup, seen,
                     pass, sweeps>>
      /\ pc' = [a \in Attempts |-> IF pc[a] \in {"idle", "done"} THEN pc[a] ELSE "lost"]
      /\ chain' = <<>> /\ trees' = {}
      /\ lock' = IF lock.text = "live" THEN [lock EXCEPT !.text = "dead"] ELSE lock
      /\ sweep' = [c \in Cleaners |-> "idle"]
      /\ crashes < MaxCrashes /\ crashes' = crashes + 1
    BY DEF Crash
<1>2. \A a \in Attempts : pc'[a] = pc[a] \/ pc'[a] = "lost"
    BY <1>1
<1>3. pc' \in [Attempts -> Places] /\ sweep' \in [Cleaners -> {"idle", "repo", "scan", "reclaim",
         "meta", "delete", "unlock"}] /\ chain' \in Seq(Attempts) /\ trees' \subseteq Attempts
    BY <1>1 DEF TypeOK, Places
<1>4. crashes' \in 0..MaxCrashes
    BY <1>1, StorageAssumption DEF TypeOK
<1>5. lock' \in [by : Attempts, text : {"empty", "live", "dead"}] \cup {NoLock} /\ lock'.text # "live"
  <2>1. CASE lock = NoLock
      BY <1>1, <2>1 DEF NoLock
  <2>2. CASE lock # NoLock /\ lock.text = "live"
    <3>1. lock \in [by : Attempts, text : {"empty", "live", "dead"}]
        BY <2>2 DEF TypeOK
    <3>2. lock' = [lock EXCEPT !.text = "dead"]
        BY <1>1, <2>2
    <3> QED
        BY <3>1, <3>2
  <2>3. CASE lock # NoLock /\ lock.text # "live"
      BY <1>1, <2>3 DEF TypeOK
  <2> QED
      BY <2>1, <2>2, <2>3
<1>6. TypeOK'
    BY <1>1, <1>3, <1>4, <1>5 DEF TypeOK
<1>7. Counted \subseteq Counted'
    BY <1>1 DEF Counted
<1>8. CountBounded'
    BY <1>1, <1>7, CountStep
<1>9. ChainHeld'
    BY <1>1 DEF ChainHeld
<1>10. MissWrites'
    BY <1>1, <1>2 DEF KeyInv, MissWrites
<1>11. LiveLockHasHolder'
    BY <1>5 DEF LiveLockHasHolder
<1>12. Sources' \subseteq Sources
    BY <1>1, <1>2 DEF Sources
<1>13. Trusted \subseteq Trusted'
    BY <1>1, <1>2, StorageAssumption DEF Trusted
<1>14. KeyInv'
    BY <1>10, <1>11, <1>12, <1>13 DEF KeyInv, SourcesTrusted
<1> QED
    BY <1>6, <1>8, <1>9, <1>14

-----------------------------------------------------------------------------
(* The specification. *)

(* An Agent that was never used. *)
LEMMA StorageInit == Init => StorageInv
<1> SUFFICES ASSUME Init PROVE StorageInv
    OBVIOUS
<1> USE DEF Init
<1>1. Cardinality(Attempts) \in Nat
    BY StorageAssumption, FS_CardinalityType
<1>2. worktrees \in 0..NoMeta
    BY <1>1 DEF NoMeta
<1>3. pc \in [Attempts -> Places]
    BY DEF Places
<1>4. TypeOK
  <2>1. crashes \in 0..MaxCrashes /\ sweeps \in 0..MaxSweeps
      BY StorageAssumption
  <2>2. /\ mode \in [Attempts -> {"none", "hit", "miss", "off"}]
        /\ outcome \in [Attempts -> {"none", "succeeded", "failed"}]
        /\ tries \in [Attempts -> 0..1] /\ seen \in [Attempts -> Nat] /\ chain \in Seq(Attempts)
      OBVIOUS
  <2>3. /\ sweep \in [Cleaners -> {"idle", "repo", "scan", "reclaim", "meta", "delete", "unlock"}]
        /\ pass \in [Cleaners -> 1..2]
      OBVIOUS
  <2>4. entry \in Entries /\ backup \in [Attempts -> Entries]
      BY NoEntryType
  <2> QED
      BY <1>2, <1>3, <2>1, <2>2, <2>3, <2>4 DEF TypeOK
<1>5. CountBounded /\ ChainHeld
    BY DEF CountBounded, ChainHeld
<1>6. MissWrites /\ LiveLockHasHolder
    BY DEF MissWrites, LiveLockHasHolder, NoLock
<1>7. Sources = {}
    BY NoEntryType, StorageAssumption DEF Sources
<1> QED
    BY <1>4, <1>5, <1>6, <1>7 DEF StorageInv, KeyInv, SourcesTrusted

(* Every step keeps the invariant. *)
LEMMA StorageNext == StorageInv /\ [Next]_vars => StorageInv'
<1> SUFFICES ASSUME StorageInv, [Next]_vars PROVE StorageInv'
    OBVIOUS
<1>1. ASSUME NEW a \in Attempts, Prepare(a) \/ MirrorStep(a) \/ PrepareFails(a) PROVE StorageInv'
    BY <1>1, MirrorKept
<1>2. ASSUME NEW a \in Attempts, LockStep(a) PROVE StorageInv'
    BY <1>2, LockKept
<1>3. ASSUME NEW a \in Attempts, UseStep(a) PROVE StorageInv'
    BY <1>3, LookKept, RunKept, PublishKept DEF UseStep
<1>4. ASSUME NEW c \in Cleaners, StartCleanup(c) \/ CleanStep(c) PROVE StorageInv'
    BY <1>4, CleanKept
<1>5. CASE Age
    BY <1>5, AgeKept
<1>6. CASE Crash
    BY <1>6, CrashKept
<1>7. CASE UNCHANGED vars
  <2> USE <1>7 DEF vars, mirrorVars, cacheVars, cleanVars
  <2>1. TypeOK' /\ CountBounded' /\ ChainHeld'
      BY DEF StorageInv, TypeOK, CountBounded, Counted, ChainHeld
  <2>2. KeyInv'
      BY DEF StorageInv, KeyInv, MissWrites, LiveLockHasHolder, SourcesTrusted, Sources, Trusted
  <2> QED
      BY <2>1, <2>2 DEF StorageInv
<1> QED
    BY <1>1, <1>2, <1>3, <1>4, <1>5, <1>6, <1>7 DEF Next

(* The invariant holds throughout. *)
THEOREM StorageInvariant == Spec => []StorageInv
<1> QED
    BY StorageInit, StorageNext, PTL DEF Spec

(* The mirror's metadata, the chain of promises, the key's lock and entry keep
   their types; in particular active_worktree_count never goes below zero, and
   never above the number of attempts. *)
THEOREM StorageTypeCorrect == Spec => []TypeOK
<1>1. StorageInv => TypeOK
    BY DEF StorageInv
<1> QED
    BY <1>1, StorageInvariant, PTL

(* A lock file that names a live process has a holder that will remove it, for
   any number of attempts, cleanups and crashes (acquireExclusiveLock,
   reclaimStaleLockIfNeeded, release). *)
THEOREM LiveLockIsHeld == Spec => []LiveLockHasHolder
<1>1. StorageInv => LiveLockHasHolder
    BY DEF StorageInv, KeyInv
<1> QED
    BY <1>1, StorageInvariant, PTL

(* What is published comes from an attempt that succeeded and may write, through
   every swap, roll-back, eviction and stolen lock (publishIfAllowed). *)
THEOREM PublishedIsTrusted == Spec => []EntryIsTrusted
<1>1. StorageInv => EntryIsTrusted
  <2> SUFFICES ASSUME StorageInv, Published(entry)
               PROVE  entry.origin \in Writers /\ outcome[entry.origin] = "succeeded"
      BY DEF EntryIsTrusted
  <2>1. entry.origin \in Sources
      BY DEF Published, Sources
  <2>2. entry.origin \in Trusted
      BY <2>1 DEF StorageInv, KeyInv, SourcesTrusted
  <2> QED
      BY <2>2 DEF Trusted
<1> QED
    BY <1>1, StorageInvariant, PTL

(* At most one attempt is between taking fetch.lock and removing it: the
   in-process chain of withRepoMutex gives the mutual exclusion, whatever has
   become of the file. *)
OneFetcher ==
    \A a, b \in Attempts : pc[a] = "fetching" /\ pc[b] = "fetching" => a = b

(* Two attempts never run git fetch in one mirror at a time. *)
THEOREM FetchesAreExclusive == Spec => []OneFetcher
<1>1. StorageInv => OneFetcher
    BY DEF StorageInv, ChainHeld, OneFetcher
<1> QED
    BY <1>1, StorageInvariant, PTL
=============================================================================
