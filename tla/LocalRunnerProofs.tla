-------------------------- MODULE LocalRunnerProofs --------------------------
(***************************************************************************)
(* The local runner keeps its promises for any set of jobs, any number of  *)
(* dispatches and waiting clients, and any number of slots; and it         *)
(* implements ExecutionGate.                                               *)
(***************************************************************************)
EXTENDS LocalRunner, FiniteSetTheorems, TLAPS

(* The jobs that were ever queued. *)
Lined == {line[i] : i \in 1..Len(line)}

(* A task that is not idle is at a row, and its rows are jobs that were queued
   at some time, which is only ever done to a job that needs no confirmation
   any more. *)
RowsQueued ==
    /\ \A t \in Tasks : pc[t] # "idle" => rows[t] # <<>>
    /\ \A t \in Tasks : \A i \in 1..Len(rows[t]) : rows[t][i] \in Lined
    /\ \A j \in Jobs : j \in Lined => state[j] \notin {"unborn", "awaiting_confirmation"}

(* The places of a run before its process, with a process that may be alive, and
   behind its end. *)
Preparing == {"setup", "materializing", "scripting", "starting"}
WithProcess == {"spawned", "executing", "draining"}
Working == Preparing \cup WithProcess \cup {"collecting"}
Running == Working \cup {"reporting", "failing"}

(* Only a job that may run on the host gets that far, and only from the line. *)
LocalOnly ==
    /\ \A t \in Tasks : pc[t] \in Running \cup {"queueing", "admitted"} =>
          "local_fallback" \in Decision[JobOf(t)]
    /\ \A j \in Jobs : attempt[j] # "none" => "local_fallback" \in Decision[j] /\ j \in Lined

(* The attempt row lets one task run a job. *)
OneRunner ==
    /\ \A t \in Tasks : pc[t] \in Running => attempt[JobOf(t)] # "none"
    /\ \A t, u \in Tasks :
          pc[t] \in Running /\ pc[u] \in Running /\ JobOf(t) = JobOf(u) => t = u

(* Where the process is, as seen from its run. *)
ProcessOfRun ==
    /\ \A j \in Jobs : attempt[j] = "none" => proc[j] = "none"
    /\ \A t \in Tasks :
          /\ pc[t] \in Preparing => proc[JobOf(t)] = "none"
          /\ pc[t] \in WithProcess => proc[JobOf(t)] # "none"
          /\ pc[t] \in {"collecting", "reporting"} => Exited(JobOf(t))

(* Only a cancellation ends a job under its run, and at its end the run finds or
   makes the job terminal. *)
RowOfRun ==
    \A t \in Tasks :
        /\ pc[t] \in Working /\ Terminal(JobOf(t)) => outcome[JobOf(t)] = "cancelled"
        /\ pc[t] \in {"reporting", "failing"} => Terminal(JobOf(t))

(* A process without a run is left by one that failed. *)
Survivors ==
    \A j \in Jobs : proc[j] \in {"alive", "dying"} =>
        \/ \E t \in Tasks : pc[t] \in WithProcess /\ JobOf(t) = j
        \/ state[j] = "completed" /\ outcome[j] \in {"failed", "cancelled"}

(* A success was won by a run. *)
SuccessWasRun ==
    \A j \in Jobs : Terminal(j) /\ outcome[j] = "succeeded" => attempt[j] # "none"

Holders == {t \in Tasks : pc[t] \in Holding}

(* Every holder of a slot is counted. *)
SlotsCounted == Cardinality(Holders) <= admissionActive

(* A waiter that has subscribed is a listener or was woken; one that has parked
   saw the job after that. *)
Subscribed ==
    \A w \in Waiters : wpc[w] = "rereading" => w \in woken \/ w \in listeners[wjob[w]]

(* A client that was told of a success has gone. *)
ToldIsAnswered ==
    \A w \in Waiters : told[w] = "succeeded" => wpc[w] = "answered"

(* The run of a job, for the proof of its end. *)
RunInv ==
    /\ LocalOnly /\ OneRunner /\ ProcessOfRun /\ RowOfRun /\ Survivors /\ SuccessWasRun

-----------------------------------------------------------------------------
(* Sequences and the steps of a task. *)

(* The row a busy task is at is a job that was queued. *)
LEMMA JobOfTask ==
    ASSUME TypeOK, RowsQueued, NEW t \in Tasks, pc[t] # "idle"
    PROVE  JobOf(t) \in Jobs /\ JobOf(t) \in Lined
<1>1. rows[t] \in Seq(Jobs) /\ rows[t] # <<>>
    BY DEF TypeOK, RowsQueued
<1>2. JobOf(t) = rows[t][1] /\ 1 \in 1..Len(rows[t])
    BY <1>1 DEF JobOf
<1> QED
    BY <1>1, <1>2 DEF RowsQueued

(* The loop of a task takes its next row, or ends. *)
LEMMA ReturnRows ==
    ASSUME TypeOK, RowsQueued, NEW t \in Tasks, pc[t] # "idle", Return(t) \/ Throw(t)
    PROVE  /\ rows' \in [Tasks -> Seq(Jobs)] /\ pc' \in [Tasks -> TaskStates]
           /\ \A u \in Tasks : u # t => rows'[u] = rows[u] /\ pc'[u] = pc[u]
           /\ pc'[t] \in {"idle", "deciding"}
           /\ pc'[t] # "idle" => rows'[t] # <<>>
           /\ \A i \in 1..Len(rows'[t]) : i + 1 \in 1..Len(rows[t]) /\ rows'[t][i] = rows[t][i + 1]
<1>1. rows[t] \in Seq(Jobs) /\ rows[t] # <<>>
    BY DEF TypeOK, RowsQueued
<1>2. /\ Tail(rows[t]) \in Seq(Jobs)
      /\ Len(Tail(rows[t])) = Len(rows[t]) - 1
      /\ \A i \in 1..Len(Tail(rows[t])) : Tail(rows[t])[i] = rows[t][i + 1]
    BY <1>1
<1>3. CASE Return(t)
  <2>1. rows' = [rows EXCEPT ![t] = Tail(rows[t])] /\ rows'[t] = Tail(rows[t])
      BY <1>3 DEF Return, TypeOK
  <2>2. pc' = [pc EXCEPT ![t] = IF Len(rows[t]) > 1 THEN "deciding" ELSE "idle"]
      BY <1>3 DEF Return
  <2>3. pc' \in [Tasks -> TaskStates] /\ pc'[t] \in {"idle", "deciding"}
      BY <2>2 DEF TypeOK, TaskStates
  <2>4. pc'[t] # "idle" => Len(rows[t]) > 1
      BY <2>2 DEF TypeOK
  <2>5. Len(rows[t]) > 1 => Tail(rows[t]) # <<>>
    <3>1. Len(rows[t]) > 1 => Len(Tail(rows[t])) # 0
      <4> DEFINE n == Len(rows[t])
                 m == Len(Tail(rows[t]))
      <4>1. n \in Nat /\ m = n - 1
          BY <1>1, <1>2
      <4> HIDE DEF n, m
      <4>2. n > 1 => m # 0
          BY <4>1
      <4> QED
          BY <4>2 DEF n, m
    <3>2. Len(<<>>) = 0
        OBVIOUS
    <3> QED
        BY <3>1, <3>2, Zenon
  <2>6. \A i \in 1..Len(Tail(rows[t])) :
           i + 1 \in 1..Len(rows[t]) /\ Tail(rows[t])[i] = rows[t][i + 1]
      BY <1>1, <1>2
  <2>7. rows' \in [Tasks -> Seq(Jobs)]
      BY <1>2, <2>1 DEF TypeOK
  <2>8. \A u \in Tasks : u # t => rows'[u] = rows[u] /\ pc'[u] = pc[u]
      BY <2>1, <2>2 DEF TypeOK
  <2>9. rows'[t] = Tail(rows[t])
      BY <2>1
  <2> HIDE DEF Return
  <2> QED
      BY <2>3, <2>4, <2>5, <2>6, <2>7, <2>8, <2>9
<1>4. CASE Throw(t)
  <2>1. rows' = [rows EXCEPT ![t] = <<>>] /\ rows'[t] = <<>> /\ pc' = [pc EXCEPT ![t] = "idle"]
      BY <1>4 DEF Throw, TypeOK
  <2>2. <<>> \in Seq(Jobs) /\ Len(<<>>) = 0
      OBVIOUS
  <2> QED
      BY <2>1, <2>2 DEF TypeOK, TaskStates
<1> QED
    BY <1>3, <1>4

(* A dispatch begins with a sequence of rows. *)
LEMMA DispatchRows ==
    ASSUME TypeOK, NEW t \in Tasks, NEW s \in Seq(Jobs), Dispatch(t, s)
    PROVE  /\ rows' \in [Tasks -> Seq(Jobs)] /\ pc' \in [Tasks -> TaskStates]
           /\ \A u \in Tasks : u # t => rows'[u] = rows[u] /\ pc'[u] = pc[u]
           /\ pc[t] = "idle" /\ pc'[t] \in {"idle", "deciding"} /\ rows'[t] = s
           /\ pc'[t] # "idle" => s # <<>>
<1>1. rows' = [rows EXCEPT ![t] = s] /\ pc' = [pc EXCEPT ![t] = IF s = <<>> THEN "idle" ELSE "deciding"]
    BY DEF Dispatch
<1> QED
    BY <1>1 DEF Dispatch, TypeOK, TaskStates

(* The rows of a sweep are queued jobs of the line. *)
LEMMA QueuedRowsType ==
    ASSUME TypeOK, NEW s \in QueuedRows
    PROVE  /\ [i \in DOMAIN s |-> line[s[i]]] \in Seq(Jobs)
           /\ \A k \in 1..Len([i \in DOMAIN s |-> line[s[i]]]) :
                 [i \in DOMAIN s |-> line[s[i]]][k] \in Lined
<1> DEFINE queued == {i \in 1..Len(line) : state[line[i]] = "queued"}
           n == Cardinality(queued)
           jobs == [i \in DOMAIN s |-> line[s[i]]]
<1>1. Len(line) \in Nat /\ line \in [1..Len(line) -> Jobs]
    BY DEF TypeOK
<1>2. n \in Nat
  <2>1. IsFiniteSet(1..Len(line))
      BY <1>1, FS_Interval
  <2>2. IsFiniteSet(queued)
      BY <2>1, FS_Subset
  <2> QED
      BY <2>2, FS_CardinalityType
<1>3. s \in [1..n -> queued]
    BY DEF QueuedRows
<1> HIDE DEF n
<1>4. jobs \in [1..n -> Jobs]
    BY <1>1, <1>3
<1>5. jobs \in Seq(Jobs) /\ Len(jobs) = n
    BY <1>2, <1>4
<1>6. \A i \in 1..n : jobs[i] = line[s[i]] /\ s[i] \in 1..Len(line)
    BY <1>3
<1> QED
    BY <1>5, <1>6 DEF Lined

(* A notification wakes waiters only. *)
LEMMA NotifyType ==
    ASSUME TypeOK, NEW S \in SUBSET Jobs, Notify(S)
    PROVE  listeners' \in [Jobs -> SUBSET Waiters] /\ woken' \subseteq Waiters
BY DEF TypeOK, Notify

-----------------------------------------------------------------------------
(* What a step may do, seen from its parts. *)

OthersStay(t) == \A u \in Tasks : u # t => rows'[u] = rows[u] /\ pc'[u] = pc[u]

(* A busy task goes on to a place, to its next row, or out of its loop. *)
TaskMoves(t) ==
    /\ pc[t] # "idle"
    /\ Return(t) \/ Throw(t) \/ \E p \in TaskStates \ {"idle"} : Goto(t, p)

(* What the waiters of a job may count on: whoever listens is woken, or goes on
   listening to a job that did not end. *)
Heard ==
    /\ woken \subseteq woken'
    /\ \A j \in Jobs : \A w \in listeners[j] :
          w \in woken' \/ (w \in listeners'[j] /\ (Terminal(j)' => Terminal(j)))

(* A success is not taken back. *)
SuccessKept ==
    \A j \in Jobs : Terminal(j) /\ outcome[j] = "succeeded" =>
        Terminal(j)' /\ outcome'[j] = "succeeded"

RowTypes ==
    /\ state \in [Jobs -> JobStates] /\ outcome \in [Jobs -> Outcomes]
    /\ listeners \in [Jobs -> SUBSET Waiters] /\ woken \subseteq Waiters

(* The row of one job at most is written, and its waiters hear of it. *)
WritesRow(j) ==
    /\ RowTypes'
    /\ \A k \in Jobs \ {j} : state'[k] = state[k] /\ outcome'[k] = outcome[k]
    /\ Heard

(* TransitionJobState writes one row. *)
LEMMA TransitionWrites ==
    ASSUME TypeOK, NEW j \in Jobs, NEW s \in JobStates, TransitionJobState(j, s)
    PROVE  WritesRow(j) /\ state'[j] = s /\ outcome' = outcome
<1>1. state' = [state EXCEPT ![j] = s] /\ outcome' = outcome /\ Notify({j})
    BY DEF TransitionJobState
<1>2. listeners' \in [Jobs -> SUBSET Waiters] /\ woken' \subseteq Waiters
    BY <1>1, NotifyType
<1>3. Heard
    BY <1>1 DEF TypeOK, Notify, Heard, Terminal
<1> QED
    BY <1>1, <1>2, <1>3 DEF TypeOK, WritesRow, RowTypes

(* CompleteJob writes one row. *)
LEMMA CompleteWrites ==
    ASSUME TypeOK, NEW j \in Jobs, NEW o \in Outcomes, CompleteJob(j, o)
    PROVE  WritesRow(j) /\ state'[j] = "completed" /\ outcome'[j] = o
<1>1. /\ state' = [state EXCEPT ![j] = "completed"] /\ outcome' = [outcome EXCEPT ![j] = o]
      /\ Notify({j})
    BY DEF CompleteJob
<1>2. listeners' \in [Jobs -> SUBSET Waiters] /\ woken' \subseteq Waiters
    BY <1>1, NotifyType
<1>3. Heard
    BY <1>1 DEF TypeOK, Notify, Heard, Terminal
<1> QED
    BY <1>1, <1>2, <1>3 DEF TypeOK, WritesRow, RowTypes, JobStates

(* LeaveJob writes none. *)
LEMMA LeaveWrites ==
    ASSUME TypeOK, LeaveJob, NEW j \in Jobs
    PROVE  WritesRow(j) /\ state' = state /\ outcome' = outcome
BY DEF TypeOK, LeaveJob, WritesRow, RowTypes, Heard, Terminal

(* After a move of a task its rows are as RowsQueued says, if no row went back
   behind its confirmation; and at another place than the loop's head the task
   is still at the same job. *)
LEMMA MoveRows ==
    ASSUME TypeOK, RowsQueued, NEW t \in Tasks, TaskMoves(t), line' = line,
           \A j \in Jobs : state'[j] = state[j] \/ state'[j] \notin {"unborn", "awaiting_confirmation"}
    PROVE  /\ rows' \in [Tasks -> Seq(Jobs)] /\ pc' \in [Tasks -> TaskStates]
           /\ RowsQueued'
           /\ OthersStay(t)
           /\ pc'[t] \in {"idle", "deciding"} \/ rows'[t] = rows[t]
<1>1. Lined' = Lined
    BY DEF Lined
<1>2. \A j \in Jobs : j \in Lined' => state'[j] \notin {"unborn", "awaiting_confirmation"}
    BY <1>1 DEF RowsQueued
<1>3. pc[t] # "idle" /\ rows[t] # <<>>
    BY DEF TaskMoves, RowsQueued
<1>4. CASE Return(t) \/ Throw(t)
  <2>1. /\ rows' \in [Tasks -> Seq(Jobs)] /\ pc' \in [Tasks -> TaskStates]
        /\ \A u \in Tasks : u # t => rows'[u] = rows[u] /\ pc'[u] = pc[u]
        /\ pc'[t] \in {"idle", "deciding"}
        /\ pc'[t] # "idle" => rows'[t] # <<>>
        /\ \A i \in 1..Len(rows'[t]) : i + 1 \in 1..Len(rows[t]) /\ rows'[t][i] = rows[t][i + 1]
      BY <1>3, <1>4, ReturnRows
  <2>2. \A i \in 1..Len(rows'[t]) : rows'[t][i] \in Lined
      BY <2>1 DEF RowsQueued
  <2>3. \A u \in Tasks : \A i \in 1..Len(rows'[u]) : rows'[u][i] \in Lined'
      BY <1>1, <2>1, <2>2 DEF RowsQueued
  <2>4. \A u \in Tasks : pc'[u] # "idle" => rows'[u] # <<>>
      BY <2>1 DEF RowsQueued
  <2> QED
      BY <1>2, <2>1, <2>3, <2>4 DEF RowsQueued, OthersStay
<1>5. CASE \E p \in TaskStates \ {"idle"} : Goto(t, p)
  <2>1. rows' = rows /\ pc' \in [Tasks -> TaskStates] /\ \A u \in Tasks : u # t => pc'[u] = pc[u]
      BY <1>5 DEF Goto, TypeOK
  <2>2. \A u \in Tasks : \A i \in 1..Len(rows'[u]) : rows'[u][i] \in Lined'
      BY <1>1, <2>1 DEF RowsQueued
  <2>3. \A u \in Tasks : pc'[u] # "idle" => rows'[u] # <<>>
      BY <1>3, <2>1 DEF RowsQueued
  <2> QED
      BY <1>2, <2>1, <2>2, <2>3 DEF RowsQueued, OthersStay, TypeOK
<1> QED
    BY <1>4, <1>5 DEF TaskMoves

-----------------------------------------------------------------------------
(* The run of a job. *)

(* A step outside every run: attempts and processes stay, no run is entered, a
   run that has a process goes on, and a row that is written is that of a job
   without an attempt, which is not made a success. *)
Quiet ==
    /\ attempt' = attempt /\ proc' = proc /\ Lined \subseteq Lined'
    /\ \A u \in Tasks : pc'[u] \in Running \/ pc[u] \in WithProcess =>
          pc'[u] = pc[u] /\ rows'[u] = rows[u]
    /\ \A u \in Tasks : pc'[u] \in {"queueing", "admitted"} =>
          /\ rows'[u] = rows[u]
          /\ pc'[u] = pc[u] \/ "local_fallback" \in Decision[JobOf(u)]
    /\ \A j \in Jobs :
          \/ state'[j] = state[j] /\ outcome'[j] = outcome[j]
          \/ attempt[j] = "none" /\ (state'[j] = "completed" => outcome'[j] # "succeeded")

(* The places of a run are busy places. *)
LEMMA RunIsBusy ==
    ASSUME TypeOK, RowsQueued, NEW t \in Tasks, pc[t] \in Running \cup {"queueing", "admitted"}
    PROVE  JobOf(t) \in Jobs /\ JobOf(t) \in Lined
<1>1. pc[t] # "idle"
    BY DEF Running, Working, Preparing, WithProcess
<1> QED
    BY <1>1, JobOfTask

(* A quiet step keeps the invariant of the runs. *)
LEMMA QuietRun ==
    ASSUME TypeOK, RowsQueued, RunInv, Quiet
    PROVE  RunInv' /\ SuccessKept
<1>1. \A u \in Tasks : pc'[u] \in Running => pc[u] \in Running /\ JobOf(u)' = JobOf(u)
    BY DEF Quiet, JobOf
<1>2. \A u \in Tasks : pc[u] \in Running => JobOf(u) \in Jobs /\ attempt[JobOf(u)] # "none"
    BY RunIsBusy DEF RunInv, OneRunner
<1>3. \A u \in Tasks : pc'[u] \in Running \cup {"queueing", "admitted"} =>
          "local_fallback" \in Decision[JobOf(u)']
    BY DEF Quiet, RunInv, LocalOnly, JobOf
<1>4. LocalOnly'
    BY <1>3 DEF LocalOnly, RunInv, Quiet
<1>5. OneRunner'
    BY <1>1 DEF OneRunner, RunInv, Quiet
<1>6. \A u \in Tasks : pc'[u] \in Running => pc'[u] = pc[u]
    BY DEF Quiet
<1>7. ProcessOfRun'
    BY <1>1, <1>6 DEF ProcessOfRun, RunInv, Quiet, Exited, Running, Working
<1>8. \A u \in Tasks : pc[u] \in Running =>
          state'[JobOf(u)] = state[JobOf(u)] /\ outcome'[JobOf(u)] = outcome[JobOf(u)]
    BY <1>2 DEF Quiet
<1>9. RowOfRun'
    BY <1>1, <1>6, <1>8 DEF RowOfRun, RunInv, Terminal, Running
<1>10. \A j \in Jobs : attempt[j] # "none" => state'[j] = state[j] /\ outcome'[j] = outcome[j]
    BY DEF Quiet
<1>11. Survivors'
  <2> SUFFICES ASSUME NEW j \in Jobs, proc[j] \in {"alive", "dying"}
               PROVE  \/ \E u \in Tasks : pc'[u] \in WithProcess /\ JobOf(u)' = j
                      \/ state'[j] = "completed" /\ outcome'[j] \in {"failed", "cancelled"}
      BY DEF Survivors, Quiet
  <2>1. attempt[j] # "none"
      BY DEF RunInv, ProcessOfRun
  <2>2. \A u \in Tasks : pc[u] \in WithProcess => pc'[u] = pc[u] /\ JobOf(u)' = JobOf(u)
      BY DEF Quiet, JobOf
  <2> QED
      BY <1>10, <2>1, <2>2 DEF RunInv, Survivors
<1>12. SuccessWasRun' /\ SuccessKept
    BY <1>10 DEF SuccessWasRun, SuccessKept, RunInv, Quiet, Terminal
<1> QED
    BY <1>4, <1>5, <1>7, <1>9, <1>11, <1>12 DEF RunInv

(* A step of the run of a job j by a task t, and what it must make true of both. *)
RunStep(t, j) ==
    /\ JobOf(t) = j /\ OthersStay(t) /\ rows'[t] = rows[t] /\ Lined' = Lined
    /\ pc[t] \in Running \/ (pc[t] = "admitted" /\ attempt[j] = "none")
    /\ pc'[t] \in Running /\ attempt'[j] # "none"
    /\ \A k \in Jobs \ {j} : /\ state'[k] = state[k] /\ outcome'[k] = outcome[k]
                             /\ attempt'[k] = attempt[k] /\ proc'[k] = proc[k]
    /\ pc'[t] \in Preparing => proc'[j] = "none"
    /\ pc'[t] \in WithProcess => proc'[j] # "none"
    /\ pc'[t] \in {"collecting", "reporting"} => proc'[j] \in {"exit0", "exit1"}
    /\ pc'[t] \in Working /\ state'[j] = "completed" => outcome'[j] = "cancelled"
    /\ pc'[t] \in {"reporting", "failing"} => state'[j] = "completed"
    /\ proc'[j] \in {"alive", "dying"} =>
          \/ pc'[t] \in WithProcess
          \/ state'[j] = "completed" /\ outcome'[j] \in {"failed", "cancelled"}
    /\ pc[t] \in Working \/ (state'[j] = state[j] /\ outcome'[j] = outcome[j])

(* A step of a run keeps the invariant of the runs. *)
LEMMA RunStepRun ==
    ASSUME TypeOK, RowsQueued, RunInv, NEW t \in Tasks, NEW j \in Jobs, RunStep(t, j)
    PROVE  RunInv' /\ SuccessKept
<1>1. \A u \in Tasks : JobOf(u)' = JobOf(u)
    BY DEF RunStep, OthersStay, JobOf
<1>2. \A u \in Tasks : u # t => pc'[u] = pc[u]
    BY DEF RunStep, OthersStay
<1>3. pc[t] \in Running \cup {"queueing", "admitted"} /\ JobOf(t) = j
    BY DEF RunStep
<1>4. \A u \in Tasks : u # t /\ pc[u] \in Running => JobOf(u) # j
    BY DEF RunStep, RunInv, OneRunner
<1>5. \A u \in Tasks : pc[u] \in Running \cup {"queueing", "admitted"} => JobOf(u) \in Jobs
    BY RunIsBusy
<1>6. j \in Lined /\ "local_fallback" \in Decision[j]
    BY <1>3, RunIsBusy DEF RunInv, LocalOnly
<1>7. LocalOnly'
    BY <1>1, <1>2, <1>3, <1>6 DEF LocalOnly, RunInv, RunStep
<1>8. OneRunner'
    BY <1>1, <1>2, <1>3, <1>4, <1>5 DEF OneRunner, RunInv, RunStep
<1>9. ProcessOfRun'
  <2>1. \A k \in Jobs : attempt'[k] = "none" => proc'[k] = "none"
      BY DEF RunStep, RunInv, ProcessOfRun
  <2>2. ASSUME NEW u \in Tasks, u # t
        PROVE  /\ pc'[u] \in Preparing => proc'[JobOf(u)'] = "none"
               /\ pc'[u] \in WithProcess => proc'[JobOf(u)'] # "none"
               /\ pc'[u] \in {"collecting", "reporting"} => proc'[JobOf(u)'] \in {"exit0", "exit1"}
    <3>1. pc[u] \in Running => proc'[JobOf(u)] = proc[JobOf(u)]
        BY <1>4, <1>5, <2>2 DEF RunStep
    <3> QED
        BY <1>1, <1>2, <2>2, <3>1 DEF RunInv, ProcessOfRun, Exited, Running, Working
  <2>3. /\ pc'[t] \in Preparing => proc'[JobOf(t)'] = "none"
        /\ pc'[t] \in WithProcess => proc'[JobOf(t)'] # "none"
        /\ pc'[t] \in {"collecting", "reporting"} => proc'[JobOf(t)'] \in {"exit0", "exit1"}
      BY <1>1, <1>3 DEF RunStep
  <2> QED
      BY <2>1, <2>2, <2>3 DEF ProcessOfRun, Exited
<1>10. RowOfRun'
  <2>1. ASSUME NEW u \in Tasks, u # t
        PROVE  /\ pc'[u] \in Working /\ state'[JobOf(u)'] = "completed" =>
                     outcome'[JobOf(u)'] = "cancelled"
               /\ pc'[u] \in {"reporting", "failing"} => state'[JobOf(u)'] = "completed"
    <3>1. pc[u] \in Running =>
             state'[JobOf(u)] = state[JobOf(u)] /\ outcome'[JobOf(u)] = outcome[JobOf(u)]
        BY <1>4, <1>5, <2>1 DEF RunStep
    <3> QED
        BY <1>1, <1>2, <2>1, <3>1 DEF RunInv, RowOfRun, Terminal, Running
  <2>2. /\ pc'[t] \in Working /\ state'[JobOf(t)'] = "completed" =>
              outcome'[JobOf(t)'] = "cancelled"
        /\ pc'[t] \in {"reporting", "failing"} => state'[JobOf(t)'] = "completed"
      BY <1>1, <1>3 DEF RunStep
  <2> QED
      BY <2>1, <2>2 DEF RowOfRun, Terminal
<1>11. Survivors'
  <2> SUFFICES ASSUME NEW k \in Jobs, proc'[k] \in {"alive", "dying"}
               PROVE  \/ \E u \in Tasks : pc'[u] \in WithProcess /\ JobOf(u)' = k
                      \/ state'[k] = "completed" /\ outcome'[k] \in {"failed", "cancelled"}
      BY DEF Survivors
  <2>1. CASE k = j
      BY <1>1, <1>3, <2>1 DEF RunStep
  <2>2. CASE k # j
    <3>1. /\ proc[k] \in {"alive", "dying"}
          /\ state'[k] = state[k] /\ outcome'[k] = outcome[k]
        BY <2>2 DEF RunStep
    <3>2. \A u \in Tasks : JobOf(u) = k => pc'[u] = pc[u]
        BY <1>2, <1>3, <2>2
    <3> QED
        BY <1>1, <3>1, <3>2 DEF RunInv, Survivors
  <2> QED
      BY <2>1, <2>2
<1>12. SuccessWasRun'
    BY DEF SuccessWasRun, RunInv, RunStep, Terminal
<1>13. SuccessKept
  <2>1. \A k \in Jobs : k # j => state'[k] = state[k] /\ outcome'[k] = outcome[k]
      BY DEF RunStep
  <2>2. pc[t] \in Working /\ state[j] = "completed" => outcome[j] = "cancelled"
      BY <1>3 DEF RunInv, RowOfRun, Terminal
  <2> QED
      BY <2>1, <2>2 DEF SuccessKept, RunStep, Terminal
<1> QED
    BY <1>7, <1>8, <1>9, <1>10, <1>11, <1>12, <1>13 DEF RunInv

-----------------------------------------------------------------------------
(* Slots. *)

(* The holders are finitely many. *)
LEMMA HoldersFinite ==
    /\ IsFiniteSet(Holders) /\ Cardinality(Holders) \in Nat
    /\ \A S \in SUBSET Tasks : IsFiniteSet(S) /\ Cardinality(S) \in Nat
<1>1. \A S \in SUBSET Tasks : IsFiniteSet(S)
    BY RunnerAssumption, FS_Subset
<1>2. Holders \in SUBSET Tasks
    BY DEF Holders
<1> QED
    BY <1>1, <1>2, FS_CardinalityType

(* A step that takes no slot and gives none back. *)
LEMMA SlotsStay ==
    ASSUME TypeOK, SlotsCounted, admissionActive' = admissionActive,
           \A u \in Tasks : pc'[u] \in Holding => pc[u] \in Holding
    PROVE  SlotsCounted'
<1>1. Holders' \subseteq Holders
    BY DEF Holders
<1>2. Cardinality(Holders') <= Cardinality(Holders) /\ Cardinality(Holders') \in Nat
    BY <1>1, HoldersFinite, FS_Subset, FS_CardinalityType
<1> QED
    BY <1>2, HoldersFinite DEF SlotsCounted, TypeOK

(* releaseAdmission by a holder. *)
LEMMA SlotGiven ==
    ASSUME TypeOK, SlotsCounted, NEW t \in Tasks, ReleaseAdmission, OthersStay(t),
           pc[t] \in Holding, pc'[t] \notin Holding
    PROVE  /\ SlotsCounted' /\ admissionActive' \in 0..MaxConcurrentJobs
           /\ admissionWaiters' \in Seq(Tasks)
<1>1. t \in Holders /\ Holders' = Holders \ {t}
    BY DEF Holders, OthersStay
<1>2. /\ Cardinality(Holders \ {t}) = Cardinality(Holders) - 1
      /\ Cardinality(Holders) \in Nat
    BY <1>1, HoldersFinite, FS_RemoveElement
<1>3. Cardinality(Holders') <= admissionActive - 1 /\ Cardinality(Holders') \in Nat
  <2>1. Cardinality(Holders \ {t}) \in Nat
      BY HoldersFinite, FS_Subset, FS_CardinalityType
  <2> QED
      BY <1>1, <1>2, <2>1 DEF SlotsCounted, TypeOK
<1>4. admissionActive \in Nat /\ admissionActive <= MaxConcurrentJobs /\ MaxConcurrentJobs \in Nat
    BY RunnerAssumption DEF TypeOK
<1>5. admissionActive' = IF admissionActive = 0 THEN 0 ELSE admissionActive - 1
    BY DEF ReleaseAdmission
<1>6. SlotsCounted' /\ admissionActive' \in 0..MaxConcurrentJobs
    BY <1>3, <1>4, <1>5 DEF SlotsCounted
<1>7. admissionWaiters' \in Seq(Tasks)
    BY DEF ReleaseAdmission, TypeOK
<1> QED
    BY <1>6, <1>7

(* acquireAdmission by a task that holds no slot. *)
LEMMA SlotTaken ==
    ASSUME TypeOK, SlotsCounted, NEW t \in Tasks, AcquireAdmission(t), pc[t] \notin Holding
    PROVE  /\ SlotsCounted' /\ admissionActive' \in 0..MaxConcurrentJobs
           /\ admissionWaiters' \in Seq(Tasks)
           /\ pc'[t] \in {"admitted", "queueing"} /\ \E p \in {"admitted", "queueing"} : Goto(t, p)
<1>1. admissionActive \in Nat /\ admissionActive <= MaxConcurrentJobs /\ MaxConcurrentJobs \in Nat
    BY RunnerAssumption DEF TypeOK
<1>2. pc \in [Tasks -> TaskStates]
    BY DEF TypeOK
<1>3. CASE admissionActive < MaxConcurrentJobs
  <2>1. /\ admissionActive' = admissionActive + 1 /\ admissionWaiters' = admissionWaiters
        /\ Goto(t, "admitted")
      BY <1>3 DEF AcquireAdmission
  <2>2. pc'[t] = "admitted" /\ \A u \in Tasks : u # t => pc'[u] = pc[u]
      BY <1>2, <2>1 DEF Goto
  <2>3. Holders' = Holders \cup {t} /\ t \notin Holders
      BY <2>2 DEF Holders, Holding
  <2>4. Cardinality(Holders \cup {t}) = Cardinality(Holders) + 1
      BY <2>3, HoldersFinite, FS_AddElement
  <2>5. SlotsCounted'
      BY <1>1, <2>1, <2>3, <2>4, HoldersFinite DEF SlotsCounted
  <2>6. admissionActive' \in 0..MaxConcurrentJobs
      BY <1>1, <1>3, <2>1
  <2> QED
      BY <2>1, <2>2, <2>5, <2>6 DEF TypeOK
<1>4. CASE ~(admissionActive < MaxConcurrentJobs)
  <2>1. /\ admissionActive' = admissionActive /\ admissionWaiters' = Append(admissionWaiters, t)
        /\ Goto(t, "queueing")
      BY <1>4 DEF AcquireAdmission
  <2>2. pc'[t] = "queueing" /\ \A u \in Tasks : u # t => pc'[u] = pc[u]
      BY <1>2, <2>1 DEF Goto
  <2>3. SlotsCounted'
      BY <2>1, <2>2, SlotsStay DEF Holding
  <2> QED
      BY <2>1, <2>2, <2>3 DEF TypeOK
<1> QED
    BY <1>3, <1>4

-----------------------------------------------------------------------------
(* Waiters. *)

(* What the waiting clients rely on. *)
WaitInv == Subscribed /\ NoLostWakeup /\ ToldIsAnswered /\ SuccessIsFinal

(* A step of the Controller keeps it, if listeners hear and no success is lost. *)
LEMMA HeardWait ==
    ASSUME TypeOK, WaitInv, Heard, SuccessKept, UNCHANGED waitVars
    PROVE  WaitInv'
<1>1. wpc' = wpc /\ wjob' = wjob /\ told' = told /\ wjob \in [Waiters -> Jobs]
    BY DEF waitVars, TypeOK
<1>2. Subscribed'
    BY <1>1 DEF WaitInv, Subscribed, Heard
<1>3. NoLostWakeup'
  <2> SUFFICES ASSUME NEW w \in Waiters, wpc[w] = "parked"
               PROVE  w \in woken' \/ (w \in listeners'[wjob[w]] /\ ~Terminal(wjob[w])')
      BY <1>1 DEF NoLostWakeup, Terminal
  <2>1. wjob[w] \in Jobs
      BY <1>1
  <2>2. w \in woken \/ (w \in listeners[wjob[w]] /\ ~Terminal(wjob[w]))
      BY DEF WaitInv, NoLostWakeup
  <2> QED
      BY <1>1, <2>1, <2>2 DEF Heard, Terminal
<1>4. ToldIsAnswered'
    BY <1>1 DEF WaitInv, ToldIsAnswered
<1>5. SuccessIsFinal'
    BY <1>1 DEF WaitInv, SuccessIsFinal, SuccessKept, Terminal
<1> QED
    BY <1>2, <1>3, <1>4, <1>5 DEF WaitInv

-----------------------------------------------------------------------------
(* Steps of a task. *)

(* The part of the invariant that tasks and jobs share. *)
CoreInv == TypeOK /\ RowsQueued /\ RunInv /\ SlotsCounted

CoreKept == CoreInv' /\ SuccessKept /\ Heard

(* A move of a task outside a run is a quiet step. *)
LEMMA QuietTask ==
    ASSUME TypeOK, RowsQueued, RunInv, NEW t \in Tasks, TaskMoves(t),
           pc'[t] \notin Running, pc[t] \notin WithProcess,
           pc'[t] \in {"queueing", "admitted"} => "local_fallback" \in Decision[JobOf(t)],
           attempt' = attempt, proc' = proc, line' = line, WritesRow(JobOf(t)),
           \/ state' = state /\ outcome' = outcome
           \/ /\ attempt[JobOf(t)] = "none"
              /\ state'[JobOf(t)] = "completed" /\ outcome'[JobOf(t)] # "succeeded"
    PROVE  /\ rows' \in [Tasks -> Seq(Jobs)] /\ pc' \in [Tasks -> TaskStates]
           /\ RowsQueued' /\ RunInv' /\ SuccessKept /\ OthersStay(t)
<1>1. \A j \in Jobs : state'[j] = state[j] \/ state'[j] \notin {"unborn", "awaiting_confirmation"}
    BY DEF WritesRow
<1>2. /\ rows' \in [Tasks -> Seq(Jobs)] /\ pc' \in [Tasks -> TaskStates]
      /\ RowsQueued' /\ OthersStay(t)
      /\ pc'[t] \in {"idle", "deciding"} \/ rows'[t] = rows[t]
    BY <1>1, MoveRows
<1>3. Lined' = Lined
    BY DEF Lined
<1>4. \A j \in Jobs :
          \/ state'[j] = state[j] /\ outcome'[j] = outcome[j]
          \/ attempt[j] = "none" /\ (state'[j] = "completed" => outcome'[j] # "succeeded")
    BY DEF WritesRow
<1>5. \A u \in Tasks : pc'[u] \in Running \/ pc[u] \in WithProcess =>
          pc'[u] = pc[u] /\ rows'[u] = rows[u]
    BY <1>2 DEF OthersStay
<1>6. \A u \in Tasks : pc'[u] \in {"queueing", "admitted"} =>
          /\ rows'[u] = rows[u]
          /\ pc'[u] = pc[u] \/ "local_fallback" \in Decision[JobOf(u)]
    BY <1>2 DEF OthersStay
<1>7. Quiet
    BY <1>3, <1>4, <1>5, <1>6 DEF Quiet
<1> QED
    BY <1>2, <1>7, QuietRun

(* A move of a task within its run. *)
LEMMA RunTask ==
    ASSUME TypeOK, RowsQueued, RunInv, NEW t \in Tasks, TaskMoves(t), NEW j \in Jobs,
           JobOf(t) = j, WritesRow(j), line' = line,
           pc[t] \in Running \/ (pc[t] = "admitted" /\ attempt[j] = "none"),
           pc'[t] \in Running, attempt'[j] # "none",
           \A k \in Jobs \ {j} : attempt'[k] = attempt[k] /\ proc'[k] = proc[k],
           state'[j] = state[j] \/ state'[j] \notin {"unborn", "awaiting_confirmation"},
           pc'[t] \in Preparing => proc'[j] = "none",
           pc'[t] \in WithProcess => proc'[j] # "none",
           pc'[t] \in {"collecting", "reporting"} => proc'[j] \in {"exit0", "exit1"},
           pc'[t] \in Working /\ state'[j] = "completed" => outcome'[j] = "cancelled",
           pc'[t] \in {"reporting", "failing"} => state'[j] = "completed",
           proc'[j] \in {"alive", "dying"} =>
              \/ pc'[t] \in WithProcess
              \/ state'[j] = "completed" /\ outcome'[j] \in {"failed", "cancelled"},
           pc[t] \in Working \/ (state'[j] = state[j] /\ outcome'[j] = outcome[j])
    PROVE  /\ rows' \in [Tasks -> Seq(Jobs)] /\ pc' \in [Tasks -> TaskStates]
           /\ RowsQueued' /\ RunInv' /\ SuccessKept /\ OthersStay(t)
<1>1. \A k \in Jobs : state'[k] = state[k] \/ state'[k] \notin {"unborn", "awaiting_confirmation"}
    BY DEF WritesRow
<1>2. /\ rows' \in [Tasks -> Seq(Jobs)] /\ pc' \in [Tasks -> TaskStates]
      /\ RowsQueued' /\ OthersStay(t)
      /\ pc'[t] \in {"idle", "deciding"} \/ rows'[t] = rows[t]
    BY <1>1, MoveRows
<1>3. rows'[t] = rows[t]
    BY <1>2 DEF Running, Working, Preparing, WithProcess
<1>4. Lined' = Lined
    BY DEF Lined
<1>5. RunStep(t, j)
    BY <1>2, <1>3, <1>4 DEF RunStep, WritesRow
<1> QED
    BY <1>2, <1>5, RunStepRun

(* The job row is only read. *)
LEMMA StopDispatchCore ==
    ASSUME CoreInv, NEW t \in Tasks, StopDispatch(t) \/ SetupFails(t) \/ Cleaned(t)
    PROVE  CoreKept
<1> USE DEF CoreInv
<1>1. /\ pc[t] \in {"deciding", "setup", "cleaning", "clearing"} /\ (Return(t) \/ Throw(t))
      /\ LeaveJob /\ UNCHANGED <<attempt, stale, line, result, cancelVars, admissionVars, proc,
                                 life, waitVars>>
    BY DEF StopDispatch, SetupFails, Cleaned, RunCleanupScript
<1>2. TaskMoves(t) /\ pc[t] \notin WithProcess
    BY <1>1 DEF TaskMoves, WithProcess
<1>3. JobOf(t) \in Jobs
    BY <1>2, JobOfTask DEF TaskMoves
<1>4. WritesRow(JobOf(t)) /\ state' = state /\ outcome' = outcome
    BY <1>1, <1>3, LeaveWrites
<1>5. pc'[t] \in {"idle", "deciding"}
    BY <1>1, <1>2, ReturnRows DEF TaskMoves
<1>6. /\ rows' \in [Tasks -> Seq(Jobs)] /\ pc' \in [Tasks -> TaskStates]
      /\ RowsQueued' /\ RunInv' /\ SuccessKept /\ OthersStay(t)
    BY <1>1, <1>2, <1>4, <1>5, QuietTask DEF Running, Working, Preparing, WithProcess
<1>7. SlotsCounted'
    BY <1>1, <1>5, <1>6, SlotsStay DEF OthersStay, Holding, admissionVars
<1>8. TypeOK'
    BY <1>1, <1>4, <1>6 DEF TypeOK, WritesRow, RowTypes, cancelVars, admissionVars, waitVars
<1> QED
    BY <1>4, <1>6, <1>7, <1>8 DEF CoreKept, WritesRow

(* A dispatch that ends in waiting or failing concerns a job that no task may run
   on the host, or leaves the row alone. *)
LEMMA DecideCore ==
    ASSUME CoreInv, NEW t \in Tasks, DecideWait(t) \/ DecideFailFast(t)
    PROVE  CoreKept
<1> USE DEF CoreInv
<1>1. pc[t] = "deciding" /\ Return(t)
    BY DEF DecideWait, DecideFailFast
<1>2. TaskMoves(t) /\ pc[t] \notin WithProcess /\ JobOf(t) \in Jobs
    BY <1>1, JobOfTask DEF TaskMoves, WithProcess
<1>3. pc'[t] \in {"idle", "deciding"}
    BY <1>1, ReturnRows
<1>4. UNCHANGED <<attempt, stale, line, result, cancelVars, admissionVars, proc, life, waitVars>>
    BY DEF DecideWait, DecideFailFast, jobVars
<1>5. /\ WritesRow(JobOf(t))
      /\ \/ state' = state /\ outcome' = outcome
         \/ /\ attempt[JobOf(t)] = "none"
            /\ state'[JobOf(t)] = "completed" /\ outcome'[JobOf(t)] # "succeeded"
  <2>1. CASE DecideWait(t)
    <3>1. state' = state /\ outcome' = outcome /\ Notify({JobOf(t)})
        BY <2>1 DEF DecideWait, jobVars
    <3>2. listeners' \in [Jobs -> SUBSET Waiters] /\ woken' \subseteq Waiters
        BY <1>2, <3>1, NotifyType
    <3>3. Heard
        BY <3>1 DEF TypeOK, Notify, Heard, Terminal
    <3> QED
        BY <3>1, <3>2, <3>3 DEF WritesRow, RowTypes, TypeOK
  <2>2. CASE DecideFailFast(t)
    <3>1. "fail_fast" \in Decision[JobOf(t)] /\ CompleteJob(JobOf(t), "failed")
        BY <2>2 DEF DecideFailFast
    <3>2. attempt[JobOf(t)] = "none"
        BY <1>2, <3>1, RunnerAssumption DEF RunInv, LocalOnly
    <3> QED
        BY <1>2, <3>1, <3>2, CompleteWrites DEF Outcomes
  <2> QED
      BY <2>1, <2>2
<1>6. /\ rows' \in [Tasks -> Seq(Jobs)] /\ pc' \in [Tasks -> TaskStates]
      /\ RowsQueued' /\ RunInv' /\ SuccessKept /\ OthersStay(t)
    BY <1>2, <1>3, <1>4, <1>5, QuietTask DEF Running, Working, Preparing, WithProcess
<1>7. SlotsCounted'
    BY <1>3, <1>4, <1>6, SlotsStay DEF OthersStay, Holding, admissionVars
<1>8. TypeOK'
    BY <1>4, <1>5, <1>6 DEF TypeOK, WritesRow, RowTypes, cancelVars, admissionVars, waitVars
<1> QED
    BY <1>5, <1>6, <1>7, <1>8 DEF CoreKept, WritesRow

(* Looking for a slot. *)
LEMMA AcquireCore ==
    ASSUME CoreInv, NEW t \in Tasks, DecideLocal(t) \/ Resume(t)
    PROVE  CoreKept
<1> USE DEF CoreInv
<1>1. /\ pc[t] \in {"deciding", "queueing"} /\ LeaveJob
      /\ UNCHANGED <<attempt, stale, line, result, proc, life, waitVars>>
    BY DEF DecideLocal, Resume
<1>2. pc[t] # "idle" /\ pc[t] \notin WithProcess \cup Holding /\ JobOf(t) \in Jobs
    BY <1>1, JobOfTask DEF WithProcess, Holding
<1>3. WritesRow(JobOf(t)) /\ state' = state /\ outcome' = outcome
    BY <1>1, <1>2, LeaveWrites
<1>4. "local_fallback" \in Decision[JobOf(t)]
    BY DEF DecideLocal, Resume, RunInv, LocalOnly
<1>5. CASE Return(t) /\ ForgetCancel(JobOf(t)) /\ UNCHANGED admissionVars
  <2>1. pc'[t] \in {"idle", "deciding"} /\ TaskMoves(t)
      BY <1>2, <1>5, ReturnRows DEF TaskMoves
  <2>2. /\ rows' \in [Tasks -> Seq(Jobs)] /\ pc' \in [Tasks -> TaskStates]
        /\ RowsQueued' /\ RunInv' /\ SuccessKept /\ OthersStay(t)
      BY <1>1, <1>2, <1>3, <2>1, QuietTask DEF Running, Working, Preparing, WithProcess
  <2>3. SlotsCounted'
      BY <1>5, <2>1, <2>2, SlotsStay DEF OthersStay, Holding, admissionVars
  <2>4. TypeOK'
      BY <1>1, <1>3, <1>5, <2>2
      DEF TypeOK, WritesRow, RowTypes, ForgetCancel, admissionVars, waitVars
  <2> QED
      BY <1>3, <2>2, <2>3, <2>4 DEF CoreKept, WritesRow
<1>6. CASE AcquireAdmission(t) /\ UNCHANGED cancelVars
  <2>1. /\ SlotsCounted' /\ admissionActive' \in 0..MaxConcurrentJobs
        /\ admissionWaiters' \in Seq(Tasks)
        /\ pc'[t] \in {"admitted", "queueing"} /\ \E p \in {"admitted", "queueing"} : Goto(t, p)
      BY <1>2, <1>6, SlotTaken
  <2>2. TaskMoves(t)
      BY <1>2, <2>1 DEF TaskMoves, TaskStates, Holding
  <2>3. /\ rows' \in [Tasks -> Seq(Jobs)] /\ pc' \in [Tasks -> TaskStates]
        /\ RowsQueued' /\ RunInv' /\ SuccessKept /\ OthersStay(t)
      BY <1>1, <1>2, <1>3, <1>4, <2>1, <2>2, QuietTask DEF Running, Working, Preparing, WithProcess
  <2>4. TypeOK'
      BY <1>1, <1>3, <1>6, <2>1, <2>3 DEF TypeOK, WritesRow, RowTypes, cancelVars, waitVars
  <2> QED
      BY <1>3, <2>1, <2>3, <2>4 DEF CoreKept, WritesRow
<1> QED
    BY <1>5, <1>6 DEF DecideLocal, Resume

(* A slot is given back: the job was given up, or the run is over. *)
LEMMA FinallyCore ==
    ASSUME CoreInv, NEW t \in Tasks, Finally(t)
    PROVE  CoreKept
<1> USE DEF CoreInv
<1>1. /\ pc[t] \in {"reporting", "failing"} /\ LeaveJob /\ ReleaseAdmission
      /\ UNCHANGED <<attempt, stale, line, cancelled, proc, life, waitVars>>
      /\ activeCancels' = activeCancels \ {JobOf(t)} /\ pendingCancels' = pendingCancels \ {JobOf(t)}
      /\ result' = [result EXCEPT ![t] = "none"]
    BY DEF Finally
<1>2. \E p \in {"clearing", "cleaning"} : Goto(t, p)
    BY DEF Finally
<1>3. TaskMoves(t) /\ pc[t] \notin WithProcess /\ pc[t] \in Holding /\ JobOf(t) \in Jobs
    BY <1>1, <1>2, JobOfTask DEF TaskMoves, WithProcess, Holding, TaskStates
<1>4. pc'[t] \in {"clearing", "cleaning"}
    BY <1>2 DEF Goto, TypeOK
<1>5. WritesRow(JobOf(t)) /\ state' = state /\ outcome' = outcome
    BY <1>1, <1>3, LeaveWrites
<1>6. /\ rows' \in [Tasks -> Seq(Jobs)] /\ pc' \in [Tasks -> TaskStates]
      /\ RowsQueued' /\ RunInv' /\ SuccessKept /\ OthersStay(t)
    BY <1>1, <1>3, <1>4, <1>5, QuietTask DEF Running, Working, Preparing, WithProcess
<1>7. /\ SlotsCounted' /\ admissionActive' \in 0..MaxConcurrentJobs
      /\ admissionWaiters' \in Seq(Tasks)
    BY <1>1, <1>3, <1>4, <1>6, SlotGiven DEF Holding
<1>8. TypeOK'
    BY <1>1, <1>5, <1>6, <1>7 DEF TypeOK, WritesRow, RowTypes, waitVars, Results
<1> QED
    BY <1>5, <1>6, <1>7, <1>8 DEF CoreKept, WritesRow

(* With a slot: the job is given up, its attempt exists already, or this task
   creates it and is from now on the only one that runs the job. *)
LEMMA AdmittedCore ==
    ASSUME CoreInv, NEW t \in Tasks, Admitted(t)
    PROVE  CoreKept
<1> USE DEF CoreInv
<1>1. pc[t] = "admitted" /\ LeaveJob /\ UNCHANGED <<stale, line, result, proc, life, waitVars>>
    BY DEF Admitted
<1>2. pc[t] # "idle" /\ pc[t] \notin WithProcess /\ pc[t] \in Holding /\ JobOf(t) \in Jobs
    BY <1>1, JobOfTask DEF WithProcess, Holding
<1>3. WritesRow(JobOf(t)) /\ state' = state /\ outcome' = outcome
    BY <1>1, <1>2, LeaveWrites
<1>4. CASE ReleaseAdmission /\ ForgetCancel(JobOf(t)) /\ Return(t) /\ UNCHANGED attempt
  <2>1. pc'[t] \in {"idle", "deciding"} /\ TaskMoves(t)
      BY <1>2, <1>4, ReturnRows DEF TaskMoves
  <2>2. /\ rows' \in [Tasks -> Seq(Jobs)] /\ pc' \in [Tasks -> TaskStates]
        /\ RowsQueued' /\ RunInv' /\ SuccessKept /\ OthersStay(t)
      BY <1>1, <1>2, <1>3, <1>4, <2>1, QuietTask DEF Running, Working, Preparing, WithProcess
  <2>3. /\ SlotsCounted' /\ admissionActive' \in 0..MaxConcurrentJobs
        /\ admissionWaiters' \in Seq(Tasks)
      BY <1>2, <1>4, <2>1, <2>2, SlotGiven DEF Holding
  <2>4. TypeOK'
      BY <1>1, <1>3, <1>4, <2>2, <2>3 DEF TypeOK, WritesRow, RowTypes, ForgetCancel, waitVars
  <2> QED
      BY <1>3, <2>2, <2>3, <2>4 DEF CoreKept, WritesRow
<1>5. CASE Throw(t) /\ UNCHANGED attempt /\ UNCHANGED <<admissionVars, cancelVars>>
  <2>1. pc'[t] = "idle" /\ TaskMoves(t)
      BY <1>2, <1>5 DEF TaskMoves, Throw, TypeOK
  <2>2. /\ rows' \in [Tasks -> Seq(Jobs)] /\ pc' \in [Tasks -> TaskStates]
        /\ RowsQueued' /\ RunInv' /\ SuccessKept /\ OthersStay(t)
      BY <1>1, <1>2, <1>3, <1>5, <2>1, QuietTask DEF Running, Working, Preparing, WithProcess
  <2>3. SlotsCounted'
      BY <1>5, <2>1, <2>2, SlotsStay DEF OthersStay, Holding, admissionVars
  <2>4. TypeOK'
      BY <1>1, <1>3, <1>5, <2>2
      DEF TypeOK, WritesRow, RowTypes, cancelVars, admissionVars, waitVars
  <2> QED
      BY <1>3, <2>2, <2>3, <2>4 DEF CoreKept, WritesRow
<1>6. CASE CreateAttempt(JobOf(t)) /\ Goto(t, "setup") /\ UNCHANGED <<admissionVars, cancelVars>>
  <2>1. pc'[t] = "setup" /\ TaskMoves(t)
      BY <1>2, <1>6 DEF TaskMoves, Goto, TypeOK, TaskStates, Holding
  <2>2. attempt[JobOf(t)] = "none" /\ attempt' = [attempt EXCEPT ![JobOf(t)] = "starting"]
      BY <1>6 DEF CreateAttempt
  <2>3. /\ attempt'[JobOf(t)] = "starting"
        /\ \A k \in Jobs \ {JobOf(t)} : attempt'[k] = attempt[k]
        /\ attempt' \in [Jobs -> {"none", "starting", "running", "completed"}]
      BY <1>2, <2>2 DEF TypeOK
  <2>4. proc'[JobOf(t)] = "none" /\ proc' = proc
      BY <1>1, <1>2, <2>2 DEF RunInv, ProcessOfRun
  <2>5. state'[JobOf(t)] # "completed"
    <3>1. Return(t) => pc'[t] \in {"idle", "deciding"}
        BY <1>2, ReturnRows
    <3>2. ~GivenUp(JobOf(t))
        BY <2>1, <3>1 DEF Admitted
    <3> QED
        BY <1>3, <3>2 DEF GivenUp, Terminal
  <2>6. /\ rows' \in [Tasks -> Seq(Jobs)] /\ pc' \in [Tasks -> TaskStates]
        /\ RowsQueued' /\ RunInv' /\ SuccessKept /\ OthersStay(t)
      BY <1>1, <1>2, <1>3, <2>1, <2>2, <2>3, <2>4, <2>5, RunTask
      DEF Running, Working, Preparing, WithProcess
  <2>7. SlotsCounted'
      BY <1>2, <1>6, <2>1, <2>6, SlotsStay DEF OthersStay, admissionVars
  <2>8. TypeOK'
      BY <1>1, <1>3, <1>6, <2>3, <2>6
      DEF TypeOK, WritesRow, RowTypes, cancelVars, admissionVars, waitVars
  <2> QED
      BY <1>3, <2>6, <2>7, <2>8 DEF CoreKept, WritesRow
<1> QED
    BY <1>4, <1>5, <1>6 DEF Admitted

(* The frame of every step within a run. *)
RunFrame == UNCHANGED <<stale, line, pendingCancels, admissionVars, life, waitVars>>

(* A move within a run, put together. *)
LEMMA RunCore ==
    ASSUME CoreInv, NEW t \in Tasks, pc[t] \in Running, NEW p \in Running, Goto(t, p),
           NEW j \in Jobs, j = JobOf(t), WritesRow(j), RunFrame,
           attempt' \in [Jobs -> {"none", "starting", "running", "completed"}],
           proc' \in [Jobs -> ProcStates], result' \in [Tasks -> Results],
           activeCancels' \subseteq Jobs, cancelled' \subseteq Jobs,
           attempt'[j] # "none",
           \A k \in Jobs \ {j} : attempt'[k] = attempt[k] /\ proc'[k] = proc[k],
           state'[j] = state[j] \/ state'[j] \notin {"unborn", "awaiting_confirmation"},
           p \in Preparing => proc'[j] = "none",
           p \in WithProcess => proc'[j] # "none",
           p \in {"collecting", "reporting"} => proc'[j] \in {"exit0", "exit1"},
           p \in Working /\ state'[j] = "completed" => outcome'[j] = "cancelled",
           p \in {"reporting", "failing"} => state'[j] = "completed",
           proc'[j] \in {"alive", "dying"} =>
              p \in WithProcess \/ (state'[j] = "completed" /\ outcome'[j] \in {"failed", "cancelled"}),
           pc[t] \in Working \/ (state'[j] = state[j] /\ outcome'[j] = outcome[j])
    PROVE  CoreKept
<1> USE DEF CoreInv
<1>1. Running \subseteq Holding /\ Holding \subseteq TaskStates /\ "idle" \notin Running
    BY DEF Running, Working, Preparing, WithProcess, Holding, TaskStates
<1>2. pc'[t] = p /\ TaskMoves(t)
    BY <1>1 DEF Goto, TypeOK, TaskMoves
<1>3. line' = line
    BY DEF RunFrame
<1>4. /\ rows' \in [Tasks -> Seq(Jobs)] /\ pc' \in [Tasks -> TaskStates]
      /\ RowsQueued' /\ RunInv' /\ SuccessKept /\ OthersStay(t)
    BY <1>2, <1>3, RunTask
<1>5. SlotsCounted'
    BY <1>1, <1>2, <1>4, SlotsStay DEF OthersStay, RunFrame, admissionVars
<1>6. TypeOK'
    BY <1>4 DEF TypeOK, RunFrame, WritesRow, RowTypes, admissionVars, waitVars
<1> QED
    BY <1>4, <1>5, <1>6 DEF CoreKept, WritesRow

(* What the invariant says of a task in its run. *)
LEMMA OfRun ==
    ASSUME CoreInv, NEW t \in Tasks, pc[t] \in Running
    PROVE  /\ JobOf(t) \in Jobs /\ attempt[JobOf(t)] # "none"
           /\ state[JobOf(t)] \notin {"unborn", "awaiting_confirmation"}
           /\ pc[t] \in Preparing => proc[JobOf(t)] = "none"
           /\ pc[t] \in WithProcess => proc[JobOf(t)] # "none"
           /\ pc[t] \in {"collecting", "reporting"} => proc[JobOf(t)] \in {"exit0", "exit1"}
           /\ pc[t] \in Working /\ state[JobOf(t)] = "completed" => outcome[JobOf(t)] = "cancelled"
           /\ pc[t] \in {"reporting", "failing"} => state[JobOf(t)] = "completed"
<1>1. JobOf(t) \in Jobs /\ JobOf(t) \in Lined
    BY RunIsBusy DEF CoreInv
<1> QED
    BY <1>1 DEF CoreInv, RowsQueued, RunInv, OneRunner, ProcessOfRun, RowOfRun, Terminal, Exited

(* The catch block: whatever process there is, the job has failed or was cancelled
   unless the process is gone. *)
LEMMA CatchCore ==
    ASSUME CoreInv, NEW t \in Tasks, pc[t] \in Running \ {"failing"}, NEW o \in {"failed", "cancelled"},
           Catch(t, o), RunFrame, UNCHANGED <<result, activeCancels, proc>>,
           cancelled' \subseteq Jobs
    PROVE  CoreKept
<1> DEFINE j == JobOf(t)
<1>1. /\ j \in Jobs /\ attempt[j] # "none"
      /\ pc[t] \in {"collecting", "reporting"} => proc[j] \in {"exit0", "exit1"}
      /\ pc[t] \in Working /\ state[j] = "completed" => outcome[j] = "cancelled"
      /\ pc[t] \in {"reporting", "failing"} => state[j] = "completed"
    BY OfRun
<1>2. attempt' = [attempt EXCEPT ![j] = "completed"] /\ Goto(t, "failing")
    BY DEF Catch
<1>3. /\ WritesRow(j) /\ state'[j] = "completed"
      /\ IF state[j] = "completed" THEN outcome'[j] = outcome[j] ELSE outcome'[j] = o
  <2>1. CASE state[j] = "completed"
    <3>1. LeaveJob
        BY <2>1 DEF Catch, Terminal
    <3> QED
        BY <1>1, <2>1, <3>1, LeaveWrites DEF CoreInv
  <2>2. CASE state[j] # "completed"
    <3>1. CompleteJob(j, o)
        BY <2>2 DEF Catch, Terminal
    <3> QED
        BY <1>1, <2>2, <3>1, CompleteWrites DEF CoreInv, Outcomes
  <2> QED
      BY <2>1, <2>2
<1>4. /\ attempt' \in [Jobs -> {"none", "starting", "running", "completed"}]
      /\ attempt'[j] # "none" /\ \A k \in Jobs \ {j} : attempt'[k] = attempt[k]
    BY <1>1, <1>2 DEF CoreInv, TypeOK
<1>5. pc[t] \in Working \/ pc[t] = "reporting"
    BY DEF Running
<1>6. proc'[j] \in {"alive", "dying"} => outcome'[j] \in {"failed", "cancelled"}
    BY <1>1, <1>3, <1>5
<1>7. /\ "failing" \in Running /\ "failing" \notin Working
      /\ "failing" \notin Preparing /\ "failing" \notin WithProcess
    BY DEF Running, Working, Preparing, WithProcess
<1>8. /\ proc' \in [Jobs -> ProcStates] /\ result' \in [Tasks -> Results]
      /\ activeCancels' \subseteq Jobs /\ proc' = proc
    BY DEF CoreInv, TypeOK
<1>9. pc[t] \in Working \/ (state'[j] = state[j] /\ outcome'[j] = outcome[j])
    BY <1>1, <1>3, <1>5
<1> HIDE DEF j
<1>10. j = JobOf(t)
    BY DEF j
<1> QED
    BY <1>1, <1>2, <1>3, <1>4, <1>6, <1>7, <1>8, <1>9, <1>10, RunCore

(* A step of the try block that fails. *)
LEMMA StepFailsCore ==
    ASSUME CoreInv, NEW t \in Tasks, StepFails(t)
    PROVE  CoreKept
<1>1. pc[t] \in Running \ {"failing"}
    BY DEF StepFails, Running, Working, Preparing, WithProcess
<1>2. CaughtOutcome(JobOf(t)) \in {"failed", "cancelled"}
    BY DEF CaughtOutcome
<1>3. /\ Catch(t, CaughtOutcome(JobOf(t))) /\ RunFrame /\ UNCHANGED <<result, activeCancels, proc>>
      /\ cancelled' \subseteq Jobs
    BY DEF StepFails, RunFrame, cancelVars, CoreInv, TypeOK
<1> QED
    BY <1>1, <1>2, <1>3, CatchCore

(* The two checkpoints. *)
LEMMA CheckpointCore ==
    ASSUME CoreInv, NEW t \in Tasks, pc[t] \in {"setup", "materializing"}, CancelCheckpoint(t),
           RunFrame, UNCHANGED <<result, activeCancels, proc>>
    PROVE  CoreKept
<1>1. pc[t] \in Running \ {"failing"}
    BY DEF Running, Working, Preparing
<1>2. Catch(t, "cancelled") /\ cancelled' \subseteq Jobs
    BY <1>1, OfRun DEF CancelCheckpoint, CoreInv, TypeOK
<1> QED
    BY <1>1, <1>2, CatchCore

(* Before the process: the directories, the snapshot, the script. *)
LEMMA PrepareCore ==
    ASSUME CoreInv, NEW t \in Tasks, SetUp(t) \/ Materialized(t) \/ ScriptWritten(t)
    PROVE  CoreKept
<1> DEFINE j == JobOf(t)
<1>1. pc[t] \in {"setup", "materializing", "scripting"} /\ RunFrame
      /\ UNCHANGED <<result, activeCancels, proc>>
    BY DEF SetUp, Materialized, ScriptWritten, RunFrame, cancelVars
<1>2. pc[t] \in Preparing /\ pc[t] \in Working /\ pc[t] \in Running
    BY <1>1 DEF Preparing, Running, Working
<1>3. /\ j \in Jobs /\ attempt[j] # "none" /\ proc[j] = "none"
      /\ state[j] = "completed" => outcome[j] = "cancelled"
    BY <1>2, OfRun
<1>4. CASE CancelCheckpoint(t) /\ pc[t] \in {"setup", "materializing"}
    BY <1>1, <1>4, CheckpointCore
<1>5. ASSUME NEW p \in {"materializing", "scripting", "starting"}, Goto(t, p),
             \/ LeaveJob
             \/ TransitionJobState(j, "materializing")
             \/ TransitionJobState(j, "starting"),
             UNCHANGED <<attempt, cancelled>>
      PROVE  CoreKept
  <2>1. /\ WritesRow(j)
        /\ state'[j] = "completed" => outcome'[j] = "cancelled"
        /\ state'[j] = state[j] \/ state'[j] \notin {"unborn", "awaiting_confirmation"}
    <3>1. CASE LeaveJob
        BY <1>3, <3>1, LeaveWrites DEF CoreInv
    <3>2. CASE TransitionJobState(j, "materializing")
        BY <1>3, <3>2, TransitionWrites DEF CoreInv, JobStates
    <3>3. CASE TransitionJobState(j, "starting")
        BY <1>3, <3>3, TransitionWrites DEF CoreInv, JobStates
    <3> QED
        BY <1>5, <3>1, <3>2, <3>3
  <2>2. p \in Running /\ p \in Preparing /\ p \notin WithProcess /\ p \in Working
        /\ p \notin {"collecting", "reporting", "failing"}
      BY DEF Running, Working, Preparing, WithProcess
  <2>3. /\ attempt' \in [Jobs -> {"none", "starting", "running", "completed"}]
        /\ proc' \in [Jobs -> ProcStates] /\ result' \in [Tasks -> Results]
        /\ activeCancels' \subseteq Jobs /\ cancelled' \subseteq Jobs
        /\ attempt' = attempt /\ proc' = proc
      BY <1>1, <1>5 DEF CoreInv, TypeOK
  <2> HIDE DEF j
  <2>4. j = JobOf(t)
      BY DEF j
  <2> QED
      BY <1>1, <1>2, <1>3, <1>5, <2>1, <2>2, <2>3, <2>4, RunCore
<1> QED
    BY <1>4, <1>5 DEF SetUp, Materialized, ScriptWritten, cancelVars

(* The script is started by the one task that runs the job, which has no process. *)
LEMMA SpawnCore ==
    ASSUME CoreInv, NEW t \in Tasks, SpawnJobScript(t)
    PROVE  CoreKept
<1> DEFINE j == JobOf(t)
<1>1. /\ pc[t] = "starting" /\ RunFrame /\ LeaveJob /\ Goto(t, "spawned")
      /\ proc' = [proc EXCEPT ![j] = "alive"]
      /\ UNCHANGED <<attempt, result, activeCancels, cancelled>>
    BY DEF SpawnJobScript, RunFrame, cancelVars
<1>2. /\ pc[t] \in Preparing /\ pc[t] \in Working /\ pc[t] \in Running
      /\ "spawned" \in Running /\ "spawned" \notin Preparing /\ "spawned" \in WithProcess
    BY <1>1 DEF Preparing, Running, Working, WithProcess
<1>3. /\ j \in Jobs /\ attempt[j] # "none"
      /\ state[j] = "completed" => outcome[j] = "cancelled"
    BY <1>2, OfRun
<1>4. WritesRow(j) /\ state' = state /\ outcome' = outcome
    BY <1>1, <1>3, LeaveWrites DEF CoreInv
<1>5. /\ attempt' \in [Jobs -> {"none", "starting", "running", "completed"}]
      /\ result' \in [Tasks -> Results] /\ attempt' = attempt
      /\ activeCancels' \subseteq Jobs /\ cancelled' \subseteq Jobs
    BY <1>1 DEF CoreInv, TypeOK
<1>6. /\ proc' \in [Jobs -> ProcStates] /\ proc'[j] = "alive"
      /\ \A k \in Jobs \ {j} : proc'[k] = proc[k]
    BY <1>1, <1>3 DEF CoreInv, TypeOK, ProcStates
<1> HIDE DEF j
<1>7. j = JobOf(t)
    BY DEF j
<1> QED
    BY <1>1, <1>2, <1>3, <1>4, <1>5, <1>6, <1>7, RunCore

(* Killing a process does not make one. *)
LEMMA KillProc ==
    ASSUME TypeOK, NEW j \in Jobs, Kill(j) \/ UNCHANGED proc
    PROVE  /\ proc' \in [Jobs -> ProcStates]
           /\ \A k \in Jobs \ {j} : proc'[k] = proc[k]
           /\ proc[j] # "none" => proc'[j] # "none"
           /\ proc'[j] \in {"alive", "dying"} => proc[j] \in {"alive", "dying"}
           /\ \A k \in Jobs : proc'[k] = "none" <=> proc[k] = "none"
           /\ \A k \in Jobs : proc[k] \in {"alive", "dying"} <=> proc'[k] \in {"alive", "dying"}
           /\ \A k \in Jobs : proc[k] \in {"exit0", "exit1"} <=> proc'[k] \in {"exit0", "exit1"}
<1>1. CASE Kill(j)
    BY <1>1 DEF Kill, TypeOK, ProcStates
<1>2. CASE UNCHANGED proc
    BY <1>2 DEF TypeOK
<1> QED
    BY <1>1, <1>2

(* process_started is recorded. *)
LEMMA StartedCore ==
    ASSUME CoreInv, NEW t \in Tasks, Started(t)
    PROVE  CoreKept
<1> DEFINE j == JobOf(t)
<1>1. /\ pc[t] = "spawned" /\ RunFrame /\ Goto(t, "executing") /\ UNCHANGED result
      /\ TransitionJobState(j, "running") /\ attempt' = [attempt EXCEPT ![j] = "running"]
      /\ activeCancels' = activeCancels \cup {j}
      /\ cancelled' = cancelled \/ cancelled' = cancelled \cup {j}
      /\ Kill(j) \/ UNCHANGED proc
    BY DEF Started, RunFrame
<1>2. /\ pc[t] \in WithProcess /\ pc[t] \in Working /\ pc[t] \in Running
      /\ "executing" \in Running /\ "executing" \notin Preparing /\ "executing" \in WithProcess
    BY <1>1 DEF Preparing, Running, Working, WithProcess
<1>3. j \in Jobs /\ proc[j] # "none"
    BY <1>2, OfRun
<1>4. WritesRow(j) /\ state'[j] = "running"
    BY <1>1, <1>3, TransitionWrites DEF CoreInv, JobStates
<1>5. /\ attempt' \in [Jobs -> {"none", "starting", "running", "completed"}]
      /\ attempt'[j] # "none" /\ \A k \in Jobs \ {j} : attempt'[k] = attempt[k]
    BY <1>1, <1>3 DEF CoreInv, TypeOK
<1>6. result' \in [Tasks -> Results] /\ activeCancels' \subseteq Jobs /\ cancelled' \subseteq Jobs
    BY <1>1, <1>3 DEF CoreInv, TypeOK
<1>7. proc' \in [Jobs -> ProcStates] /\ proc'[j] # "none" /\ \A k \in Jobs \ {j} : proc'[k] = proc[k]
    BY <1>1, <1>3, KillProc DEF CoreInv
<1> HIDE DEF j
<1>8. j = JobOf(t)
    BY DEF j
<1> QED
    BY <1>1, <1>2, <1>3, <1>4, <1>5, <1>6, <1>7, <1>8, RunCore

(* waitForCompletion has answered. *)
LEMMA CompletionCore ==
    ASSUME CoreInv, NEW t \in Tasks, Completion(t)
    PROVE  CoreKept
<1> DEFINE j == JobOf(t)
<1>1. /\ pc[t] = "executing" /\ RunFrame /\ LeaveJob /\ Goto(t, "draining")
      /\ UNCHANGED <<attempt, activeCancels, cancelled>>
      /\ Kill(j) \/ UNCHANGED proc
    BY DEF Completion, RunFrame, cancelVars
<1>2. /\ pc[t] \in WithProcess /\ pc[t] \in Working /\ pc[t] \in Running
      /\ "draining" \in Running /\ "draining" \notin Preparing /\ "draining" \in WithProcess
    BY <1>1 DEF Preparing, Running, Working, WithProcess
<1>3. /\ j \in Jobs /\ proc[j] # "none" /\ attempt[j] # "none"
      /\ state[j] = "completed" => outcome[j] = "cancelled"
    BY <1>2, OfRun
<1>4. WritesRow(j) /\ state' = state /\ outcome' = outcome
    BY <1>1, <1>3, LeaveWrites DEF CoreInv
<1>5. /\ attempt' \in [Jobs -> {"none", "starting", "running", "completed"}]
      /\ attempt' = attempt /\ activeCancels' \subseteq Jobs /\ cancelled' \subseteq Jobs
    BY <1>1 DEF CoreInv, TypeOK
<1>6. result' \in [Tasks -> Results]
  <2>1. Completions[j] \subseteq EarlyResults
      BY <1>3, RunnerAssumption
  <2>2. \E r \in Results : result' = [result EXCEPT ![t] = r]
      BY <2>1 DEF Completion, Results
  <2> QED
      BY <2>2 DEF CoreInv, TypeOK
<1>7. proc' \in [Jobs -> ProcStates] /\ proc'[j] # "none" /\ \A k \in Jobs \ {j} : proc'[k] = proc[k]
    BY <1>1, <1>3, KillProc DEF CoreInv
<1> HIDE DEF j
<1>8. j = JobOf(t)
    BY DEF j
<1> QED
    BY <1>1, <1>2, <1>3, <1>4, <1>5, <1>6, <1>7, <1>8, RunCore

(* The process is gone: artifacts are collected and the outcome is written. *)
LEMMA EndCore ==
    ASSUME CoreInv, NEW t \in Tasks, CollectArtifacts(t) \/ Finished(t)
    PROVE  CoreKept
<1> DEFINE j == JobOf(t)
<1>1. /\ pc[t] \in {"draining", "collecting"} /\ RunFrame
      /\ UNCHANGED <<result, activeCancels, cancelled, proc>>
    BY DEF CollectArtifacts, Finished, RunFrame, cancelVars
<1>2. pc[t] \in Working /\ pc[t] \in Running
    BY <1>1 DEF Running, Working, WithProcess
<1>3. j \in Jobs /\ attempt[j] # "none" /\ proc[j] \in {"exit0", "exit1"}
    BY <1>2, OfRun DEF CollectArtifacts, Finished, Exited
<1>4. /\ result' \in [Tasks -> Results] /\ activeCancels' \subseteq Jobs /\ cancelled' \subseteq Jobs
      /\ proc' \in [Jobs -> ProcStates] /\ proc' = proc
    BY <1>1 DEF CoreInv, TypeOK
<1>5. CASE CollectArtifacts(t)
  <2>1. /\ Goto(t, "collecting") /\ TransitionJobState(j, "collecting_artifacts")
        /\ attempt' = attempt
      BY <1>5 DEF CollectArtifacts
  <2>2. WritesRow(j) /\ state'[j] = "collecting_artifacts"
      BY <1>3, <2>1, TransitionWrites DEF CoreInv, JobStates
  <2>3. attempt' \in [Jobs -> {"none", "starting", "running", "completed"}]
      BY <2>1 DEF CoreInv, TypeOK
  <2>4. "collecting" \in Running /\ "collecting" \notin Preparing /\ "collecting" \notin WithProcess
      BY DEF Running, Working, Preparing, WithProcess
  <2> HIDE DEF j
  <2>5. j = JobOf(t)
      BY DEF j
  <2> QED
      BY <1>1, <1>2, <1>3, <1>4, <2>1, <2>2, <2>3, <2>4, <2>5, RunCore
<1>6. CASE Finished(t)
  <2>1. /\ Goto(t, "reporting") /\ CompleteJob(j, OutcomeOf(t))
        /\ attempt' = [attempt EXCEPT ![j] = "completed"]
      BY <1>6 DEF Finished
  <2>2. OutcomeOf(t) \in Outcomes
      BY DEF OutcomeOf, Outcomes
  <2>3. WritesRow(j) /\ state'[j] = "completed"
      BY <1>3, <2>1, <2>2, CompleteWrites DEF CoreInv
  <2>4. /\ attempt' \in [Jobs -> {"none", "starting", "running", "completed"}]
        /\ attempt'[j] # "none" /\ \A k \in Jobs \ {j} : attempt'[k] = attempt[k]
      BY <1>3, <2>1 DEF CoreInv, TypeOK
  <2>5. /\ "reporting" \in Running /\ "reporting" \notin Preparing /\ "reporting" \notin WithProcess
        /\ "reporting" \notin Working
      BY DEF Running, Working, Preparing, WithProcess
  <2> HIDE DEF j
  <2>6. j = JobOf(t)
      BY DEF j
  <2> QED
      BY <1>1, <1>2, <1>3, <1>4, <2>1, <2>3, <2>4, <2>5, <2>6, RunCore
<1> QED
    BY <1>5, <1>6

-----------------------------------------------------------------------------
(* Steps of clients, of the sweep and of the process. *)

(* A step that decides on jobs that are not in the line yet, and may dispatch. *)
LEMMA GateCore ==
    ASSUME CoreInv, RowTypes', Heard, stale' \subseteq Jobs, line' \in Seq(Jobs),
           Lined \subseteq Lined',
           \/ UNCHANGED <<pc, rows>>
           \/ \E t \in Tasks, s \in Seq(Jobs) :
                 Dispatch(t, s) /\ \A i \in 1..Len(s) : s[i] \in Lined',
           UNCHANGED <<attempt, result, cancelVars, admissionVars, proc, life, waitVars>>,
           \A j \in Jobs :
              \/ state'[j] = state[j] /\ outcome'[j] = outcome[j]
              \/ /\ state[j] \in {"unborn", "awaiting_confirmation"}
                 /\ state'[j] = "completed" => outcome'[j] # "succeeded",
           \A j \in Jobs : j \in Lined' => state'[j] \notin {"unborn", "awaiting_confirmation"}
    PROVE  CoreKept
<1> USE DEF CoreInv
<1>1. /\ rows' \in [Tasks -> Seq(Jobs)] /\ pc' \in [Tasks -> TaskStates]
      /\ \A u \in Tasks : \/ rows'[u] = rows[u] /\ pc'[u] = pc[u]
                          \/ pc[u] = "idle" /\ pc'[u] \in {"idle", "deciding"}
      /\ \A u \in Tasks : pc'[u] # "idle" => rows'[u] # <<>>
      /\ \A u \in Tasks : \A i \in 1..Len(rows'[u]) : rows'[u][i] \in Lined'
  <2>1. CASE UNCHANGED <<pc, rows>>
      BY <2>1 DEF TypeOK, RowsQueued
  <2>2. CASE \E t \in Tasks, s \in Seq(Jobs) :
                Dispatch(t, s) /\ \A i \in 1..Len(s) : s[i] \in Lined'
    <3>1. PICK t \in Tasks, s \in Seq(Jobs) :
             Dispatch(t, s) /\ \A i \in 1..Len(s) : s[i] \in Lined'
        BY <2>2
    <3>2. /\ rows' \in [Tasks -> Seq(Jobs)] /\ pc' \in [Tasks -> TaskStates]
          /\ \A u \in Tasks : u # t => rows'[u] = rows[u] /\ pc'[u] = pc[u]
          /\ pc[t] = "idle" /\ pc'[t] \in {"idle", "deciding"} /\ rows'[t] = s
          /\ pc'[t] # "idle" => s # <<>>
        BY <3>1, DispatchRows
    <3>3. \A u \in Tasks : pc'[u] # "idle" => rows'[u] # <<>>
        BY <3>2 DEF RowsQueued
    <3>4. \A u \in Tasks : \A i \in 1..Len(rows'[u]) : rows'[u][i] \in Lined'
        BY <3>1, <3>2 DEF RowsQueued
    <3> QED
        BY <3>2, <3>3, <3>4
  <2> QED
      BY <2>1, <2>2
<1>2. RowsQueued'
    BY <1>1 DEF RowsQueued
<1>3. \A j \in Jobs : state[j] \in {"unborn", "awaiting_confirmation"} => attempt[j] = "none"
    BY DEF RowsQueued, RunInv, LocalOnly
<1>4. \A u \in Tasks : pc'[u] \in Running \/ pc[u] \in WithProcess =>
          pc'[u] = pc[u] /\ rows'[u] = rows[u]
    BY <1>1 DEF Running, Working, Preparing, WithProcess
<1>5. \A u \in Tasks : pc'[u] \in {"queueing", "admitted"} =>
          pc'[u] = pc[u] /\ rows'[u] = rows[u]
    BY <1>1
<1>6. Quiet
    BY <1>3, <1>4, <1>5 DEF Quiet
<1>7. RunInv' /\ SuccessKept
    BY <1>6, QuietRun
<1>8. SlotsCounted'
    BY <1>1, SlotsStay DEF Holding, admissionVars
<1>9. TypeOK'
    BY <1>1 DEF TypeOK, RowTypes, cancelVars, admissionVars, waitVars
<1> QED
    BY <1>2, <1>7, <1>8, <1>9 DEF CoreKept

(* One more job in the line. *)
LEMMA LineGrows ==
    ASSUME TypeOK, NEW j \in Jobs, line' = Append(line, j)
    PROVE  line' \in Seq(Jobs) /\ Lined' = Lined \cup {j}
<1>1. line \in Seq(Jobs) /\ Len(line) \in Nat
    BY DEF TypeOK
<1>2. /\ line' \in Seq(Jobs) /\ Len(line') = Len(line) + 1
      /\ line'[Len(line) + 1] = j
      /\ \A i \in 1..Len(line) : line'[i] = line[i]
    BY <1>1
<1>3. Lined \cup {j} \subseteq Lined'
    BY <1>1, <1>2 DEF Lined
<1>4. ASSUME NEW i \in 1..Len(line') PROVE line'[i] \in Lined \cup {j}
  <2>1. i \in 1..Len(line) \/ i = Len(line) + 1
      BY <1>1, <1>2
  <2> QED
      BY <1>2, <2>1 DEF Lined
<1> QED
    BY <1>2, <1>3, <1>4 DEF Lined

(* The dispatch of one job of the line. *)
LEMMA OneRow ==
    ASSUME NEW j \in Jobs
    PROVE  <<j>> \in Seq(Jobs) /\ \A i \in 1..Len(<<j>>) : <<j>>[i] = j
OBVIOUS

(* A submission. *)
LEMMA SubmitCore ==
    ASSUME CoreInv, NEW j \in Jobs, NEW t \in Tasks, Submit(j, t)
    PROVE  CoreKept
<1> USE DEF CoreInv
<1>1. /\ state[j] = "unborn"
      /\ UNCHANGED <<outcome, attempt, stale, result, cancelVars, admissionVars, proc,
                     notifierVars, life, waitVars>>
    BY DEF Submit, taskVars
<1>2. j \notin Lined
    BY <1>1 DEF RowsQueued
<1>3. /\ state' = [state EXCEPT ![j] = "awaiting_confirmation"] \/ state' = [state EXCEPT ![j] = "queued"]
    BY DEF Submit
<1>4. RowTypes'
    BY <1>1, <1>3 DEF RowTypes, TypeOK, JobStates, notifierVars
<1>5. state'[j] # "completed" /\ \A k \in Jobs \ {j} : state'[k] = state[k]
    BY <1>3 DEF TypeOK
<1>6. Heard
    BY <1>1, <1>5 DEF Heard, Terminal, notifierVars
<1>7. CASE UNCHANGED <<line, taskVars>>
  <2>1. Lined' = Lined /\ line' \in Seq(Jobs) /\ stale' \subseteq Jobs
      BY <1>1, <1>7 DEF Lined, TypeOK
  <2>2. \A k \in Jobs : k \in Lined' => state'[k] \notin {"unborn", "awaiting_confirmation"}
      BY <1>2, <1>5, <2>1 DEF RowsQueued
  <2> QED
      BY <1>1, <1>4, <1>5, <1>6, <1>7, <2>1, <2>2, GateCore DEF taskVars
<1>8. CASE state' = [state EXCEPT ![j] = "queued"] /\ line' = Append(line, j) /\ Dispatch(t, <<j>>)
  <2>1. Lined' = Lined \cup {j} /\ line' \in Seq(Jobs) /\ stale' \subseteq Jobs
      BY <1>1, <1>8, LineGrows DEF TypeOK
  <2>2. \A k \in Jobs : k \in Lined' => state'[k] \notin {"unborn", "awaiting_confirmation"}
      BY <1>2, <1>5, <1>8, <2>1 DEF RowsQueued, TypeOK
  <2>3. \E u \in Tasks, s \in Seq(Jobs) : Dispatch(u, s) /\ \A i \in 1..Len(s) : s[i] \in Lined'
      BY <1>8, <2>1, OneRow
  <2> QED
      BY <1>1, <1>4, <1>5, <1>6, <2>1, <2>2, <2>3, GateCore
<1> QED
    BY <1>7, <1>8 DEF Submit

(* A confirmation in time, by the client or the operator. *)
LEMMA ConfirmedCore ==
    ASSUME CoreInv, NEW j \in Jobs, NEW t \in Tasks, Confirmed(j, t)
    PROVE  CoreKept
<1> USE DEF CoreInv
<1>1. /\ state[j] = "awaiting_confirmation" /\ Dispatch(t, <<j>>)
      /\ TransitionJobState(j, "queued") /\ line' = Append(line, j)
      /\ UNCHANGED <<attempt, stale, result, cancelVars, admissionVars, proc, life, waitVars>>
    BY DEF Confirmed
<1>2. WritesRow(j) /\ state'[j] = "queued" /\ outcome' = outcome
    BY <1>1, TransitionWrites DEF JobStates
<1>3. Lined' = Lined \cup {j} /\ line' \in Seq(Jobs) /\ stale' \subseteq Jobs
    BY <1>1, LineGrows DEF TypeOK
<1>4. \A k \in Jobs : k \in Lined' => state'[k] \notin {"unborn", "awaiting_confirmation"}
    BY <1>2, <1>3 DEF RowsQueued, WritesRow
<1>5. \E u \in Tasks, s \in Seq(Jobs) : Dispatch(u, s) /\ \A i \in 1..Len(s) : s[i] \in Lined'
    BY <1>1, <1>3, OneRow
<1> QED
    BY <1>1, <1>2, <1>3, <1>4, <1>5, GateCore DEF WritesRow

(* A confirmation too late, or the TTL itself. *)
LEMMA TooLateCore ==
    ASSUME CoreInv, NEW j \in Jobs, ConfirmTooLate(j) \/ TtlPasses(j)
    PROVE  CoreKept
<1> USE DEF CoreInv
<1>1. /\ state[j] = "awaiting_confirmation" /\ stale' \subseteq Jobs
      /\ UNCHANGED <<attempt, line, taskVars, cancelVars, admissionVars, proc, life, waitVars>>
    BY DEF ConfirmTooLate, TtlPasses, TypeOK
<1>2. j \notin Lined /\ Lined' = Lined /\ line' \in Seq(Jobs)
    BY <1>1 DEF RowsQueued, Lined, TypeOK
<1>3. /\ WritesRow(j)
      /\ \/ state' = state /\ outcome' = outcome
         \/ state'[j] = "completed" /\ outcome'[j] = "cancelled"
  <2>1. CASE ConfirmTooLate(j)
      BY <2>1, CompleteWrites DEF ConfirmTooLate, Outcomes
  <2>2. CASE TtlPasses(j)
      BY <2>2, LeaveWrites DEF TtlPasses, LeaveJob, notifierVars
  <2> QED
      BY <2>1, <2>2
<1>4. \A k \in Jobs : k \in Lined' => state'[k] \notin {"unborn", "awaiting_confirmation"}
    BY <1>2, <1>3 DEF RowsQueued, WritesRow
<1> QED
    BY <1>1, <1>2, <1>3, <1>4, GateCore DEF WritesRow, taskVars

(* The sweep expires confirmations and dispatches the line. *)
LEMMA SweepCore ==
    ASSUME CoreInv, NEW t \in Tasks, Sweep(t)
    PROVE  CoreKept
<1> USE DEF CoreInv
<1> DEFINE expired == {j \in stale : state[j] = "awaiting_confirmation"}
<1>1. /\ UNCHANGED <<attempt, stale, line, result, cancelVars, admissionVars, proc, life, waitVars>>
      /\ state' = [j \in Jobs |-> IF j \in expired THEN "completed" ELSE state[j]]
      /\ outcome' = [j \in Jobs |-> IF j \in expired THEN "cancelled" ELSE outcome[j]]
      /\ Notify(expired)
    BY DEF Sweep, ExpireStaleConfirmations
<1>2. listeners' \in [Jobs -> SUBSET Waiters] /\ woken' \subseteq Waiters
  <2>1. expired \in SUBSET Jobs
      BY DEF TypeOK
  <2> QED
      BY <1>1, <2>1, NotifyType
<1>3. RowTypes'
    BY <1>1, <1>2 DEF RowTypes, TypeOK, JobStates, Outcomes
<1>4. Heard
    BY <1>1 DEF TypeOK, Notify, Heard, Terminal
<1>5. Lined' = Lined /\ line' \in Seq(Jobs) /\ stale' \subseteq Jobs
    BY <1>1 DEF Lined, TypeOK
<1>6. \A j \in Jobs : j \in Lined' => state'[j] \notin {"unborn", "awaiting_confirmation"}
    BY <1>1, <1>5 DEF RowsQueued
<1>7. \E u \in Tasks, s \in Seq(Jobs) : Dispatch(u, s) /\ \A i \in 1..Len(s) : s[i] \in Lined'
  <2>1. PICK s \in QueuedRows : Dispatch(t, [i \in DOMAIN s |-> line[s[i]]])
      BY DEF Sweep
  <2> QED
      BY <1>5, <2>1, QueuedRowsType
<1>8. \A j \in Jobs :
              \/ state'[j] = state[j] /\ outcome'[j] = outcome[j]
              \/ /\ state[j] \in {"unborn", "awaiting_confirmation"}
                 /\ state'[j] = "completed" => outcome'[j] # "succeeded"
    BY <1>1
<1> QED
    BY <1>1, <1>3, <1>4, <1>5, <1>6, <1>7, <1>8, GateCore

(* A step beside the tasks: a process ends or is killed, a job that was not
   terminal is cancelled. *)
LEMMA BesideRun ==
    ASSUME TypeOK, RowsQueued, RunInv, UNCHANGED <<pc, rows, line>>,
           \A k \in Jobs : attempt'[k] = "none" <=> attempt[k] = "none",
           \A k \in Jobs : proc'[k] = "none" <=> proc[k] = "none",
           \A k \in Jobs : proc[k] \in {"exit0", "exit1"} => proc'[k] \in {"exit0", "exit1"},
           \A k \in Jobs : proc'[k] \in {"alive", "dying"} => proc[k] \in {"alive", "dying"},
           \A k \in Jobs :
              \/ state'[k] = state[k] /\ outcome'[k] = outcome[k]
              \/ state[k] # "completed" /\ state'[k] = "completed" /\ outcome'[k] = "cancelled"
    PROVE  RunInv' /\ SuccessKept
<1>1. \A u \in Tasks : JobOf(u)' = JobOf(u) /\ pc'[u] = pc[u]
    BY DEF JobOf
<1>2. Lined' = Lined
    BY DEF Lined
<1>3. \A u \in Tasks : pc[u] \in Running \cup {"queueing", "admitted"} => JobOf(u) \in Jobs
    BY RunIsBusy
<1>4. LocalOnly' /\ OneRunner'
    BY <1>1, <1>2, <1>3 DEF LocalOnly, OneRunner, RunInv
<1>5. ProcessOfRun'
  <2>1. \A u \in Tasks : /\ pc[u] \in Preparing => proc[JobOf(u)] = "none"
                         /\ pc[u] \in WithProcess => proc[JobOf(u)] # "none"
                         /\ pc[u] \in {"collecting", "reporting"} => proc[JobOf(u)] \in {"exit0", "exit1"}
      BY DEF RunInv, ProcessOfRun, Exited
  <2>2. \A u \in Tasks : pc[u] \in Preparing \cup WithProcess \cup {"collecting", "reporting"} =>
           JobOf(u) \in Jobs
      BY <1>3 DEF Running, Working
  <2> QED
      BY <1>1, <2>1, <2>2 DEF ProcessOfRun, RunInv, Exited
<1>6. RowOfRun'
  <2>1. \A u \in Tasks : pc[u] \in Working \cup {"reporting", "failing"} => JobOf(u) \in Jobs
      BY <1>3 DEF Running
  <2> QED
      BY <1>1, <2>1 DEF RowOfRun, RunInv, Terminal
<1>7. Survivors'
    BY <1>1 DEF Survivors, RunInv
<1>8. SuccessWasRun' /\ SuccessKept
    BY DEF SuccessWasRun, SuccessKept, RunInv, Terminal
<1> QED
    BY <1>4, <1>5, <1>6, <1>7, <1>8 DEF RunInv

(* job_cancel, and the end of a process. *)
LEMMA BesideCore ==
    ASSUME CoreInv, NEW j \in Jobs, RequestJobCancel(j) \/ ProcessEnds(j)
    PROVE  CoreKept
<1> USE DEF CoreInv
<1>1. UNCHANGED <<stale, line, pc, rows, result, activeCancels, admissionVars, life, waitVars>>
    BY DEF RequestJobCancel, ProcessEnds, jobVars, taskVars, cancelVars
<1>2. /\ WritesRow(j) /\ pendingCancels' \subseteq Jobs /\ cancelled' \subseteq Jobs
      /\ \/ state' = state /\ outcome' = outcome
         \/ state[j] # "completed" /\ state'[j] = "completed" /\ outcome'[j] = "cancelled"
  <2>1. CASE RequestJobCancel(j)
    <3>1. state[j] # "completed" /\ (LeaveJob \/ CompleteJob(j, "cancelled"))
        BY <2>1 DEF RequestJobCancel, Terminal
    <3>2. pendingCancels' \subseteq Jobs /\ cancelled' \subseteq Jobs
        BY <2>1 DEF RequestJobCancel, TypeOK
    <3>3. CASE LeaveJob
        BY <3>2, <3>3, LeaveWrites
    <3>4. CASE CompleteJob(j, "cancelled")
        BY <3>1, <3>2, <3>4, CompleteWrites DEF Outcomes
    <3> QED
        BY <3>1, <3>3, <3>4
  <2>2. CASE ProcessEnds(j)
    <3>1. LeaveJob /\ UNCHANGED <<pendingCancels, cancelled>>
        BY <2>2 DEF ProcessEnds, LeaveJob, jobVars, notifierVars, cancelVars
    <3> QED
        BY <3>1, LeaveWrites DEF TypeOK
  <2> QED
      BY <2>1, <2>2
<1>3. /\ attempt' \in [Jobs -> {"none", "starting", "running", "completed"}]
      /\ \A k \in Jobs : attempt'[k] = "none" <=> attempt[k] = "none"
  <2>1. \/ attempt' = attempt
        \/ attempt' = [attempt EXCEPT ![j] = IF @ = "none" THEN "none" ELSE "completed"]
      BY DEF RequestJobCancel, ProcessEnds, jobVars
  <2> QED
      BY <2>1 DEF TypeOK
<1>4. /\ proc' \in [Jobs -> ProcStates]
      /\ \A k \in Jobs : proc'[k] = "none" <=> proc[k] = "none"
      /\ \A k \in Jobs : proc[k] \in {"exit0", "exit1"} => proc'[k] \in {"exit0", "exit1"}
      /\ \A k \in Jobs : proc'[k] \in {"alive", "dying"} => proc[k] \in {"alive", "dying"}
  <2>1. CASE Kill(j) \/ UNCHANGED proc
      BY <2>1, KillProc
  <2>2. CASE ProcessEnds(j)
      BY <2>2 DEF ProcessEnds, TypeOK, ProcStates
  <2> QED
      BY <2>1, <2>2 DEF RequestJobCancel
<1>5. RunInv' /\ SuccessKept
    BY <1>1, <1>2, <1>3, <1>4, BesideRun DEF WritesRow
<1>6. RowsQueued'
  <2>1. Lined' = Lined
      BY <1>1 DEF Lined
  <2> QED
      BY <1>1, <1>2, <2>1 DEF RowsQueued, WritesRow
<1>7. SlotsCounted'
    BY <1>1, SlotsStay DEF admissionVars
<1>8. TypeOK'
    BY <1>1, <1>2, <1>3, <1>4 DEF TypeOK, WritesRow, RowTypes, admissionVars, waitVars
<1> QED
    BY <1>2, <1>5, <1>6, <1>7, <1>8 DEF CoreKept, WritesRow

-----------------------------------------------------------------------------
(* Waiters' steps and the shutdown. *)

(* Only waiters, the notifier and the life of the Controller are touched. *)
LEMMA WaitersCore ==
    ASSUME CoreInv, UNCHANGED <<jobVars, taskVars, cancelVars, admissionVars, proc>>
    PROVE  RowsQueued' /\ RunInv' /\ SlotsCounted' /\ SuccessKept
<1> USE DEF CoreInv
<1>1. UNCHANGED <<state, outcome, attempt, line, pc, rows, proc, admissionActive>>
    BY DEF jobVars, taskVars, admissionVars
<1>2. RunInv' /\ SuccessKept
    BY <1>1, BesideRun
<1>3. RowsQueued'
  <2>1. Lined' = Lined
      BY <1>1 DEF Lined
  <2> QED
      BY <1>1, <2>1 DEF RowsQueued
<1>4. SlotsCounted'
    BY <1>1, SlotsStay
<1> QED
    BY <1>2, <1>3, <1>4

(* Closing the notifier wakes every listener. *)
LEMMA CloseKept ==
    ASSUME CoreInv, CloseNotifier \/ CloseAgentPlane
    PROVE  CoreKept
<1>1. UNCHANGED <<jobVars, taskVars, cancelVars, admissionVars, proc, waitVars>>
      /\ life' \in {"up", "closing", "down"}
    BY DEF CloseNotifier, CloseAgentPlane
<1>2. RowsQueued' /\ RunInv' /\ SlotsCounted' /\ SuccessKept
    BY <1>1, WaitersCore
<1>3. state' = state
    BY <1>1 DEF jobVars
<1>4. listeners' \in [Jobs -> SUBSET Waiters] /\ woken' \subseteq Waiters /\ Heard
  <2>1. CASE CloseNotifier
    <3>1. Notify(Jobs)
        BY <2>1 DEF CloseNotifier
    <3>2. listeners' \in [Jobs -> SUBSET Waiters] /\ woken' \subseteq Waiters
        BY <3>1, NotifyType DEF CoreInv
    <3> QED
        BY <1>3, <3>1, <3>2 DEF Heard, Notify, Terminal, CoreInv, TypeOK
  <2>2. CASE CloseAgentPlane
      BY <1>3, <2>2 DEF CloseAgentPlane, notifierVars, Heard, Terminal, CoreInv, TypeOK
  <2> QED
      BY <2>1, <2>2
<1>5. TypeOK'
    BY <1>1, <1>4 DEF CoreInv, TypeOK, jobVars, taskVars, cancelVars, admissionVars, waitVars
<1> QED
    BY <1>2, <1>4, <1>5 DEF CoreKept, CoreInv

WaiterStates == {"idle", "ticking", "subscribing", "rereading", "parked", "answered"}

(* What a step of one waiter must leave to the others and make true of itself. *)
LEMMA WaiterStep ==
    ASSUME TypeOK, WaitInv, NEW w \in Waiters, state' = state, outcome' = outcome,
           \A v \in Waiters : v # w =>
              /\ wpc'[v] = wpc[v] /\ wjob'[v] = wjob[v] /\ told'[v] = told[v]
              /\ v \in woken => v \in woken'
              /\ \A j \in Jobs : v \in listeners[j] => v \in listeners'[j],
           wpc'[w] = "rereading" => w \in woken' \/ w \in listeners'[wjob'[w]],
           wpc'[w] = "parked" =>
              w \in woken' \/ (w \in listeners'[wjob'[w]] /\ state[wjob'[w]] # "completed"),
           told'[w] = "succeeded" =>
              /\ wpc'[w] = "answered"
              /\ state[wjob'[w]] = "completed" /\ outcome[wjob'[w]] = "succeeded"
    PROVE  WaitInv'
<1>1. \A v \in Waiters : wjob[v] \in Jobs
    BY DEF TypeOK
<1>2. Subscribed'
    BY <1>1 DEF WaitInv, Subscribed
<1>3. NoLostWakeup'
    BY <1>1 DEF WaitInv, NoLostWakeup, Terminal
<1>4. ToldIsAnswered'
    BY DEF WaitInv, ToldIsAnswered
<1>5. SuccessIsFinal'
    BY <1>1 DEF WaitInv, SuccessIsFinal, Terminal
<1> QED
    BY <1>2, <1>3, <1>4, <1>5 DEF WaitInv

(* The answer of waitForJob. *)
LEMMA AnswerTold ==
    ASSUME TypeOK, NEW w \in Waiters, NEW j \in Jobs, Answer(w, j), told[w] # "succeeded"
    PROVE  /\ told' \in [Waiters -> Outcomes] /\ wpc' \in [Waiters -> WaiterStates]
           /\ wpc'[w] \in {"answered", "idle"}
           /\ told'[w] = "succeeded" =>
                 wpc'[w] = "answered" /\ state[j] = "completed" /\ outcome[j] = "succeeded"
           /\ \A v \in Waiters : v # w => wpc'[v] = wpc[v] /\ told'[v] = told[v]
BY DEF Answer, TypeOK, Terminal, WaiterStates

(* The next place of waitForJob. *)
LEMMA WaitPlace ==
    ASSUME TypeOK, NEW w \in Waiters, NEW p \in WaiterStates, Wait(w, p), told[w] # "succeeded"
    PROVE  /\ told' \in [Waiters -> Outcomes] /\ wpc' \in [Waiters -> WaiterStates]
           /\ wpc'[w] = p /\ told'[w] # "succeeded"
           /\ \A v \in Waiters : v # w => wpc'[v] = wpc[v] /\ told'[v] = told[v]
BY DEF Wait, TypeOK, WaiterStates

(* A waiter's subscription is its own. *)
LEMMA UnsubscribeOwn ==
    ASSUME TypeOK, NEW w \in Waiters, Unsubscribe(w) \/ UNCHANGED notifierVars
    PROVE  /\ listeners' \in [Jobs -> SUBSET Waiters] /\ woken' \subseteq Waiters
           /\ \A v \in Waiters : v # w =>
                 /\ v \in woken => v \in woken'
                 /\ \A j \in Jobs : v \in listeners[j] => v \in listeners'[j]
<1>1. CASE Unsubscribe(w)
  <2>1. /\ woken' = woken \ {w}
        /\ \A j \in Jobs : listeners'[j] = listeners[j] \ {w} \/ listeners'[j] = listeners[j]
        /\ listeners' = [j \in Jobs |-> listeners'[j]]
      BY <1>1 DEF Unsubscribe, TypeOK
  <2> QED
      BY <2>1 DEF TypeOK
<1>2. CASE UNCHANGED notifierVars
    BY <1>2 DEF TypeOK, notifierVars
<1> QED
    BY <1>1, <1>2

(* A waiting client's step keeps what every waiting client relies on. *)
LEMMA WaiterKept ==
    ASSUME CoreInv, WaitInv, NEW w \in Waiters, Waiter(w)
    PROVE  CoreInv' /\ WaitInv'
<1> USE DEF CoreInv
<1>1. UNCHANGED waitFrame /\ wpc[w] # "answered"
    BY DEF Waiter, WaitBegin, WaitRead, Subscribe, Reread, WaitWoken, WaitFallback, LookAgain,
           WaitExpires
<1>2. told[w] # "succeeded" /\ wjob[w] \in Jobs
    BY <1>1 DEF WaitInv, ToldIsAnswered, TypeOK
<1>3. RowsQueued' /\ RunInv' /\ SlotsCounted' /\ state' = state /\ outcome' = outcome
    BY <1>1, WaitersCore DEF waitFrame, jobVars
<1>4. ASSUME told' \in [Waiters -> Outcomes], wpc' \in [Waiters -> WaiterStates],
             wjob' \in [Waiters -> Jobs],
             listeners' \in [Jobs -> SUBSET Waiters], woken' \subseteq Waiters
      PROVE  CoreInv'
  <2>1. TypeOK'
      BY <1>1, <1>4 DEF TypeOK, WaiterStates, waitFrame, jobVars, taskVars, cancelVars, admissionVars
  <2> QED
      BY <1>3, <2>1
<1>5. ASSUME NEW j \in Jobs, wjob' = [wjob EXCEPT ![w] = j],
             Unsubscribe(w) \/ UNCHANGED notifierVars,
             Answer(w, j) \/ Wait(w, "ticking") \/ Wait(w, "subscribing")
      PROVE  CoreInv' /\ WaitInv'
  <2>1. wjob' \in [Waiters -> Jobs] /\ wjob'[w] = j /\ \A v \in Waiters : v # w => wjob'[v] = wjob[v]
      BY <1>5 DEF TypeOK
  <2>2. /\ told' \in [Waiters -> Outcomes] /\ wpc' \in [Waiters -> WaiterStates]
        /\ wpc'[w] \notin {"rereading", "parked"}
        /\ told'[w] = "succeeded" =>
              wpc'[w] = "answered" /\ state[j] = "completed" /\ outcome[j] = "succeeded"
        /\ \A v \in Waiters : v # w => wpc'[v] = wpc[v] /\ told'[v] = told[v]
    <3>1. CASE Answer(w, j)
        BY <1>2, <3>1, AnswerTold
    <3>2. CASE Wait(w, "ticking")
        BY <1>2, <3>2, WaitPlace DEF WaiterStates
    <3>3. CASE Wait(w, "subscribing")
        BY <1>2, <3>3, WaitPlace DEF WaiterStates
    <3> QED
        BY <1>5, <3>1, <3>2, <3>3
  <2>3. /\ listeners' \in [Jobs -> SUBSET Waiters] /\ woken' \subseteq Waiters
        /\ \A v \in Waiters : v # w =>
              /\ v \in woken => v \in woken'
              /\ \A k \in Jobs : v \in listeners[k] => v \in listeners'[k]
      BY <1>5, UnsubscribeOwn
  <2>4. WaitInv'
      BY <1>3, <2>1, <2>2, <2>3, WaiterStep
  <2> QED
      BY <1>4, <2>1, <2>2, <2>3, <2>4
<1>6. wjob = [wjob EXCEPT ![w] = wjob[w]]
    BY DEF TypeOK
<1>7. ASSUME NEW j \in Jobs, WaitBegin(w, j) PROVE CoreInv' /\ WaitInv'
    BY <1>5, <1>7 DEF WaitBegin
<1>8. CASE WaitRead(w) \/ LookAgain(w) \/ WaitExpires(w)
  <2>1. /\ wjob' = [wjob EXCEPT ![w] = wjob[w]]
        /\ Unsubscribe(w) \/ UNCHANGED notifierVars
        /\ Answer(w, wjob[w]) \/ Wait(w, "ticking") \/ Wait(w, "subscribing")
      BY <1>6, <1>8 DEF WaitRead, LookAgain, WaitExpires
  <2> QED
      BY <1>2, <1>5, <2>1
<1>9. CASE Subscribe(w)
  <2>1. /\ Wait(w, "rereading") /\ wjob' = wjob
        /\ \/ woken' = woken \cup {w} /\ listeners' = listeners
           \/ listeners' = [listeners EXCEPT ![wjob[w]] = @ \cup {w}] /\ woken' = woken
      BY <1>9 DEF Subscribe
  <2>2. /\ told' \in [Waiters -> Outcomes] /\ wpc' \in [Waiters -> WaiterStates]
        /\ wpc'[w] = "rereading" /\ told'[w] # "succeeded"
        /\ \A v \in Waiters : v # w => wpc'[v] = wpc[v] /\ told'[v] = told[v]
      BY <1>2, <2>1, WaitPlace DEF WaiterStates
  <2>3. /\ listeners' \in [Jobs -> SUBSET Waiters] /\ woken' \subseteq Waiters
        /\ w \in woken' \/ w \in listeners'[wjob[w]]
        /\ \A v \in Waiters : v # w =>
              /\ v \in woken => v \in woken'
              /\ \A k \in Jobs : v \in listeners[k] => v \in listeners'[k]
    <3>1. CASE woken' = woken \cup {w} /\ listeners' = listeners
        BY <3>1 DEF TypeOK
    <3>2. CASE listeners' = [listeners EXCEPT ![wjob[w]] = @ \cup {w}] /\ woken' = woken
      <4>1. /\ \A k \in Jobs : listeners'[k] = listeners[k] \cup {w} \/ listeners'[k] = listeners[k]
            /\ listeners' = [k \in Jobs |-> listeners'[k]]
            /\ listeners'[wjob[w]] = listeners[wjob[w]] \cup {w}
          BY <1>2, <3>2 DEF TypeOK
      <4> QED
          BY <3>2, <4>1 DEF TypeOK
    <3> QED
        BY <2>1, <3>1, <3>2
  <2>4. WaitInv'
      BY <1>3, <2>1, <2>2, <2>3, WaiterStep
  <2>5. wjob' \in [Waiters -> Jobs]
      BY <2>1 DEF TypeOK
  <2> QED
      BY <1>4, <2>2, <2>3, <2>4, <2>5
<1>10. CASE Reread(w)
  <2>1. CASE Unsubscribe(w) /\ Answer(w, wjob[w])
      BY <1>2, <1>5, <1>6, <1>10, <2>1 DEF Reread
  <2>2. CASE Wait(w, "parked") /\ UNCHANGED notifierVars /\ ~Terminal(wjob[w])
    <3>1. /\ told' \in [Waiters -> Outcomes] /\ wpc' \in [Waiters -> WaiterStates]
          /\ wpc'[w] = "parked" /\ told'[w] # "succeeded"
          /\ \A v \in Waiters : v # w => wpc'[v] = wpc[v] /\ told'[v] = told[v]
        BY <1>2, <2>2, WaitPlace DEF WaiterStates
    <3>2. /\ w \in woken \/ w \in listeners[wjob[w]]
          /\ wjob' = wjob /\ listeners' = listeners /\ woken' = woken
        BY <1>10, <2>2 DEF Reread, WaitInv, Subscribed, notifierVars
    <3>3. state[wjob[w]] # "completed"
        BY <2>2 DEF Terminal
    <3>4. WaitInv'
        BY <1>3, <3>1, <3>2, <3>3, WaiterStep
    <3>5. wjob' \in [Waiters -> Jobs] /\ listeners' \in [Jobs -> SUBSET Waiters] /\ woken' \subseteq Waiters
        BY <3>2 DEF TypeOK
    <3> QED
        BY <1>4, <3>1, <3>4, <3>5
  <2> QED
      BY <1>10, <2>1, <2>2 DEF Reread
<1> QED
    BY <1>7, <1>8, <1>9, <1>10 DEF Waiter, WaitWoken, WaitFallback

-----------------------------------------------------------------------------
(* The theorems. *)

(* The invariant holds at the start. *)
LEMMA InitRunner ==
    ASSUME Init PROVE CoreInv /\ WaitInv
<1> USE DEF Init
<1>1. Lined = {}
  <2>1. Len(line) = 0
      OBVIOUS
  <2> QED
      BY <2>1 DEF Lined
<1>2. (CHOOSE j \in Jobs : TRUE) \in Jobs
    BY RunnerAssumption
<1>3. TypeOK
    BY <1>2, RunnerAssumption DEF TypeOK, JobStates, Outcomes, TaskStates, Results, ProcStates
<1>4. RowsQueued
    BY <1>1 DEF RowsQueued
<1>5. RunInv
    BY DEF RunInv, LocalOnly, OneRunner, ProcessOfRun, RowOfRun, Survivors, SuccessWasRun,
           Running, Working, Preparing, WithProcess, Terminal
<1>6. SlotsCounted
  <2>1. Holders = {}
      BY DEF Holders, Holding
  <2> QED
      BY <2>1, FS_EmptySet DEF SlotsCounted
<1>7. WaitInv
    BY DEF WaitInv, Subscribed, NoLostWakeup, ToldIsAnswered, SuccessIsFinal
<1> QED
    BY <1>3, <1>4, <1>5, <1>6, <1>7 DEF CoreInv

(* Every step keeps it. *)
LEMMA NextRunner ==
    ASSUME CoreInv, WaitInv, [Next]_vars
    PROVE  CoreInv' /\ WaitInv'
<1>1. CASE CoreKept /\ UNCHANGED waitVars
    BY <1>1, HeardWait DEF CoreKept, CoreInv
<1>2. ASSUME NEW t \in Tasks, Task(t) PROVE CoreKept /\ UNCHANGED waitVars
  <2>1. UNCHANGED waitVars
      BY <1>2 DEF Task, Advance, StopDispatch, DecideWait, DecideFailFast, DecideLocal, Resume,
           Admitted, SetUp, Materialized, ScriptWritten, SpawnJobScript, Started, Completion,
           CollectArtifacts, Finished, Finally, Cleaned, Sweep, SetupFails, StepFails
  <2>2. CoreKept
      BY <1>2, StopDispatchCore, DecideCore, AcquireCore, AdmittedCore, PrepareCore, SpawnCore,
         StartedCore, CompletionCore, EndCore, FinallyCore, SweepCore, StepFailsCore
         DEF Task, Advance
  <2> QED
      BY <2>1, <2>2
<1>3. ASSUME NEW j \in Jobs, Client(j) PROVE CoreKept /\ UNCHANGED waitVars
  <2>1. UNCHANGED waitVars
      BY <1>3 DEF Client, Submit, Confirm, ConfirmByAdmin, Confirmed, TtlPasses, ConfirmTooLate,
           RequestJobCancel, ProcessEnds
  <2>2. CoreKept
      BY <1>3, SubmitCore, ConfirmedCore, TooLateCore, BesideCore
         DEF Client, Confirm, ConfirmByAdmin, Tasks
  <2> QED
      BY <2>1, <2>2
<1>4. CASE CloseNotifier \/ CloseAgentPlane
    BY <1>1, <1>4, CloseKept DEF CloseNotifier, CloseAgentPlane
<1>5. ASSUME NEW w \in Waiters, Waiter(w) PROVE CoreInv' /\ WaitInv'
    BY <1>5, WaiterKept
<1>6. CASE UNCHANGED vars
  <2>1. CoreKept
    <3>1. TypeOK'
        BY <1>6 DEF vars, CoreInv, TypeOK, jobVars, taskVars, cancelVars, admissionVars,
                    notifierVars, waitVars
    <3>2. Heard
        BY <1>6 DEF Heard, vars, jobVars, notifierVars, Terminal
    <3> QED
        BY <1>6, <3>1, <3>2, WaitersCore DEF vars, CoreKept, CoreInv
  <2> QED
      BY <1>1, <1>6, <2>1 DEF vars
<1> QED
    BY <1>1, <1>2, <1>3, <1>4, <1>5, <1>6 DEF Next

(* The inductive invariant holds in every reachable state. *)
THEOREM RunnerInvariant == Spec => [](CoreInv /\ WaitInv)
<1>1. Init => CoreInv /\ WaitInv
    BY InitRunner
<1>2. (CoreInv /\ WaitInv) /\ [Next]_vars => (CoreInv /\ WaitInv)'
    BY NextRunner
<1> QED
    BY <1>1, <1>2, PTL DEF Spec

(* Every variable of the runner keeps its type; no more slots are taken than the
   configuration gives. *)
THEOREM RunnerTypeCorrect == Spec => []TypeOK
<1>1. CoreInv /\ WaitInv => TypeOK
    BY DEF CoreInv
<1> QED
    BY <1>1, RunnerInvariant, PTL

(* The admission semaphore bounds the scripts on the host, and a process without
   its run is one whose job is known to have failed or been cancelled. *)
THEOREM HostStaysWithinLimit == Spec => []HostWithinLimit
<1>1. CoreInv /\ WaitInv => HostWithinLimit
  <2> SUFFICES ASSUME CoreInv PROVE HostWithinLimit
      OBVIOUS
  <2>1. Cardinality({t \in Tasks : pc[t] \in Holding}) <= admissionActive
      BY DEF CoreInv, SlotsCounted, Holders
  <2>2. admissionActive <= MaxConcurrentJobs
      BY RunnerAssumption DEF CoreInv, TypeOK
  <2>3. WithProcess \subseteq Holding
      BY DEF WithProcess, Holding
  <2> QED
      BY <2>1, <2>2, <2>3 DEF HostWithinLimit, CoreInv, RunInv, Survivors
<1> QED
    BY <1>1, RunnerInvariant, PTL

(* Read, subscribe, read again loses no wake-up, however many clients wait. *)
THEOREM NoWakeupIsLost == Spec => []NoLostWakeup
<1>1. CoreInv /\ WaitInv => NoLostWakeup
    BY DEF WaitInv
<1> QED
    BY <1>1, RunnerInvariant, PTL

(* No dispatch, cancellation or failing step takes back a success a client was
   told of. *)
THEOREM SuccessStaysTold == Spec => []SuccessIsFinal
<1>1. CoreInv /\ WaitInv => SuccessIsFinal
    BY DEF WaitInv
<1> QED
    BY <1>1, RunnerInvariant, PTL

-----------------------------------------------------------------------------
(* The refinement of ExecutionGate. *)

Asked == {"unborn", "awaiting_confirmation"}

(* The gate of a job, by the jobs of the line. *)
LEMMA GateValue ==
    ASSUME NEW j \in Jobs
    PROVE  GateOf(j) = IF j \notin Guarded THEN "open"
                       ELSE IF state[j] \in Asked THEN "asked"
                       ELSE IF j \in Lined THEN "accepted" ELSE "refused"
BY DEF GateOf, Asked, Lined

(* The same after a step. *)
LEMMA GateValueNext ==
    ASSUME NEW j \in Jobs
    PROVE  GateOf(j)' = IF j \notin Guarded THEN "open"
                        ELSE IF state'[j] \in Asked THEN "asked"
                        ELSE IF j \in Lined' THEN "accepted" ELSE "refused"
BY DEF GateOf, Asked, Lined

(* No gate moves where no guarded job leaves its confirmation or joins the line. *)
LEMMA GateStays ==
    ASSUME \A j \in Guarded : (state'[j] \in Asked <=> state[j] \in Asked)
                              /\ (j \in Lined' <=> j \in Lined)
    PROVE  [j \in Jobs |-> GateOf(j)]' = [j \in Jobs |-> GateOf(j)]
<1>1. \A j \in Jobs : GateOf(j)' = GateOf(j)
    BY GateValue, GateValueNext, Zenon
<1> QED
    BY <1>1, Zenon

(* No execution moves where no process starts or ends. *)
LEMMA ExecStays ==
    ASSUME \A j \in Jobs : (proc'[j] = "none" <=> proc[j] = "none")
                /\ (proc'[j] \in {"alive", "dying"} <=> proc[j] \in {"alive", "dying"})
    PROVE  [j \in Jobs |-> ExecOf(j)]' = [j \in Jobs |-> ExecOf(j)]
<1>1. \A j \in Jobs : ExecOf(j)' = ExecOf(j)
    BY DEF ExecOf
<1> QED
    BY <1>1, Zenon

(* The initial gate. *)
LEMMA GateInit == ASSUME Init PROVE Gate!Init
<1>1. \A j \in Jobs : GateOf(j) = IF j \in Guarded THEN "asked" ELSE "open"
    BY GateValue DEF Init, Asked
<1>2. \A j \in Jobs : ExecOf(j) = "no"
    BY DEF Init, ExecOf
<1> QED
    BY <1>1, <1>2, Zenon DEF Gate!Init

(* A task other than one that starts a script moves no gate: it works on a job of
   the line, which stays behind its confirmation. *)
LEMMA TaskGate ==
    ASSUME CoreInv, CoreInv', NEW t \in Tasks, Advance(t) \/ SetupFails(t) \/ StepFails(t)
    PROVE  [j \in Jobs |-> GateOf(j)]' = [j \in Jobs |-> GateOf(j)]
<1> USE DEF CoreInv
<1>1. pc[t] # "idle"
    BY DEF Advance, StopDispatch, DecideWait, DecideFailFast, DecideLocal, Resume,
           Admitted, SetUp, Materialized, ScriptWritten, SpawnJobScript, Started, Completion,
           CollectArtifacts, Finished, Finally, Cleaned, RunCleanupScript, SetupFails, StepFails
<1>2. line' = line
    BY DEF Advance, StopDispatch, DecideWait, DecideFailFast, DecideLocal, Resume,
           Admitted, SetUp, Materialized, ScriptWritten, SpawnJobScript, Started, Completion,
           CollectArtifacts, Finished, Finally, Cleaned, SetupFails, StepFails, jobVars
<1>3. state' = state \/ \E s : state' = [state EXCEPT ![JobOf(t)] = s]
    BY DEF Advance, StopDispatch, DecideWait, DecideFailFast, DecideLocal, Resume,
           Admitted, SetUp, Materialized, ScriptWritten, SpawnJobScript, Started, Completion,
           CollectArtifacts, Finished, Finally, Cleaned, SetupFails, StepFails, jobVars,
           LeaveJob, TransitionJobState, CompleteJob, CancelCheckpoint, Catch
<1>4. JobOf(t) \in Jobs /\ JobOf(t) \in Lined
    BY <1>1, JobOfTask
<1>5. Lined' = Lined
    BY <1>2 DEF Lined
<1>6. state[JobOf(t)] \notin Asked /\ state'[JobOf(t)] \notin Asked
    BY <1>4, <1>5 DEF RowsQueued, Asked
<1>7. \A j \in Jobs : j # JobOf(t) => state'[j] = state[j]
    BY <1>3 DEF TypeOK
<1>8. Guarded \subseteq Jobs
    BY RunnerAssumption
<1> QED
    BY <1>5, <1>6, <1>7, <1>8, GateStays

(* And it moves no execution, unless it starts the script. *)
LEMMA TaskExec ==
    ASSUME CoreInv, NEW t \in Tasks, Advance(t) \/ SetupFails(t) \/ StepFails(t), ~SpawnJobScript(t)
    PROVE  [j \in Jobs |-> ExecOf(j)]' = [j \in Jobs |-> ExecOf(j)]
<1> USE DEF CoreInv
<1>1. proc' = proc \/ (pc[t] # "idle" /\ Kill(JobOf(t)))
    BY DEF Advance, StopDispatch, DecideWait, DecideFailFast, DecideLocal, Resume,
           Admitted, SetUp, Materialized, ScriptWritten, Started, Completion,
           CollectArtifacts, Finished, Finally, Cleaned, SetupFails, StepFails
<1>2. CASE proc' = proc
    BY <1>2, ExecStays
<1>3. CASE pc[t] # "idle" /\ Kill(JobOf(t))
    BY <1>3, JobOfTask, KillProc, ExecStays
<1> QED
    BY <1>1, <1>2, <1>3

(* A script is started by a run whose job the gate let pass and which has none. *)
LEMMA SpawnGate ==
    ASSUME CoreInv, CoreInv', NEW t \in Tasks, SpawnJobScript(t)
    PROVE  Gate!Next
<1>1. pc[t] = "starting" /\ proc' = [proc EXCEPT ![JobOf(t)] = "alive"]
    BY DEF SpawnJobScript
<1>2. PICK j \in Jobs : j = JobOf(t) /\ j \in Lined /\ proc[j] = "none"
    BY <1>1, RunIsBusy DEF CoreInv, RunInv, ProcessOfRun, Running, Working, Preparing
<1>3. [k \in Jobs |-> GateOf(k)]' = [k \in Jobs |-> GateOf(k)]
    BY TaskGate DEF Advance
<1>4. GateOf(j) \in {"open", "accepted"}
  <2>1. state[j] \notin Asked
      BY <1>2 DEF CoreInv, RowsQueued, Asked
  <2> QED
      BY <1>2, <2>1, GateValue
<1>5. ExecOf(j) = "no" /\ ExecOf(j)' = "running" /\ \A k \in Jobs \ {j} : ExecOf(k)' = ExecOf(k)
  <2>1. proc'[j] = "alive" /\ \A k \in Jobs \ {j} : proc'[k] = proc[k]
      BY <1>1, <1>2 DEF CoreInv, TypeOK
  <2> QED
      BY <1>2, <2>1 DEF ExecOf
<1>6. [k \in Jobs |-> ExecOf(k)]' = [[k \in Jobs |-> ExecOf(k)] EXCEPT ![j] = "running"]
    BY <1>5
<1>7. Gate!Start(j)
    BY <1>3, <1>4, <1>5, <1>6 DEF Gate!Start
<1> QED
    BY <1>7 DEF Gate!Next

(* One guarded job is decided at most, and its execution is left alone. *)
LEMMA DecideGate ==
    ASSUME NEW j \in Jobs, state[j] \in Asked, state'[j] \notin Asked,
           \A k \in Guarded \ {j} : (state'[k] \in Asked <=> state[k] \in Asked)
                                    /\ (k \in Lined' <=> k \in Lined),
           proc' = proc
    PROVE  [Gate!Next]_(Gate!vars)
<1>1. [k \in Jobs |-> ExecOf(k)]' = [k \in Jobs |-> ExecOf(k)]
    BY ExecStays
<1>2. \A k \in Jobs \ {j} : GateOf(k)' = GateOf(k)
    BY GateValue, GateValueNext, Zenon
<1>3. CASE j \in Guarded
  <2>1. GateOf(j) = "asked" /\ GateOf(j)' \in {"accepted", "refused"}
      BY <1>3, GateValue, GateValueNext
  <2>2. [k \in Jobs |-> GateOf(k)]' = [[k \in Jobs |-> GateOf(k)] EXCEPT ![j] = GateOf(j)']
      BY <1>2
  <2>3. Gate!Decide(j)
      BY <1>1, <2>1, <2>2 DEF Gate!Decide
  <2> QED
      BY <2>3 DEF Gate!Next
<1>4. CASE j \notin Guarded
  <2>1. GateOf(j)' = GateOf(j)
      BY <1>4, GateValue, GateValueNext
  <2>2. [k \in Jobs |-> GateOf(k)]' = [k \in Jobs |-> GateOf(k)]
      BY <1>2, <2>1, Zenon
  <2> QED
      BY <1>1, <2>2 DEF Gate!vars
<1> QED
    BY <1>3, <1>4

(* The sweep refuses the stale jobs. *)
LEMMA SweepGate ==
    ASSUME CoreInv, NEW t \in Tasks, Sweep(t)
    PROVE  Gate!Next
<1> DEFINE S == {j \in stale \cap Guarded : state[j] = "awaiting_confirmation"}
<1>1. /\ proc' = proc /\ line' = line
      /\ state' = [j \in Jobs |-> IF j \in {k \in stale : state[k] = "awaiting_confirmation"}
                                  THEN "completed" ELSE state[j]]
    BY DEF Sweep, ExpireStaleConfirmations
<1>2. Lined' = Lined
    BY <1>1 DEF Lined
<1>3. [j \in Jobs |-> ExecOf(j)]' = [j \in Jobs |-> ExecOf(j)]
    BY <1>1, ExecStays
<1>4. ASSUME NEW j \in S
      PROVE  j \in Jobs /\ GateOf(j) = "asked" /\ GateOf(j)' = "refused"
  <2>1. j \in Jobs /\ j \in Guarded /\ state[j] \in Asked /\ state'[j] = "completed"
      BY <1>1, RunnerAssumption DEF Asked
  <2>2. j \notin Lined
      BY <2>1 DEF CoreInv, RowsQueued, Asked
  <2> QED
      BY <1>2, <2>1, <2>2, GateValue, GateValueNext DEF Asked
<1>5. ASSUME NEW j \in Jobs, j \notin S
      PROVE  GateOf(j)' = GateOf(j)
  <2>1. CASE j \notin Guarded
      BY <2>1, GateValue, GateValueNext
  <2>2. CASE j \in Guarded
    <3>1. state'[j] = state[j]
        BY <1>1, <1>5, <2>2
    <3> QED
        BY <1>2, <2>2, <3>1, GateValue, GateValueNext
  <2> QED
      BY <2>1, <2>2
<1> HIDE DEF S
<1>6. S \in SUBSET {j \in Jobs : [k \in Jobs |-> GateOf(k)][j] = "asked"}
    BY <1>4
<1>7. [j \in Jobs |-> GateOf(j)]' =
         [j \in Jobs |-> IF j \in S THEN "refused" ELSE [k \in Jobs |-> GateOf(k)][j]]
    BY <1>4, <1>5
<1>8. Gate!RefuseStale
    BY <1>3, <1>6, <1>7 DEF Gate!RefuseStale
<1> QED
    BY <1>8 DEF Gate!Next

(* A process ends once. *)
LEMMA EndGate ==
    ASSUME CoreInv, NEW j \in Jobs, ProcessEnds(j)
    PROVE  Gate!Next
<1>1. /\ proc[j] \in {"alive", "dying"} /\ state' = state /\ line' = line
      /\ proc' = [proc EXCEPT ![j] = "exit0"] \/ proc' = [proc EXCEPT ![j] = "exit1"]
    BY DEF ProcessEnds, jobVars
<1>2. proc'[j] \in {"exit0", "exit1"} /\ \A k \in Jobs \ {j} : proc'[k] = proc[k]
    BY <1>1 DEF CoreInv, TypeOK
<1>3. ExecOf(j) = "running" /\ ExecOf(j)' = "over" /\ \A k \in Jobs \ {j} : ExecOf(k)' = ExecOf(k)
    BY <1>1, <1>2 DEF ExecOf
<1>4. [k \in Jobs |-> ExecOf(k)]' = [[k \in Jobs |-> ExecOf(k)] EXCEPT ![j] = "over"]
    BY <1>3
<1>5. Lined' = Lined
    BY <1>1 DEF Lined
<1>6. [k \in Jobs |-> GateOf(k)]' = [k \in Jobs |-> GateOf(k)]
    BY <1>1, <1>5, GateStays
<1>7. Gate!End(j)
    BY <1>3, <1>4, <1>6 DEF Gate!End
<1> QED
    BY <1>7 DEF Gate!Next

(* A client's step decides one job or none. *)
LEMMA ClientGate ==
    ASSUME CoreInv, NEW j \in Jobs, Client(j)
    PROVE  [Gate!Next]_(Gate!vars)
<1> USE DEF CoreInv
<1>1. Guarded \subseteq Jobs
    BY RunnerAssumption
<1>2. CASE \E t \in Callers : Submit(j, t)
  <2>1. proc' = proc
      BY <1>2 DEF Submit
  <2>2. CASE j \in Guarded
    <3>1. line' = line /\ state[j] \in Asked /\ state' = [state EXCEPT ![j] = "awaiting_confirmation"]
        BY <1>2, <2>2 DEF Submit, Asked
    <3>2. Lined' = Lined
        BY <3>1 DEF Lined
    <3>3. \A k \in Guarded : state'[k] \in Asked <=> state[k] \in Asked
        BY <1>1, <3>1 DEF TypeOK, Asked
    <3> QED
        BY <2>1, <3>2, <3>3, GateStays, ExecStays DEF Gate!vars
  <2>3. CASE j \notin Guarded
    <3>1. line' = Append(line, j) /\ state' = [state EXCEPT ![j] = "queued"]
        BY <1>2, <2>3 DEF Submit
    <3>2. Lined' = Lined \cup {j}
        BY <3>1, LineGrows
    <3>3. \A k \in Guarded : state'[k] = state[k] /\ (k \in Lined' <=> k \in Lined)
        BY <1>1, <2>3, <3>1, <3>2 DEF TypeOK
    <3> QED
        BY <2>1, <3>3, GateStays, ExecStays DEF Gate!vars
  <2> QED
      BY <2>2, <2>3
<1>3. CASE \E t \in Callers : Confirmed(j, t)
  <2>1. /\ state[j] = "awaiting_confirmation" /\ line' = Append(line, j) /\ proc' = proc
        /\ state' = [state EXCEPT ![j] = "queued"]
      BY <1>3 DEF Confirmed, TransitionJobState
  <2>2. Lined' = Lined \cup {j}
      BY <2>1, LineGrows
  <2>3. state'[j] = "queued" /\ \A k \in Guarded \ {j} : state'[k] = state[k]
      BY <1>1, <2>1 DEF TypeOK
  <2> QED
      BY <2>1, <2>2, <2>3, DecideGate DEF Asked
<1>4. CASE TtlPasses(j)
  <2>1. state' = state /\ line' = line /\ proc' = proc
      BY <1>4 DEF TtlPasses
  <2>2. Lined' = Lined
      BY <2>1 DEF Lined
  <2> QED
      BY <2>1, <2>2, GateStays, ExecStays DEF Gate!vars
<1>5. CASE ConfirmTooLate(j) \/ RequestJobCancel(j)
  <2>1. line' = line /\ state[j] # "unborn"
      BY <1>5 DEF ConfirmTooLate, RequestJobCancel
  <2>2. Lined' = Lined
      BY <2>1 DEF Lined
  <2>3. proc' = proc \/ (j \in activeCancels /\ Kill(j))
      BY <1>5 DEF ConfirmTooLate, RequestJobCancel
  <2>4. state' = state \/ (proc' = proc /\ state' = [state EXCEPT ![j] = "completed"])
      BY <1>5 DEF ConfirmTooLate, RequestJobCancel, LeaveJob, CompleteJob
  <2>5. CASE state' = state
    <3>1. [k \in Jobs |-> ExecOf(k)]' = [k \in Jobs |-> ExecOf(k)]
        BY <2>3, KillProc, ExecStays
    <3> QED
        BY <2>2, <2>5, <3>1, GateStays DEF Gate!vars
  <2>6. CASE proc' = proc /\ state' = [state EXCEPT ![j] = "completed"]
    <3>1. state'[j] = "completed" /\ \A k \in Guarded \ {j} : state'[k] = state[k]
        BY <1>1, <2>6 DEF TypeOK
    <3>2. CASE state[j] \in Asked
        BY <2>2, <2>6, <3>1, <3>2, DecideGate DEF Asked
    <3>3. CASE state[j] \notin Asked
        BY <2>2, <2>6, <3>1, <3>3, GateStays, ExecStays DEF Gate!vars, Asked
    <3> QED
        BY <3>2, <3>3
  <2> QED
      BY <2>4, <2>5, <2>6
<1>6. CASE ProcessEnds(j)
    BY <1>6, EndGate
<1> QED
    BY <1>2, <1>3, <1>4, <1>5, <1>6 DEF Client, Confirm, ConfirmByAdmin

(* Every step of the runner is a step of the gate or none. *)
LEMMA NextGate ==
    ASSUME CoreInv, CoreInv', [Next]_vars
    PROVE  [Gate!Next]_(Gate!vars)
<1>1. ASSUME NEW t \in Tasks, Task(t) PROVE [Gate!Next]_(Gate!vars)
  <2>1. CASE Sweep(t)
      BY <2>1, SweepGate
  <2>2. CASE SpawnJobScript(t)
      BY <2>2, SpawnGate
  <2>3. CASE (Advance(t) \/ SetupFails(t) \/ StepFails(t)) /\ ~SpawnJobScript(t)
      BY <2>3, TaskGate, TaskExec DEF Gate!vars
  <2> QED
      BY <1>1, <2>1, <2>2, <2>3 DEF Task
<1>2. ASSUME NEW j \in Jobs, Client(j) PROVE [Gate!Next]_(Gate!vars)
    BY <1>2, ClientGate
<1>3. CASE UNCHANGED <<state, line, proc>>
  <2>1. Lined' = Lined
      BY <1>3 DEF Lined
  <2> QED
      BY <1>3, <2>1, GateStays, ExecStays DEF Gate!vars
<1>4. ASSUME NEW w \in Waiters, Waiter(w) PROVE [Gate!Next]_(Gate!vars)
  <2>1. UNCHANGED waitFrame
      BY <1>4 DEF Waiter, WaitBegin, WaitRead, Subscribe, Reread, WaitWoken, WaitFallback,
             LookAgain, WaitExpires
  <2> QED
      BY <1>3, <2>1 DEF waitFrame, jobVars
<1>5. CASE CloseNotifier \/ CloseAgentPlane \/ UNCHANGED vars
  <2>1. UNCHANGED <<state, line, proc>>
      BY <1>5 DEF CloseNotifier, CloseAgentPlane, vars, jobVars
  <2> QED
      BY <1>3, <2>1
<1> QED
    BY <1>1, <1>2, <1>4, <1>5 DEF Next

(* The local runner implements the execution gate: whatever dispatches, sweeps,
   cancellations and confirmations race, a guarded job is decided once, a refused
   one never runs, and no job's script is started twice. *)
THEOREM RunnerImplementsGate == Spec => GateHolds
<1>1. Init => Gate!Init
    BY GateInit
<1>2. (CoreInv /\ WaitInv) /\ (CoreInv /\ WaitInv)' /\ [Next]_vars => [Gate!Next]_(Gate!vars)
    BY NextGate
<1> QED
    BY <1>1, <1>2, RunnerInvariant, PTL DEF Spec, GateHolds, Gate!Spec
=============================================================================
