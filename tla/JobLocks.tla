------------------------------ MODULE JobLocks ------------------------------
(***************************************************************************)
(* The two kinds of mutex of the job table (internal/jobs): Table.mu, over *)
(* the list of jobs, and Job.mu, over each job's state and live count.     *)
(* JobTable takes every critical section as one step; here the sections    *)
(* that nest are taken apart, and those that do not stay one step, enabled *)
(* when the mutex they need is free.                                       *)
(*                                                                         *)
(* The actors are the prompt loop, which lists, resumes and snapshots the  *)
(* jobs, and the waiters, one per background process: the goroutine that   *)
(* sits in Wait4 for it, be it the exec handler or the reaper after it.    *)
(***************************************************************************)
EXTENDS Integers, FiniteSets

CONSTANTS
  Job, Waiter,
  Nobody      \* the owner of a free mutex; also no job

ASSUME LocksAssumption ==
  /\ Nobody \notin Job \cup Waiter \cup {"loop"}
  /\ "loop" \notin Waiter
  /\ IsFiniteSet(Waiter)

VARIABLES
  tableMu,     \* owner of Table.mu
  jobMu,       \* owner of each Job.mu
  jobs,        \* Table.jobs
  state, live, \* Job
  wpc, wjob,   \* waiters: program counter, job
  lpc,         \* the loop: program counter
  left,        \* the jobs it has listed and not yet looked at
  sel          \* the job fg waits for

lockVars == <<tableMu, jobMu>>
jobVars  == <<jobs, state, live>>
loopVars == <<lpc, left, sel>>
vars == <<lockVars, jobVars, wpc, wjob, loopVars>>

Free(j) == jobMu[j] = Nobody
TableFree == tableMu = Nobody

-----------------------------------------------------------------------------
(* Waiters *)

\* backgroundJob: the statement's job, created and filed on first use.
BackgroundJob(w, j) ==
  /\ wpc[w] = "new"
  /\ TableFree
  /\ \/ state[j] # "Unborn" /\ UNCHANGED <<jobs, state>>
     \/ /\ state[j] = "Unborn"
        /\ jobs' = jobs \cup {j}
        /\ state' = [state EXCEPT ![j] = "Running"]
  /\ wjob' = [wjob EXCEPT ![w] = j]
  /\ wpc' = [wpc EXCEPT ![w] = "spawn"]
  /\ UNCHANGED <<lockVars, live, loopVars>>

OneMore(j) == live[j] + 1

\* Job.mu is held while the process starts.  JobTable has the failures.
Spawn(w) ==
  /\ wpc[w] = "spawn"
  /\ Free(wjob[w])
  /\ live' = [live EXCEPT ![wjob[w]] = OneMore(wjob[w])]
  /\ wpc' = [wpc EXCEPT ![w] = "wait"]
  /\ UNCHANGED <<lockVars, jobs, state, wjob, loopVars>>

\* Wait4 reports a stop; who waits next, the reaper, is the same actor here.
Stopped(w) ==
  /\ wpc[w] = "wait"
  /\ Free(wjob[w])
  /\ state' = [state EXCEPT ![wjob[w]] = "Stopped"]
  /\ UNCHANGED <<lockVars, jobs, live, wpc, wjob, loopVars>>

\* MUTANT: job.mu is released before the job is removed.
KeepJobMuNot(w) == UNCHANGED jobMu

KeepJobMu(w) == jobMu' = [jobMu EXCEPT ![wjob[w]] = w]

\* procDone, first half: job.mu is taken, and kept when this was the last.
ProcDone(w) ==
  LET j == wjob[w] IN
  /\ wpc[w] = "wait"
  /\ Free(j)
  /\ live' = [live EXCEPT ![j] = @ - 1]
  /\ IF live[j] - 1 <= 0
     THEN /\ state' = [state EXCEPT ![j] = "Done"]
          /\ KeepJobMu(w)
          /\ wpc' = [wpc EXCEPT ![w] = "remove"]
     ELSE /\ wpc' = [wpc EXCEPT ![w] = "end"]
          /\ UNCHANGED <<state, jobMu>>
  /\ UNCHANGED <<tableMu, jobs, wjob, loopVars>>

\* MUTANT: a finished job's mutex is not released.
ReleaseJobMuNot(j) == UNCHANGED jobMu

ReleaseJobMu(j) == jobMu' = [jobMu EXCEPT ![j] = Nobody]

\* remove, and procDone's return.
Remove(w) ==
  LET j == wjob[w] IN
  /\ wpc[w] = "remove"
  /\ TableFree
  /\ jobs' = jobs \ {j}
  /\ ReleaseJobMu(j)
  /\ wpc' = [wpc EXCEPT ![w] = "end"]
  /\ UNCHANGED <<tableMu, state, live, wjob, loopVars>>

-----------------------------------------------------------------------------
(* The prompt loop *)

\* Jobs and pick copy the list under Table.mu and look at the jobs after.
List ==
  /\ lpc = "idle"
  /\ TableFree
  /\ left' = jobs
  /\ lpc' = "list"
  /\ UNCHANGED <<lockVars, jobVars, wpc, wjob, sel>>

\* Snapshot holds Table.mu all along, for a completion that offers job
\* numbers or for the MCP server.
SnapshotBegin ==
  /\ lpc = "idle"
  /\ TableFree
  /\ tableMu' = "loop"
  /\ left' = jobs
  /\ lpc' = "list"
  /\ UNCHANGED <<jobMu, jobVars, wpc, wjob, sel>>

LookAt(j) ==
  /\ lpc = "list"
  /\ j \in left
  /\ Free(j)
  /\ left' = left \ {j}
  /\ UNCHANGED <<lockVars, jobVars, wpc, wjob, lpc, sel>>

ListEnd ==
  /\ lpc = "list"
  /\ left = {}
  /\ tableMu' = Nobody
  /\ lpc' = "idle"
  /\ UNCHANGED <<jobMu, jobVars, wpc, wjob, left, sel>>

\* fg: the job is picked under Table.mu, and marked Running under job.mu.
Fg(j) ==
  /\ lpc = "idle"
  /\ TableFree
  /\ j \in jobs
  /\ sel' = j
  /\ lpc' = "resume"
  /\ UNCHANGED <<lockVars, jobVars, wpc, wjob, left>>

Resume ==
  /\ lpc = "resume"
  /\ Free(sel)
  /\ state' = IF state[sel] = "Stopped"
              THEN [state EXCEPT ![sel] = "Running"] ELSE state
  /\ lpc' = "wait"
  /\ UNCHANGED <<lockVars, jobs, live, wpc, wjob, left, sel>>

Wakes(j) == state[j] # "Running" /\ Free(j)

WaitChange ==
  /\ lpc = "wait"
  /\ Wakes(sel)
  /\ lpc' = IF state[sel] = "Done" THEN "finished" ELSE "idle"
  /\ UNCHANGED <<lockVars, jobVars, wpc, wjob, left, sel>>

FgReturn ==
  /\ lpc = "finished"
  /\ lpc' = "idle"
  /\ UNCHANGED <<lockVars, jobVars, wpc, wjob, left, sel>>

-----------------------------------------------------------------------------
Init ==
  /\ tableMu = Nobody
  /\ jobMu = [j \in Job |-> Nobody]
  /\ jobs = {}
  /\ state = [j \in Job |-> "Unborn"]
  /\ live = [j \in Job |-> 0]
  /\ wpc = [w \in Waiter |-> "new"]
  /\ wjob = [w \in Waiter |-> Nobody]
  /\ lpc = "idle"
  /\ left = {}
  /\ sel = Nobody

Starts(w) == \E j \in Job : BackgroundJob(w, j)
Wait(w) == Spawn(w) \/ Remove(w)
Loop ==
  \/ \E j \in Job : LookAt(j)
  \/ ListEnd \/ Resume \/ WaitChange \/ FgReturn

Next ==
  \/ \E w \in Waiter : Starts(w) \/ Wait(w) \/ Stopped(w) \/ ProcDone(w)
  \/ Loop
  \/ List \/ SnapshotBegin
  \/ \E j \in Job : Fg(j)

Spec == Init /\ [][Next]_vars

(***************************************************************************)
(* Every goroutine that can take its next step takes it, and a mutex is    *)
(* not withheld for ever from one that wants it (sync.Mutex's starvation   *)
(* mode hands it to the longest waiter after a millisecond).  Processes    *)
(* need not stop or end, nor the user do anything.                         *)
(***************************************************************************)
Fairness ==
  /\ \A w \in Waiter : SF_vars(Wait(w))
  /\ SF_vars(Loop)

FairSpec == Spec /\ Fairness
-----------------------------------------------------------------------------
(* Properties *)

(* The type of every variable: live never goes below zero when every       *)
(* process has one waiter, for Start and procDone count it under Job.mu.   *)
TypeOK ==
  /\ tableMu \in {Nobody, "loop"}
  /\ jobMu \in [Job -> Waiter \cup {Nobody}]
  /\ jobs \subseteq Job
  /\ state \in [Job -> {"Unborn", "Running", "Stopped", "Done"}]
  /\ live \in [Job -> Nat]
  /\ wpc \in [Waiter -> {"new", "spawn", "wait", "remove", "end"}]
  /\ wjob \in [Waiter -> Job \cup {Nobody}]
  /\ lpc \in {"idle", "list", "resume", "wait", "finished"}
  /\ left \subseteq Job
  /\ sel \in Job \cup {Nobody}

(* The prompt loop and a waiter wait for each other: the one owns Table.mu *)
(* and wants the job.mu of the other, who wants Table.mu.                  *)
LockCycle ==
  \E w \in Waiter :
    /\ wpc[w] = "remove"
    /\ jobMu[wjob[w]] = w
    /\ tableMu = "loop"
    /\ lpc = "list"
    /\ wjob[w] \in left

(* That never happens: "no path acquires them in the other order"          *)
(* (procDone's comment).                                                   *)
NoLockCycle == ~LockCycle

(* `fg' returning Done and `jobs' still showing the job never meet: when   *)
(* fg has come back, the job is off the list (procDone's comment).         *)
FinishedNotListed == lpc = "finished" => sel \notin jobs

(* The list is consistent wherever a lock is free for another to look.     *)
ListIsConsistent == TypeOK /\ FinishedNotListed

(* Nobody waits for a mutex for ever but in that one circle: else a waiter *)
(* that begins to remove a finished job gets through (again and again,     *)
(* none is at it), and so does the prompt that looks at the jobs.          *)
LocksComeRound ==
  /\ []<>(LockCycle \/ \A w \in Waiter : wpc[w] # "remove")
  /\ []<>(LockCycle \/ lpc # "list")
=============================================================================
