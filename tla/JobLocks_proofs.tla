-------------------------- MODULE JobLocks_proofs --------------------------
(***************************************************************************)
(* Proofs about JobLocks, for any jobs and any finite number of waiters:   *)
(* ListIsConsistent, that is, the live count of a job is never negative    *)
(* and `fg' never comes back from a finished job that is still listed.     *)
(*                                                                         *)
(* The count needs to be exact to stay above zero (Counted); the list is   *)
(* right because a Done job with a free mutex is off it (DoneIsOff).       *)
(***************************************************************************)
EXTENDS JobLocks, FiniteSetTheorems, TLAPS

\* The processes of job j that somebody waits for.
Waits(j) == {w \in Waiter : wpc[w] = "wait" /\ wjob[w] = j}

\* A waiter past its start has a job, and so has fg past its choice.
HasJob ==
  /\ \A w \in Waiter : wpc[w] # "new" => wjob[w] \in Job
  /\ lpc \in {"resume", "wait", "finished"} => sel \in Job

\* live counts the processes that are waited for.
Counted == \A j \in Job : live[j] = Cardinality(Waits(j))

\* A finished job is on the list only while its mutex is held, by the waiter that is
\* about to remove it.
DoneIsOff == \A j \in Job : state[j] = "Done" /\ Free(j) => j \notin jobs

\* A waiter that removes a job owns the job's mutex.
RemoverOwns == \A w \in Waiter : wpc[w] = "remove" => jobMu[wjob[w]] = w

\* What fg has come back from is no longer listed, and will not be again: only a job
\* that is not born yet is put on the list.
FinishedIsOff == lpc = "finished" => sel \notin jobs /\ state[sel] # "Unborn"

LocksInv == TypeOK /\ HasJob /\ Counted /\ DoneIsOff /\ RemoverOwns /\ FinishedIsOff
-----------------------------------------------------------------------------
(* Counting                                                                *)

\* The waiters of one job are finitely many, and a number.
LEMMA WaitsFinite ==
  ASSUME NEW j
  PROVE  IsFiniteSet(Waits(j)) /\ Cardinality(Waits(j)) \in Nat
<1>1. IsFiniteSet(Waits(j))
  BY LocksAssumption, FS_Subset DEF LocksAssumption, Waits
<1> QED BY <1>1, FS_CardinalityType

\* A job's count and its waiters grow together (Start under job.mu).
LEMMA OneMoreCounted ==
  ASSUME TypeOK, Counted, NEW w \in Waiter, NEW k \in Job, wjob[w] = k, wpc[w] # "wait",
         wpc' = [wpc EXCEPT ![w] = "wait"], wjob' = wjob,
         live' = [live EXCEPT ![k] = @ + 1]
  PROVE  Counted' /\ live' \in [Job -> Nat]
<1>1. Waits(k)' = Waits(k) \cup {w} /\ w \notin Waits(k)
  BY DEF Waits, TypeOK
<1>2. \A j \in Job : j # k => Waits(j)' = Waits(j)
  BY DEF Waits, TypeOK
<1>3. Cardinality(Waits(k)') = Cardinality(Waits(k)) + 1
  BY <1>1, WaitsFinite, FS_AddElement
<1>4. live'[k] = live[k] + 1 /\ \A j \in Job : j # k => live'[j] = live[j]
  BY DEF TypeOK
<1>5. Counted'
  BY <1>2, <1>3, <1>4 DEF Counted
<1> QED BY <1>5 DEF TypeOK

\* And they shrink together (procDone under job.mu); the count stays a number.
LEMMA OneLessCounted ==
  ASSUME TypeOK, Counted, NEW w \in Waiter, NEW k \in Job, wjob[w] = k, wpc[w] = "wait",
         NEW pc, pc # "wait",
         wpc' = [wpc EXCEPT ![w] = pc], wjob' = wjob,
         live' = [live EXCEPT ![k] = @ - 1]
  PROVE  Counted' /\ live' \in [Job -> Nat]
<1>1. Waits(k)' = Waits(k) \ {w} /\ w \in Waits(k)
  BY DEF Waits, TypeOK
<1>2. \A j \in Job : j # k => Waits(j)' = Waits(j)
  BY DEF Waits, TypeOK
<1>3. Cardinality(Waits(k)') = Cardinality(Waits(k)) - 1
  BY <1>1, WaitsFinite, FS_RemoveElement
<1>4. Cardinality(Waits(k)') \in Nat
  BY <1>1, WaitsFinite, FS_RemoveElement, FS_CardinalityType
<1>5. live'[k] = live[k] - 1 /\ \A j \in Job : j # k => live'[j] = live[j]
  BY DEF TypeOK
<1>6. Counted'
  BY <1>2, <1>3, <1>5 DEF Counted
<1>7. live[k] - 1 \in Nat
  BY <1>3, <1>4 DEF Counted
<1> QED BY <1>6, <1>7 DEF TypeOK

\* A step that leaves the waiting ones alone leaves the count alone.
LEMMA SameCounted ==
  ASSUME Counted, live' = live, \A j \in Job : Waits(j)' = Waits(j)
  PROVE  Counted'
BY DEF Counted
-----------------------------------------------------------------------------
LEMMA InitLocks == Init => LocksInv
<1> SUFFICES ASSUME Init PROVE LocksInv
  OBVIOUS
<1>1. TypeOK
  BY DEF Init, TypeOK
<1>2. \A j \in Job : Waits(j) = {}
  BY DEF Init, Waits
<1>3. Counted
  BY <1>2, FS_EmptySet DEF Init, Counted
<1>4. HasJob /\ DoneIsOff /\ RemoverOwns /\ FinishedIsOff
  BY DEF Init, HasJob, DoneIsOff, RemoverOwns, FinishedIsOff
<1> QED BY <1>1, <1>3, <1>4 DEF LocksInv

\* The first half of procDone: the last process makes the job Done, and keeps its mutex.
LEMMA ProcDoneStep ==
  ASSUME LocksInv, NEW w \in Waiter, ProcDone(w)
  PROVE  LocksInv'
<1> USE DEF lockVars, jobVars, loopVars, Free
<1> DEFINE j == wjob[w]
<1>1. /\ TypeOK /\ HasJob /\ Counted /\ DoneIsOff /\ RemoverOwns /\ FinishedIsOff
      /\ j \in Job /\ wpc[w] = "wait" /\ jobMu[j] = Nobody
      /\ live' = [live EXCEPT ![j] = @ - 1] /\ wjob' = wjob
      /\ UNCHANGED <<tableMu, jobs, lpc, left, sel>>
  BY DEF LocksInv, ProcDone, HasJob
<1>2. CASE live[j] - 1 <= 0
  <2>1. /\ state' = [state EXCEPT ![j] = "Done"]
        /\ jobMu' = [jobMu EXCEPT ![j] = w]
        /\ wpc' = [wpc EXCEPT ![w] = "remove"]
    BY <1>2 DEF ProcDone, KeepJobMu
  <2>2. Counted' /\ live' \in [Job -> Nat]
    BY <1>1, <2>1, OneLessCounted
  <2>3. TypeOK'
    BY <1>1, <2>1, <2>2 DEF TypeOK
  <2>4. HasJob' /\ FinishedIsOff'
    BY <1>1, <2>1 DEF HasJob, FinishedIsOff, TypeOK
  <2>5. DoneIsOff'
    BY <1>1, <2>1, LocksAssumption DEF DoneIsOff, TypeOK, LocksAssumption
  <2>6. RemoverOwns'
    BY <1>1, <2>1, LocksAssumption DEF RemoverOwns, HasJob, TypeOK, LocksAssumption
  <2> QED BY <2>2, <2>3, <2>4, <2>5, <2>6 DEF LocksInv
<1>3. CASE ~(live[j] - 1 <= 0)
  <2>1. wpc' = [wpc EXCEPT ![w] = "end"] /\ UNCHANGED <<state, jobMu>>
    BY <1>3 DEF ProcDone
  <2>2. Counted' /\ live' \in [Job -> Nat]
    BY <1>1, <2>1, OneLessCounted
  <2>3. TypeOK'
    BY <1>1, <2>1, <2>2 DEF TypeOK
  <2>4. HasJob' /\ FinishedIsOff' /\ DoneIsOff' /\ RemoverOwns'
    BY <1>1, <2>1 DEF HasJob, FinishedIsOff, DoneIsOff, RemoverOwns, TypeOK
  <2> QED BY <2>2, <2>3, <2>4 DEF LocksInv
<1> QED BY <1>2, <1>3

\* The second half: the job leaves the list before its mutex is free again.
LEMMA RemoveStep ==
  ASSUME LocksInv, NEW w \in Waiter, Remove(w)
  PROVE  LocksInv'
<1> USE DEF lockVars, jobVars, loopVars, Free, ReleaseJobMu
<1> DEFINE j == wjob[w]
<1>1. /\ TypeOK /\ HasJob /\ Counted /\ DoneIsOff /\ RemoverOwns /\ FinishedIsOff
      /\ j \in Job /\ wpc[w] = "remove" /\ jobMu[j] = w
      /\ jobs' = jobs \ {j} /\ jobMu' = [jobMu EXCEPT ![j] = Nobody]
      /\ wpc' = [wpc EXCEPT ![w] = "end"]
      /\ UNCHANGED <<tableMu, state, live, wjob, lpc, left, sel>>
  BY DEF LocksInv, Remove, HasJob, RemoverOwns
<1>2. \A k \in Job : Waits(k)' = Waits(k)
  BY <1>1 DEF Waits, TypeOK
<1>3. Counted'
  BY <1>1, <1>2, SameCounted
<1>4. TypeOK'
  BY <1>1 DEF TypeOK
<1>5. HasJob' /\ DoneIsOff' /\ FinishedIsOff'
  BY <1>1 DEF HasJob, DoneIsOff, FinishedIsOff, TypeOK
<1>6. RemoverOwns'
  BY <1>1, LocksAssumption DEF RemoverOwns, HasJob, TypeOK, LocksAssumption
<1> QED BY <1>3, <1>4, <1>5, <1>6 DEF LocksInv

\* The steps of a waiter: only a job that is not born is put on the list.
LEMMA WaiterStep ==
  ASSUME LocksInv, NEW w \in Waiter, Starts(w) \/ Wait(w) \/ Stopped(w) \/ ProcDone(w)
  PROVE  LocksInv'
<1> USE DEF lockVars, jobVars, loopVars, Free
<1>1. ASSUME NEW j \in Job, BackgroundJob(w, j) PROVE LocksInv'
  <2>1. \A k \in Job : Waits(k)' = Waits(k)
    BY <1>1 DEF BackgroundJob, Waits, LocksInv, TypeOK
  <2>2. Counted'
    BY <1>1, <2>1, SameCounted DEF BackgroundJob, LocksInv
  <2>3. TypeOK'
    BY <1>1 DEF BackgroundJob, LocksInv, TypeOK
  <2>4. HasJob' /\ RemoverOwns'
    BY <1>1 DEF BackgroundJob, LocksInv, TypeOK, HasJob, RemoverOwns
  <2>5. DoneIsOff' /\ FinishedIsOff'
    BY <1>1 DEF BackgroundJob, LocksInv, TypeOK, HasJob, DoneIsOff, FinishedIsOff
  <2> QED BY <2>2, <2>3, <2>4, <2>5 DEF LocksInv
<1>2. ASSUME Spawn(w) PROVE LocksInv'
  <2>1. wjob[w] \in Job
    BY <1>2 DEF Spawn, LocksInv, HasJob
  <2>2. Counted' /\ live' \in [Job -> Nat]
    BY <1>2, <2>1, OneMoreCounted DEF Spawn, LocksInv, OneMore
  <2>3. TypeOK'
    BY <1>2, <2>2 DEF Spawn, LocksInv, TypeOK
  <2>4. HasJob' /\ RemoverOwns' /\ DoneIsOff' /\ FinishedIsOff'
    BY <1>2 DEF Spawn, LocksInv, TypeOK, HasJob, RemoverOwns, DoneIsOff, FinishedIsOff
  <2> QED BY <2>2, <2>3, <2>4 DEF LocksInv
<1>3. ASSUME Stopped(w) PROVE LocksInv'
  <2>1. \A k \in Job : Waits(k)' = Waits(k)
    BY <1>3 DEF Stopped, Waits
  <2>2. Counted'
    BY <1>3, <2>1, SameCounted DEF Stopped, LocksInv
  <2>3. TypeOK' /\ HasJob' /\ RemoverOwns' /\ DoneIsOff' /\ FinishedIsOff'
    BY <1>3 DEF Stopped, LocksInv, TypeOK, HasJob, RemoverOwns, DoneIsOff, FinishedIsOff
  <2> QED BY <2>2, <2>3 DEF LocksInv
<1> QED BY <1>1, <1>2, <1>3, ProcDoneStep, RemoveStep DEF Starts, Wait

\* The steps of the prompt loop: fg comes back from a Done job whose mutex is free.
LEMMA LoopStep ==
  ASSUME LocksInv, Loop \/ List \/ SnapshotBegin \/ \E j \in Job : Fg(j)
  PROVE  LocksInv'
<1> USE DEF lockVars, jobVars, loopVars, Free, LocksInv
<1>1. live' = live /\ wpc' = wpc /\ wjob' = wjob
  BY DEF Loop, LookAt, ListEnd, Resume, WaitChange, FgReturn, List, SnapshotBegin, Fg
<1>2. Counted' /\ \A k \in Job : Waits(k)' = Waits(k)
  BY <1>1 DEF Counted, Waits
<1> USE DEF TypeOK, HasJob, RemoverOwns, DoneIsOff, FinishedIsOff
<1>3. ASSUME NEW j \in Job, LookAt(j) \/ Fg(j) PROVE LocksInv'
  BY <1>2, <1>3 DEF LookAt, Fg
<1>4. ASSUME ListEnd \/ FgReturn \/ List \/ SnapshotBegin PROVE LocksInv'
  BY <1>2, <1>4 DEF ListEnd, FgReturn, List, SnapshotBegin
<1>5. ASSUME Resume PROVE LocksInv'
  BY <1>2, <1>5 DEF Resume
<1>6. ASSUME WaitChange PROVE LocksInv'
  BY <1>2, <1>6 DEF WaitChange, Wakes
<1> QED BY <1>3, <1>4, <1>5, <1>6 DEF Loop

LEMMA LocksStep == LocksInv /\ [Next]_vars => LocksInv'
<1> SUFFICES ASSUME LocksInv, [Next]_vars PROVE LocksInv'
  OBVIOUS
<1>1. CASE Next
  BY <1>1, WaiterStep, LoopStep DEF Next
<1>2. CASE UNCHANGED vars
  BY <1>2 DEF vars, lockVars, jobVars, loopVars, LocksInv, TypeOK, HasJob, Counted, Waits,
              DoneIsOff, RemoverOwns, FinishedIsOff, Free
<1> QED BY <1>1, <1>2

\* `fg' returning Done and a job still listed never meet, and no count goes below zero,
\* however many jobs and processes there are (procDone).
THEOREM ListStaysConsistent == Spec => []ListIsConsistent
<1>1. LocksInv => ListIsConsistent
  BY DEF LocksInv, ListIsConsistent, FinishedNotListed, FinishedIsOff
<1> QED BY InitLocks, LocksStep, <1>1, PTL DEF Spec
=============================================================================
