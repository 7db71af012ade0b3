------------------------ MODULE ParallelPool_proofs ------------------------
(***************************************************************************)
(* Proofs about ParallelPool, for any number of inputs and of workers:     *)
(* with one worker and --fail-fast no command is begun after one that has  *)
(* failed (FirstFailureIsLast), and when parallel returns every task has   *)
(* its status, its output and no command that runs (NothingRunsOn).        *)
(*                                                                         *)
(* Both rest on who holds a task: one worker from Feed to CloseDone        *)
(* (Held), and nobody before (Unfed).                                      *)
(***************************************************************************)
EXTENDS ParallelPool, TLAPS

Busy == {"check", "start", "run", "ran", "close"}

PoolTyped ==
  /\ opts \in [jobs : 1..MaxJobs, collect : BOOLEAN, failFast : BOOLEAN]
  /\ next \in 1..(Inputs + 1) /\ main \in {"feed", "wait", "returned"}
  /\ wpc \in [Worker -> Busy \cup {"idle", "gone"}]
  /\ task \in [Worker -> 0..Inputs]
  /\ cancelled \in BOOLEAN
  /\ proc \in [Task -> {"none", "running", "ended", "failed", "killed"}]
  /\ status \in [Task -> {0, 1, Killed, NotStarted, Unset}]
  /\ done \subseteq Task /\ flushed \in 0..Inputs

\* A task that has not been handed out has not been touched.
Unfed ==
  \A t \in Task : t >= next => proc[t] = "none" /\ status[t] = Unset /\ t \notin done

\* A busy worker has a task to itself; what has become of it shows in the program counter.
HeldBy(w) ==
  wpc[w] \in Busy =>
     /\ task[w] \in Task /\ task[w] < next /\ task[w] \notin done
     /\ wpc[w] \in {"check", "start"} => proc[task[w]] = "none"
     /\ wpc[w] \in {"check", "start", "run"} => status[task[w]] = Unset
     /\ wpc[w] \in {"ran", "close"} => status[task[w]] # Unset /\ proc[task[w]] # "running"
Held ==
  /\ \A w \in Worker : HeldBy(w)
  /\ \A w, v \in Worker : wpc[w] \in Busy /\ wpc[v] \in Busy /\ task[w] = task[v] => w = v

\* A task that was handed out and is no longer held is over.
Over ==
  /\ \A t \in Task : t < next => t \in done \/ \E w \in Worker : wpc[w] \in Busy /\ task[w] = t
  /\ \A t \in done : status[t] # Unset /\ proc[t] # "running"

\* The pool returns when nobody is left, and stays so.
Returned ==
  /\ main # "feed" => next > Inputs
  /\ main = "returned" => AllFlushed /\ \A w \in Worker : wpc[w] = "gone"

\* A single worker holds the last task handed out.
Single ==
  /\ \A w \in Worker : w > opts.jobs => wpc[w] = "gone"
  /\ opts.jobs = 1 => \A w \in Worker : wpc[w] \in Busy => w = 1 /\ task[w] = next - 1

\* With --fail-fast, from a failure on the pool is cancelled, or about to be.
Judged ==
  opts.jobs = 1 /\ opts.failFast =>
     \A t \in Task : status[t] \notin {0, Unset} =>
        /\ cancelled \/ \E w \in Worker : wpc[w] = "ran" /\ task[w] = t
        /\ \A u \in Task : t < u => proc[u] = "none"

-----------------------------------------------------------------------------
\* What the builtin is given: some inputs, and room for a worker.
Sizes == Inputs \in Nat /\ MaxJobs \in Nat \ {0}

LEMMA TypedStep == ASSUME Sizes PROVE PoolTyped /\ Held /\ [Next]_vars => PoolTyped'
<1> SUFFICES ASSUME Sizes, PoolTyped, Held, [Next]_vars PROVE PoolTyped'
  OBVIOUS
<1> USE DEF Sizes, PoolTyped, Busy, Task, Worker, Killed, NotStarted, Unset
<1>1. ASSUME CloseTasks PROVE PoolTyped'
  BY <1>1 DEF CloseTasks
<1>2. ASSUME Return PROVE PoolTyped'
  BY <1>2 DEF Return, AllFlushed
<1>3. ASSUME Flush PROVE PoolTyped'
  BY <1>3 DEF Flush
<1>4. ASSUME Interrupt PROVE PoolTyped'
  BY <1>4 DEF Interrupt
<1>5. ASSUME NEW w \in Worker, Feed(w) PROVE PoolTyped'
  BY <1>5 DEF Feed, Goes
<1>6. ASSUME NEW w \in Worker, Leave(w) PROVE PoolTyped'
  BY <1>6 DEF Leave, Goes
<1>7. ASSUME NEW w \in Worker, Skip(w) PROVE PoolTyped'
  BY <1>7 DEF Skip, Goes, Becomes
<1>8. ASSUME NEW w \in Worker, Proceed(w) PROVE PoolTyped'
  BY <1>8 DEF Proceed, Goes
<1>9. ASSUME NEW w \in Worker, Start(w) PROVE PoolTyped'
  BY <1>9 DEF Start, Goes
<1>10. ASSUME NEW w \in Worker, StartFails(w) PROVE PoolTyped'
  BY <1>10 DEF StartFails, Goes, Becomes
<1>11. ASSUME NEW w \in Worker, Reaped(w) PROVE PoolTyped'
  BY <1>11 DEF Reaped, Goes, Becomes, StatusOf, Ended
<1>12. ASSUME NEW w \in Worker, Delayed(w) PROVE PoolTyped'
  BY <1>12 DEF Delayed, Goes, Becomes, StatusOf, Ended, GivesUp
<1>13. ASSUME NEW w \in Worker, Judge(w) PROVE PoolTyped'
  BY <1>13 DEF Judge, Goes
<1>14. ASSUME NEW w \in Worker, CloseDone(w) PROVE PoolTyped'
  <2>1. task[w] \in Task /\ done' = done \cup {task[w]}
    BY <1>14 DEF CloseDone, Done, Held, HeldBy
  <2>2. wpc' \in [Worker -> Busy \cup {"idle", "gone"}]
    BY <1>14 DEF CloseDone, Goes
  <2>3. UNCHANGED <<opts, next, main, task, cancelled, proc, status, flushed>>
    BY <1>14 DEF CloseDone
  <2>4. done' \subseteq Task
    <3>1. done \subseteq Task
      OBVIOUS
    <3> HIDE DEF PoolTyped, Task
    <3> QED BY <2>1, <3>1
  <2> QED BY <2>2, <2>3, <2>4
<1>15. ASSUME NEW t \in Task, Kill(t) PROVE PoolTyped'
  BY <1>15 DEF Kill
<1>16. ASSUME NEW t \in Task, End(t) PROVE PoolTyped'
  BY <1>16 DEF End
<1>17. ASSUME NEW t \in Task, LastEnds(t) PROVE PoolTyped'
  BY <1>17 DEF LastEnds
<1>18. CASE UNCHANGED vars
  BY <1>18 DEF vars
<1> QED BY <1>1, <1>2, <1>3, <1>4, <1>5, <1>6, <1>7, <1>8, <1>9, <1>10, <1>11, <1>12, <1>13, <1>14, <1>15, <1>16, <1>17, <1>18 DEF Next, System, Environment

LEMMA UnfedStep == ASSUME Sizes PROVE PoolTyped /\ Unfed /\ Held /\ [Next]_vars => Unfed'
<1> SUFFICES ASSUME Sizes, PoolTyped /\ Unfed /\ Held, [Next]_vars PROVE Unfed'
  OBVIOUS
<1> USE DEF Sizes, PoolTyped, Busy, Task, Worker, Killed, NotStarted, Unset, Unfed, Held, HeldBy
<1>1. ASSUME CloseTasks PROVE Unfed'
  BY <1>1 DEF CloseTasks
<1>2. ASSUME Return PROVE Unfed'
  BY <1>2 DEF Return, AllFlushed
<1>3. ASSUME Flush PROVE Unfed'
  BY <1>3 DEF Flush
<1>4. ASSUME Interrupt PROVE Unfed'
  BY <1>4 DEF Interrupt
<1>5. ASSUME NEW w \in Worker, Feed(w) PROVE Unfed'
  BY <1>5 DEF Feed, Goes
<1>6. ASSUME NEW w \in Worker, Leave(w) PROVE Unfed'
  BY <1>6 DEF Leave, Goes
<1>7. ASSUME NEW w \in Worker, Skip(w) PROVE Unfed'
  BY <1>7 DEF Skip, Goes, Becomes
<1>8. ASSUME NEW w \in Worker, Proceed(w) PROVE Unfed'
  BY <1>8 DEF Proceed, Goes
<1>9. ASSUME NEW w \in Worker, Start(w) PROVE Unfed'
  BY <1>9 DEF Start, Goes
<1>10. ASSUME NEW w \in Worker, StartFails(w) PROVE Unfed'
  BY <1>10 DEF StartFails, Goes, Becomes
<1>11. ASSUME NEW w \in Worker, Reaped(w) PROVE Unfed'
  BY <1>11 DEF Reaped, Goes, Becomes, StatusOf, Ended
<1>12. ASSUME NEW w \in Worker, Delayed(w) PROVE Unfed'
  BY <1>12 DEF Delayed, Goes, Becomes, StatusOf, Ended, GivesUp
<1>13. ASSUME NEW w \in Worker, Judge(w) PROVE Unfed'
  BY <1>13 DEF Judge, Goes
<1>14. ASSUME NEW w \in Worker, CloseDone(w) PROVE Unfed'
  BY <1>14 DEF CloseDone, Goes, Done
<1>15. ASSUME NEW t \in Task, Kill(t) PROVE Unfed'
  BY <1>15 DEF Kill
<1>16. ASSUME NEW t \in Task, End(t) PROVE Unfed'
  BY <1>16 DEF End
<1>17. ASSUME NEW t \in Task, LastEnds(t) PROVE Unfed'
  BY <1>17 DEF LastEnds
<1>18. CASE UNCHANGED vars
  BY <1>18 DEF vars
<1> QED BY <1>1, <1>2, <1>3, <1>4, <1>5, <1>6, <1>7, <1>8, <1>9, <1>10, <1>11, <1>12, <1>13, <1>14, <1>15, <1>16, <1>17, <1>18 DEF Next, System, Environment

\* A step of a worker with its own task leaves what the others hold alone.
LEMMA OwnTaskOnly ==
  ASSUME PoolTyped, Held, NEW w \in Worker, wpc[w] \in Busy,
         NEW to \in Busy, wpc' = [wpc EXCEPT ![w] = to],
         UNCHANGED <<next, task, done>>,
         \A t \in Task : t # task[w] => proc'[t] = proc[t] /\ status'[t] = status[t],
         HeldBy(w)'
  PROVE  Held'
<1>1. \A v \in Worker : wpc'[v] \in Busy <=> wpc[v] \in Busy
  BY DEF PoolTyped
<1>2. ASSUME NEW v \in Worker PROVE HeldBy(v)'
  <2>1. CASE v = w
    BY <2>1
  <2>2. ASSUME v # w, wpc[v] \in Busy PROVE HeldBy(v)'
    <3>1. task[v] # task[w] /\ task[v] \in Task /\ wpc'[v] = wpc[v]
      BY <2>2 DEF Held, HeldBy, PoolTyped
    <3>2. proc'[task[v]] = proc[task[v]] /\ status'[task[v]] = status[task[v]]
      BY <3>1
    <3> QED BY <3>1, <3>2 DEF Held, HeldBy
  <2>3. CASE wpc[v] \notin Busy
    BY <1>1, <2>3 DEF HeldBy
  <2> QED BY <2>1, <2>2, <2>3
<1> QED BY <1>1, <1>2 DEF Held

LEMMA HeldStep == ASSUME Sizes PROVE PoolTyped /\ Unfed /\ Held /\ [Next]_vars => Held'
<1> SUFFICES ASSUME Sizes, PoolTyped /\ Unfed /\ Held, [Next]_vars PROVE Held'
  OBVIOUS
<1> USE DEF Sizes, Killed, NotStarted, Unset
<1>1. ASSUME CloseTasks PROVE Held'
  BY <1>1 DEF CloseTasks, PoolTyped, Held, HeldBy, Busy
<1>2. ASSUME Return PROVE Held'
  BY <1>2 DEF Return, AllFlushed, PoolTyped, Held, HeldBy, Busy
<1>3. ASSUME Flush PROVE Held'
  BY <1>3 DEF Flush, PoolTyped, Held, HeldBy, Busy
<1>4. ASSUME Interrupt PROVE Held'
  BY <1>4 DEF Interrupt, PoolTyped, Held, HeldBy, Busy
<1>5. ASSUME NEW w \in Worker, Feed(w) PROVE Held'
  <2>1. /\ wpc'[w] = "check" /\ task'[w] = next /\ next' = next + 1 /\ next \in Task
        /\ \A v \in Worker : v # w => wpc'[v] = wpc[v] /\ task'[v] = task[v]
        /\ UNCHANGED <<done, proc, status>>
    BY <1>5 DEF Feed, Goes, PoolTyped, Task
  <2>2. HeldBy(w)'
    BY <2>1 DEF HeldBy, Unfed, Task
  <2>3. ASSUME NEW v \in Worker, v # w PROVE HeldBy(v)'
    <3>1. HeldBy(v)
      BY DEF Held
    <3> QED BY <2>1, <2>3, <3>1 DEF HeldBy, Task
  <2>4. \A v \in Worker : wpc[v] \in Busy => task[v] < next
    BY DEF Held, HeldBy
  <2>5. \A u, v \in Worker : wpc'[u] \in Busy /\ wpc'[v] \in Busy /\ task'[u] = task'[v] => u = v
    <3>1. next \in Nat
      BY DEF PoolTyped
    <3> QED BY <2>1, <2>4, <3>1 DEF Held
  <2> QED BY <2>2, <2>3, <2>5 DEF Held
<1>6. ASSUME NEW w \in Worker, Leave(w) PROVE Held'
  BY <1>6 DEF Leave, Goes, PoolTyped, Held, HeldBy, Busy
<1>7. ASSUME NEW w \in Worker, Skip(w) PROVE Held'
  <2>1. task[w] \in Task /\ wpc[w] \in Busy /\ HeldBy(w)
    BY <1>7 DEF Skip, Busy, Held, HeldBy
  <2>2. /\ wpc' = [wpc EXCEPT ![w] = "close"] /\ UNCHANGED <<next, task, done>>
        /\ \A t \in Task : t # task[w] => proc'[t] = proc[t] /\ status'[t] = status[t]
    BY <1>7 DEF Skip, Goes, Becomes, PoolTyped
  <2>3. HeldBy(w)'
    BY <1>7, <2>1, <2>2 DEF Skip, Goes, Becomes, HeldBy, PoolTyped
  <2> QED BY <2>1, <2>2, <2>3, OwnTaskOnly DEF Busy
<1>8. ASSUME NEW w \in Worker, Proceed(w) PROVE Held'
  <2>1. task[w] \in Task /\ wpc[w] \in Busy /\ HeldBy(w)
    BY <1>8 DEF Proceed, Busy, Held, HeldBy
  <2>2. /\ wpc' = [wpc EXCEPT ![w] = "start"] /\ UNCHANGED <<next, task, done>>
        /\ \A t \in Task : t # task[w] => proc'[t] = proc[t] /\ status'[t] = status[t]
    BY <1>8 DEF Proceed, Goes, PoolTyped
  <2>3. HeldBy(w)'
    BY <1>8, <2>1, <2>2 DEF Proceed, Goes, HeldBy, PoolTyped
  <2> QED BY <2>1, <2>2, <2>3, OwnTaskOnly DEF Busy
<1>9. ASSUME NEW w \in Worker, Start(w) PROVE Held'
  <2>1. task[w] \in Task /\ wpc[w] \in Busy /\ HeldBy(w)
    BY <1>9 DEF Start, Busy, Held, HeldBy
  <2>2. /\ wpc' = [wpc EXCEPT ![w] = "run"] /\ UNCHANGED <<next, task, done>>
        /\ \A t \in Task : t # task[w] => proc'[t] = proc[t] /\ status'[t] = status[t]
    BY <1>9 DEF Start, Goes, PoolTyped
  <2>3. HeldBy(w)'
    BY <1>9, <2>1, <2>2 DEF Start, Goes, HeldBy, PoolTyped
  <2> QED BY <2>1, <2>2, <2>3, OwnTaskOnly DEF Busy
<1>10. ASSUME NEW w \in Worker, StartFails(w) PROVE Held'
  <2>1. task[w] \in Task /\ wpc[w] \in Busy /\ HeldBy(w)
    BY <1>10 DEF StartFails, Busy, Held, HeldBy
  <2>2. /\ wpc' = [wpc EXCEPT ![w] = "ran"] /\ UNCHANGED <<next, task, done>>
        /\ \A t \in Task : t # task[w] => proc'[t] = proc[t] /\ status'[t] = status[t]
    BY <1>10 DEF StartFails, Goes, Becomes, PoolTyped
  <2>3. HeldBy(w)'
    BY <1>10, <2>1, <2>2 DEF StartFails, Goes, Becomes, HeldBy, PoolTyped
  <2> QED BY <2>1, <2>2, <2>3, OwnTaskOnly DEF Busy
<1>11. ASSUME NEW w \in Worker, Reaped(w) PROVE Held'
  <2>1. task[w] \in Task /\ wpc[w] \in Busy /\ HeldBy(w)
    BY <1>11 DEF Reaped, Busy, Held, HeldBy
  <2>2. /\ wpc' = [wpc EXCEPT ![w] = "ran"] /\ UNCHANGED <<next, task, done>>
        /\ \A t \in Task : t # task[w] => proc'[t] = proc[t] /\ status'[t] = status[t]
    BY <1>11 DEF Reaped, Goes, Becomes, StatusOf, Ended, PoolTyped
  <2>3. HeldBy(w)'
    BY <1>11, <2>1, <2>2 DEF Reaped, Goes, Becomes, StatusOf, Ended, HeldBy, PoolTyped
  <2> QED BY <2>1, <2>2, <2>3, OwnTaskOnly DEF Busy
<1>12. ASSUME NEW w \in Worker, Delayed(w) PROVE Held'
  <2>1. task[w] \in Task /\ wpc[w] \in Busy /\ HeldBy(w)
    BY <1>12 DEF Delayed, Busy, Held, HeldBy
  <2>2. /\ wpc' = [wpc EXCEPT ![w] = "ran"] /\ UNCHANGED <<next, task, done>>
        /\ \A t \in Task : t # task[w] => proc'[t] = proc[t] /\ status'[t] = status[t]
    BY <1>12 DEF Delayed, Goes, Becomes, StatusOf, Ended, GivesUp, PoolTyped
  <2>3. HeldBy(w)'
    BY <1>12, <2>1, <2>2 DEF Delayed, Goes, Becomes, StatusOf, Ended, GivesUp, HeldBy, PoolTyped
  <2> QED BY <2>1, <2>2, <2>3, OwnTaskOnly DEF Busy
<1>13. ASSUME NEW w \in Worker, Judge(w) PROVE Held'
  <2>1. task[w] \in Task /\ wpc[w] \in Busy /\ HeldBy(w)
    BY <1>13 DEF Judge, Busy, Held, HeldBy
  <2>2. /\ wpc' = [wpc EXCEPT ![w] = "close"] /\ UNCHANGED <<next, task, done>>
        /\ \A t \in Task : t # task[w] => proc'[t] = proc[t] /\ status'[t] = status[t]
    BY <1>13 DEF Judge, Goes, PoolTyped
  <2>3. HeldBy(w)'
    BY <1>13, <2>1, <2>2 DEF Judge, Goes, HeldBy, PoolTyped
  <2> QED BY <2>1, <2>2, <2>3, OwnTaskOnly DEF Busy
<1>14. ASSUME NEW w \in Worker, CloseDone(w) PROVE Held'
  <2>1. HeldBy(w) /\ wpc[w] \in Busy
    BY <1>14 DEF CloseDone, Busy, Held
  <2>2. /\ wpc'[w] = "idle" /\ \A v \in Worker : v # w => wpc'[v] = wpc[v]
        /\ done' = done \cup {task[w]} /\ UNCHANGED <<next, task, proc, status>>
    BY <1>14 DEF CloseDone, Goes, Done, PoolTyped
  <2>3. \A v \in Worker : wpc'[v] \in Busy => v # w /\ wpc[v] \in Busy /\ task[v] # task[w]
    BY <2>1, <2>2 DEF Busy, Held
  <2>4. ASSUME NEW v \in Worker PROVE HeldBy(v)'
    BY <2>2, <2>3 DEF Held, HeldBy
  <2> QED BY <2>2, <2>3, <2>4 DEF Held
<1>15. ASSUME NEW t \in Task, Kill(t) PROVE Held'
  <2>1. /\ UNCHANGED <<wpc, task, next, done, status>> /\ proc[t] = "running"
        /\ \A u \in Task : u # t => proc'[u] = proc[u]
        /\ proc'[t] # "running"
    BY <1>15 DEF Kill, PoolTyped
  <2>2. ASSUME NEW v \in Worker PROVE HeldBy(v)'
    BY <2>1 DEF Held, HeldBy
  <2> QED BY <2>1, <2>2 DEF Held
<1>16. ASSUME NEW t \in Task, End(t) PROVE Held'
  <2>1. /\ UNCHANGED <<wpc, task, next, done, status>> /\ proc[t] = "running"
        /\ \A u \in Task : u # t => proc'[u] = proc[u]
        /\ proc'[t] # "running"
    BY <1>16 DEF End, PoolTyped
  <2>2. ASSUME NEW v \in Worker PROVE HeldBy(v)'
    BY <2>1 DEF Held, HeldBy
  <2> QED BY <2>1, <2>2 DEF Held
<1>17. ASSUME NEW t \in Task, LastEnds(t) PROVE Held'
  BY <1>17 DEF LastEnds, PoolTyped, Held, HeldBy, Busy
<1>18. CASE UNCHANGED vars
  BY <1>18 DEF vars, Held, HeldBy
<1> QED BY <1>1, <1>2, <1>3, <1>4, <1>5, <1>6, <1>7, <1>8, <1>9, <1>10, <1>11, <1>12, <1>13, <1>14, <1>15, <1>16, <1>17, <1>18 DEF Next, System, Environment

LEMMA OverStep == ASSUME Sizes PROVE PoolTyped /\ Unfed /\ Held /\ Over /\ [Next]_vars => Over'
<1> SUFFICES ASSUME Sizes, PoolTyped /\ Unfed /\ Held /\ Over, [Next]_vars PROVE Over'
  OBVIOUS
<1> USE DEF Sizes, PoolTyped, Busy, Task, Worker, Killed, NotStarted, Unset, Unfed, Held, HeldBy, Over
<1>1. ASSUME CloseTasks PROVE Over'
  BY <1>1 DEF CloseTasks
<1>2. ASSUME Return PROVE Over'
  BY <1>2 DEF Return, AllFlushed
<1>3. ASSUME Flush PROVE Over'
  BY <1>3 DEF Flush
<1>4. ASSUME Interrupt PROVE Over'
  BY <1>4 DEF Interrupt
<1>5. ASSUME NEW w \in Worker, Feed(w) PROVE Over'
  <2>1. /\ wpc'[w] = "check" /\ task'[w] = next /\ next' = next + 1 /\ wpc[w] = "idle"
        /\ \A v \in Worker : v # w => wpc'[v] = wpc[v] /\ task'[v] = task[v]
        /\ UNCHANGED <<done, proc, status>>
    BY <1>5 DEF Feed, Goes
  <2>2. ASSUME NEW t \in Task, t < next'
        PROVE  t \in done' \/ \E v \in Worker : wpc'[v] \in Busy /\ task'[v] = t
    <3>1. CASE t = next
      BY <2>1, <3>1
    <3>2. CASE t \in done
      BY <2>1, <3>2
    <3>3. ASSUME NEW v \in Worker, wpc[v] \in Busy, task[v] = t
          PROVE  wpc'[v] \in Busy /\ task'[v] = t
      BY <2>1, <3>3
    <3>4. t # next => t < next
      BY <2>1, <2>2
    <3> QED BY <3>1, <3>2, <3>3, <3>4
  <2> QED BY <2>1, <2>2
<1>6. ASSUME NEW w \in Worker, Leave(w) PROVE Over'
  <2>1. \A v \in Worker : wpc'[v] \in Busy <=> wpc[v] \in Busy
    BY <1>6 DEF Leave, Goes
  <2>2. UNCHANGED <<next, task, done, status, proc>>
    BY <1>6 DEF Leave
  <2> QED BY <2>1, <2>2
<1>7. ASSUME NEW w \in Worker, Skip(w) PROVE Over'
  BY <1>7 DEF Skip, Goes, Becomes
<1>8. ASSUME NEW w \in Worker, Proceed(w) PROVE Over'
  BY <1>8 DEF Proceed, Goes
<1>9. ASSUME NEW w \in Worker, Start(w) PROVE Over'
  BY <1>9 DEF Start, Goes
<1>10. ASSUME NEW w \in Worker, StartFails(w) PROVE Over'
  BY <1>10 DEF StartFails, Goes, Becomes
<1>11. ASSUME NEW w \in Worker, Reaped(w) PROVE Over'
  BY <1>11 DEF Reaped, Goes, Becomes, StatusOf, Ended
<1>12. ASSUME NEW w \in Worker, Delayed(w) PROVE Over'
  BY <1>12 DEF Delayed, Goes, Becomes, StatusOf, Ended, GivesUp
<1>13. ASSUME NEW w \in Worker, Judge(w) PROVE Over'
  BY <1>13 DEF Judge, Goes
<1>14. ASSUME NEW w \in Worker, CloseDone(w) PROVE Over'
  BY <1>14 DEF CloseDone, Goes, Done
<1>15. ASSUME NEW t \in Task, Kill(t) PROVE Over'
  BY <1>15 DEF Kill
<1>16. ASSUME NEW t \in Task, End(t) PROVE Over'
  BY <1>16 DEF End
<1>17. ASSUME NEW t \in Task, LastEnds(t) PROVE Over'
  BY <1>17 DEF LastEnds
<1>18. CASE UNCHANGED vars
  BY <1>18 DEF vars
<1> QED BY <1>1, <1>2, <1>3, <1>4, <1>5, <1>6, <1>7, <1>8, <1>9, <1>10, <1>11, <1>12, <1>13, <1>14, <1>15, <1>16, <1>17, <1>18 DEF Next, System, Environment

LEMMA ReturnedStep == ASSUME Sizes PROVE PoolTyped /\ Returned /\ [Next]_vars => Returned'
<1> SUFFICES ASSUME Sizes, PoolTyped /\ Returned, [Next]_vars PROVE Returned'
  OBVIOUS
<1> USE DEF Sizes, PoolTyped, Busy, Task, Worker, Killed, NotStarted, Unset, Returned, AllFlushed
<1>1. ASSUME CloseTasks PROVE Returned'
  BY <1>1 DEF CloseTasks
<1>2. ASSUME Return PROVE Returned'
  BY <1>2 DEF Return, AllFlushed
<1>3. ASSUME Flush PROVE Returned'
  BY <1>3 DEF Flush
<1>4. ASSUME Interrupt PROVE Returned'
  BY <1>4 DEF Interrupt
<1>5. ASSUME NEW w \in Worker, Feed(w) PROVE Returned'
  BY <1>5 DEF Feed, Goes
<1>6. ASSUME NEW w \in Worker, Leave(w) PROVE Returned'
  BY <1>6 DEF Leave, Goes
<1>7. ASSUME NEW w \in Worker, Skip(w) PROVE Returned'
  BY <1>7 DEF Skip, Goes, Becomes
<1>8. ASSUME NEW w \in Worker, Proceed(w) PROVE Returned'
  BY <1>8 DEF Proceed, Goes
<1>9. ASSUME NEW w \in Worker, Start(w) PROVE Returned'
  BY <1>9 DEF Start, Goes
<1>10. ASSUME NEW w \in Worker, StartFails(w) PROVE Returned'
  BY <1>10 DEF StartFails, Goes, Becomes
<1>11. ASSUME NEW w \in Worker, Reaped(w) PROVE Returned'
  BY <1>11 DEF Reaped, Goes, Becomes, StatusOf, Ended
<1>12. ASSUME NEW w \in Worker, Delayed(w) PROVE Returned'
  BY <1>12 DEF Delayed, Goes, Becomes, StatusOf, Ended, GivesUp
<1>13. ASSUME NEW w \in Worker, Judge(w) PROVE Returned'
  BY <1>13 DEF Judge, Goes
<1>14. ASSUME NEW w \in Worker, CloseDone(w) PROVE Returned'
  BY <1>14 DEF CloseDone, Goes, Done
<1>15. ASSUME NEW t \in Task, Kill(t) PROVE Returned'
  BY <1>15 DEF Kill
<1>16. ASSUME NEW t \in Task, End(t) PROVE Returned'
  BY <1>16 DEF End
<1>17. ASSUME NEW t \in Task, LastEnds(t) PROVE Returned'
  BY <1>17 DEF LastEnds
<1>18. CASE UNCHANGED vars
  BY <1>18 DEF vars
<1> QED BY <1>1, <1>2, <1>3, <1>4, <1>5, <1>6, <1>7, <1>8, <1>9, <1>10, <1>11, <1>12, <1>13, <1>14, <1>15, <1>16, <1>17, <1>18 DEF Next, System, Environment

LEMMA SingleStep == ASSUME Sizes PROVE PoolTyped /\ Held /\ Single /\ [Next]_vars => Single'
<1> SUFFICES ASSUME Sizes, PoolTyped /\ Held /\ Single, [Next]_vars PROVE Single'
  OBVIOUS
<1> USE DEF Sizes, PoolTyped, Busy, Task, Worker, Killed, NotStarted, Unset, Held, HeldBy, Single
<1>1. ASSUME CloseTasks PROVE Single'
  BY <1>1 DEF CloseTasks
<1>2. ASSUME Return PROVE Single'
  BY <1>2 DEF Return, AllFlushed
<1>3. ASSUME Flush PROVE Single'
  BY <1>3 DEF Flush
<1>4. ASSUME Interrupt PROVE Single'
  BY <1>4 DEF Interrupt
<1>5. ASSUME NEW w \in Worker, Feed(w) PROVE Single'
  BY <1>5 DEF Feed, Goes
<1>6. ASSUME NEW w \in Worker, Leave(w) PROVE Single'
  BY <1>6 DEF Leave, Goes
<1>7. ASSUME NEW w \in Worker, Skip(w) PROVE Single'
  BY <1>7 DEF Skip, Goes, Becomes
<1>8. ASSUME NEW w \in Worker, Proceed(w) PROVE Single'
  BY <1>8 DEF Proceed, Goes
<1>9. ASSUME NEW w \in Worker, Start(w) PROVE Single'
  BY <1>9 DEF Start, Goes
<1>10. ASSUME NEW w \in Worker, StartFails(w) PROVE Single'
  BY <1>10 DEF StartFails, Goes, Becomes
<1>11. ASSUME NEW w \in Worker, Reaped(w) PROVE Single'
  BY <1>11 DEF Reaped, Goes, Becomes, StatusOf, Ended
<1>12. ASSUME NEW w \in Worker, Delayed(w) PROVE Single'
  BY <1>12 DEF Delayed, Goes, Becomes, StatusOf, Ended, GivesUp
<1>13. ASSUME NEW w \in Worker, Judge(w) PROVE Single'
  BY <1>13 DEF Judge, Goes
<1>14. ASSUME NEW w \in Worker, CloseDone(w) PROVE Single'
  BY <1>14 DEF CloseDone, Goes, Done
<1>15. ASSUME NEW t \in Task, Kill(t) PROVE Single'
  BY <1>15 DEF Kill
<1>16. ASSUME NEW t \in Task, End(t) PROVE Single'
  BY <1>16 DEF End
<1>17. ASSUME NEW t \in Task, LastEnds(t) PROVE Single'
  BY <1>17 DEF LastEnds
<1>18. CASE UNCHANGED vars
  BY <1>18 DEF vars
<1> QED BY <1>1, <1>2, <1>3, <1>4, <1>5, <1>6, <1>7, <1>8, <1>9, <1>10, <1>11, <1>12, <1>13, <1>14, <1>15, <1>16, <1>17, <1>18 DEF Next, System, Environment

LEMMA JudgedStep == ASSUME Sizes PROVE PoolTyped /\ Unfed /\ Held /\ Single /\ Judged /\ [Next]_vars => Judged'
<1> SUFFICES ASSUME Sizes, PoolTyped /\ Unfed /\ Held /\ Single /\ Judged, [Next]_vars PROVE Judged'
  OBVIOUS
<1> USE DEF Sizes, PoolTyped, Busy, Task, Worker, Killed, NotStarted, Unset, Unfed, Held, HeldBy, Single, Judged, Fails
<1>1. ASSUME CloseTasks PROVE Judged'
  BY <1>1 DEF CloseTasks
<1>2. ASSUME Return PROVE Judged'
  BY <1>2 DEF Return, AllFlushed
<1>3. ASSUME Flush PROVE Judged'
  BY <1>3 DEF Flush
<1>4. ASSUME Interrupt PROVE Judged'
  BY <1>4 DEF Interrupt
<1>5. ASSUME NEW w \in Worker, Feed(w) PROVE Judged'
  BY <1>5 DEF Feed, Goes
<1>6. ASSUME NEW w \in Worker, Leave(w) PROVE Judged'
  BY <1>6 DEF Leave, Goes
<1>7. ASSUME NEW w \in Worker, Skip(w) PROVE Judged'
  BY <1>7 DEF Skip, Goes, Becomes
<1>8. ASSUME NEW w \in Worker, Proceed(w) PROVE Judged'
  BY <1>8 DEF Proceed, Goes
<1>9. ASSUME NEW w \in Worker, Start(w) PROVE Judged'
  BY <1>9 DEF Start, Goes
<1>10. ASSUME NEW w \in Worker, StartFails(w) PROVE Judged'
  BY <1>10 DEF StartFails, Goes, Becomes
<1>11. ASSUME NEW w \in Worker, Reaped(w) PROVE Judged'
  BY <1>11 DEF Reaped, Goes, Becomes, StatusOf, Ended
<1>12. ASSUME NEW w \in Worker, Delayed(w) PROVE Judged'
  BY <1>12 DEF Delayed, Goes, Becomes, StatusOf, Ended, GivesUp
<1>13. ASSUME NEW w \in Worker, Judge(w) PROVE Judged'
  BY <1>13 DEF Judge, Goes
<1>14. ASSUME NEW w \in Worker, CloseDone(w) PROVE Judged'
  BY <1>14 DEF CloseDone, Goes, Done
<1>15. ASSUME NEW t \in Task, Kill(t) PROVE Judged'
  BY <1>15 DEF Kill
<1>16. ASSUME NEW t \in Task, End(t) PROVE Judged'
  BY <1>16 DEF End
<1>17. ASSUME NEW t \in Task, LastEnds(t) PROVE Judged'
  BY <1>17 DEF LastEnds
<1>18. CASE UNCHANGED vars
  BY <1>18 DEF vars
<1> QED BY <1>1, <1>2, <1>3, <1>4, <1>5, <1>6, <1>7, <1>8, <1>9, <1>10, <1>11, <1>12, <1>13, <1>14, <1>15, <1>16, <1>17, <1>18 DEF Next, System, Environment

-----------------------------------------------------------------------------
PoolInv == PoolTyped /\ Unfed /\ Held /\ Over /\ Returned

LEMMA PoolInit == ASSUME Sizes PROVE Init => PoolInv /\ Single /\ Judged
<1> SUFFICES ASSUME Sizes, Init PROVE PoolInv /\ Single /\ Judged
  OBVIOUS
<1> USE DEF Init, Sizes, Task, Worker, Busy, Unset
<1>1. PoolTyped
  <2>1. wpc \in [Worker -> Busy \cup {"idle", "gone"}] /\ task \in [Worker -> 0..Inputs]
    OBVIOUS
  <2>2. /\ proc \in [Task -> {"none", "running", "ended", "failed", "killed"}]
        /\ status \in [Task -> {0, 1, Killed, NotStarted, Unset}]
    OBVIOUS
  <2>3. cancelled \in BOOLEAN
    OBVIOUS
  <2>4. next \in 1..(Inputs + 1) /\ flushed \in 0..Inputs /\ done \subseteq Task
    OBVIOUS
  <2> QED BY <2>1, <2>2, <2>3, <2>4 DEF PoolTyped
<1>2. Unfed /\ Held /\ Over /\ Returned
  BY DEF Unfed, Held, HeldBy, Over, Returned
<1>3. Single /\ Judged
  BY DEF Single, Judged
<1> QED BY <1>1, <1>2, <1>3 DEF PoolInv

LEMMA PoolKept == ASSUME Sizes PROVE Spec => []PoolInv
BY PoolInit, TypedStep, UnfedStep, HeldStep, OverStep, ReturnedStep, PTL DEF Spec, PoolInv

\* No pool ends before all is over: when parallel returns each task has its status and
\* its output, and no command it has started runs on.
THEOREM ReturnsWhenOver == ASSUME Sizes PROVE Spec => []NothingRunsOn
<1>1. ASSUME PoolInv PROVE NothingRunsOn
  <2> SUFFICES ASSUME main = "returned" PROVE NothingRunsOn
    BY DEF NothingRunsOn
  <2>1. next > Inputs /\ AllFlushed /\ \A w \in Worker : wpc[w] = "gone"
    BY <1>1 DEF PoolInv, Returned
  <2>2. \A t \in Task : t < next
    BY <1>1, <2>1 DEF PoolInv, PoolTyped, Sizes, Task
  <2>3. \A t \in Task : t \in done
    BY <1>1, <2>1, <2>2 DEF PoolInv, Over, Busy
  <2> QED BY <1>1, <2>1, <2>3 DEF PoolInv, Over, NothingRunsOn, AllFlushed
<1> QED BY <1>1, PoolKept, PTL

\* With -j 1 and --fail-fast, nothing is begun after a task has failed.
THEOREM NothingAfterFailure == ASSUME Sizes PROVE Spec => []FirstFailureIsLast
<1>1. Judged => FirstFailureIsLast
  BY DEF Judged, FirstFailureIsLast
<1>2. PoolInv => PoolTyped /\ Unfed /\ Held
  BY DEF PoolInv
<1> QED BY <1>1, <1>2, PoolKept, PoolInit, SingleStep, JudgedStep, PTL DEF Spec
=============================================================================
