---------------------------- MODULE ParallelPool ----------------------------
(***************************************************************************)
(* The `parallel' builtin (internal/builtins/parallel.go): a pool of       *)
(* workers runs one command per input.  With --collect a flusher prints    *)
(* each command's output whole and in the order of the inputs, with        *)
(* --fail-fast the first failure cancels the rest; so does Ctrl-C.         *)
(*                                                                         *)
(* A command may leave a process behind that holds its output open; the    *)
(* cancelling kills the command and not that process.                      *)
(***************************************************************************)
EXTENDS Naturals, FiniteSets

CONSTANTS
    Inputs,      \* how many
    MaxJobs,     \* bound: workers (-j)
    Leavers      \* the tasks whose command leaves a process behind

Task == 1..Inputs
Worker == 1..MaxJobs

VARIABLES
    opts,                    \* jobs, collect, failFast
    next, main,              \* runPool: the next task to hand out; its program counter
    wpc, task,               \* workers
    cancelled,               \* ctx
    proc, left,              \* each task's command; those that have left a process behind
    status, done, flushed    \* results, the done channels, the flusher

vars == <<opts, next, main, wpc, task, cancelled, proc, left, status, done, flushed>>

Unset == 256
Killed == 130
NotStarted == 127

Init ==
    /\ opts \in [jobs : 1..MaxJobs, collect : BOOLEAN, failFast : BOOLEAN]
    /\ next = 1 /\ main = "feed"
    /\ wpc = [w \in Worker |-> IF w <= opts.jobs THEN "idle" ELSE "gone"]
    /\ task = [w \in Worker |-> 0]
    /\ cancelled = FALSE
    /\ proc = [t \in Task |-> "none"] /\ left = {}
    /\ status = [t \in Task |-> Unset] /\ done = {} /\ flushed = 0

Goes(w, to) == wpc' = [wpc EXCEPT ![w] = to]
-----------------------------------------------------------------------------
\* runPool: tasks are handed out in order, to whoever is idle.
Feed(w) ==
    /\ main = "feed" /\ next <= Inputs /\ wpc[w] = "idle"
    /\ task' = [task EXCEPT ![w] = next]
    /\ next' = next + 1
    /\ Goes(w, "check")
    /\ UNCHANGED <<opts, main, cancelled, proc, left, status, done, flushed>>

CloseTasks ==
    /\ main = "feed" /\ next > Inputs
    /\ main' = "wait"
    /\ UNCHANGED <<opts, next, wpc, task, cancelled, proc, left, status, done, flushed>>

Leave(w) ==
    /\ main = "wait" /\ wpc[w] = "idle"
    /\ Goes(w, "gone")
    /\ UNCHANGED <<opts, next, main, task, cancelled, proc, left, status, done, flushed>>

AllFlushed == opts.collect => flushed = Inputs
Return ==
    /\ main = "wait" /\ \A w \in Worker : wpc[w] = "gone"
    /\ AllFlushed
    /\ main' = "returned"
    /\ UNCHANGED <<opts, next, wpc, task, cancelled, proc, left, status, done, flushed>>

Flush ==
    /\ opts.collect /\ flushed < Inputs /\ flushed + 1 \in done
    /\ flushed' = flushed + 1
    /\ UNCHANGED <<opts, next, main, wpc, task, cancelled, proc, left, status, done>>
-----------------------------------------------------------------------------
\* A worker with a task.
Becomes(w, s) == status' = [status EXCEPT ![task[w]] = s]

Skip(w) ==
    /\ wpc[w] = "check" /\ cancelled
    /\ Becomes(w, Killed)
    /\ Goes(w, "close")
    /\ UNCHANGED <<opts, next, main, task, cancelled, proc, left, done, flushed>>

Proceed(w) ==
    /\ wpc[w] = "check" /\ ~cancelled
    /\ Goes(w, "start")
    /\ UNCHANGED <<opts, next, main, task, cancelled, proc, left, status, done, flushed>>

\* Start refuses when the context is done by now.  The command may start another
\* process, which holds its output.
Start(w) ==
    /\ wpc[w] = "start" /\ ~cancelled
    /\ proc' = [proc EXCEPT ![task[w]] = "running"]
    /\ left' = left \cup ({task[w]} \cap Leavers)
    /\ Goes(w, "run")
    /\ UNCHANGED <<opts, next, main, task, cancelled, status, done, flushed>>

StartFails(w) ==
    /\ wpc[w] = "start"
    /\ Becomes(w, NotStarted)
    /\ Goes(w, "ran")
    /\ UNCHANGED <<opts, next, main, task, cancelled, proc, left, done, flushed>>

\* The output is read to its end, and the command waited for.
StatusOf(t) ==
    CASE proc[t] = "ended" -> 0 [] proc[t] = "failed" -> 1 [] OTHER -> Killed
Ended(t) == proc[t] \in {"ended", "failed", "killed"}
Reaped(w) ==
    /\ wpc[w] = "run" /\ Ended(task[w]) /\ task[w] \notin left
    /\ Becomes(w, StatusOf(task[w]))
    /\ Goes(w, "ran")
    /\ UNCHANGED <<opts, next, main, task, cancelled, proc, left, done, flushed>>

\* WaitDelay: with --collect it is Wait that reads the output, and gives up a second
\* after the command has ended.  Else the pumps read it, before Wait is called.
GivesUpNever == FALSE
GivesUp == opts.collect
Delayed(w) ==
    /\ wpc[w] = "run" /\ Ended(task[w]) /\ task[w] \in left /\ GivesUp
    /\ Becomes(w, IF proc[task[w]] = "ended" THEN NotStarted ELSE StatusOf(task[w]))
    /\ Goes(w, "ran")
    /\ UNCHANGED <<opts, next, main, task, cancelled, proc, left, done, flushed>>

Done(t) == done \cup {t}
FailsNotStarted(w) == status[task[w]] \notin {0, NotStarted}
Fails(w) == status[task[w]] # 0
Judge(w) ==
    /\ wpc[w] = "ran"
    /\ cancelled' = (cancelled \/ (opts.failFast /\ Fails(w)))
    /\ Goes(w, "close")
    /\ UNCHANGED <<opts, next, main, task, proc, left, status, done, flushed>>

CloseDone(w) ==
    /\ wpc[w] = "close"
    /\ done' = Done(task[w])
    /\ Goes(w, "idle")
    /\ UNCHANGED <<opts, next, main, task, cancelled, proc, left, status, flushed>>
-----------------------------------------------------------------------------
\* The context's own goroutine kills the commands that run.
Kill(t) ==
    /\ cancelled /\ proc[t] = "running"
    /\ proc' = [proc EXCEPT ![t] = "killed"]
    /\ UNCHANGED <<opts, next, main, wpc, task, cancelled, left, status, done, flushed>>

\* External: a command ends, and what it left behind; Ctrl-C.
End(t) ==
    /\ proc[t] = "running"
    /\ \E s \in {"ended", "failed"} : proc' = [proc EXCEPT ![t] = s]
    /\ UNCHANGED <<opts, next, main, wpc, task, cancelled, left, status, done, flushed>>

LastEnds(t) ==
    /\ left' = left \ {t} /\ left' # left
    /\ UNCHANGED <<opts, next, main, wpc, task, cancelled, proc, status, done, flushed>>

Interrupt ==
    /\ main # "returned"
    /\ cancelled' = TRUE
    /\ UNCHANGED <<opts, next, main, wpc, task, proc, left, status, done, flushed>>

System ==
    \/ CloseTasks \/ Return \/ Flush
    \/ \E w \in Worker : \/ Feed(w) \/ Leave(w) \/ Skip(w) \/ Proceed(w) \/ Start(w) \/ StartFails(w)
                         \/ Reaped(w) \/ Delayed(w) \/ Judge(w) \/ CloseDone(w)
    \/ \E t \in Task : Kill(t)
Environment == Interrupt \/ \E t \in Task : End(t) \/ LastEnds(t)
Next == System \/ Environment

Spec == Init /\ [][Next]_vars

\* The goroutines run and WaitDelay passes; commands and what they leave need not end.
\* No step of the system can be taken for ever, so that one fairness is enough.
FairSpec == Spec /\ WF_vars(System)
-----------------------------------------------------------------------------
\* parallel returns when everything is over: each task has its status and, with
\* --collect, its output printed; no command it has started runs on.
NothingRunsOn ==
    main = "returned" =>
        /\ \A t \in Task : status[t] # Unset /\ t \in done
        /\ opts.collect => flushed = Inputs
        /\ \A t \in Task : proc[t] # "running"

\* "With -j 1 this is strictly sequential, and fail-fast can never lose the race to a
\* task queued behind the failure": none is begun after one has failed.
FirstFailureIsLast ==
    opts.jobs = 1 /\ opts.failFast =>
        \A t \in Task, u \in Task :
            t < u /\ status[t] \notin {0, Unset} => proc[u] = "none"

\* With --collect, a cancelled pool comes to its end, whatever its commands leave
\* behind; and no pool ends before all is over.
PoolEnds == []NothingRunsOn /\ []<>(opts.collect /\ cancelled => main = "returned")

\* "A canceled task must not wedge the pool."  Violated without --collect: a process that
\* a killed command has left behind holds the output the pumps wait for.
CancelEnds == cancelled ~> (main = "returned")
=============================================================================
