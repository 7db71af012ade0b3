------------------------------ MODULE JobTable ------------------------------
(***************************************************************************)
(* The job table of the interactive shell (internal/jobs): which process   *)
(* belongs to which job, which goroutine owns the wait(2) on it, who has   *)
(* the terminal, and what `jobs', `fg', `bg' and `kill %n' see.            *)
(*                                                                         *)
(* The actors are the prompt loop (pc), one exec handler per external      *)
(* command (hpc), at most one reaper per job (rpc), and the kernel, which  *)
(* stops, continues and ends processes at any moment.  One action is one   *)
(* critical section of the code or one system call.                        *)
(***************************************************************************)
EXTENDS Integers, FiniteSets

CONSTANTS
  Job,       \* the *Job values a session may allocate, in allocation order
  Proc,      \* the external commands, named by their pid
  Offset,    \* start offsets of backgrounded statements within a line
  NoJob,     \* a nil *Job
  NoProc,    \* Pgid 0: no external command started yet
  Shell,     \* the shell's own process group, Table.shellPgid
  Features   \* which command lines the session types, see FeatureNames

(***************************************************************************)
(* What a line may hold beyond external commands run one after another and *)
(* one-command background statements.                                      *)
(***************************************************************************)
FeatureNames ==
  { "pipes",     \* foreground pipelines: stages run concurrently
    "bgpipes",   \* pipelines written with &
    "subst",     \* <(cmd) and coproc: a handler that outlives its line
    "functions", \* function bodies, whose offsets come from another source
    "late",      \* a background goroutine still short of the exec seam
                 \* when the next line begins
    "badpath",   \* a path that LookPathDir or cmd.Start rejects
    "agent" }    \* agent steps: BeginLine without SetBackgroundRanges

ASSUME ConstantsAssumption ==
  /\ Job \subseteq Nat
  /\ NoJob \notin Job
  /\ NoProc \notin Proc
  /\ Shell \notin Proc \cup {NoProc}
  /\ 0 \notin Offset
  /\ Features \subseteq FeatureNames
  /\ IsFiniteSet(Proc)

VARIABLES
  (* Job *)
  state, pgid, background, live, reaping,
  (* Table *)
  jobs, current, bgRanges, bgJobs,
  (* processes and terminal *)
  pst, stopEvt, tty,
  (* exec handlers: program counter, job, kind of statement, position *)
  hpc, hjob, kind, at,
  (* reapers *)
  rpc,
  (* prompt loop: program counter, background statements not yet launched, *)
  (* the job fg, bg or EndLine works on, a state it read, fg rather than bg, *)
  (* whether the ranges are those of an earlier line                         *)
  pc, todo, sel, was, fore, stale

jobVars     == <<state, pgid, background, live, reaping>>
tableVars   == <<jobs, current, bgRanges, bgJobs>>
procVars    == <<pst, stopEvt, tty>>
handlerVars == <<hpc, hjob, kind, at>>
mainVars    == <<pc, todo, sel, was, fore, stale>>
vars == <<jobVars, tableVars, procVars, handlerVars, rpc, mainVars>>

-----------------------------------------------------------------------------
(* What the actions share *)

Unreaped == {"running", "stopped", "zombie"}

Members(j) == {p \in Proc : hjob[p] = j /\ pst[p] # "unborn"}

\* The kernel keeps a process group while it has a member not yet reaped.
GroupExists(j) == \E p \in Members(j) : pst[p] \in Unreaped

\* A handler the line waits for, being part of the statement it runs.
Attached(p) ==
  /\ kind[p] = "fg"
  /\ hpc[p] \in {"seam", "spawn", "wait", "exited", "stopped", "terminal"}

Idle == \A p \in Proc : ~Attached(p)

Fresh(j) == state[j] = "Unborn"

NewJob(j, bg) ==
  /\ Fresh(j)
  /\ \A k \in Job : Fresh(k) => j <= k
  /\ state' = [state EXCEPT ![j] = "Running"]
  /\ background' = [background EXCEPT ![j] = bg]

\* kill(-pgid, SIGCONT): members resume, an unread stop is withdrawn.
Continued(j) == {p \in Members(j) : pst[p] = "stopped"}
Continue(j) ==
  /\ pst' = [p \in Proc |-> IF p \in Continued(j) THEN "running" ELSE pst[p]]
  /\ stopEvt' = stopEvt \ Continued(j)

NoneRemain(j) == live[j] - 1 <= 0

Removed(j) == jobs \ {j}

Releases(j) == NoneRemain(j)

ProcDone(j) ==
  /\ live' = [live EXCEPT ![j] = @ - 1]
  /\ reaping' = [reaping EXCEPT ![j] = @ /\ ~Releases(j)]
  /\ IF NoneRemain(j)
     THEN state' = [state EXCEPT ![j] = "Done"] /\ jobs' = Removed(j)
     ELSE UNCHANGED <<state, jobs>>

TakeTerminal == tty' = Shell

MarkStopped(j) == state' = [state EXCEPT ![j] = "Stopped"]

ReaperDue(j) == ~reaping[j] /\ live[j] > 0

EnsureReaper(j) ==
  IF ReaperDue(j)
  THEN /\ reaping' = [reaping EXCEPT ![j] = TRUE]
       /\ rpc' = [rpc EXCEPT ![j] = "wait"]
  ELSE UNCHANGED <<reaping, rpc>>

-----------------------------------------------------------------------------
(* The prompt loop: opening a line and launching its statements *)

\* The gap between two lines is long for a goroutine (runInterruptible).
BackgroundArrived ==
  "late" \in Features \/ \A p \in Proc : kind[p] = "bg" => hpc[p] # "seam"

SetBackgroundRanges(ranges) ==
  /\ pc = "prompt"
  /\ BackgroundArrived
  /\ bgRanges' = ranges
  /\ bgJobs' = [o \in Offset |-> NoJob]
  /\ todo' = ranges
  /\ stale' = FALSE
  /\ pc' = "ready"
  /\ UNCHANGED <<jobVars, jobs, current, procVars, handlerVars, rpc, sel, was,
                 fore>>

AgentStep(statements) ==
  /\ "agent" \in Features
  /\ pc = "prompt"
  /\ BackgroundArrived
  /\ todo' = statements
  /\ stale' = TRUE
  /\ pc' = "ready"
  /\ UNCHANGED <<jobVars, tableVars, procVars, handlerVars, rpc, sel, was,
                 fore>>

BeginLine ==
  /\ pc = "ready"
  /\ \E j \in Job : NewJob(j, FALSE) /\ current' = j
  /\ pc' = "run"
  /\ UNCHANGED <<pgid, live, reaping, jobs, bgRanges, bgJobs,
                 procVars, handlerVars, rpc, todo, sel, was, fore, stale>>

\* The positions a command of a statement starting at o can report, 0 being
\* outside every range: its own, unless it is the body of a function or the
\* ranges it is compared with belong to another line.
Positions(o) ==
  IF "functions" \in Features \/ stale THEN Offset \cup {0} ELSE {o}

Launch(S, k, o) ==
  /\ pc = "run"
  /\ \A p \in S : hpc[p] = "none"
  /\ \E pos \in Positions(o) :
       at' = [p \in Proc |-> IF p \in S THEN pos ELSE at[p]]
  /\ hpc' = [p \in Proc |-> IF p \in S THEN "seam" ELSE hpc[p]]
  /\ kind' = [p \in Proc |-> IF p \in S THEN k ELSE kind[p]]
  /\ UNCHANGED <<jobVars, tableVars, procVars, hjob, rpc, pc, sel, was, fore,
                 stale>>

LaunchForeground(p) ==
  /\ "pipes" \in Features \/ Idle
  /\ Launch({p}, "fg", 0)
  /\ UNCHANGED todo

\* A statement of builtins only has no external command, S = {}.
LaunchBackground(o, S) ==
  /\ o \in todo
  /\ "bgpipes" \in Features \/ Cardinality(S) <= 1
  /\ Launch(S, "bg", o)
  /\ todo' = todo \ {o}

LaunchSubstitution(p) ==
  /\ "subst" \in Features
  /\ Launch({p}, "subst", 0)
  /\ UNCHANGED todo

-----------------------------------------------------------------------------
(* Exec handlers: ExecMiddleware, spawn and waitProc *)

\* MUTANT: the line's slot is looked at before the ranges.
InBackgroundLast(p) == at[p] \in bgRanges /\ current = NoJob

InBackground(p) == at[p] \in bgRanges

DispatchBackground(p) ==
  /\ hpc[p] = "seam"
  /\ InBackground(p)
  /\ \/ /\ bgJobs[at[p]] # NoJob
        /\ hjob' = [hjob EXCEPT ![p] = bgJobs[at[p]]]
        /\ UNCHANGED <<state, background, jobs, bgJobs>>
     \/ /\ bgJobs[at[p]] = NoJob
        /\ \E j \in Job :
             /\ NewJob(j, TRUE)
             /\ jobs' = jobs \cup {j}
             /\ bgJobs' = [bgJobs EXCEPT ![at[p]] = j]
             /\ hjob' = [hjob EXCEPT ![p] = j]
  /\ hpc' = [hpc EXCEPT ![p] = "spawn"]
  /\ at' = [at EXCEPT ![p] = 0]
  /\ UNCHANGED <<pgid, live, reaping, current, bgRanges, procVars,
                 kind, rpc, mainVars>>

DispatchForeground(p) ==
  /\ hpc[p] = "seam"
  /\ ~InBackground(p)
  /\ current # NoJob
  /\ hjob' = [hjob EXCEPT ![p] = current]
  /\ hpc' = [hpc EXCEPT ![p] = "spawn"]
  /\ at' = [at EXCEPT ![p] = 0]
  /\ UNCHANGED <<jobVars, tableVars, procVars, kind, rpc, mainVars>>

\* Outside a line: the next handler of the chain runs it, without a job.
DispatchNext(p) ==
  /\ hpc[p] = "seam"
  /\ ~InBackground(p)
  /\ current = NoJob
  /\ hpc' = [hpc EXCEPT ![p] = "next"]
  /\ UNCHANGED <<jobVars, tableVars, procVars, hjob, kind, at, rpc, mainVars>>

Leader(p) == pgid[hjob[p]] = NoProc

\* MUTANT: the leader of a background job is given the terminal too.
TakesTerminalAlways(p) == Leader(p)

\* SysProcAttr.Foreground: the child takes the terminal before it execs.
TakesTerminal(p) == Leader(p) /\ ~background[hjob[p]]

\* MUTANT: only the leader is counted.
OneMoreLeader(j) == IF pgid[j] = NoProc THEN live[j] + 1 ELSE live[j]

OneMore(j) == live[j] + 1

Start(p) ==
  LET j == hjob[p] IN
  /\ hpc[p] = "spawn"
  /\ Leader(p) \/ GroupExists(j)
  /\ pgid' = IF Leader(p) THEN [pgid EXCEPT ![j] = p] ELSE pgid
  /\ tty' = IF TakesTerminal(p) THEN p ELSE tty
  /\ pst' = [pst EXCEPT ![p] = "running"]
  /\ live' = [live EXCEPT ![j] = OneMore(j)]
  /\ hpc' = [hpc EXCEPT ![p] = "wait"]
  /\ UNCHANGED <<state, background, reaping, tableVars, stopEvt,
                 hjob, kind, at, rpc, mainVars>>

\* MUTANT: the process is counted before cmd.Start.
FailedCounted(j) == [live EXCEPT ![j] = @ + 1]

Failed(j) == live

\* setpgid(0, Pgid) fails with EPERM when the group has no member left.
StartRefused(p) ==
  /\ hpc[p] = "spawn"
  /\ ~Leader(p)
  /\ ~GroupExists(hjob[p])
  /\ live' = Failed(hjob[p])
  /\ hpc' = [hpc EXCEPT ![p] = "refused"]
  /\ UNCHANGED <<state, pgid, background, reaping, tableVars, procVars,
                 hjob, kind, at, rpc, mainVars>>

StartMissing(p) ==
  /\ "badpath" \in Features
  /\ hpc[p] = "spawn"
  /\ hpc' = [hpc EXCEPT ![p] = "missing"]
  /\ UNCHANGED <<jobVars, tableVars, procVars, hjob, kind, at, rpc, mainVars>>

\* Wait4(pid) returns a status, or ECHILD because a reaper got it first.
WaitExit(p) ==
  /\ hpc[p] = "wait"
  /\ pst[p] \in {"zombie", "gone"}
  /\ pst' = [pst EXCEPT ![p] = "gone"]
  /\ hpc' = [hpc EXCEPT ![p] = "exited"]
  /\ UNCHANGED <<jobVars, tableVars, stopEvt, tty, hjob, kind, at, rpc,
                 mainVars>>

HandlerDone(p) ==
  /\ hpc[p] = "exited"
  /\ ProcDone(hjob[p])
  /\ hpc' = [hpc EXCEPT ![p] = "return"]
  /\ UNCHANGED <<pgid, background, current, bgRanges, bgJobs, procVars,
                 hjob, kind, at, rpc, mainVars>>

\* MUTANT: foreground handlers wait without WUNTRACED.
ReportsStopBackground(p) == p \in stopEvt /\ background[hjob[p]]

\* The wait is made with WUNTRACED.
ReportsStop(p) == p \in stopEvt

WaitStop(p) ==
  /\ hpc[p] = "wait"
  /\ ReportsStop(p)
  /\ stopEvt' = stopEvt \ {p}
  /\ hpc' = [hpc EXCEPT ![p] = "stopped"]
  /\ UNCHANGED <<jobVars, tableVars, pst, tty, hjob, kind, at, rpc, mainVars>>

HandlerStopped(p) ==
  /\ hpc[p] = "stopped"
  /\ MarkStopped(hjob[p])
  /\ hpc' = [hpc EXCEPT ![p] = IF background[hjob[p]] THEN "return"
                                                     ELSE "terminal"]
  /\ UNCHANGED <<pgid, background, live, reaping, tableVars, procVars,
                 hjob, kind, at, rpc, mainVars>>

HandlerTakesTerminal(p) ==
  /\ hpc[p] = "terminal"
  /\ TakeTerminal
  /\ hpc' = [hpc EXCEPT ![p] = "return"]
  /\ UNCHANGED <<jobVars, tableVars, pst, stopEvt, hjob, kind, at, rpc,
                 mainVars>>

\* Only the background branch of ExecMiddleware ends with ensureReaper.
Return(p) ==
  /\ hpc[p] \in {"return", "refused", "missing"}
  /\ hpc' = [hpc EXCEPT ![p] = "end"]
  /\ IF background[hjob[p]]
     THEN EnsureReaper(hjob[p])
     ELSE UNCHANGED <<reaping, rpc>>
  /\ UNCHANGED <<state, pgid, background, live, tableVars, procVars,
                 hjob, kind, at, mainVars>>

-----------------------------------------------------------------------------
(* The reaper: reap *)

ReapExit(j) ==
  /\ rpc[j] = "wait"
  /\ \E p \in Members(j) :
       pst[p] = "zombie" /\ pst' = [pst EXCEPT ![p] = "gone"]
  /\ rpc' = [rpc EXCEPT ![j] = "exited"]
  /\ UNCHANGED <<jobVars, tableVars, stopEvt, tty, handlerVars, mainVars>>

ReaperDone(j) ==
  /\ rpc[j] = "exited"
  /\ ProcDone(j)
  /\ rpc' = [rpc EXCEPT ![j] = "check"]
  /\ UNCHANGED <<pgid, background, current, bgRanges, bgJobs, procVars,
                 handlerVars, mainVars>>

\* MUTANT: the reaper returns after the first process it reaps.
DoneNowAlways(j) == state[j] # "Unborn"

DoneNow(j) == state[j] = "Done"

ReaperLoops(j) ==
  /\ rpc[j] = "check"
  /\ rpc' = [rpc EXCEPT ![j] = IF DoneNow(j) THEN "none" ELSE "wait"]
  /\ UNCHANGED <<jobVars, tableVars, procVars, handlerVars, mainVars>>

ReapStop(j) ==
  /\ rpc[j] = "wait"
  /\ \E p \in Members(j) : p \in stopEvt /\ stopEvt' = stopEvt \ {p}
  /\ rpc' = [rpc EXCEPT ![j] = "stopped"]
  /\ UNCHANGED <<jobVars, tableVars, pst, tty, handlerVars, mainVars>>

ReaperStopped(j) ==
  /\ rpc[j] = "stopped"
  /\ MarkStopped(j)
  /\ rpc' = [rpc EXCEPT ![j] = "wait"]
  /\ UNCHANGED <<pgid, background, live, reaping, tableVars, procVars,
                 handlerVars, mainVars>>

\* Wait4(-pgid) returns ECHILD, and then the reaper gives the job up.
ReapNone(j) ==
  /\ rpc[j] = "wait"
  /\ ~GroupExists(j)
  /\ rpc' = [rpc EXCEPT ![j] = "echild"]
  /\ UNCHANGED <<jobVars, tableVars, procVars, handlerVars, mainVars>>

ReaperGivesUp(j) ==
  /\ rpc[j] = "echild"
  /\ live' = [live EXCEPT ![j] = 0]
  /\ state' = [state EXCEPT ![j] = "Done"]
  /\ reaping' = [reaping EXCEPT ![j] = FALSE]
  /\ jobs' = jobs \ {j}
  /\ rpc' = [rpc EXCEPT ![j] = "none"]
  /\ UNCHANGED <<pgid, background, current, bgRanges, bgJobs, procVars,
                 handlerVars, mainVars>>

-----------------------------------------------------------------------------
(* fg, bg and kill %n, run by the line between its other statements *)

Fg(j) ==
  /\ pc = "run"
  /\ Idle
  /\ j \in jobs
  /\ sel' = j
  /\ fore' = TRUE
  /\ pc' = "resume"
  /\ UNCHANGED <<jobVars, tableVars, procVars, handlerVars, rpc, todo, was,
                 stale>>

Bg(j) ==
  /\ pc = "run"
  /\ Idle
  /\ j \in jobs
  /\ state[j] = "Stopped"
  /\ sel' = j
  /\ fore' = FALSE
  /\ pc' = "resume"
  /\ UNCHANGED <<jobVars, tableVars, procVars, handlerVars, rpc, todo, was,
                 stale>>

ResumeSnapshot ==
  /\ pc = "resume"
  /\ was' = (state[sel] = "Stopped")
  /\ pc' = "continue"
  /\ UNCHANGED <<jobVars, tableVars, procVars, handlerVars, rpc, todo, sel,
                 fore, stale>>

\* MUTANT: only a job that was written without & is given the terminal.
GivesTerminalForeground ==
  fore /\ GroupExists(sel) /\ ~background[sel]

\* MUTANT: the terminal is given to process group 0.
GivesTerminalZero == fore

\* The ioctl is refused for Pgid 0, and for a group that is gone.
GivesTerminal == fore /\ GroupExists(sel)

ResumeContinue ==
  /\ pc = "continue"
  /\ tty' = IF GivesTerminal THEN pgid[sel] ELSE tty
  /\ Continue(sel)
  /\ pc' = "mark"
  /\ UNCHANGED <<jobVars, tableVars, handlerVars, rpc, todo, sel, was, fore,
                 stale>>

ResumeMark ==
  /\ pc = "mark"
  /\ state' = IF state[sel] = "Stopped"
              THEN [state EXCEPT ![sel] = "Running"] ELSE state
  /\ pc' = "takeover"
  /\ UNCHANGED <<pgid, background, live, reaping, tableVars, procVars,
                 handlerVars, rpc, todo, sel, was, fore, stale>>

\* fg, bg or EndLine returns, and its local variables are gone.
Back(to) == pc' = to /\ sel' = NoJob /\ fore' = FALSE

\* MUTANT: a reaper for every resumed job.
HandlersReturnedAssumed == TRUE

\* resume starts a reaper only when the handlers are known to have returned.
HandlersReturned == was

ResumeTakeover ==
  /\ pc = "takeover"
  /\ IF HandlersReturned THEN EnsureReaper(sel) ELSE UNCHANGED <<reaping, rpc>>
  /\ was' = FALSE
  /\ \/ fore /\ pc' = "waitchange" /\ UNCHANGED <<sel, fore>>
     \/ ~fore /\ Back("run")
  /\ UNCHANGED <<state, pgid, background, live, tableVars, procVars,
                 handlerVars, todo, stale>>

\* MUTANT: fg is woken by a stop only.
LeftRunningStopped(j) == state[j] = "Stopped"

LeftRunning(j) == state[j] # "Running"

\* waitChange, and the terminal comes back.
FgReturn ==
  /\ pc = "waitchange"
  /\ LeftRunning(sel)
  /\ TakeTerminal
  /\ Back("run")
  /\ UNCHANGED <<jobVars, tableVars, pst, stopEvt, handlerVars, rpc, todo,
                 was, stale>>

\* A stopped job is continued first so that the signal can act; what the
\* signal itself does is a choice of the process (Exit, Stop).
KillJob(j) ==
  /\ pc = "run"
  /\ Idle
  /\ j \in jobs
  /\ state[j] = "Stopped"
  /\ Continue(j)
  /\ UNCHANGED <<jobVars, tableVars, tty, handlerVars, rpc, mainVars>>

-----------------------------------------------------------------------------
(* EndLine *)

EndLine ==
  /\ pc = "run"
  /\ Idle
  /\ todo = {}
  /\ sel' = current
  /\ current' = NoJob
  /\ TakeTerminal
  /\ stale' = FALSE
  /\ pc' = "decide"
  /\ UNCHANGED <<jobVars, jobs, bgRanges, bgJobs, pst, stopEvt, handlerVars,
                 rpc, todo, was, fore>>

\* A job that never spawned anything is garbage; its name may be used again.
EndLineEmpty ==
  /\ pc = "decide"
  /\ pgid[sel] = NoProc
  /\ state' = IF \E p \in Proc : hjob[p] = sel THEN state
              ELSE [state EXCEPT ![sel] = "Unborn"]
  /\ Back("prompt")
  /\ UNCHANGED <<pgid, background, live, reaping, tableVars, procVars,
                 handlerVars, rpc, todo, was, stale>>

\* MUTANT: whatever spawned something is filed.
KeepAlways(j) == pgid[j] # NoProc

Keep(j) == state[j] = "Stopped" \/ live[j] > 0

EndLineDecide ==
  /\ pc = "decide"
  /\ pgid[sel] # NoProc
  /\ was' = (state[sel] = "Stopped")
  /\ IF Keep(sel)
     THEN pc' = "file" /\ UNCHANGED <<sel, fore>>
     ELSE Back("prompt")
  /\ UNCHANGED <<jobVars, tableVars, procVars, handlerVars, rpc, todo, stale>>

\* MUTANT: nobody is made to wait for a job left stopped.
LeftStoppedUnwaited == FALSE

\* Nothing owns the wait of a job that stopped, see EveryChildHasAWaiter.
LeftStopped == was

EndLineFile ==
  /\ pc = "file"
  /\ jobs' = jobs \cup {sel}
  /\ was' = FALSE
  /\ IF LeftStopped THEN pc' = "reap" /\ UNCHANGED <<sel,
                                                     fore>> ELSE Back("prompt")
  /\ UNCHANGED <<jobVars, current, bgRanges, bgJobs, procVars, handlerVars,
                 rpc, todo, stale>>

EndLineReap ==
  /\ pc = "reap"
  /\ EnsureReaper(sel)
  /\ Back("prompt")
  /\ UNCHANGED <<state, pgid, background, live, tableVars, procVars,
                 handlerVars, todo, was, stale>>

-----------------------------------------------------------------------------
(* The kernel *)

\* Ctrl-Z, SIGSTOP, or a read from a terminal the process does not own.
Stop(p) ==
  /\ pst[p] = "running"
  /\ pst' = [pst EXCEPT ![p] = "stopped"]
  /\ stopEvt' = stopEvt \cup {p}
  /\ UNCHANGED <<jobVars, tableVars, tty, handlerVars, rpc, mainVars>>

\* A process ends by itself or by a signal; SIGKILL ends a stopped one too.
Exit(p) ==
  /\ pst[p] \in {"running", "stopped"}
  /\ pst' = [pst EXCEPT ![p] = "zombie"]
  /\ stopEvt' = stopEvt \ {p}
  /\ UNCHANGED <<jobVars, tableVars, tty, handlerVars, rpc, mainVars>>

-----------------------------------------------------------------------------
Init ==
  /\ state = [j \in Job |-> "Unborn"]
  /\ pgid = [j \in Job |-> NoProc]
  /\ background = [j \in Job |-> FALSE]
  /\ live = [j \in Job |-> 0]
  /\ reaping = [j \in Job |-> FALSE]
  /\ jobs = {}
  /\ current = NoJob
  /\ bgRanges = {}
  /\ bgJobs = [o \in Offset |-> NoJob]
  /\ pst = [p \in Proc |-> "unborn"]
  /\ stopEvt = {}
  /\ tty = Shell
  /\ hpc = [p \in Proc |-> "none"]
  /\ hjob = [p \in Proc |-> NoJob]
  /\ kind = [p \in Proc |-> "fg"]
  /\ at = [p \in Proc |-> 0]
  /\ rpc = [j \in Job |-> "none"]
  /\ pc = "prompt"
  /\ todo = {}
  /\ sel = NoJob
  /\ was = FALSE
  /\ fore = FALSE
  /\ stale = FALSE

Handler(p) ==
  \/ DispatchBackground(p) \/ DispatchForeground(p) \/ DispatchNext(p)
  \/ Start(p) \/ StartRefused(p) \/ StartMissing(p)
  \/ WaitExit(p) \/ HandlerDone(p) \/ WaitStop(p) \/ HandlerStopped(p)
  \/ HandlerTakesTerminal(p) \/ Return(p)

Reaper(j) ==
  \/ ReapExit(j) \/ ReaperDone(j) \/ ReaperLoops(j) \/ ReapStop(j)
  \/ ReaperStopped(j) \/ ReapNone(j) \/ ReaperGivesUp(j)

Resume ==
  \/ ResumeSnapshot \/ ResumeContinue \/ ResumeMark \/ ResumeTakeover
  \/ FgReturn

CloseLine ==
  \/ EndLine \/ EndLineEmpty \/ EndLineDecide \/ EndLineFile \/ EndLineReap

User ==
  \/ \E ranges \in SUBSET Offset :
       SetBackgroundRanges(ranges) \/ AgentStep(ranges)
  \/ BeginLine
  \/ \E p \in Proc : LaunchForeground(p) \/ LaunchSubstitution(p)
  \/ \E o \in Offset, S \in SUBSET Proc : LaunchBackground(o, S)
  \/ \E j \in Job : Fg(j) \/ Bg(j) \/ KillJob(j)

Kernel == \E p \in Proc : Stop(p) \/ Exit(p)

Next ==
  \/ User
  \/ \E p \in Proc : Handler(p)
  \/ \E j \in Job : Reaper(j)
  \/ Resume
  \/ CloseLine
  \/ Kernel

Spec == Init /\ [][Next]_vars

(***************************************************************************)
(* The Go scheduler runs every goroutine that can run, and the prompt loop *)
(* goes on with fg, bg and EndLine once it started them.  Neither the user *)
(* (new lines, kill) nor a process (stop, exit) has to do anything.        *)
(***************************************************************************)
Fairness ==
  /\ \A p \in Proc : WF_vars(Handler(p))
  /\ \A j \in Job : WF_vars(Reaper(j))
  /\ WF_vars(Resume)
  /\ WF_vars(EndLineEmpty \/ EndLineDecide \/ EndLineFile \/ EndLineReap)

FairSpec == Spec /\ Fairness
-----------------------------------------------------------------------------
(* Properties *)

HandlerPC == {"none", "seam", "next", "spawn", "refused", "missing", "wait",
              "exited", "stopped", "terminal", "return", "end"}
ReaperPC == {"none", "wait", "exited", "stopped", "check", "echild"}
MainPC == {"prompt", "ready", "run", "resume", "continue", "mark", "takeover",
           "waitchange", "decide", "file", "reap"}

JobTypes ==
  /\ state \in [Job -> {"Unborn", "Running", "Stopped", "Done"}]
  /\ pgid \in [Job -> Proc \cup {NoProc}]
  /\ background \in [Job -> BOOLEAN]
  /\ live \in [Job -> Int]
  /\ reaping \in [Job -> BOOLEAN]
  /\ rpc \in [Job -> ReaperPC]

TableTypes ==
  /\ jobs \subseteq Job
  /\ current \in Job \cup {NoJob}
  /\ bgRanges \subseteq Offset
  /\ bgJobs \in [Offset -> Job \cup {NoJob}]

ProcTypes ==
  /\ pst \in [Proc -> {"unborn", "running", "stopped", "zombie", "gone"}]
  /\ stopEvt \subseteq Proc
  /\ tty \in Proc \cup {Shell}

HandlerTypes ==
  /\ hpc \in [Proc -> HandlerPC]
  /\ hjob \in [Proc -> Job \cup {NoJob}]
  /\ kind \in [Proc -> {"fg", "bg", "subst"}]
  /\ at \in [Proc -> Offset \cup {0}]

MainTypes ==
  /\ pc \in MainPC
  /\ todo \subseteq Offset
  /\ sel \in Job \cup {NoJob}
  /\ was \in BOOLEAN
  /\ fore \in BOOLEAN
  /\ stale \in BOOLEAN

(* The type of every variable; live may go below zero when two waiters     *)
(* account for one process, as procDone decrements without a floor.        *)
TypeOK == JobTypes /\ TableTypes /\ ProcTypes /\ HandlerTypes /\ MainTypes

\* EndLine has yet to look at the job of the line that is running or closing.
LineHolds(j) ==
  \/ current = j
  \/ pc \in {"decide", "file", "reap"} /\ sel = j

(* Every child not yet reaped has somebody to reap it: its own handler,    *)
(* its job's reaper, or the line, which starts the reaper when it ends.    *)
(* EndLine's comment tells of the zombies there were without that.         *)
EveryChildHasAWaiter ==
  \A p \in Proc : pst[p] \in Unreaped =>
    \/ hpc[p] \in {"wait", "stopped"}
    \/ hpc[p] = "return" /\ background[hjob[p]]
    \/ rpc[hjob[p]] # "none"
    \/ LineHolds(hjob[p])

(* Wait ownership is exclusive: while a handler sits in Wait4(pid), no     *)
(* reaper sits in Wait4(-pgid) of the same group, where it could take the  *)
(* status and have it accounted twice (ensureReaper, EndLine, resume).     *)
OneWaiter ==
  \A p \in Proc :
    hpc[p] \in {"wait", "exited", "stopped"} => rpc[hjob[p]] = "none"

(* live is the number of started processes nobody has accounted for yet,   *)
(* whether still there or reaped with procDone to come.                    *)
Unaccounted(j) ==
  Cardinality({p \in Members(j) : pst[p] \in Unreaped \/ hpc[p] = "exited"})
  + (IF rpc[j] = "exited" THEN 1 ELSE 0)

LiveCounts == \A j \in Job : live[j] = Unaccounted(j)

(* Even where two waiters account for one process, live never counts one   *)
(* too many: no job stays listed for processes that are all accounted for. *)
LiveNeverOvercounts == \A j \in Job : live[j] <= Unaccounted(j)

(* A job is Done only when none of its processes is left (procDone's       *)
(* comment), or `jobs' forgets a process that still runs.                  *)
DoneMeansDead == \A j \in Job : state[j] = "Done" => ~GroupExists(j)

(* A waiter woken by Done never finds the job still listed (procDone).     *)
DoneNotListed == \A j \in jobs : state[j] # "Done"

(* Whatever is listed has a process to resume, or one about to start, so   *)
(* fg never waits on a job that nothing can finish.                        *)
ListedHasProcess ==
  \A j \in jobs :
    live[j] > 0 \/ \E p \in Proc : hjob[p] = j /\ hpc[p] = "spawn"

(* The list and the jobs agree at every moment another goroutine looks: a  *)
(* listed job is not Done, and something of it is left to resume.          *)
ListedIsLive == DoneNotListed /\ ListedHasProcess

(* At the prompt the terminal belongs to the shell.                        *)
TerminalAtPrompt == pc = "prompt" => tty = Shell

(* A background job holds the terminal only while fg has given it to it.   *)
BackgroundOffTerminal ==
  \A j \in Job :
    background[j] /\ tty = pgid[j] =>
      pc \in {"mark", "takeover", "waitchange"} /\ fore /\ sel = j

(* A job that has stopped before, and so has a reaper, holds the terminal  *)
(* while fg waits for it and a process of it runs (resume "also hands it   *)
(* the terminal"): no waiter that saw an earlier stop takes it back.       *)
ForegroundHoldsTerminal ==
  pc = "waitchange" /\ rpc[sel] = "wait" /\ state[sel] = "Running" =>
    tty = pgid[sel] \/ \A p \in Members(sel) : pst[p] # "running"

(* The terminal follows the foreground, in both directions of every        *)
(* handover, late stops included.                                          *)
TerminalFollowsForeground == TerminalAtPrompt /\ ForegroundHoldsTerminal

(* The exec seam recognizes the commands written with &, whenever their    *)
(* goroutine arrives (ExecMiddleware and the doc of jobs.Range).           *)
BackgroundStaysBackground ==
  \A p \in Proc :
    kind[p] = "bg" /\ hpc[p] = "wait" => background[hjob[p]]

(* The command the line waits for is never put into a background job.      *)
ForegroundStaysForeground ==
  \A p \in Proc :
    kind[p] = "fg" /\ hpc[p] = "wait" => ~background[hjob[p]]

(* The commands of a line after the first join its group (spawn).          *)
LaterStagesJoin == \A p \in Proc : hpc[p] # "refused"

Over(j) ==
  /\ pgid[j] # NoProc
  /\ \A p \in Members(j) : pst[p] \in {"zombie", "gone"}

(* A listed job whose processes have all ended leaves the table, whoever   *)
(* killed them and whatever the user does.                                 *)
DeadJobsLeave ==
  \A j \in Job : (j \in jobs /\ Over(j)) ~> (j \notin jobs \/ ~Over(j))

(* fg comes back once the job it waits for is over: no wakeup is lost.     *)
FgSeesExit == (pc = "waitchange" /\ Over(sel)) ~> (pc # "waitchange")

(* A line whose commands have all stopped or ended gives the prompt back:  *)
(* no handler keeps waiting (waitProc waits with WUNTRACED).               *)
StopFreesLine ==
  \A p \in Proc :
    (Attached(p) /\ pst[p] = "stopped") ~> (~Attached(p) \/ pst[p] # "stopped")

-----------------------------------------------------------------------------
(* The inductive invariant behind TypeOK and BackgroundOffTerminal: a      *)
(* process group belongs to one job for good, and a job's kind is fixed    *)
(* before anything can join it.                                            *)

InLine == {"run", "resume", "continue", "mark", "takeover", "waitchange"}

\* A line is open exactly while the prompt loop runs it or serves its fg.
LineHasJob == current \in Job <=> pc \in InLine

SelIsJob == pc \notin {"prompt", "ready", "run"} => sel \in Job

HandlerHasJob ==
  \A p \in Proc : hpc[p] \notin {"none", "seam", "next"} => hjob[p] \in Job

\* A process exists from Start on, which gave its job a group.
ProcessHasGroup ==
  \A p \in Proc : pst[p] # "unborn" =>
    /\ hpc[p] \notin {"none", "seam", "next", "spawn"}
    /\ pgid[hjob[p]] # NoProc

\* The leader names the group, and is a process of that job alone.
GroupHasLeader ==
  \A j \in Job : pgid[j] # NoProc =>
    hjob[pgid[j]] = j /\ pst[pgid[j]] # "unborn"

\* The terminal is the shell's or that of a group which has been started.
TerminalHeld == tty \in Proc => pst[tty] # "unborn"

FreshHasNoGroup == \A j \in Job : Fresh(j) => pgid[j] = NoProc

\* No job in use is given out a second time.
HeldNotFresh ==
  /\ \A p \in Proc : hjob[p] \in Job => ~Fresh(hjob[p])
  /\ current \in Job => ~Fresh(current)
  /\ pc = "decide" => ~Fresh(sel)
  /\ \A o \in Offset : bgJobs[o] \in Job => ~Fresh(bgJobs[o])

KindsKept ==
  /\ current \in Job => ~background[current]
  /\ pc = "decide" => ~background[sel]
  /\ \A o \in Offset : bgJobs[o] \in Job => background[bgJobs[o]]

Lines == LineHasJob /\ SelIsJob /\ HandlerHasJob
Groups == ProcessHasGroup /\ GroupHasLeader /\ FreshHasNoGroup
Held == HeldNotFresh /\ KindsKept
Terminal == TerminalHeld /\ BackgroundOffTerminal

(* Types, the bookkeeping of groups, and who may hold the terminal.        *)
GroupInv == TypeOK /\ Lines /\ Groups /\ Held /\ Terminal
=============================================================================
