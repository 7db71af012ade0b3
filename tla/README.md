# Koi shell: a TLA+ model of what runs at once

This directory holds TLA+ specifications of the koi shell, the TLC
configurations that check them and proofs that TLAPS checks. The shell is an
interactive program in which a prompt loop, one goroutine per external command,
goroutines that reap process groups, readers of the terminal, plugin
connections, an agent and other shells on the same files all run at once. What
is hard in it is *who owns what at which moment*: the wait(2) on a child, the
terminal, the bytes typed ahead, an entry of a table, a line of a file, a
process. That is what is modelled here, and with it the one sequential part in
which a step depends on what happened many statements ago: the control flow of
the interpreter. The parsing and expansion of shell text is not.

## Contents

| File | What it is |
|---|---|
| `JobTable.tla` | jobs, process groups, wait ownership, terminal, `fg`, `bg`, `kill %n`, and the prompt loop around them |
| `JobLocks.tla` | the two kinds of mutex of the job table, where their sections nest |
| `Capture.tla` | the pty that captures a line's output, beside the commands that write to it |
| `TypeAhead.tla` | terminal input across prompts: sessions, stash, decode loop, editor |
| `ShellFlow.tla` | control flow of the interpreter: exit, return, break, errexit, fatal errors, traps |
| `HistoryStore.tla` | one history file, several sessions |
| `EnvTrust.tla` | environment diffs, the trust they need, and the allow list several shells share |
| `AgentTurns.tla` | what hosting an agent promises its user (abstract) |
| `AgentSession.tla` | `koi acp`: calls, answers, requests, terminals, handshake; refines `AgentTurns` |
| `PluginHost.tla` | launch, crash, backoff and closing of plugins, and the index of their commands |
| `ParallelPool.tla` | the `parallel` builtin |
| `RepoCache.tla` | the status cache of the koi-git plugin |
| `VcsCounts.tla` | the counts of the prompt's vcs segment |
| `*_proofs.tla` | theorems about eight of these modules, with their inductive invariants and proofs |
| `MC*.tla` | what only TLC needs: symmetry sets, inputs, scenarios, and modules that check several components in one run |
| `MC*_*.cfg` | one configuration per run |
| `PROJECT.json` | components, runs, mutants, the map to the source, findings, hazards, theorems |

To check a run: `tlc -config MCJobTable_fg.cfg MCJobTable`. To check the
proofs: `for m in *_proofs.tla; do tlapm $m; done`.

An operator that no specification uses and that stands beside a similar one
(`NoticeKeyDir` beside `NoticeKey`, or one whose comment says `MUTANT`) is a
plausible mistake in its neighbour; `PROJECT.json`, "mutants", says which
property fails when the code is wrong in that way.

## Inventory

The parts of the system, what each keeps, and what makes it correct. "Hard" is
what a test would hardly reach.

**Job table** (`internal/jobs`). *State*: per job its state, process group,
`live` count and whether it is being reaped, under `Job.mu`; the list of filed
jobs, the job of the current line, the ranges of the line written with `&` and
their jobs, under `Table.mu`. *Operations*: `SetBackgroundRanges`, `BeginLine`,
`EndLine`, the exec middleware (`ExecMiddleware`, `spawn`, `waitProc`), the
reaper, `Fg`, `Bg`, `Jobs`, `kill`, `Snapshot`. *Interacts* with the
interpreter (each external command comes through the middleware), the prompt
loop (which opens and closes lines), the capture and the kernel. *Hard*:
handlers run concurrently and outlive the line that started them; two waiters
on one child; a child that stops, continues or dies between any two steps; a
job listed or unlisted between a decision and its effect; two mutexes.
*Correct*: every child has exactly one waiter; a job is Done when, and only
when, its processes are gone; what is listed can be resumed; the terminal is
the shell's at the prompt and the foreground job's otherwise; dead jobs leave
the table.

**Output capture** (`internal/capture`, with `internal/blocks`). *State*: a pty
per line, a pump, the tail of the output. *Hard*: the line ends while a command
holds the slave or the terminal holds up the pump. *Correct*: the prompt comes
back in bounded time, and with the tail if nothing was held.

**Prompt loop** (`internal/repl`). *State*: the line, configuration, hooks, the
agent's steps. *Operations*: read a line, set the ranges, begin, run, end; an
agent step does the same without the ranges. *Hard*: what is left over from the
line before.

**Terminal input** (`internal/term`) and **line editor** (`internal/editor`).
*State*: raw mode; the stash of bytes and events on the `TTY`; the decode
buffer, the paste and the timeout of a session. *Operations*: `Events` opens a
session, a reader goroutine reads, a decode loop decodes, the editor takes
events and cancels on an accepted line. *Hard*: cancellation at every point of
a pipeline of two goroutines and two channels; the order in which three buffers
are put back; a paste or an escape sequence cut by a read or by the end of a
session. *Correct*: nothing typed is lost, doubled or reordered, and a paste
arrives as text.

**Shell interpreter** (`internal/shell/interp`). *State*: per Runner its exit
status with the flags that travel with it, the loop counters, the options, the
traps, the call stack. *Hard*: a flag is set in one statement and read many
levels further out, after subshells, traps and conditions have saved, replaced
and restored it. *Correct*: what a script asked to end ends, nothing else does,
and each trap runs when it should and once.

**History store** (`internal/history`). *State*: a file that several sessions
append to, each one's copy of the entries and the offset up to which it has
read. *Hard*: an append between another session's look at the end of the file
and its own write. *Correct*: no line is listed twice, and what lies below the
offset has been learned, whole and in order.

**Environment trust** (`internal/envtrust`, `internal/repl/envdiff.go`,
`trust.go`). *State*: the allowed directories and diffs, in a file and in each
shell; the proposal, the live diff and the values it replaced. *Hard*:
read-modify-write of the file across shells; a proposal that arrives after a
change of directory. *Correct*: nothing is applied that this user has not
allowed here, and his own values come back.

**Agent protocol** (`internal/acp`, `internal/repl/acpcmd.go`). *State*: pending
calls and their channels, terminals and their commands, the two pipes. *Hard*:
an answer against the end of the connection; a request that waits for a command
another request is to kill; a terminal created while all are being released.

**Plugin host** (`internal/pluginhost`). *State*: plugin processes, failures
and backoff, the index of commands and its cache file. *Hard*: three goroutines
meet a launch that may take seconds, under a mutex; answers in any order.

**`parallel` builtin** (`internal/builtins/parallel.go`). *State*: tasks,
results, a `done` channel per task, the context. *Hard*: everyone waiting on
everyone after a failure; a process that outlives its command.

**Git status caches** (`cmd/koi-git/cache.go`, `internal/repl/vcscounts.go`).
*State*: a status or counts, clocks, a stale flag, a refresh. *Hard*: a change
during a refresh; a scan that fails or takes long.

**Plugin manager, session records, directory index, MCP server, remote
sessions** (`internal/plugmgr`, `session`, `dirjump`, `mcpserve`, `remote`).
Files saved by rename, each by one writer or with the last one winning; the
life of a listener; commands over ssh.

**Sequential parts**: syntax and expansion, prompt engine, completion, other
builtins, interactive views, migration, sandbox command lines, plugin SDK,
bundled plugins, command line. No state of their own that several actors share.

## The models

### JobTable

One action is one critical section of `table_unix.go` or one system call, with
everything it does. Four kinds of actor take them:

| Actor | Program counter | Code |
|---|---|---|
| prompt loop | `pc`: prompt, ready, run, resume … waitchange, decide, file, reap | `Run` and `execStep` in `repl.go`; `Fg`, `Bg`, `resume`, `EndLine` |
| exec handler, one per external command | `hpc[p]`: seam, spawn, wait, exited, stopped, terminal, return, end | `ExecMiddleware`, `backgroundJob`, `spawn`, `waitProc` |
| reaper, at most one per job | `rpc[j]`: wait, exited, stopped, check, echild | `ensureReaper`, `reap`, `doneNow` |
| kernel | `pst`, `stopEvt`, `tty` | wait4, kill, setpgid, tcsetpgrp as the code uses them |

`state`, `pgid`, `background`, `live` and `reaping` are the fields of `Job`;
`jobs`, `current`, `bgRanges` and `bgJobs` those of `Table`. A job number and
its `Job` are one value; one that `EndLineEmpty` found unused may be given out
again, as it is garbage in the code. Every value read before an unlock and used
after it is a variable: `was` (the state `resume` or `EndLine` read), `sel` (the
job it works on). A command's position in the source text is `at`: its own
statement's offset, or any offset when it is in the body of a function, since
offsets of two source texts are compared.

What a process does is open: at any moment it may stop or end, and a signal
from `kill %n` acts by one of these. wait4 with WUNTRACED reports a stop once
(`stopEvt`); SIGCONT withdraws a stop nobody has read. A group lasts while it
has a member not yet reaped; joining one that has none is refused, as setpgid
does.

`Features` says which lines a session types: pipelines, background pipelines,
substitutions, functions, background goroutines that arrive late, paths that do
not start, agent steps. Without any of these the lines hold commands run one
after another and single commands with `&`.

A job has one reaper in the model. With plain lines that is a theorem (`DueIsNone`:
when `ensureReaper` starts one, none is there). In a background pipeline that is
counted down to Done too early, `reaping` is reset while the reaper is still on its
way to `doneNow`, and a later `ensureReaper` may start a second; the model takes the
two for one.

### JobLocks

`JobTable` takes every critical section as one step. That is right where a
section takes one mutex, and it is the business of `JobLocks` where sections
nest: `procDone` removes the job, under `Table.mu`, while it holds `Job.mu`;
`Snapshot` looks at each job, under `Job.mu`, while it holds `Table.mu`. Those
sections are taken apart; each of the others is one step that needs its mutex
free. The actors are the prompt loop and one waiter per process.

### Capture

Output is counted. The pump reads, writes to the terminal and then to the ring,
three steps; `EndLine` closes the session's own slave, waits for the pump's end
or its timer, and closes the master. A command that has been stopped or was put
in the background still has the slave open.

### TypeAhead

The user types `input`, a sequence of tokens, as far as `typed`. A byte is a
position in it, so every buffer of the code is a sequence of positions:
`kernel`, the reader's `chunk`, the decode loop's `buf`, the `paste` under way,
the events `queued` and `held`, the stash `pending` and `pendingEv`, and
`delivered`, what the editor took. A newline outside a paste accepts the line,
the editor cancels the session and opens the next one; both goroutines of the
old session are still there and end on their own. Every `select` of the code is
a set of actions that may be enabled together. An escape sequence is two
tokens, so that a read may cut it; the timeout that turns a lone Esc into a key
may strike between them when `Slow`.

### ShellFlow

There is no program: `stack` is the Go call stack of the interpreter, one frame
per `stmtSync`, list, loop, call, condition, subshell, pipeline stage or trap
action, and the actions choose what the next statement is. So every program up
to a number of statements runs, with the statement kinds a *scenario* allows.
A Runner (`shells`) has the status with its flags (`flow`: `exiting`, `returning`,
`aborting`; `fatal`: `fatalExit`), the counts of break and continue, `noErrExit`,
`inFunc`, `inLoop`, `errTrapFired`, the traps; a frame has the values its code
saves in locals and puts back. A fatal error (`exitStatus.fatal`, here that of
`pwd -P`) sets `exiting` and the mark `fatalExit`. A subshell and a stage take
`exiting` away and leave the mark. By itself the mark ends no shell: `stop` does
not look at it, `clear` keeps a status for its sake, the next statement begins
without it. Only the pipeline looks, and raises the error of its first stage again
in its own shell (`OfPipe`). A cancelled context, of which `stop` makes a fatal
error too, is not modelled: nothing in the shell outlives it. Three ways to read a script are in it: a whole
file (`Run`), statement by statement until `Finish`, and line by line as the
prompt does. The stages of a pipeline share no Runner and run one after
another.

### HistoryStore

The file is a sequence of bytes, of which a line has two or three, so that an
offset can point into a line. `Append` is two steps, with other sessions'
writes between its look at the end of the file and its own write, which may
fail. An append that finds the offset at the end of the file takes all up to the
new end for its own; the lines that came in between are noted (`overtaken`), and
the offset may then point into one of them. `Open` may follow appends of others, keeps the newest `LoadMax` entries,
and a session may end at any time.

### EnvTrust

`disk` is the directory of the allow list: the list, its temporary file and
their contents. Saving is truncate, write, rename, with any step of another
shell between, and a death of the process; a later session saves over the temporary
file that a dead one left. All sessions use one temporary name, so that of two
that save at once one may rename what the other has just truncated; `shared` notes
the inodes to which that may happen. `AtPrompt` and `Proposal` are the
two halves of `atPrompt`, on both sides of the call to the plugins, which is
made without the lock. A readonly variable makes a script fail in its middle.

### AgentTurns and AgentSession

`AgentTurns` is what a user is promised: a turn ends with the agent's answer,
after all that was said before it has been shown, and without an answer only
when the agent or the session is over. `AgentSession` is the code: `Call` with
its channel and its `select`, the reader (`Serve`), one goroutine per request,
the terminals and their commands, the handshake with its deadline, the end by
`/quit`, Ctrl-C (which nothing catches, so that it may come at every step) or death
of the agent. `KeepsTurns` says that it implements
`AgentTurns`, liveness included.

### PluginHost, ParallelPool, RepoCache, VcsCounts

`PluginHost` has three goroutines (the index, the warm-up, the prompt loop) and
two kinds of mutex; `ensure` is taken apart, since a launch holds the plugin's
mutex for seconds. `ParallelPool` is `runPool` and `runTask` step by step, with
every `-j` up to a bound and every mix of options but the plainest.
`RepoCache` and `VcsCounts` give the
repository a number that grows with each change, so that it shows how old a
cached status is. `VcsCounts` counts time, as its code compares two clocks with
two limits; `RepoCache` lets its TTL pass at any moment.

### How they are composed

`JobTable` holds the prompt loop, the interpreter's use of the exec seam, the
table and the kernel together. `AgentSession` with `INSTANCE AgentTurns` is the
refinement. The other components share no state; to check several of them in
one run, an MC module chooses one at the start (`focus`) and leaves the others
as they began (`MCPrompt`, `MCSharedFiles`, `MCServices`).

## Runs

Runs that must pass:

| Run | Question | Bounds | Distinct states |
|---|---|---|---|
| `job_fg` | Whatever stops, ends, is resumed or killed: has every child one waiter, does `live` count the children, does the table list what it should, who has the terminal? | 3 jobs, 2 processes, 1 background range; pipelines | 1.4 M |
| `job_waits` | With background pipelines, substitutions and background goroutines that arrive after their line: how wrong can `live` get where a reaper and a handler wait for one child, and is the invariant of the proofs one? | 2 jobs, 2 processes, 1 range | 2.5 M |
| `job_live` | Under fairness, for typed lines, agent steps and paths that do not start: do dead jobs leave the table, does `fg` come back, does a stopped line give the prompt back? | 2 jobs, 2 processes; pipelines | 57 k |
| `interp` | Do exit, return, break, errexit, fatal errors and the traps do to the statements around them what they should? | programs of 4 statements (3 in pipelines and with fatal errors), 2 rounds of a loop, one signal | 260 k |
| `prompt` | Does `fg` ever return from a finished job that is still listed, and does everyone get the mutex it waits for? Is input kept, in order and whole, across prompts and to its end? | 2 jobs, 3 waiters; every input of 4 tokens and those of 5 that begin with an accepted line, reads of 2, 1 window change | 125 k |
| `shared_files` | Two sessions on one history: is no line listed twice, and each one below the offset learned, unless an append passed over it? Two shells on one allow list: is what is live allowed, do the user's own values come back, and is the list whole however often a save was cut off? | 2 appends a session, lines of 2 and 3 bytes, `LoadMax` 3; 3 directories, one below another, 2 diffs, 2 variables, 3 operations | 671 k |
| `agent` | Does a session keep what `AgentTurns` promises, is the reader ever blocked, does a session that goes on forget a command, do waits end? | three scenarios: 2 prompts with 2 chunks and a repeated answer; 1 prompt with 3 requests; one of each | 90 k |
| `services` | What works in goroutines of its own: plugins, the pool, the git caches, the capture. | 2 plugins, 1 fault, 1 operation; 3 tasks on 1 or 2 workers; 1 change and 6 ticks of the counts, 3 changes of the repository; 4 pieces of output, 2 kept | 282 k |

Runs that show a disagreement between a comment and the code (see Findings):
`job_bgpipe`, `locks_snapshot`, `shell_errexit`, `capture_cut`.

Why these bounds are enough. The rules of the job table concern one job and its
processes, or a job and the line that is running: two processes give a leader
and a member, so that one may be reaped, stopped or counted while the other is
not; two jobs give one that is listed and one that is the line's, and the third
of `job_fg` a further line after both. A background goroutine that arrives late may
have any offset with respect to the ranges of the line typed since, which is what
a command in the body of a function may have as well. Ranges do not overlap but
nest, and a command is always sorted into the outermost one, so that a range within
another is several commands in one background statement. Three waiters on two jobs give a job with two processes
and another one with its own. Reads of two tokens cut an escape sequence and a
paste at every place; five tokens give a line, and behind it a whole paste with
text in it; a session that ends finds bytes in each of the buffers. A flag of
the interpreter is set in one statement, saved by a second, restored by its end
and seen by a third; a fourth statement comes after it. A line of two bytes is
cut in one place and one of three in two, and lengths that differ keep an
offset of one session from being, by chance, right in the other's line. Two
shells and three operations are enough for an allow, a revoke and a restore to
overlap in any order. A create, a wait and a kill are three requests on one
terminal. Two plugins contest one name while a third party closes the host. Two
workers and three tasks give a task in hand, one that has failed and one that
is still to be handed out. The TTL is one tick and the scan's timeout two, so
that a scan may be quick, slow or over, and the marks come within the six ticks.
Symmetry over processes, jobs and shells is used in runs of safety properties
only; jobs in `JobTable` are allocated in order and have none.

Deadlock is checked where the system cannot end. `CHECK_DEADLOCK FALSE` stands
where it can: a session that has used up its jobs, an input that is over, a
script that ends, sessions that are closed, a pool that has returned; and in
`prompt`, since `Snapshot` and `procDone` may block each other. In `job_fg`,
with its third job, no state is without a step.

### Properties

*Who waits*: `EveryChildHasAWaiter`, `OneWaiter`, `LiveCounts`, and, where two
may wait for one child, `LiveNeverOvercounts`. *What is listed*: `ListedIsLive`
(a Done job is not listed, a listed one has a process), `ListIsConsistent`,
`DeadJobsLeave`. *The terminal*: `TerminalFollowsForeground`,
`BackgroundOffTerminal` (checked for plain lines and, as a part of `GroupInv`, where
goroutines arrive late). *What is foreground*: `BackgroundStaysBackground`.
*Coming back*: `FgSeesExit`, `StopFreesLine`, `LineEndsWithTail` (the capture
neither delays the prompt nor loses the tail). *Locks*: `LocksComeRound`, which
shows that the circle of `NoLockCycle` is the only way to block for ever.

*Input*: `InputKept` (in order, once, and drained at the end),
`FirstPasteStaysText`, `AllArrives`.

*Control flow*: `FlagsScoped` (an exit, also that of a fatal error, is of the shell
it ends, every flag is put back), `ExitTrapOnce`, `ErrTrapOncePerLevel`, `ExitSticks`, `BreakHitsItsLoops`.
Three of them make an exception, of what the code does on purpose: a signal's or
the EXIT trap's action may ask for an exit or a return of its own, which then
stands (`overruled`); and with `pipefail` and `lastpipe` the failure of an earlier
stage stands instead of what the last one asked for (`dropped`; see Findings).

*Files*: `LearnedOnce`, `LiveIsAllowedHere`, `OwnValuesBack`,
`PendingWasAnnounced`, `ListIsWhole`. Two of them except what the code gets wrong
(see Findings): `LearnedOnce` says nothing of the lines that came between a
session's look at the end of the file and its write, and everything of those
before and after; `ListIsWhole` nothing of an inode that was last truncated while
another session was saving, and of every other one that no death leaves it torn
on disk, whoever died before in the middle of a save. That two sessions exist does
not matter, nor does it suffice that at most one is saving now: what the
other has truncated may have been renamed already.

*Agent*: `KeepsTurns` (the refinement), `ReaderFree`, `UnlistedIsDead` (while the
session lives: nobody kills anything after a Ctrl-C), `WaitsEnd`.

*Services*: `ProcessesInHand` (every plugin process is somebody's, and there is
one of each), `NamesKeepTheirOwner`, `CloseEnds`; `PoolEnds`,
`FirstFailureIsLast`; `CatchesUp`, `OldCountsAreMarked`.

A property that is a conjunction of named parts is one question asked of one
piece of state; the parts are defined, with comments, in the module. Each
property has a mutant of the code that breaks it.

`TerminalFollowsForeground` asks it of a job that has a reaper, that is, one
which has stopped before; for a job resumed while its own handler is between
the stop and its return, see the end of Findings.

### Fairness

The Go scheduler runs every goroutine that can run, so handlers, reapers, the
reader, the decode loop, the editor, the prompt loop inside `fg`, `bg` and
`EndLine`, the agent's host, pool workers, plugin callers and refreshes are
weakly fair in their own steps. In the modules with `System` one weak fairness
stands for all of them: no step of the system can be repeated for ever without
a step of its environment, which is bounded there, so that going on at all
means that everyone goes on. A mutex is strongly fair: in `sync.Mutex` a waiter
that has waited a millisecond is served before newcomers (starvation mode).
Timers pass (the grace of the capture, `WaitDelay`, deadlines). Nothing is asked
of processes and the agent, which may run, stay stopped or say nothing for ever;
nor of the pump of a capture, whose terminal Ctrl-S may hold. Of the user it is
asked in one place: `CatchesUp` (RepoCache) needs that prompts go on being drawn
and that git ends, as a cache is repaired by the prompts that look at it. Anywhere
else he may never type again.

## Proofs

What the proofs are about holds for every value of the constants: any number of
jobs, processes, shells, plugins, calls, inputs, statements and nesting of a
script, not the two or three of a run.
The modules and their results:

| Module | Theorem | What it states |
|---|---|---|
| `JobTable_proofs` | `GroupInvHolds` | a process group belongs to one job for good |
| | `TypeCorrect` | types; the terminal is never given to group 0 |
| | `BackgroundKeepsOffTerminal` | `BackgroundOffTerminal` |
| | `WaitersExclude` | `OneWaiter`, with plain lines |
| | `LiveIsExact` | `LiveCounts`, with plain lines |
| | `ChildrenAreWaitedFor` | `EveryChildHasAWaiter`, with plain lines |
| | `BackgroundIsRecognized` | `BackgroundStaysBackground`, with plain lines |
| | `ListIsLive` | `ListedIsLive`, with plain lines that can be started |
| | `TerminalIsFollowed` | `TerminalFollowsForeground`, with plain lines |
| `JobLocks_proofs` | `ListStaysConsistent` | `ListIsConsistent` |
| `EnvTrust_proofs` | `TypesKept` | types; a proposal is asked for where the shell stands |
| | `OnlyWhatWasAllowedIsLive` | `LiveIsAllowedHere` |
| | `RevertingGivesBack` | `OwnValuesBack` |
| | `NothingWaitsUnannounced` | `PendingWasAnnounced` |
| | `CrashLeavesWholeList` | `ListIsWhole` |
| `AgentSession_proofs` | `ReaderStaysFree` | `ReaderFree` |
| | `WhoUnlistsKills` | `UnlistedIsDead` |
| | `TurnsKept` | the safety part of `KeepsTurns`, the refinement |
| `PluginHost_proofs` | `OneProcessEach` | `ProcessesInHand` |
| | `OwnersKeepTheirNames` | `NamesKeepTheirOwner` |
| `ParallelPool_proofs` | `NothingAfterFailure` | `FirstFailureIsLast` |
| | `ReturnsWhenOver` | `NothingRunsOn`, the safety part of `PoolEnds` |
| `ShellFlow_proofs` | `FlagsAreScoped` | `FlagsScoped` |
| | `ExitTrapsOnce` | `ExitTrapOnce` |
| | `ExitsStick` | `ExitSticks` |
| | `ErrTrapsOncePerLevel` | `ErrTrapOncePerLevel` |
| `VcsCounts_proofs` | `CountsAreCurrentOrMarked` | `OldCountsAreMarked` |

Bounds that a run needs (`MaxOps` and the like) are guards of the actions, so
that a proof for every bound is one without a bound.

**Assumptions.** Those of a module that a run extends are `ASSUME`s in it, which
TLC evaluates for the run's constants; the others stand in the theorems as
hypotheses. None says more than what the constants are:

* `ConstantsAssumption` (JobTable): jobs are numbers, the names used for "none"
  are not jobs, processes or offsets, and the processes are finitely many, so that
  `live` can be compared with their number.
* `PlainLines` (JobTable_proofs): the lines hold commands one after another,
  foreground pipelines and single commands with `&`, which may or may not start.
  The theorems that need it say so. With background pipelines or substitutions
  two may wait for one child (`job_bgpipe`, `job_waits`), and with functions or
  late goroutines a command with `&` may be taken for another, so that these
  properties do not hold there.
* `LocksAssumption` (JobLocks): the names for "nobody" and the prompt loop are
  not jobs or waiters, and the waiters are finitely many.
* `EnvAssumption` (EnvTrust): the shells are finitely many, so that saves under
  way leave a free inode; a directory lies in itself; a diff's last variable is one
  that it sets; an unfinished list and "none" are no list, diff or directory.
* `SessionAssumption` (AgentSession): the limits of a scenario are numbers within
  the bounds.
* `ScenariosAssumption` (ShellFlow): a scenario is read in one of the three ways,
  and its bounds are numbers. Its statements, options and bounds are open, so the
  theorems are about every script.
* `CountsAssumption` (VcsCounts): limits and bounds are numbers.
* `Setting` (PluginHost): plugins are numbers from 1 in the order of their names,
  what they offer are names, and the mark of one not asked yet is none of them.
* `Sizes` (ParallelPool): a number of inputs, and at least one worker to choose.

### JobTable

`BackgroundOffTerminal` compares the terminal's group with a job's group, so it
is lost as soon as two jobs share a group or a job changes its kind. It is
therefore proved together with what prevents that, `GroupInv`, which TLC checks
in `job_waits`:

* `GroupHasLeader`: the process that names a group belongs to that job, so two
  jobs with one group are one job; `ProcessHasGroup` and `TerminalHeld` say
  that a process is started only with a group, and that the terminal is the
  shell's or a started process's. Hence a process about to start is not the
  leader of any group and does not hold the terminal, which is what `StartStep`
  needs.
* `HeldNotFresh`: a job number still held by a handler, by the line or by a
  background range is not free. Without it `BeginLine` could take a job of
  another kind, and `DispatchBackground` could change the kind of one in use.
* `KindsKept`: the line's job is foreground, the ranges' jobs are background.
* `LineHasJob`, `SelIsJob`, `HandlerHasJob`: what the code's non-nil pointers
  say.

There is one lemma for each action that disturbs several parts (`StartStep`,
`DispatchBackgroundStep`, `EndLineEmptyStep`, …); `GroupInvStep` combines them,
with one case per action.

With plain lines the accounting is exact. `LineInv` adds to `GroupInv` eight parts,
each with a lemma of its own (`PlacedStep`, …, `SettledStep`) in which the parts
before it, and some behind it, are hypotheses:

* `Placed`, `Sided`, `InLineOnly`, `Filed`: where a command is on its way. Its
  position at the seam is that of its own statement, so what was written with `&`
  gets a job of its own (`DispatchFresh`) and the rest the line's; and while a
  handler of the line is at work, the line does nothing else. This is all that
  `BackgroundStaysBackground` needs.
* `Counts`: `live` is a cardinality, that of the processes not yet reaped and of
  those reaped but not accounted for, and one for the status in the reaper's
  hand. `CountMore`, `OneFewer` and `CountSame` are its moves.
* `ReaperAlone`: a job has a reaper only while none of its handlers is at work and
  the line has left it, which is `OneWaiter`; and the reaper has something to wait
  for until its job is Done (`ReaperHasProcess`). Each of the three calls of
  `ensureReaper` needs a reason of its own, that it finds no handler at work: the
  background branch, as it has one command; `EndLine`, as the line is over; `resume`,
  as it saw the job Stopped (`Resumed`).
* `Settled`: what is left of a line that is over is Stopped (`KeptIsStopped`), so that
  what `EndLine` reads before it unlocks still holds when it files the job and
  starts the reaper; and what is Done has no process left once the line is over.

`Settled` is needed by `ReaperAlone` (a job with a reaper to come is not Done),
`Counts` by `Settled` (a job with a process left is not counted down to Done) and
`ReaperAlone` by `Counts` (nobody else reaps what a handler waits for), so they
are inductive only together. The other properties follow with a step each:
`WaiterStep`, `DoneNotListedStep`, `ListedHasProcessStep` and, with `TerminalKept`
(what runs outside the terminal while fg waits still has its handler),
`TerminalKeptStep`.

### JobLocks

`fg` comes back after a critical section of its own, so it is enough that a job
which is Done while its mutex is free is off the list (`DoneIsOff`): the waiter
that makes it Done keeps the mutex until it has removed it (`RemoverOwns`). That
this waiter is the last one, and nobody goes on to count below zero, is
`Counted`: `live` is the number of processes somebody waits for, a cardinality,
which `FiniteSetTheorems` takes down by one at each `procDone`.

### EnvTrust

Four questions, each with an invariant of its own beside the types. *What is
live was allowed*: `AllowedOnly` follows a record from the user's word through
the shell's memory, the save under way, every inode, and back into another
shell's memory. *Where*: at the prompt a diff is live only inside its directory,
during a line it may lag behind (`Where`), and a proposal applies where the
shell stood when it was asked for (`AsksHere`), which is what the unlocked call
to the plugin puts at risk. *The user's own values*: `Values` says of every
variable that it is the user's, or that the live diff holds the user's value for
it; a diff applied on top of another one hides what that one had hidden.
*Announcement*: the notice key is remembered with the diff it stands for
(`Announced`). *A whole list*: an inode that was not truncated under another
session's save is torn only while the one session that truncated it has not
written it, or after that session's death, and then it is not the list: the rename
happens after the write (`Whole`). Which sessions have lived and died before is not
asked. Finitely many shells leave a free inode (`FreshInode`), by cardinality.

### AgentSession

`Delivery` is the core of `ReaderFree`: a caller that is registered has an empty
channel and no answer on its way; an answer on its way has already taken its
caller off `pending`, so that no other one, repeated or late, can follow it; and
a call's number is not used again (`CallIds`). `UnlistedIsDead` needs that a
request is begun once (`Sent`) and a command belongs to a request past its
start (`Started`); of a session
that has exited it claims nothing, so that Ctrl-C may come at any step.

`TurnsKept` is the refinement, step by step. That the user has seen everything
before the turn ends is an invariant of the pipe: the chunks in it are those
said and not shown, in order (`ChunksInOrder`), and an answer has behind it only
what was said later (`InTime`), which holds while it is in the pipe, in the
reader's hand and in the channel. That there is only one turn's answer to look
at is `Letters` and `Answers`: a prompt is written once, owed once and answered
once, repeats aside. When the reader is over so is the agent (`OverIsDead`),
which is why a call without an answer reports the end and nothing else.

### PluginHost

Whoever starts a plugin has its mutex and found it without a client (`Owners`);
the processes of a plugin are then the one being described and the client's,
and not both (`Counted`). For the names: the index asks each plugin once
(`AskedOnce`), and one it has not asked has no names (`Unheard`), so that its
answer takes nothing from anybody: `SetCommands`, which takes all of a plugin's
names away before it gives them out again, leaves every owner in place
(`SetCommandsClaims`).

### ParallelPool

One worker holds a task from the feed to the close of its `done` (`Held`);
nothing has happened to a task that was not handed out (`Unfed`); a task handed
out and no longer held is over (`Over`). With one worker the task in hand is the
last one handed out (`Single`), so when it fails, what comes after is not
begun, and before the next one the pool is cancelled (`Judged`).

### ShellFlow

The properties speak of a whole history: a flag was saved, much happened, it was
put back. The invariant says it of one moment. The frames below a place of the
stack determine what a shell may have there (`Context`): which shell it is, its
level of calls and subshells, whether it is inside a condition or the body of a
loop, which trap actions are running. Then

* a shell is right in a context (`ShellOK`) if its own `noErrExit`, `inLoop`,
  level and running traps are those of the context (`ShellFits`), a failure for
  which the ERR trap has run at its level is marked (`ShellKeeps`), a shell that
  was asked to exit has that exit still on its way (`ShellLeaves`), and it has run
  its EXIT trap as often as it should by now (`ShellTraps`);
* a frame is right (`FrameOK`) if what it saves is right below it: a flag is that
  of the context there, a saved status still has its exit; and the frame of a fork
  has below it a shell that is right and waits;
* `Ok`: every frame is right, the current shell is right at the top, and every
  other shell is the one below some fork.

No induction over the stack is needed, since a step touches the top. `Move` says
so once: a step that keeps the frames up to a place and is right in the one frame
above them keeps `Ok`; `FrameKept` is its reason, that a frame's context depends
on the frames below only by what they save and where they stand (`Alike`). Its
forms are `Open` and `Close` for constructs, `PushAction` and `ActionOver` for trap
actions, `Fork` and `JoinBack` for subshells, `Touch` and `Retop` for a shell or a
frame that changes in place. Each action of the model is one of these, in a lemma
that bears its name (`EndCondKept`, `FuncExitTrapKept`, …). A shell that is joined to
the one around it leaves a status that carries no exit, or one that the shell around
has raised again as its own (`JoinsWith`, `Fatals`).

`Ok` has a parameter, the excuse: after an action has overruled an exit, or
`pipefail` has dropped one, less is claimed, and `Excused` says that what held
before holds with the weaker claim. `ErrTrapOncePerLevel` needs only the first
excuse, `FlagsScoped` none. `IInv` adds to `Ok` what the history may say:
`BeginRecords`, `ErrTrapRecords` and `EndedRecords` show that what a step records
is right or excused.

### VcsCounts

What is shown says nothing of the future, so the invariant follows the numbers
back: `ScanIsYoung`, what a running scan has read was true when it began or
later; `CountsWereTrue`, hence what it found was true at most a scan before the
clock of success; and the mark compares with that clock. `Clocks` says that both
clocks lie in the past, which a change of the work tree needs.

### Only model-checked

* In `JobTable`: `LiveNeverOvercounts`, where background pipelines and
  substitutions make the count inexact. In `ShellFlow`: `BreakHitsItsLoops`, which
  needs to know which loops a count on its way has still to leave, and is checked
  without signals, whose actions may begin between a break and its loop. Of the
  components without a proof module: input (`TypeAhead`), the history file, the
  capture.
* Liveness, the refinement's and the pool's too: neither fairness nor ENABLED is
  within the prover's reach.
* `TypeAhead` and `HistoryStore` are built on sequences of bytes whose properties
  follow the sequence as a whole; what a fold over it gives for every sequence
  needs an induction over data that the prover cannot do.

## Findings

With a run that TLC must find violated, and the comment it contradicts:

* `job_bgpipe` (`DoneMeansDead`): in `a | b &` the reaper starts when one handler
  returns, beside the other that still waits. The status is accounted twice, and
  the job is Done with a process left.
* `locks_snapshot` (`NoLockCycle`): `Snapshot` takes `Table.mu` then `Job.mu`,
  `procDone` `Job.mu` then `Table.mu`, and both wait for ever. `Table`'s comment
  that a goroutine never holds both is contradicted by `procDone` itself.
* `shell_errexit` (`ErrexitSpares`): with `set -e`, `if true; then false && true;
  fi` ends the shell. The list is spared where it ends, and the `if` around it
  sees the status again without knowing that.
* `capture_cut` (`NothingIsLost`): the line closes its pty also when its command
  has been stopped or runs in the background; what that writes later is lost.

Stated in a module, false in the code, and without a run:

* `LaterStagesJoin` (JobTable): commands of one line join the group of its first
  command. After `a;` that group may be empty, setpgid is refused, and `b` fails
  to start (`table_unix.go:408`).
* `DoneNotListed`, with substitutions: `EndLine` decides under `job.mu` to keep a
  job and files it after the unlock; the job may end between, and stays listed.
* `PasteStaysText` (TypeAhead): a paste typed ahead behind an accepted line is cut
  by the end of the session. Its rest reaches the next prompt as keys, and a
  newline in it accepts a line (`events.go:155`).
* `BreakEndsBody` (ShellFlow): after `break` in a block inside a loop's body the
  rest of the block runs; only the loop looks at the count. A count larger than
  the number of loops stays and meets the next loop.
* `LastStageLeaves` (ShellFlow): "the final stage runs in the current shell"
  (`runner.go:1712`), but with `set -o pipefail` and `shopt -s lastpipe`, `false |
  exit 0` does not leave the shell: the pipeline takes the whole status of its
  first stage, and the exit is lost with the status 0 it came with
  (`runner.go:1782`).
* `FatalSurfaces` (ShellFlow): a pipeline is to "surface fatal errors immediately"
  (`runner.go:1785`), but `exitStatus.fatal` does nothing to a status that is marked
  already. When both stages fail so, or with pipefail the status has been copied
  from the first stage, the mark is there and `exiting` has been taken away, and the
  shell goes on.
* `NoLineSkipped` (HistoryStore): another session's line written between
  `Append`'s look at the end of the file and its own write is taken for its own
  extension ("no interleaved writes from other sessions", `history.go:207`) and not
  learned until the file is opened again; the offset may point into it.
* `AllowSurvives`, `RestoredIsOffered` (EnvTrust): a shell saves the list it read
  at its start with its own changes, so that an allow or a revoke of another shell
  is undone; a restored environment is dropped by the next prompt in a directory
  the shell has just entered.
* `CrashKeepsList` (EnvTrust): "a crash mid-write must not corrupt trust"
  (`envtrust.go:144`), but two shells that save at once share a temporary file. The
  second truncates what the first has written, the first renames it, the second
  dies: the list is empty or torn.
* `AnswerIsReturned`, `NothingOutlives` (AgentSession): when an answer and the end
  of the agent are both ready, the `select` may report the end; a terminal created
  behind `ReleaseAll`, or running at a Ctrl-C, is left, also one that `ReleaseAll` has
  taken off the list and not yet killed (`terminal.go:303-311`).
* `FirstPluginWins`, `CacheKnowsCommands`, `DroppedIsGone` (PluginHost): a
  contested name goes to the plugin that answers first, not to the first by name
  (`commands.go:31`); one that could not be asked is cached as having no commands,
  until its binary changes; one that was dropped is launched again by a caller
  that had listed it.
* `CancelEnds` (ParallelPool): without `--collect` the pumps wait for the end of
  the output before `Wait` is called, so that `WaitDelay` never begins and a
  process left behind by a killed command keeps the pool
  (`parallel.go:241` says that it must not wedge). With `--collect`, a command that
  succeeds and leaves such a process is reported as 127.

Met while reading or in traces, and stated by no property:

* `resume` erases a stop recorded between its SIGCONT and its mark, and `fg` waits
  on a stopped job; a handler that has recorded a stop takes the terminal after the
  unlock, when `fg` may already have given it away; `fg` on a background job whose
  process has not started hands over nothing, its group being 0.
* A substitution whose process stops after its line ended has nobody waiting for
  it; a background goroutine that arrives after the next line began finds other
  ranges; a command in the body of a function, or of an agent step, may have an
  offset that falls in a backgrounded range of the line typed last, and is then run
  in the background while the line waits; `./missing &` leaves a listed job without
  a process.
* When a session is cancelled with half an escape sequence in its buffer, the closed
  channel may be selected before the cancellation, and the half is decoded as a key
  (`events.go:214`).
* An EXIT trap runs after every typed line, each being a run of its own
  (`repl.go:653`). `! exit 0` and `! return 0` end with status 1. `exit` in an ERR
  trap is taken back, and an EXIT action that exits overrules. `true | return 3` in a
  function returns from it.
* The koi-git cache clears its stale flag at the end of a refresh: an event that came
  after git had read is forgotten, and the prompt is behind until the TTL
  (`cache.go:13` says that an event invalidates immediately).
* The backoff of a plugin is 5 s shifted by the number of failures; with the 32nd it
  overflows to a negative time (`manager.go:259`). The warm-up's 2 s are one context
  for all plugins, so that a slow one costs the others their answer.

## Not modelled

In the modelled parts. *Job table*: the text of `jobs`, the options of `kill`,
exit statuses. *Terminal*: raw mode, the translation of keys, a cancellation
from outside the editor. *Interpreter*: expansion, redirections, assignments,
coprocesses, `wait` and the builtins that leave the control flow alone; and
`select`, `case` and C-style loops, whose bodies do what those of the modelled
ones do. *History*: search, which only reads. *Plugins*: what a live plugin is
asked for, beside its launch. *Agent*: the output a terminal retains,
`session/cancel`, which nothing calls, and a pipe that is full. *Git caches*: the
200 ms the first render waits, the map of repositories. *Capture*: the retention
of blocks.

Not at all, with the reason: syntax and expansion (sequential, with an upstream
corpus of tests); prompt engine, completion, other builtins, interactive views,
sandbox and command line (no state that two actors share); plugin manager,
session records, directory index (one writer, or the last one wins); MCP server
(answers from a snapshot; its `Close` before `Serve` is the one order worth a
model); remote sessions (commands on another machine, in order); plugin SDK and
bundled plugins (generated code, and answers to one request at a time).

The interpreter, the syntax and the expansion make up most of the source. They
are vendored and changed in places; what could be stated about them beyond
control flow is what text a program expands to, which a conformance corpus
settles and a state machine does not.

## Plan for further proofs

`LearnedOnce` of `HistoryStore`, as far as it needs no induction over the file. In
`JobTable`, what is left of the accounting where two may wait for one child:
`LiveNeverOvercounts` for two processes and any number of jobs. In `ShellFlow`,
`BreakHitsItsLoops`, with the loops that a count names as part of `Context`.
