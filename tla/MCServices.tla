----------------------------- MODULE MCServices -----------------------------
(***************************************************************************)
(* Checks what works for the prompt in goroutines of its own: plugins, the *)
(* parallel pool, the git caches, and the capture of output.  They share   *)
(* no state; a behaviour exercises one of them (focus).                    *)
(***************************************************************************)
EXTENDS VcsCounts

CONSTANTS
    Plugin, Name, Reserved, Cached, MaxFaults, MaxOps,
    Inputs, MaxJobs, Leavers,
    RepoChanges, MaxFailures,
    MaxOutput, Limit

VARIABLES
    focus,
    hmu, psmu, installed, known, client, cooling, procs, faults,
    pc, todo, on, late, ops, specs, byName, cache,
    opts, next, main, wpc, task, cancelled, proc, left, status, done, flushed,
    repo, event, seen, stale, expired, refreshing, reading, fails,
    command, written, lost, slave, master, pump, taken, screened, kept, line, timedOut, result

pluginVars == <<hmu, psmu, installed, known, client, cooling, procs, faults,
                pc, todo, on, late, ops, specs, byName, cache>>
poolVars == <<opts, next, main, wpc, task, cancelled, proc, left, status, done, flushed>>
repoVars == <<repo, event, seen, stale, expired, refreshing, reading, fails>>
captureVars == <<command, written, lost, slave, master, pump, taken, screened, kept,
                 line, timedOut, result>>
all == <<focus, vars, pluginVars, poolVars, repoVars, captureVars>>

\* Two plugins that both offer "a", one a builtin's name.
MCOffers == [p \in Plugin |-> IF p = 1 THEN {"a", "r"} ELSE {"a"}]

Plugins == INSTANCE PluginHost WITH Offers <- MCOffers
Pool == INSTANCE ParallelPool
Repo == INSTANCE RepoCache WITH
    MaxChanges <- RepoChanges, tree <- repo, status <- seen, read <- reading
Line == INSTANCE Capture

\* Those that are not exercised begin in one state.  A pool with neither option behaves
\* like one with fail-fast in which every command succeeds.
MCInit ==
    /\ focus \in {"counts", "plugins", "pool", "repo", "capture"}
    /\ Init /\ Plugins!Init /\ Pool!Init /\ Repo!Init /\ Line!Init
    /\ focus # "pool" => opts = [jobs |-> 1, collect |-> FALSE, failFast |-> TRUE]
    /\ opts.collect \/ opts.failFast

Counts(action) ==
    focus = "counts" /\ action /\ UNCHANGED <<focus, pluginVars, poolVars, repoVars, captureVars>>
Hosting(action) ==
    focus = "plugins" /\ action /\ UNCHANGED <<focus, vars, poolVars, repoVars, captureVars>>
Pooling(action) ==
    focus = "pool" /\ action /\ UNCHANGED <<focus, vars, pluginVars, repoVars, captureVars>>
Caching(action) ==
    focus = "repo" /\ action /\ UNCHANGED <<focus, vars, pluginVars, poolVars, captureVars>>
Capturing(action) ==
    focus = "capture" /\ action /\ UNCHANGED <<focus, vars, pluginVars, poolVars, repoVars>>

MCNext ==
    \/ Counts(Next) \/ Hosting(Plugins!Next) \/ Pooling(Pool!Next)
    \/ Caching(Repo!Next) \/ Capturing(Line!Next)

\* The fairness of each.
Progress ==
    \/ Hosting(Plugins!System) \/ Pooling(Pool!System) \/ Caching(Repo!System)
    \/ Capturing(Line!EndLine \/ Line!Drained \/ Line!GraceOver)

MCSpec == MCInit /\ [][MCNext]_all /\ WF_all(Progress)

ProcessesInHand == Plugins!ProcessesInHand
NamesKeepTheirOwner == Plugins!NamesKeepTheirOwner
CloseEnds == Plugins!CloseEnds
FirstFailureIsLast == Pool!FirstFailureIsLast
PoolEnds == Pool!PoolEnds
CatchesUp == Repo!CatchesUp
LineEndsWithTail == Line!LineEndsWithTail
=============================================================================
