----------------------------- MODULE PluginHost -----------------------------
(***************************************************************************)
(* The plugins of a session (internal/pluginhost): resident processes that *)
(* are launched when they are first needed, and the index of the commands  *)
(* they provide.                                                           *)
(*                                                                         *)
(* Three goroutines need plugins: "index" asks those whose binary the      *)
(* cache does not know for their commands, "warm" asks all for their       *)
(* prompt segments (segments.go, and themeplugin.go likewise), and "main"  *)
(* runs a command, looks for new and removed binaries, and closes the host *)
(* at the end.  Host.mu protects the map of plugins, pluginState.mu the    *)
(* process of each and is held while it starts.                            *)
(*                                                                         *)
(* Plugins are numbered in the order of their names.  Time is abstract: a  *)
(* backoff or a deadline passes at any moment.                             *)
(***************************************************************************)
EXTENDS Naturals, FiniteSets

CONSTANTS
    Plugin,        \* numbers
    Name,          \* of commands
    Reserved,      \* the names of builtins
    Offers,        \* the commands each plugin provides
    Cached,        \* the plugins whose commands are cached when the session begins
    MaxFaults,     \* bound: failed launches and crashes
    MaxOps         \* bound: operations of main

VARIABLES
    hmu, psmu,                     \* the owners of Host.mu and of each pluginState.mu
    installed, known,              \* the binaries there are, and Host.plugins
    client, cooling,               \* pluginState: "none", "live" or "dead"; backoff
    procs, faults,                 \* running processes, and what went wrong so far
    pc, todo, on, late,            \* callers; those whose context has expired
    ops,                           \* main's operations so far
    specs, byName, cache           \* CommandIndex, and its file

locks == <<hmu, psmu>>
states == <<client, cooling, procs, faults>>
callers == <<pc, todo, on, late>>
index == <<specs, byName, cache>>
vars == <<locks, installed, known, states, callers, ops, index>>

Caller == {"index", "warm", "main"}
Nobody == "nobody"
None == 0
Unasked == {"not asked"}

\* setCommands: a name goes to the first, in the order of the names, of the plugins
\* asked so far that offer it, unless it has an owner already.
ClaimLast(old, sp, n) ==
    LET offering == {p \in Plugin : n \in sp[p]}
    IN  IF n \in Reserved \/ offering = {} THEN None
        ELSE CHOOSE p \in offering : \A q \in offering : p <= q
Claim(old, sp, n) ==
    LET offering == {p \in Plugin : n \in sp[p]}
    IN  IF n \in Reserved \/ old[n] # None \/ offering = {} THEN old[n]
        ELSE CHOOSE p \in offering : \A q \in offering : p <= q

\* The owners after p has answered with cs.
SetCommands(p, cs) ==
    /\ specs' = [specs EXCEPT ![p] = cs]
    /\ byName' = [n \in Name |->
                    Claim([m \in Name |-> IF byName[m] = p THEN None ELSE byName[m]], specs', n)]

\* NewCommandIndex: what the cache knows is claimed at once, in any order; the rest is
\* asked.
Init ==
    /\ hmu = Nobody /\ psmu = [p \in Plugin |-> Nobody]
    /\ installed = Plugin /\ known = Plugin
    /\ client = [p \in Plugin |-> "none"]
    /\ cooling = [p \in Plugin |-> FALSE]
    /\ procs = [p \in Plugin |-> 0] /\ faults = 0
    /\ pc = [c \in Caller |-> CASE c = "index" -> "next" [] c = "warm" -> "list" [] OTHER -> "idle"]
    /\ todo = [c \in Caller |-> IF c = "index" THEN Plugin \ Cached ELSE {}]
    /\ on = [c \in Caller |-> None] /\ late = {} /\ ops = 0
    /\ specs = [p \in Plugin |-> IF p \in Cached THEN Offers[p] ELSE Unasked]
    /\ byName \in {f \in [Name -> Plugin \cup {None}] :
                    \A n \in Name :
                       LET offering == {p \in Cached : n \in Offers[p]} IN
                       IF n \in Reserved \/ offering = {} THEN f[n] = None ELSE f[n] \in offering}
    /\ cache = [p \in Plugin |-> IF p \in Cached THEN Offers[p] ELSE Unasked]

Goes(c, to) == pc' = [pc EXCEPT ![c] = to]
-----------------------------------------------------------------------------
\* Which plugins a caller goes through, and what it does with each answer.

\* Host.providers: the plugins there are, under Host.mu; one context for all of them.
List ==
    /\ pc["warm"] = "list" /\ hmu = Nobody
    /\ todo' = [todo EXCEPT !["warm"] = known]
    /\ Goes("warm", "next")
    /\ UNCHANGED <<locks, installed, known, states, on, late, ops, index>>

Visit(c) ==
    /\ c # "main" /\ pc[c] = "next"
    /\ \E p \in todo[c] :
          /\ todo' = [todo EXCEPT ![c] = @ \ {p}]
          /\ on' = [on EXCEPT ![c] = p]
    /\ Goes(c, "lock")
    /\ UNCHANGED <<locks, installed, known, states, late, ops, index>>

\* CommandIndex.run: a command somebody owns.
RunCommand ==
    /\ pc["main"] = "idle" /\ ops < MaxOps /\ hmu = Nobody
    /\ \E n \in Name :
          /\ byName[n] \in known
          /\ on' = [on EXCEPT !["main"] = byName[n]]
    /\ Goes("main", "lock")
    /\ ops' = ops + 1
    /\ UNCHANGED <<locks, installed, known, states, todo, late, index>>

\* The caller has its answer; the index records it, a failure as no commands at all.
Answer(c, ok) ==
    /\ Goes(c, IF c = "main" THEN "idle" ELSE "next")
    /\ on' = [on EXCEPT ![c] = None]
    /\ late' = IF c = "warm" THEN late ELSE late \ {c}   \* warm has one context for all
    /\ IF c = "index"
       THEN SetCommands(on[c], IF ok THEN Offers[on[c]] ELSE {}) /\ UNCHANGED cache
       ELSE UNCHANGED index

SaveCache ==
    /\ pc["index"] = "next" /\ todo["index"] = {}
    /\ cache' = specs
    /\ Goes("index", "done")
    /\ UNCHANGED <<locks, installed, known, states, todo, on, late, ops, specs, byName>>
-----------------------------------------------------------------------------
\* pluginState.ensure.
Lock(c) ==
    /\ pc[c] = "lock" /\ psmu[on[c]] = Nobody
    /\ psmu' = [psmu EXCEPT ![on[c]] = c]
    /\ Goes(c, "ensure")
    /\ UNCHANGED <<hmu, installed, known, states, todo, on, late, ops, index>>

\* noteFailureLocked: the number of failures only tells how long the backoff is, which
\* may be any time.  (Past thirty of them it overflows and is none.)
Noted(p) == cooling' = [cooling EXCEPT ![p] = TRUE]

FreedUnlessCooling(p) == IF cooling[p] THEN psmu ELSE [psmu EXCEPT ![p] = Nobody]
Freed(p) == [psmu EXCEPT ![p] = Nobody]
HeldStarting(p) == [psmu EXCEPT ![p] = Nobody]
Held(p) == psmu
Reuse(c) ==
    LET p == on[c] IN
    /\ pc[c] = "ensure" /\ client[p] = "live"
    /\ psmu' = Freed(p)
    /\ Answer(c, c \notin late)
    /\ UNCHANGED <<hmu, installed, known, states, todo, ops>>

\* It has crashed since it was last used: that is a failure, and is waited out.
NoticeCrash(c) ==
    LET p == on[c] IN
    /\ pc[c] = "ensure" /\ client[p] = "dead"
    /\ client' = [client EXCEPT ![p] = "none"]
    /\ Noted(p)
    /\ UNCHANGED <<locks, installed, known, procs, faults, callers, ops, index>>

BackOff(c) ==
    LET p == on[c] IN
    /\ pc[c] = "ensure" /\ client[p] = "none" /\ cooling[p]
    /\ psmu' = Freed(p)
    /\ Answer(c, FALSE)
    /\ UNCHANGED <<hmu, installed, known, states, todo, ops>>

Launch(c) ==
    LET p == on[c] IN
    /\ pc[c] = "ensure" /\ client[p] = "none" /\ ~cooling[p]
    /\ procs' = [procs EXCEPT ![p] = @ + 1]
    /\ psmu' = Held(p)
    /\ Goes(c, "describe")
    /\ UNCHANGED <<hmu, installed, known, client, cooling, faults, todo, on, late, ops, index>>

Described(c) ==
    LET p == on[c] IN
    /\ pc[c] = "describe" /\ c \notin late
    /\ client' = [client EXCEPT ![p] = "live"]
    /\ cooling' = [cooling EXCEPT ![p] = FALSE]
    /\ psmu' = Freed(p)
    /\ Answer(c, TRUE)
    /\ UNCHANGED <<hmu, installed, known, procs, faults, todo, ops>>

\* It does not start, dies, or does not answer in time: it is killed.
Kill(p) == [procs EXCEPT ![p] = @ - 1]
LaunchFails(c) ==
    LET p == on[c] IN
    /\ pc[c] = "describe" /\ (c \in late \/ faults < MaxFaults)
    /\ procs' = Kill(p)
    /\ faults' = IF c \in late THEN faults ELSE faults + 1
    /\ Noted(p)
    /\ psmu' = Freed(p)
    /\ Answer(c, FALSE)
    /\ UNCHANGED <<hmu, installed, known, client, todo, ops>>

Ensure(c) ==
    Lock(c) \/ Reuse(c) \/ NoticeCrash(c) \/ BackOff(c) \/ Launch(c) \/ Described(c) \/ LaunchFails(c)
-----------------------------------------------------------------------------
\* Discover and Close, which hold Host.mu while they shut plugins down.
Discover ==
    /\ pc["main"] = "idle" /\ ops < MaxOps /\ hmu = Nobody
    /\ hmu' = "main" /\ ops' = ops + 1
    /\ todo' = [todo EXCEPT !["main"] = known \ installed]
    /\ known' = known \cup installed
    /\ Goes("main", "discover")
    /\ UNCHANGED <<psmu, installed, states, on, late, index>>

Close ==
    /\ pc["main"] = "idle" /\ hmu = Nobody
    /\ hmu' = "main"
    /\ todo' = [todo EXCEPT !["main"] = known]
    /\ Goes("main", "close")
    /\ UNCHANGED <<psmu, installed, known, states, on, late, ops, index>>

Shutdown ==
    /\ pc["main"] \in {"discover", "close"}
    /\ \E p \in todo["main"] :
          /\ psmu[p] = Nobody
          /\ todo' = [todo EXCEPT !["main"] = @ \ {p}]
          /\ procs' = IF client[p] = "live" THEN [procs EXCEPT ![p] = @ - 1] ELSE procs
          /\ client' = [client EXCEPT ![p] = "none"]
          /\ known' = IF pc["main"] = "discover" THEN known \ {p} ELSE known
    /\ UNCHANGED <<locks, installed, cooling, faults, pc, on, late, ops, index>>

Unlock ==
    /\ pc["main"] \in {"discover", "close"} /\ todo["main"] = {}
    /\ hmu' = Nobody
    /\ Goes("main", IF pc["main"] = "close" THEN "closed" ELSE "idle")
    /\ UNCHANGED <<psmu, installed, known, states, todo, on, late, ops, index>>
-----------------------------------------------------------------------------
\* External: binaries are removed, processes die, time passes.
Uninstall ==
    /\ pc["main"] = "idle" /\ ops < MaxOps       \* else nobody would notice
    /\ \E p \in installed : installed' = installed \ {p}
    /\ UNCHANGED <<locks, known, states, callers, ops, index>>

Crash ==
    /\ \E p \in Plugin :
          /\ client[p] = "live" /\ faults < MaxFaults
          /\ client' = [client EXCEPT ![p] = "dead"]
          /\ procs' = [procs EXCEPT ![p] = @ - 1]
    /\ faults' = faults + 1
    /\ UNCHANGED <<locks, installed, known, cooling, callers, ops, index>>

Cool ==
    /\ \E p \in Plugin : cooling[p] /\ cooling' = [cooling EXCEPT ![p] = FALSE]
    /\ UNCHANGED <<locks, installed, known, client, procs, faults, callers, ops, index>>

\* A context that ends earlier is noticed no earlier than this.
Expire ==
    /\ \E c \in Caller \ late : pc[c] \in {"ensure", "describe"} /\ late' = late \cup {c}
    /\ UNCHANGED <<locks, installed, known, states, pc, todo, on, ops, index>>

System ==
    \/ List \/ SaveCache \/ Shutdown \/ Unlock
    \/ \E c \in Caller : Visit(c) \/ Ensure(c)
Environment == RunCommand \/ Discover \/ Close \/ Uninstall \/ Crash \/ Cool \/ Expire
Next == System \/ Environment

Spec == Init /\ [][Next]_vars

\* Goroutines run, and a launch ends: starting and describing a plugin have timeouts.
FairSpec == Spec /\ WF_vars(System)
-----------------------------------------------------------------------------
\* A plugin has one process at most, and every process there is is the client of its
\* plugin or about to be: none is forgotten by a launch that failed, or started beside
\* another by a second caller.
EveryProcessIsHeld ==
    \A p \in Plugin :
        procs[p] = Cardinality({c \in Caller : pc[c] = "describe" /\ on[c] = p})
                   + (IF client[p] = "live" THEN 1 ELSE 0)
OneProcess == \A p \in Plugin : procs[p] <= 1

ProcessesInHand == EveryProcessIsHeld /\ OneProcess

\* The index is whole: every name that is not reserved and that a plugin it has asked
\* offers has an owner that offers it, and no other name has one.
NamesAreClaimed ==
    \A n \in Name :
        LET offering == {p \in Plugin : n \in specs[p]} IN
        IF n \in Reserved \/ offering = {} THEN byName[n] = None ELSE byName[n] \in offering

\* And a name that can be typed means one plugin for the rest of the session, whatever
\* the plugins that answer later offer.
NamesKeepTheirOwner ==
    []NamesAreClaimed /\ [][\A n \in Name : byName[n] # None => byName'[n] = byName[n]]_vars

\* Closing the host waits for whoever holds a plugin, and comes to an end: nobody
\* waits for Host.mu with a pluginState.mu in hand.
CloseEnds == []<>(pc["main"] # "close")

\* "A warm session knows its plugin commands without launching anything" from the
\* cache.  Violated: a plugin that could not be asked is cached as one without
\* commands, under the time of its unchanged binary.
CacheKnowsCommands == \A p \in Plugin : cache[p] # Unasked => cache[p] = Offers[p]

\* "Contested names go to the lexicographically first plugin."  Violated: to the first
\* that answers.
FirstPluginWins ==
    \A n \in Name : byName[n] # None => \A p \in Plugin : n \in specs[p] => byName[n] <= p

\* "Removed ones are dropped (a running client is killed)."  Violated: a caller that
\* listed the plugin before launches it again, and nobody is left to kill it.
DroppedIsGone == \A p \in Plugin : procs[p] > 0 => p \in known
=============================================================================
