----------------------------- MODULE VcsCounts ------------------------------
(***************************************************************************)
(* The counts of the prompt's vcs segment (internal/repl/vcscounts.go).    *)
(* The prompt takes what the last scan has found and starts another in the *)
(* background; two clocks, of the last attempt and of the last success,    *)
(* decide when to scan again and when to mark numbers that no scan has     *)
(* managed to replace.                                                     *)
(*                                                                         *)
(* The work tree is a number that grows with every change; time is counted *)
(* in ticks.                                                               *)
(***************************************************************************)
EXTENDS Integers

CONSTANTS
    MaxChanges,                 \* bound: changes of the work tree
    MaxTime,                    \* bound: ticks
    CountsTTL, ScanTimeout      \* countsTTL and gitstatus.ScanTimeout, in ticks

ASSUME CountsAssumption ==
    /\ MaxChanges \in Nat /\ MaxTime \in Nat
    /\ CountsTTL \in Nat /\ ScanTimeout \in Nat

VARIABLES
    tree, changedAt,                        \* the work tree, and when each version came about
    counts, fetched, succeeded,             \* countsEntry
    scanning, read, since,                  \* its scan, what that has read, its beginning
    shown, now

vars == <<tree, changedAt, counts, fetched, succeeded, scanning, read, since, shown, now>>

Nothing == -1
StaleAfter == CountsTTL + ScanTimeout

Init ==
    /\ tree = 0 /\ changedAt = [v \in 0..MaxChanges |-> 0]
    /\ counts = Nothing /\ fetched = -StaleAfter - 1 /\ succeeded = -StaleAfter - 1
    /\ scanning = FALSE /\ read = Nothing /\ since = 0
    /\ shown = [counts |-> Nothing, marked |-> FALSE, at |-> 0] /\ now = 0

\* External.
Change ==
    /\ tree < MaxChanges
    /\ tree' = tree + 1 /\ changedAt' = [changedAt EXCEPT ![tree + 1] = now]
    /\ UNCHANGED <<counts, fetched, succeeded, scanning, read, since, shown, now>>

\* mergeVCSCounts.
Marked == now - succeeded > StaleAfter
Prompt ==
    /\ scanning' = (scanning \/ now - fetched > CountsTTL)
    /\ since' = IF scanning' /\ ~scanning THEN now ELSE since
    /\ shown' = [counts |-> counts, marked |-> Marked, at |-> now]
    /\ UNCHANGED <<tree, changedAt, counts, fetched, succeeded, read, now>>

\* scan: git reads the work tree, and ends later, with an answer or without.
Read ==
    /\ scanning /\ read = Nothing
    /\ read' = tree
    /\ UNCHANGED <<tree, changedAt, counts, fetched, succeeded, scanning, since, shown, now>>

Scanned ==
    /\ read # Nothing
    /\ counts' = read /\ fetched' = now /\ succeeded' = now
    /\ scanning' = FALSE /\ read' = Nothing
    /\ UNCHANGED <<tree, changedAt, since, shown, now>>

AlsoThen == now
NotThen == succeeded
ScanFails ==
    /\ scanning
    /\ fetched' = now /\ succeeded' = NotThen
    /\ scanning' = FALSE /\ read' = Nothing
    /\ UNCHANGED <<tree, changedAt, counts, since, shown, now>>

\* Time passes, but no scan takes longer than its timeout.
Tick ==
    /\ now < MaxTime
    /\ scanning => now - since < ScanTimeout
    /\ now' = now + 1
    /\ UNCHANGED <<tree, changedAt, counts, fetched, succeeded, scanning, read, since, shown>>

Next == Change \/ Prompt \/ Read \/ Scanned \/ ScanFails \/ Tick

Spec == Init /\ [][Next]_vars
-----------------------------------------------------------------------------
\* Counts that are shown without a mark were true not long ago: within the time after
\* which counts are marked, and that of the scan that found them (#132).
OldCountsAreMarked ==
    shown.counts # Nothing /\ ~shown.marked /\ shown.counts < tree =>
        shown.at - changedAt[shown.counts + 1] <= StaleAfter + ScanTimeout
=============================================================================
