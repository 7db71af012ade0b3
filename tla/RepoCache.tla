----------------------------- MODULE RepoCache ------------------------------
(***************************************************************************)
(* The git status that the koi-git plugin gives the prompt without waiting *)
(* for git (cmd/koi-git/cache.go): a watcher tells that .git has changed,  *)
(* a TTL that the work tree may have, and one background refresh at a time *)
(* runs `git status', which has a timeout.                                 *)
(*                                                                         *)
(* The repository is a number that grows with every change.                *)
(***************************************************************************)
EXTENDS Integers

CONSTANTS
    MaxChanges,     \* bound: changes of the repository
    MaxFailures     \* bound: runs of git that fail

VARIABLES
    tree,                       \* the repository
    event,                      \* an event of the watcher, under way
    status, stale, expired,     \* repoState, and whether its TTL has passed
    refreshing, read,           \* its refresh, and what that has read
    fails                       \* how many have failed

vars == <<tree, event, status, stale, expired, refreshing, read, fails>>

Nothing == -1

\* lookup: a repository is stale when it is first seen.
Init ==
    /\ tree = 0 /\ event = FALSE
    /\ status = Nothing /\ stale = TRUE /\ expired = FALSE
    /\ refreshing = FALSE /\ read = Nothing /\ fails = 0

\* External: a commit, which the watcher sees, or an edit, which it does not.
Change ==
    /\ tree < MaxChanges
    /\ tree' = tree + 1
    /\ event' \in {event, TRUE}
    /\ UNCHANGED <<status, stale, expired, refreshing, read, fails>>

Watch ==
    /\ event
    /\ event' = FALSE /\ stale' = TRUE
    /\ UNCHANGED <<tree, status, expired, refreshing, read, fails>>

\* Time passes worktreeTTL.
Expire ==
    /\ ~expired
    /\ expired' = TRUE
    /\ UNCHANGED <<tree, event, status, stale, refreshing, read, fails>>

WantedOnEvent == stale
Wanted == stale \/ expired
Render ==
    /\ Wanted /\ ~refreshing
    /\ refreshing' = TRUE
    /\ UNCHANGED <<tree, event, status, stale, expired, read, fails>>

\* git status reads the repository at some moment of its run.
Read ==
    /\ refreshing /\ read = Nothing
    /\ read' = tree
    /\ UNCHANGED <<tree, event, status, stale, expired, refreshing, fails>>

Refreshed ==
    /\ read # Nothing
    /\ status' = read /\ read' = Nothing
    /\ refreshing' = FALSE
    /\ stale' = FALSE /\ expired' = FALSE
    /\ UNCHANGED <<tree, event, fails>>

\* "Don't hot-loop on a broken repo; TTL retries."
RefreshFails ==
    /\ refreshing /\ fails < MaxFailures
    /\ refreshing' = FALSE /\ read' = Nothing
    /\ stale' = FALSE /\ expired' = FALSE
    /\ fails' = fails + 1
    /\ UNCHANGED <<tree, event, status>>

System == Watch \/ Expire \/ Render \/ Read \/ Refreshed
Next == System \/ RefreshFails \/ Change

Spec == Init /\ [][Next]_vars

\* Prompts are drawn, git ends and the TTL passes.  No step can be repeated before the
\* others have had their turn, so that one fairness is enough.
FairSpec == Spec /\ WF_vars(System)
-----------------------------------------------------------------------------
\* What the prompt shows catches up with a repository that rests, after changes nobody
\* reported, reports that came during a refresh and were forgotten at its end, and
\* refreshes that failed.
CatchesUp == []<>(tree = MaxChanges => status = tree)
=============================================================================
