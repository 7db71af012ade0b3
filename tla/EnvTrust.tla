------------------------------ MODULE EnvTrust ------------------------------
(***************************************************************************)
(* Environment diffs and the trust they need: the manager of a session     *)
(* (internal/repl/envdiff.go), the trust builtin (internal/repl/trust.go)  *)
(* and the allow list that all sessions of a user share as one file        *)
(* (internal/envtrust/envtrust.go).                                        *)
(*                                                                         *)
(* A diff is known by its hash; Touched[h] are the variables it sets, and  *)
(* a variable it has set holds h.  A session's own value is "user".        *)
(***************************************************************************)
EXTENDS Naturals, FiniteSets

CONSTANTS
    Shell,      \* sessions
    Dir,        \* directories
    Under,      \* Under[d]: the directories d lies in, d included (underDir)
    Hash,       \* diffs
    Var,        \* environment variables
    Touched,    \* Touched[h]: what the diff sets
    LastSet,    \* LastSet[h]: the variable its script sets last
    Earlier,    \* what an earlier session left in the file, when it left one
    None, Torn,
    MaxOps      \* bound: what the users do, all sessions together

Source == {"plugin", "session-restore"}
Record == [plugin: Source, dir: Dir, hash: Hash]

\* A live diff, with the values it has hidden; a save under way, with what follows
\* it and the inode it has truncated and not written yet, or 0.
Diff == [rec: Record, hash: Hash, saved: [Var -> Hash \cup {"user"}]]
Inode == 1..(Cardinality(Shell) + 2)
Save == [rest: [op: {"allow"}, p: Record] \cup [op: {"revoke"}, dir: Dir],
         fd: Inode \cup {0}]

ASSUME EnvAssumption ==
    /\ IsFiniteSet(Shell)
    /\ Under \in [Dir -> SUBSET Dir] /\ \A d \in Dir : d \in Under[d]
    /\ Touched \in [Hash -> SUBSET Var] /\ \A h \in Hash : LastSet[h] \in Touched[h]
    /\ Earlier \subseteq Record
    /\ None \notin Hash \cup Dir \cup {"user"} \cup Record \cup Diff \cup (Dir \X Hash)
    /\ \A list \in SUBSET Record : list # Torn

VARIABLES
    wants,      \* wants[d]: the diff the plugin derives from d now, or None
    disk,       \* the trust file and the temporary file it is renamed from
    shell,      \* "off"; "line": a command line runs; "asking": atPrompt waits for the
                \* plugin; "prompt"
    cwd, lastDir, pending, active, notified,   \* runner.Dir and the envManager's fields
    trusted,    \* envtrust.Store.entries, as this session has them in memory
    saving,     \* saving[s]: None, or the mutation whose persistLocked is under way
    env,        \* env[s][v]: the session's variables
    readonly,   \* readonly[s]: the variables its user has made readonly
    ops,
    allowed,    \* history variable: every record a user has allowed
    revoked,    \* history variable: every directory a user has revoked
    told,       \* history variable: told[s], the notices printed
    shared      \* history variable: the inodes last truncated while another session
                \* was saving

mgrvars == <<cwd, lastDir, pending, active, notified>>
evars == <<wants, disk, shell, mgrvars, trusted, saving, env, readonly, ops, allowed, revoked, told,
           shared>>

\* disk: data[i] is what inode i holds, Torn between truncation and write.
Fresh(d) == CHOOSE i \in Inode : i \notin {d.file, d.tmp} \cup
                {saving[s].fd : s \in {t \in Shell : saving[t] # None}}

Init ==
    /\ wants \in [Dir -> Hash \cup {None}]
    /\ disk \in {[file |-> 0, tmp |-> 0, data |-> [i \in Inode |-> {}]],
                 [file |-> 1, tmp |-> 0, data |-> [i \in Inode |-> IF i = 1 THEN Earlier ELSE {}]]}
    /\ shell = [s \in Shell |-> "off"]
    /\ cwd \in [Shell -> Dir]
    /\ lastDir = [s \in Shell |-> None]
    /\ pending = [s \in Shell |-> None]
    /\ active = [s \in Shell |-> None]
    /\ notified = [s \in Shell |-> None]
    /\ trusted = [s \in Shell |-> {}]
    /\ saving = [s \in Shell |-> None]
    /\ env = [s \in Shell |-> [v \in Var |-> "user"]]
    /\ readonly = [s \in Shell |-> {}]
    /\ ops = 0
    /\ allowed = IF disk.file = 0 THEN {} ELSE Earlier
    /\ revoked = {}
    /\ told = [s \in Shell |-> {}]
    /\ shared = {}

-----------------------------------------------------------------------------
\* envtrust.Open at interactive startup; a file that does not parse leaves the
\* session without a manager, so it never starts here.
Start(s) ==
    /\ shell[s] = "off"
    /\ disk.file # 0 => disk.data[disk.file] # Torn
    /\ trusted' = [trusted EXCEPT ![s] = IF disk.file = 0 THEN {} ELSE disk.data[disk.file]]
    /\ shell' = [shell EXCEPT ![s] = "line"]
    /\ UNCHANGED <<wants, disk, mgrvars, saving, env, readonly, ops, allowed, revoked,
                   told, shared>>

\* Reverting runs a script that puts every saved value back; a readonly variable
\* refuses its line and the rest of the script runs (revertLocked).
Reverted(s) ==
    IF active[s] = None THEN env[s]
    ELSE [v \in Var |-> IF v \in Touched[active[s].hash] \ readonly[s]
                        THEN active[s].saved[v] ELSE env[s][v]]

\* What applyLocked snapshots: the values with the live diff taken back first.
SnapshotOnTop(s) == env[s]
Snapshot(s) == Reverted(s)

\* applyLocked: one live diff at a time; the script's status is its last line's,
\* and when that one is refused nothing is recorded as live.
Apply(s, p) ==
    LET before == Snapshot(s)
    IN  /\ env' = [env EXCEPT ![s] =
                     [v \in Var |-> IF v \in Touched[p.hash] \ readonly[s]
                                    THEN p.hash ELSE before[v]]]
        /\ active' = [active EXCEPT ![s] =
                        IF LastSet[p.hash] \in readonly[s] THEN None
                        ELSE [rec |-> p, hash |-> p.hash, saved |-> before]]

\* The shell has left the subtree of its live diff (underDir).
Left(s) == active[s] # None /\ active[s].rec.dir \notin Under[cwd[s]]

\* The first half of atPrompt: revert outside the diff's subtree; a directory that
\* has not changed is not asked about again.
AtPrompt(s) ==
    /\ shell[s] = "line"
    /\ saving[s] = None
    /\ IF Left(s)
       THEN /\ env' = [env EXCEPT ![s] = Reverted(s)]
            /\ active' = [active EXCEPT ![s] = None]
       ELSE UNCHANGED <<env, active>>
    /\ IF cwd[s] = lastDir[s]
       THEN /\ shell' = [shell EXCEPT ![s] = "prompt"]
            /\ UNCHANGED <<lastDir, pending>>
       ELSE /\ shell' = [shell EXCEPT ![s] = "asking"]
            /\ lastDir' = [lastDir EXCEPT ![s] = cwd[s]]
            /\ pending' = [pending EXCEPT ![s] = None]
    /\ UNCHANGED <<wants, disk, cwd, notified, trusted, saving, readonly, ops, allowed,
                   revoked, told, shared>>

\* propose came back with nothing: no diff, a slow plugin, or one for elsewhere.
NoProposal(s) ==
    /\ shell[s] = "asking"
    /\ shell' = [shell EXCEPT ![s] = "prompt"]
    /\ UNCHANGED <<wants, disk, mgrvars, trusted, saving, env, readonly, ops, allowed,
                   revoked, told, shared>>

\* Trusted: this source, this directory and this very diff.
TrustedPair(s, p) == \E r \in trusted[s] : r.plugin = p.plugin /\ r.dir = p.dir
Trusted(s, p) == p \in trusted[s]

\* The key by which a notice is known to have been printed.
NoticeKeyDir(p) == <<p.dir>>
NoticeKey(p) == <<p.dir, p.hash>>

\* The diff of the proposal is live already.
Live(s, p) == active[s] # None /\ active[s].rec.dir = p.dir /\ active[s].hash = p.hash

\* The second half of atPrompt, under the lock again: a proposal for the directory
\* or one above it is live already, trusted and applied, or pending and announced.
Proposal(s) ==
    /\ shell[s] = "asking"
    /\ saving[s] = None
    /\ \E d \in Under[lastDir[s]] :
        /\ wants[d] # None
        /\ LET p == [plugin |-> "plugin", dir |-> d, hash |-> wants[d]]
           IN  \/ /\ Live(s, p)
                  /\ UNCHANGED <<env, active, pending, notified, told>>
               \/ /\ ~Live(s, p)
                  /\ Trusted(s, p)
                  /\ Apply(s, p)
                  /\ UNCHANGED <<pending, notified, told>>
               \/ /\ ~Live(s, p)
                  /\ ~Trusted(s, p)
                  /\ pending' = [pending EXCEPT ![s] = p]
                  /\ IF notified[s] # NoticeKey(p)
                     THEN /\ notified' = [notified EXCEPT ![s] = NoticeKey(p)]
                          /\ told' = [told EXCEPT ![s] = @ \cup {p}]
                     ELSE UNCHANGED <<notified, told>>
                  /\ UNCHANGED <<env, active>>
    /\ shell' = [shell EXCEPT ![s] = "prompt"]
    /\ UNCHANGED <<wants, disk, cwd, lastDir, trusted, saving, readonly, ops, allowed,
                   revoked, shared>>

-----------------------------------------------------------------------------
\* persistLocked: truncate the temporary file, write it, rename it.  All sessions
\* use the same temporary name.
SaveInodeInPlace == IF disk.file # 0 THEN disk.file ELSE Fresh(disk)
SaveInode == IF disk.tmp # 0 THEN disk.tmp ELSE Fresh(disk)

Truncate(s, rest) ==
    LET ino == SaveInode
    IN  /\ disk' = [disk EXCEPT !.tmp = ino, !.data[ino] = Torn]
        /\ saving' = [saving EXCEPT ![s] = [rest |-> rest, fd |-> ino]]
        /\ shared' = IF \E t \in Shell \ {s} : saving[t] # None
                     THEN shared \cup {ino} ELSE shared \ {ino}

Write(s) ==
    /\ saving[s] # None /\ saving[s].fd # 0
    /\ disk' = [disk EXCEPT !.data[saving[s].fd] = trusted[s]]
    /\ saving' = [saving EXCEPT ![s].fd = 0]
    /\ UNCHANGED <<wants, shell, mgrvars, trusted, env, readonly, ops, allowed, revoked,
                   told, shared>>

\* The rename, and what the caller does when it succeeds: allowPending applies the
\* diff and clears the proposal, revokeDir reverts a live diff of that directory and
\* forgets the notice.  When another session has renamed the file away the rename
\* fails, and the caller returns at once.
Rename(s) ==
    /\ saving[s] # None /\ saving[s].fd = 0
    /\ LET rest == saving[s].rest
       IN  IF disk.tmp = 0
           THEN UNCHANGED <<disk, pending, active, notified, env>>
           ELSE /\ disk' = [disk EXCEPT !.file = disk.tmp, !.tmp = 0]
                /\ \/ /\ rest.op = "allow"
                      /\ Apply(s, rest.p)
                      /\ pending' = [pending EXCEPT ![s] = None]
                      /\ UNCHANGED notified
                   \/ /\ rest.op = "revoke"
                      /\ notified' = [notified EXCEPT ![s] = None]
                      /\ IF active[s] # None /\ active[s].rec.dir = rest.dir
                         THEN /\ env' = [env EXCEPT ![s] = Reverted(s)]
                              /\ active' = [active EXCEPT ![s] = None]
                         ELSE UNCHANGED <<env, active>>
                      /\ UNCHANGED pending
    /\ saving' = [saving EXCEPT ![s] = None]
    /\ UNCHANGED <<wants, shell, cwd, lastDir, trusted, readonly, ops, allowed, revoked,
                   told, shared>>

\* `trust` as a command of the line, or as a background job of an earlier one while
\* the prompt asks the plugin: both need the manager's lock.
MayTrust(s) == shell[s] \in {"line", "asking"} /\ saving[s] = None /\ ops < MaxOps

\* trust allow.
AllowPending(s) ==
    /\ MayTrust(s)
    /\ pending[s] # None
    /\ trusted' = [trusted EXCEPT ![s] =
                     {r \in @ : ~(r.plugin = pending[s].plugin /\ r.dir = pending[s].dir)}
                     \cup {pending[s]}]
    /\ allowed' = allowed \cup {pending[s]}
    /\ Truncate(s, [op |-> "allow", p |-> pending[s]])
    /\ ops' = ops + 1
    /\ UNCHANGED <<wants, shell, mgrvars, env, readonly, revoked, told>>

\* trust revoke d: with a record to remove the list is persisted first, without one
\* only a live diff of the directory is reverted.
RevokeDir(s, d) ==
    /\ MayTrust(s)
    /\ trusted' = [trusted EXCEPT ![s] = {r \in @ : r.dir # d}]
    /\ IF trusted'[s] # trusted[s]
       THEN /\ Truncate(s, [op |-> "revoke", dir |-> d])
            /\ UNCHANGED <<env, active, notified>>
       ELSE /\ notified' = [notified EXCEPT ![s] = None]
            /\ IF active[s] # None /\ active[s].rec.dir = d
               THEN /\ env' = [env EXCEPT ![s] = Reverted(s)]
                    /\ active' = [active EXCEPT ![s] = None]
               ELSE UNCHANGED <<env, active>>
            /\ UNCHANGED <<disk, saving, shared>>
    /\ revoked' = revoked \cup {d}
    /\ ops' = ops + 1
    /\ UNCHANGED <<wants, shell, cwd, lastDir, pending, readonly, allowed, told>>

\* pendRestored, from `koi --restore` before the first prompt or from `sessions
\* restore`; both leave the shell in the recorded directory.
Restore(s, d, h) ==
    /\ shell[s] = "line" /\ saving[s] = None /\ ops < MaxOps
    /\ pending' = [pending EXCEPT ![s] = [plugin |-> "session-restore", dir |-> d, hash |-> h]]
    /\ notified' = [notified EXCEPT ![s] = None]
    /\ cwd' = [cwd EXCEPT ![s] = d]
    /\ ops' = ops + 1
    /\ UNCHANGED <<wants, disk, shell, lastDir, active, trusted, saving, env, readonly,
                   allowed, revoked, told, shared>>

\* The rest of what a line does: nothing, cd, or readonly.
Line(s) ==
    /\ shell[s] = "prompt"
    /\ shell' = [shell EXCEPT ![s] = "line"]
    /\ UNCHANGED <<wants, disk, mgrvars, trusted, saving, env, readonly, ops, allowed,
                   revoked, told, shared>>

Cd(s, d) ==
    /\ shell[s] = "line" /\ ops < MaxOps /\ d # cwd[s]
    /\ cwd' = [cwd EXCEPT ![s] = d]
    /\ ops' = ops + 1
    /\ UNCHANGED <<wants, disk, shell, lastDir, pending, active, notified, trusted, saving, env,
                   readonly, allowed, revoked, told, shared>>

MakeReadonly(s, v) ==
    /\ shell[s] = "line" /\ saving[s] = None /\ ops < MaxOps /\ v \notin readonly[s]
    /\ readonly' = [readonly EXCEPT ![s] = @ \cup {v}]
    /\ ops' = ops + 1
    /\ UNCHANGED <<wants, disk, shell, mgrvars, trusted, saving, env, allowed, revoked,
                   told, shared>>

\* Somebody edits the file the plugin derives its diff from.
Edit(d, h) ==
    /\ ops < MaxOps /\ wants[d] # h
    /\ wants' = [wants EXCEPT ![d] = h]
    /\ ops' = ops + 1
    /\ UNCHANGED <<disk, shell, mgrvars, trusted, saving, env, readonly, allowed,
                   revoked, told, shared>>

\* A session is killed at any point, its temporary file left as it is.
Kill(s) ==
    /\ shell[s] \notin {"off", "dead"}
    /\ shell' = [shell EXCEPT ![s] = "dead"]
    /\ saving' = [saving EXCEPT ![s] = None]
    /\ UNCHANGED <<wants, disk, mgrvars, trusted, env, readonly, ops, allowed, revoked,
                   told, shared>>

Next ==
    \/ \E s \in Shell :
        \/ Start(s) \/ AtPrompt(s) \/ NoProposal(s) \/ Proposal(s)
        \/ Write(s) \/ Rename(s) \/ Line(s) \/ Kill(s)
        \/ AllowPending(s)
        \/ \E d \in Dir : RevokeDir(s, d) \/ Cd(s, d) \/ \E h \in Hash : Restore(s, d, h)
        \/ \E v \in Var : MakeReadonly(s, v)
    \/ \E d \in Dir, h \in Hash \cup {None} : Edit(d, h)

Spec == Init /\ [][Next]_evars

-----------------------------------------------------------------------------
\* Type correctness of the manager and of the allow list.
TypeOK ==
    /\ wants \in [Dir -> Hash \cup {None}]
    /\ disk \in [file: Inode \cup {0}, tmp: Inode \cup {0},
                 data: [Inode -> {Torn} \cup SUBSET Record]]
    /\ shell \in [Shell -> {"off", "line", "asking", "prompt", "dead"}]
    /\ cwd \in [Shell -> Dir] /\ lastDir \in [Shell -> Dir \cup {None}]
    /\ pending \in [Shell -> Record \cup {None}]
    /\ active \in [Shell -> Diff \cup {None}]
    /\ trusted \in [Shell -> SUBSET Record]
    /\ saving \in [Shell -> Save \cup {None}]
    /\ env \in [Shell -> [Var -> Hash \cup {"user"}]]
    /\ readonly \in [Shell -> SUBSET Var]
    /\ allowed \subseteq Record /\ told \in [Shell -> SUBSET Record] /\ shared \subseteq Inode

\* Nothing applies silently: a diff is live only when a user allowed this source,
\* this directory and this very diff, in this session or an earlier one, however the
\* sessions' saves overlap (atPrompt, Allow, Trusted, persistLocked).
OnlyAllowedIsLive == \A s \in Shell : active[s] # None => active[s].rec \in allowed

\* At the prompt no diff is live whose directory the session has left (atPrompt).
LiveOnlyInItsSubtree ==
    \A s \in Shell :
        shell[s] = "prompt" /\ active[s] # None => active[s].rec.dir \in Under[cwd[s]]

\* What is live was allowed, and the session stands where it was allowed.
LiveIsAllowedHere == TypeOK /\ OnlyAllowedIsLive /\ LiveOnlyInItsSubtree

\* When no diff is live the session has its own values back, whatever was applied on
\* top of what, as long as its user made none of the variables readonly
\* (applyLocked, revertLocked).
OwnValuesBack ==
    \A s \in Shell :
        readonly[s] = {} /\ active[s] = None => \A v \in Var : env[s][v] = "user"

\* A plugin's diff that waits for an answer was announced in this session, and a
\* changed diff again (atPrompt's notice key).
PendingWasAnnounced ==
    \A s \in Shell :
        pending[s] # None /\ pending[s].plugin = "plugin"
            => pending[s] \in told[s]

\* However many sessions have crashed in the middle of a save, each over the temporary
\* file the last one left, what a new session reads is a whole list, unless the inode it
\* is in was last truncated while another session was saving: all of them use the same
\* temporary name (persistLocked).
ListIsWhole == disk.file \notin shared \cup {0} => disk.data[disk.file] # Torn

\* "A crash mid-write must not corrupt trust" (envtrust.go:144).  Violated: a session
\* renames what another has just truncated.
CrashKeepsList == disk.file # 0 => disk.data[disk.file] # Torn

\* "Trust must survive the session" (envtrust.go:48): what a session allowed and
\* saved, and nobody revoked or replaced, is what the next session reads.
AllowSurvives ==
    \A s \in Shell :
        (shell[s] = "prompt" /\ saving[s] = None /\ disk.file # 0)
            => \A r \in trusted[s] :
                  r.dir \notin revoked /\ (\A a \in allowed : a.dir = r.dir => a = r)
                      => r \in disk.data[disk.file]

\* A restored environment "is offered through the same trust flow" (envdiff.go:401):
\* once the prompt is up in the recorded directory it is still there to allow.
RestoredIsOffered ==
    [][\A s \in Shell :
        (pending[s] # None /\ pending[s].plugin = "session-restore" /\ shell'[s] = "asking"
         /\ cwd[s] = pending[s].dir) => pending'[s] = pending[s]]_evars
=============================================================================
