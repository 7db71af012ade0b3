-------------------------- MODULE EnvTrust_proofs --------------------------
(***************************************************************************)
(* Proofs about EnvTrust, for any finite number of sessions, any           *)
(* directories, diffs and variables, and without a bound on what users do: *)
(*                                                                         *)
(*   LiveIsAllowedHere    what is live was allowed, and stands in its tree *)
(*   OwnValuesBack        reverting gives a session its own values back    *)
(*   PendingWasAnnounced  a diff that waits for an answer was announced    *)
(*   ListIsWhole          crashes in saves leave a whole allow list        *)
(*                                                                         *)
(* Each has an invariant of its own beside the types: AllowedOnly, Where,  *)
(* Values, Announced and Whole.  The types need AsksHere.                  *)
(***************************************************************************)
EXTENDS EnvTrust, FiniteSetTheorems, TLAPS

\* Every copy of an allow list holds only what a user allowed: in a session's
\* memory, in an inode, and in the save whose diff is applied after the rename.
AllowedOnly ==
  /\ OnlyAllowedIsLive
  /\ \A s \in Shell : trusted[s] \subseteq allowed
  /\ \A i \in Inode : disk.data[i] = Torn \/ disk.data[i] \subseteq allowed
  /\ \A s \in Shell :
        saving[s] # None /\ saving[s].rest.op = "allow" => saving[s].rest.p \in allowed

\* While the plugin is asked the session stands where it was asked.
AsksHere == \A s \in Shell : shell[s] = "asking" => lastDir[s] = cwd[s]

\* While it is asked nothing is pending, and no `trust allow' is being saved: one only
\* ends, and applies its diff, on the line.
Where ==
  \A s \in Shell :
     /\ shell[s] \in {"asking", "prompt"} /\ active[s] # None
           => active[s].rec.dir \in Under[cwd[s]]
     /\ shell[s] = "asking" => pending[s] = None
     /\ saving[s] # None /\ saving[s].rest.op = "allow" => shell[s] = "line"

\* What a live diff hides are the user's values, and what it does not set is there.
Values ==
  \A s \in Shell :
     readonly[s] = {} =>
        IF active[s] = None THEN \A v \in Var : env[s][v] = "user"
        ELSE /\ \A v \in Var : active[s].saved[v] = "user"
             /\ \A v \in Var \ Touched[active[s].hash] : env[s][v] = "user"

\* The key of the last notice names a diff that was announced.
Announced ==
  /\ PendingWasAnnounced
  /\ notified \in [Shell -> (Dir \X Hash) \cup {None}]
  /\ \A s \in Shell, d \in Dir, h \in Hash :
        notified[s] = <<d, h>> => [plugin |-> "plugin", dir |-> d, hash |-> h] \in told[s]

\* A save that no other overlaps goes into a temporary file that is not the list
\* itself, and is whole before it is renamed.
Whole ==
  /\ ListIsWhole
  /\ disk.tmp # 0 => disk.tmp # disk.file
  /\ disk.tmp \notin shared \cup {0} =>
       /\ \A s, t \in Shell : saving[s] # None /\ saving[t] # None => s = t
       /\ \A s \in Shell :
             saving[s] # None =>
               /\ saving[s].fd # 0 => saving[s].fd = disk.tmp
               /\ saving[s].fd = 0 => disk.data[disk.tmp] # Torn
-----------------------------------------------------------------------------
(* Types                                                                   *)

\* There are more inodes than can be in use: the file's and one for each session's
\* open descriptor.
LEMMA FreshInode ==
  ASSUME TypeOK, disk.tmp = 0, NEW s \in Shell, saving[s] = None
  PROVE  Fresh(disk) \in Inode /\ Fresh(disk) # disk.file
<1> DEFINE Saver == {t \in Shell : saving[t] # None}
           fd == [t \in Saver |-> saving[t].fd]
           Fds == {saving[t].fd : t \in Saver}
           Used == {disk.file, disk.tmp} \cup Fds
           N == Cardinality(Shell)
<1>1. IsFiniteSet(Shell) /\ N \in Nat
  BY EnvAssumption, FS_CardinalityType
<1>2. IsFiniteSet(Saver) /\ Cardinality(Saver) \in Nat /\ Cardinality(Saver) <= N
  BY <1>1, FS_Subset, FS_CardinalityType
<1>3. fd \in Surjection(Saver, Fds)
  BY DEF Surjection
<1>4. IsFiniteSet(Fds) /\ Cardinality(Fds) <= Cardinality(Saver)
  BY <1>2, <1>3, FS_Surjection
<1>5. Cardinality(Fds) \in Nat
  BY <1>4, FS_CardinalityType
<1>6. IsFiniteSet(Fds \cup {disk.file})
      /\ Cardinality(Fds \cup {disk.file}) <= N + 1
  <2> HIDE DEF Fds, Saver, N
  <2>1. /\ IsFiniteSet(Fds \cup {disk.file})
        /\ Cardinality(Fds \cup {disk.file}) \in {Cardinality(Fds), Cardinality(Fds) + 1}
    BY <1>4, FS_AddElement
  <2> QED BY <1>1, <1>2, <1>4, <1>5, <2>1
<1>7. IsFiniteSet(Inode) /\ Cardinality(Inode) = N + 2
  <2>1. Inode = 1..(N + 2)
    BY DEF Inode
  <2> HIDE DEF N
  <2> QED BY <1>1, <2>1, FS_Interval
<1>8. ~(Inode \subseteq Fds \cup {disk.file})
  <2> SUFFICES ASSUME Inode \subseteq Fds \cup {disk.file} PROVE FALSE
    OBVIOUS
  <2>1. Cardinality(Inode) <= Cardinality(Fds \cup {disk.file})
        /\ Cardinality(Fds \cup {disk.file}) \in Nat
    BY <1>6, FS_Subset, FS_CardinalityType
  <2> QED BY <2>1, <1>1, <1>6, <1>7
<1>9. \A i \in Inode : i # 0
  BY <1>1 DEF Inode
<1>10. \E i \in Inode : i \notin {disk.file, disk.tmp} \cup Fds
  BY <1>8, <1>9
<1>11. Fresh(disk) \in Inode /\ Fresh(disk) \notin {disk.file, disk.tmp} \cup Fds
  BY <1>10 DEF Fresh
<1> QED BY <1>11

\* The inode a save truncates is none but the temporary file's or a new one.
LEMMA SaveInodeTyped ==
  ASSUME TypeOK, NEW s \in Shell, saving[s] = None
  PROVE  /\ SaveInode \in Inode
         /\ disk.tmp # 0 => SaveInode = disk.tmp
         /\ disk.tmp = 0 => SaveInode # disk.file
<1>1. CASE disk.tmp = 0
  BY <1>1, FreshInode DEF SaveInode
<1>2. CASE disk.tmp # 0
  BY <1>2 DEF SaveInode, TypeOK
<1> QED BY <1>1, <1>2

\* Inode 0 is no inode.
LEMMA ZeroIsNone == 0 \notin Inode
<1>1. Cardinality(Shell) \in Nat
  BY EnvAssumption, FS_CardinalityType
<1> QED BY <1>1 DEF Inode

\* Reverting yields values of the right type.
LEMMA RevertedTyped ==
  ASSUME TypeOK, NEW s \in Shell
  PROVE  Reverted(s) \in [Var -> Hash \cup {"user"}]
<1>1. env[s] \in [Var -> Hash \cup {"user"}]
  BY DEF TypeOK
<1>2. CASE active[s] = None
  BY <1>1, <1>2 DEF Reverted
<1>3. CASE active[s] # None
  <2>1. active[s].saved \in [Var -> Hash \cup {"user"}]
    BY <1>3 DEF TypeOK, Diff
  <2> QED BY <1>1, <1>3, <2>1 DEF Reverted
<1> QED BY <1>2, <1>3

\* Applying a diff keeps the types of what it assigns.
LEMMA ApplyTyped ==
  ASSUME TypeOK, NEW s \in Shell, NEW p \in Record, Apply(s, p)
  PROVE  /\ env' \in [Shell -> [Var -> Hash \cup {"user"}]]
         /\ active' \in [Shell -> Diff \cup {None}]
<1>1. Snapshot(s) \in [Var -> Hash \cup {"user"}]
  BY RevertedTyped DEF Snapshot
<1>2. p.hash \in Hash
  BY DEF Record
<1>3. [rec |-> p, hash |-> p.hash, saved |-> Snapshot(s)] \in Diff
  BY <1>1, <1>2 DEF Diff
<1>4. [v \in Var |-> IF v \in Touched[p.hash] \ readonly[s] THEN p.hash ELSE Snapshot(s)[v]]
         \in [Var -> Hash \cup {"user"}]
  BY <1>1, <1>2
<1> QED BY <1>3, <1>4 DEF Apply, TypeOK

\* Reverting on the spot keeps them too.
LEMMA RevertTyped ==
  ASSUME TypeOK, NEW s \in Shell,
         env' = [env EXCEPT ![s] = Reverted(s)], active' = [active EXCEPT ![s] = None]
  PROVE  /\ env' \in [Shell -> [Var -> Hash \cup {"user"}]]
         /\ active' \in [Shell -> Diff \cup {None}]
BY RevertedTyped DEF TypeOK

\* Truncating the temporary file keeps the types of the disk and of the save.
LEMMA TruncateTyped ==
  ASSUME TypeOK, NEW s \in Shell, saving[s] = None,
         NEW rest \in [op: {"allow"}, p: Record] \cup [op: {"revoke"}, dir: Dir],
         Truncate(s, rest)
  PROVE  /\ disk' \in [file: Inode \cup {0}, tmp: Inode \cup {0},
                       data: [Inode -> {Torn} \cup SUBSET Record]]
         /\ saving' \in [Shell -> Save \cup {None}]
         /\ shared' \subseteq Inode
<1>1. SaveInode \in Inode
  BY SaveInodeTyped
<1>2. [rest |-> rest, fd |-> SaveInode] \in Save
  BY <1>1 DEF Save
<1>3. saving' \in [Shell -> Save \cup {None}]
  BY <1>2 DEF Truncate, TypeOK
<1>4. disk' = [disk EXCEPT !.tmp = SaveInode, !.data[SaveInode] = Torn]
  BY DEF Truncate
<1>5. disk' \in [file: Inode \cup {0}, tmp: Inode \cup {0},
                 data: [Inode -> {Torn} \cup SUBSET Record]]
  BY <1>1, <1>4 DEF TypeOK
<1>6. shared' \subseteq Inode
  BY <1>1 DEF Truncate, TypeOK
<1> QED BY <1>3, <1>5, <1>6

LEMMA TypeInit == Init => TypeOK /\ AsksHere
<1> SUFFICES ASSUME Init PROVE TypeOK /\ AsksHere
  OBVIOUS
<1>1. 1 \in Inode /\ IsFiniteSet(Shell)
  BY EnvAssumption, FS_CardinalityType DEF Inode
<1>2. disk \in [file: Inode \cup {0}, tmp: Inode \cup {0},
               data: [Inode -> {Torn} \cup SUBSET Record]]
  <2>1. Earlier \in SUBSET Record
    BY EnvAssumption
  <2>2. CASE disk = [file |-> 0, tmp |-> 0, data |-> [i \in Inode |-> {}]]
    BY <2>2
  <2>3. CASE disk = [file |-> 1, tmp |-> 0,
                     data |-> [i \in Inode |-> IF i = 1 THEN Earlier ELSE {}]]
    BY <1>1, <2>1, <2>3
  <2> QED
    BY <2>2, <2>3 DEF Init
<1>3. allowed \subseteq Record
  BY EnvAssumption DEF Init
<1> QED BY <1>2, <1>3 DEF Init, TypeOK, AsksHere

\* What a proposal step does: the diff p of a directory above the session's is live
\* already, applied because it is trusted, or pending and announced.
LEMMA ProposalCases ==
  ASSUME TypeOK, AsksHere, NEW s \in Shell, Proposal(s)
  PROVE  \E p \in Record :
           /\ p.plugin = "plugin" /\ p.dir \in Under[cwd[s]]
           /\ \/ UNCHANGED <<env, active, pending, notified, told>>
              \/ /\ p \in trusted[s]
                 /\ Apply(s, p)
                 /\ UNCHANGED <<pending, notified, told>>
              \/ /\ pending' = [pending EXCEPT ![s] = p]
                 /\ IF notified[s] # NoticeKey(p)
                    THEN /\ notified' = [notified EXCEPT ![s] = NoticeKey(p)]
                         /\ told' = [told EXCEPT ![s] = @ \cup {p}]
                    ELSE UNCHANGED <<notified, told>>
                 /\ UNCHANGED <<env, active>>
<1>1. cwd[s] = lastDir[s] /\ Under[cwd[s]] \subseteq Dir
  BY EnvAssumption DEF AsksHere, Proposal, TypeOK
<1>2. PICK d \in Under[lastDir[s]] :
         /\ wants[d] # None
         /\ LET p == [plugin |-> "plugin", dir |-> d, hash |-> wants[d]]
            IN  \/ UNCHANGED <<env, active, pending, notified, told>>
                \/ /\ p \in trusted[s]
                   /\ Apply(s, p)
                   /\ UNCHANGED <<pending, notified, told>>
                \/ /\ pending' = [pending EXCEPT ![s] = p]
                   /\ IF notified[s] # NoticeKey(p)
                      THEN /\ notified' = [notified EXCEPT ![s] = NoticeKey(p)]
                           /\ told' = [told EXCEPT ![s] = @ \cup {p}]
                      ELSE UNCHANGED <<notified, told>>
                   /\ UNCHANGED <<env, active>>
  BY DEF Proposal, Trusted
<1>3. [plugin |-> "plugin", dir |-> d, hash |-> wants[d]] \in Record
  BY <1>1, <1>2 DEF TypeOK, Record, Source
<1> QED BY <1>1, <1>2, <1>3

LEMMA AsksStep == TypeOK /\ AsksHere /\ [Next]_evars => AsksHere'
<1> SUFFICES ASSUME TypeOK, AsksHere, [Next]_evars PROVE AsksHere'
  OBVIOUS
<1>1. ASSUME NEW s \in Shell, AtPrompt(s) PROVE AsksHere'
  BY <1>1 DEF AsksHere, TypeOK, AtPrompt
<1>2. ASSUME NEW s \in Shell,
             \/ Start(s) \/ NoProposal(s) \/ Proposal(s) \/ Line(s) \/ Kill(s)
      PROVE  AsksHere'
  <2>1. \E p \in {"line", "prompt", "dead"} : shell' = [shell EXCEPT ![s] = p]
    BY <1>2 DEF Start, NoProposal, Proposal, Line, Kill
  <2>2. UNCHANGED <<cwd, lastDir>>
    BY <1>2 DEF Start, NoProposal, Proposal, Line, Kill, mgrvars
  <2> QED BY <2>1, <2>2 DEF AsksHere, TypeOK
<1>3. ASSUME NEW s \in Shell,
             \/ Write(s) \/ Rename(s) \/ AllowPending(s)
             \/ \E d \in Dir : RevokeDir(s, d)
             \/ \E v \in Var : MakeReadonly(s, v)
      PROVE  AsksHere'
  <2>1. UNCHANGED <<shell, cwd, lastDir>>
    BY <1>3 DEF Write, Rename, AllowPending, RevokeDir, MakeReadonly, mgrvars
  <2> QED BY <2>1 DEF AsksHere
<1>4. ASSUME NEW s \in Shell, NEW d \in Dir, Cd(s, d) \/ \E h \in Hash : Restore(s, d, h)
      PROVE  AsksHere'
  BY <1>4 DEF AsksHere, TypeOK, Cd, Restore
<1>5. ASSUME NEW d \in Dir, NEW h \in Hash \cup {None}, Edit(d, h) PROVE AsksHere'
  BY <1>5 DEF AsksHere, Edit, mgrvars
<1>6. CASE UNCHANGED evars
  BY <1>6 DEF AsksHere, evars, mgrvars
<1> QED BY <1>1, <1>2, <1>3, <1>4, <1>5, <1>6 DEF Next

LEMMA TypeStep == TypeOK /\ AsksHere /\ [Next]_evars => TypeOK'
<1> SUFFICES ASSUME TypeOK, AsksHere, [Next]_evars PROVE TypeOK'
  OBVIOUS
<1> USE DEF TypeOK
<1>1. ASSUME NEW s \in Shell, Start(s) PROVE TypeOK'
  <2>1. disk.file # 0 => disk.data[disk.file] \in SUBSET Record
    BY <1>1 DEF Start
  <2> QED BY <1>1, <2>1 DEF Start, mgrvars
<1>2. ASSUME NEW s \in Shell, AtPrompt(s) PROVE TypeOK'
  <2>1. /\ env' \in [Shell -> [Var -> Hash \cup {"user"}]]
        /\ active' \in [Shell -> Diff \cup {None}]
    BY <1>2, RevertTyped DEF AtPrompt
  <2>2. shell' \in [Shell -> {"off", "line", "asking", "prompt", "dead"}]
    <3>1. \E q \in {"asking", "prompt"} : shell' = [shell EXCEPT ![s] = q]
      BY <1>2 DEF AtPrompt
    <3> QED BY <3>1
  <2>3. lastDir' \in [Shell -> Dir \cup {None}]
    BY <1>2 DEF AtPrompt
  <2>4. pending' \in [Shell -> Record \cup {None}]
    BY <1>2 DEF AtPrompt
  <2> QED BY <1>2, <2>1, <2>2, <2>3, <2>4 DEF AtPrompt
<1>3. ASSUME NEW s \in Shell, NoProposal(s) PROVE TypeOK'
  BY <1>3 DEF NoProposal, mgrvars
<1>4. ASSUME NEW s \in Shell, Proposal(s) PROVE TypeOK'
  <2> PICK p \in Record :
         \/ UNCHANGED <<env, active, pending, told>>
         \/ Apply(s, p) /\ UNCHANGED <<pending, told>>
         \/ /\ pending' = [pending EXCEPT ![s] = p]
            /\ told' = [told EXCEPT ![s] = @ \cup {p}] \/ UNCHANGED told
            /\ UNCHANGED <<env, active>>
    BY <1>4, ProposalCases
  <2>1. /\ env' \in [Shell -> [Var -> Hash \cup {"user"}]]
        /\ active' \in [Shell -> Diff \cup {None}]
    BY ApplyTyped
  <2>2. pending' \in [Shell -> Record \cup {None}]
    OBVIOUS
  <2>3. told' \in [Shell -> SUBSET Record]
    OBVIOUS
  <2>4. UNCHANGED <<wants, disk, cwd, lastDir, trusted, saving, readonly, allowed>>
        /\ shell' = [shell EXCEPT ![s] = "prompt"]
    BY <1>4 DEF Proposal
  <2>5. UNCHANGED shared
    BY <1>4 DEF Proposal
  <2> QED BY <2>1, <2>2, <2>3, <2>4, <2>5
<1>5. ASSUME NEW s \in Shell, Write(s) PROVE TypeOK'
  <2>1. saving[s] \in Save
    BY <1>5 DEF Write
  <2>2. [saving[s] EXCEPT !.fd = 0] \in Save /\ saving[s].fd \in Inode
    BY <1>5, <2>1 DEF Save, Write
  <2>3. saving' \in [Shell -> Save \cup {None}]
    BY <1>5, <2>2 DEF Write
  <2> QED BY <1>5, <2>2, <2>3 DEF Write, mgrvars
<1>6. ASSUME NEW s \in Shell, Rename(s) PROVE TypeOK'
  <2>1. saving[s] \in Save /\ UNCHANGED <<wants, shell, cwd, lastDir, trusted, readonly, allowed, told,
                                          shared>>
        /\ saving' = [saving EXCEPT ![s] = None]
    BY <1>6 DEF Rename
  <2>2. disk' \in [file: Inode \cup {0}, tmp: Inode \cup {0},
                   data: [Inode -> {Torn} \cup SUBSET Record]]
    BY <1>6 DEF Rename
  <2>3. pending' \in [Shell -> Record \cup {None}]
    BY <1>6 DEF Rename
  <2>4. /\ env' \in [Shell -> [Var -> Hash \cup {"user"}]]
        /\ active' \in [Shell -> Diff \cup {None}]
    <3>1. CASE Apply(s, saving[s].rest.p) /\ saving[s].rest.op = "allow"
      BY <2>1, <3>1, ApplyTyped DEF Save
    <3>2. CASE UNCHANGED <<env, active>>
      BY <3>2
    <3>3. CASE env' = [env EXCEPT ![s] = Reverted(s)] /\ active' = [active EXCEPT ![s] = None]
      BY <3>3, RevertTyped
    <3> QED BY <1>6, <3>1, <3>2, <3>3 DEF Rename
  <2> QED BY <2>1, <2>2, <2>3, <2>4
<1>7. ASSUME NEW s \in Shell, Line(s) PROVE TypeOK'
  BY <1>7 DEF Line, mgrvars
<1>8. ASSUME NEW s \in Shell, Kill(s) PROVE TypeOK'
  BY <1>8 DEF Kill, mgrvars
<1>9. ASSUME NEW s \in Shell, AllowPending(s) PROVE TypeOK'
  <2>1. pending[s] \in Record
    BY <1>9 DEF AllowPending
  <2>2. /\ disk' \in [file: Inode \cup {0}, tmp: Inode \cup {0},
                      data: [Inode -> {Torn} \cup SUBSET Record]]
        /\ saving' \in [Shell -> Save \cup {None}]
        /\ shared' \subseteq Inode
    <3>1. [op |-> "allow", p |-> pending[s]] \in [op: {"allow"}, p: Record]
      BY <2>1
    <3> QED BY <1>9, <3>1, TruncateTyped DEF AllowPending, MayTrust
  <2>3. trusted' \in [Shell -> SUBSET Record] /\ allowed' \subseteq Record
    BY <1>9, <2>1 DEF AllowPending
  <2> QED BY <1>9, <2>2, <2>3 DEF AllowPending, mgrvars
<1>10. ASSUME NEW s \in Shell, NEW d \in Dir, RevokeDir(s, d) PROVE TypeOK'
  <2>1. /\ disk' \in [file: Inode \cup {0}, tmp: Inode \cup {0},
                      data: [Inode -> {Torn} \cup SUBSET Record]]
        /\ saving' \in [Shell -> Save \cup {None}]
        /\ shared' \subseteq Inode
    <3>1. [op |-> "revoke", dir |-> d] \in [op: {"revoke"}, dir: Dir]
      OBVIOUS
    <3>2. CASE Truncate(s, [op |-> "revoke", dir |-> d])
      BY <1>10, <3>1, <3>2, TruncateTyped DEF RevokeDir, MayTrust
    <3>3. CASE UNCHANGED <<disk, saving, shared>>
      BY <3>3
    <3> QED BY <1>10, <3>2, <3>3 DEF RevokeDir
  <2>2. trusted' \in [Shell -> SUBSET Record]
    BY <1>10 DEF RevokeDir
  <2>3. /\ env' \in [Shell -> [Var -> Hash \cup {"user"}]]
        /\ active' \in [Shell -> Diff \cup {None}]
    BY <1>10, RevertTyped DEF RevokeDir
  <2> QED BY <1>10, <2>1, <2>2, <2>3 DEF RevokeDir
<1>11. ASSUME NEW s \in Shell, NEW d \in Dir, Cd(s, d) PROVE TypeOK'
  BY <1>11 DEF Cd
<1>12. ASSUME NEW s \in Shell, NEW d \in Dir, NEW h \in Hash, Restore(s, d, h) PROVE TypeOK'
  <2>1. [plugin |-> "session-restore", dir |-> d, hash |-> h] \in Record
    BY DEF Record, Source
  <2> QED BY <1>12, <2>1 DEF Restore
<1>13. ASSUME NEW s \in Shell, NEW v \in Var, MakeReadonly(s, v) PROVE TypeOK'
  BY <1>13 DEF MakeReadonly, mgrvars
<1>14. ASSUME NEW d \in Dir, NEW h \in Hash \cup {None}, Edit(d, h) PROVE TypeOK'
  BY <1>14 DEF Edit, mgrvars
<1>15. CASE UNCHANGED evars
  BY <1>15 DEF evars, mgrvars
<1> QED
  BY <1>1, <1>2, <1>3, <1>4, <1>5, <1>6, <1>7, <1>8, <1>9, <1>10, <1>11, <1>12, <1>13,
     <1>14, <1>15 DEF Next

\* Every variable of the manager and of the allow list keeps its type.
THEOREM TypesKept == Spec => [](TypeOK /\ AsksHere)
BY TypeInit, AsksStep, TypeStep, PTL DEF Spec
-----------------------------------------------------------------------------
(* What was allowed, and where it is live                                  *)

\* What applying does to the live diffs: the session's own becomes p, or none.
LEMMA ApplyMakesLive ==
  ASSUME TypeOK, NEW s \in Shell, NEW p, Apply(s, p)
  PROVE  /\ \A t \in Shell : t # s => active'[t] = active[t]
         /\ active'[s] # None => active'[s].rec = p
BY DEF Apply, TypeOK

LEMMA AllowedInit == Init => AllowedOnly
<1> SUFFICES ASSUME Init PROVE AllowedOnly
  OBVIOUS
<1>1. \A i \in Inode : disk.data[i] \subseteq allowed
  BY DEF Init
<1> QED BY <1>1 DEF Init, AllowedOnly, OnlyAllowedIsLive

LEMMA AllowedStep == TypeOK /\ AsksHere /\ AllowedOnly /\ [Next]_evars => AllowedOnly'
<1> SUFFICES ASSUME TypeOK, AsksHere, AllowedOnly, [Next]_evars PROVE AllowedOnly'
  OBVIOUS
<1> USE DEF AllowedOnly, OnlyAllowedIsLive
<1>1. ASSUME NEW s \in Shell, Start(s) PROVE AllowedOnly'
  <2>1. trusted'[s] \subseteq allowed
    BY <1>1 DEF Start, TypeOK
  <2>2. \A t \in Shell : trusted'[t] \subseteq allowed
    BY <1>1, <2>1 DEF Start, TypeOK
  <2> QED BY <1>1, <2>2 DEF Start, mgrvars
<1>2. ASSUME NEW s \in Shell, AtPrompt(s) PROVE AllowedOnly'
  BY <1>2 DEF AtPrompt, TypeOK
<1>3. ASSUME NEW s \in Shell, NoProposal(s) PROVE AllowedOnly'
  BY <1>3 DEF NoProposal, mgrvars
<1>4. ASSUME NEW s \in Shell, Proposal(s) PROVE AllowedOnly'
  <2>1. OnlyAllowedIsLive'
    <3>1. UNCHANGED allowed
      BY <1>4 DEF Proposal
    <3>2. PICK p \in Record : UNCHANGED active \/ (p \in trusted[s] /\ Apply(s, p))
      BY <1>4, ProposalCases
    <3> QED BY <3>1, <3>2, ApplyMakesLive
  <2> QED BY <1>4, <2>1 DEF Proposal
<1>5. ASSUME NEW s \in Shell, Write(s) PROVE AllowedOnly'
  <2>1. \A i \in Inode : disk'.data[i] \in {disk.data[i], trusted[s]}
    BY <1>5 DEF Write, TypeOK
  <2>2. \A t \in Shell : saving'[t] # None => saving[t] # None /\ saving'[t].rest = saving[t].rest
    BY <1>5 DEF Write, TypeOK, Save
  <2> QED BY <1>5, <2>1, <2>2 DEF Write, mgrvars
<1>6. ASSUME NEW s \in Shell, Rename(s) PROVE AllowedOnly'
  <2>1. OnlyAllowedIsLive'
    <3>1. UNCHANGED allowed
      BY <1>6 DEF Rename
    <3>2. CASE Apply(s, saving[s].rest.p) /\ saving[s].rest.op = "allow"
      BY <1>6, <3>1, <3>2, ApplyMakesLive DEF Rename
    <3>3. CASE UNCHANGED active \/ active' = [active EXCEPT ![s] = None]
      BY <3>1, <3>3 DEF TypeOK
    <3> QED BY <1>6, <3>2, <3>3 DEF Rename
  <2>2. UNCHANGED <<trusted, allowed>> /\ disk'.data = disk.data
    BY <1>6 DEF Rename, TypeOK
  <2>3. \A t \in Shell : saving'[t] \in {None, saving[t]}
    BY <1>6 DEF Rename, TypeOK
  <2> QED BY <2>1, <2>2, <2>3
<1>7. ASSUME NEW s \in Shell, Line(s) PROVE AllowedOnly'
  BY <1>7 DEF Line, mgrvars
<1>8. ASSUME NEW s \in Shell, Kill(s) PROVE AllowedOnly'
  BY <1>8 DEF Kill, mgrvars, TypeOK
<1>9. ASSUME NEW s \in Shell, AllowPending(s) PROVE AllowedOnly'
  <2>1. allowed' = allowed \cup {pending[s]} /\ UNCHANGED active
    BY <1>9 DEF AllowPending, mgrvars
  <2>2. \A t \in Shell : trusted'[t] \subseteq allowed'
    BY <1>9, <2>1 DEF AllowPending, TypeOK
  <2>3. saving' = [saving EXCEPT ![s] = [rest |-> [op |-> "allow", p |-> pending[s]], fd |-> SaveInode]]
    BY <1>9 DEF AllowPending, Truncate
  <2>4. \A t \in Shell :
           saving'[t] # None /\ saving'[t].rest.op = "allow" => saving'[t].rest.p \in allowed'
    BY <2>1, <2>3 DEF TypeOK
  <2>5. \A i \in Inode : disk'.data[i] \in {Torn, disk.data[i]}
    BY <1>9 DEF AllowPending, Truncate, TypeOK
  <2> QED BY <2>1, <2>2, <2>4, <2>5
<1>10. ASSUME NEW s \in Shell, NEW d \in Dir, RevokeDir(s, d) PROVE AllowedOnly'
  <2>1. UNCHANGED allowed /\ (UNCHANGED active \/ active' = [active EXCEPT ![s] = None])
    BY <1>10 DEF RevokeDir
  <2>2. \A t \in Shell : trusted'[t] \subseteq trusted[t]
    BY <1>10 DEF RevokeDir, TypeOK
  <2>3. UNCHANGED saving
        \/ saving' = [saving EXCEPT ![s] = [rest |-> [op |-> "revoke", dir |-> d], fd |-> SaveInode]]
    BY <1>10 DEF RevokeDir, Truncate
  <2>4. \A t \in Shell :
           saving'[t] # None /\ saving'[t].rest.op = "allow" => saving'[t].rest.p \in allowed'
    <3>1. \A t \in Shell : saving'[t] = saving[t] \/ saving'[t].rest.op = "revoke"
      BY <2>3 DEF TypeOK
    <3> QED BY <2>1, <3>1
  <2>5. \A i \in Inode : disk'.data[i] \in {Torn, disk.data[i]}
    <3>1. UNCHANGED disk \/ disk' = [disk EXCEPT !.tmp = SaveInode, !.data[SaveInode] = Torn]
      BY <1>10 DEF RevokeDir, Truncate
    <3>2. ASSUME NEW i \in Inode PROVE disk'.data[i] \in {Torn, disk.data[i]}
      <4>1. CASE UNCHANGED disk
        BY <4>1
      <4>2. CASE disk' = [disk EXCEPT !.tmp = SaveInode, !.data[SaveInode] = Torn]
        BY <4>2 DEF TypeOK
      <4> QED BY <3>1, <4>1, <4>2
    <3> QED BY <3>2
  <2>6. OnlyAllowedIsLive'
    BY <2>1 DEF TypeOK
  <2> QED BY <2>1, <2>2, <2>4, <2>5, <2>6
<1>11. ASSUME NEW s \in Shell, NEW d \in Dir, Cd(s, d) PROVE AllowedOnly'
  BY <1>11 DEF Cd
<1>12. ASSUME NEW s \in Shell, NEW d \in Dir, NEW h \in Hash, Restore(s, d, h)
       PROVE  AllowedOnly'
  BY <1>12 DEF Restore
<1>13. ASSUME NEW s \in Shell, NEW v \in Var, MakeReadonly(s, v) PROVE AllowedOnly'
  BY <1>13 DEF MakeReadonly, mgrvars
<1>14. ASSUME NEW d \in Dir, NEW h \in Hash \cup {None}, Edit(d, h) PROVE AllowedOnly'
  BY <1>14 DEF Edit, mgrvars
<1>15. CASE UNCHANGED evars
  BY <1>15 DEF evars, mgrvars
<1> QED
  BY <1>1, <1>2, <1>3, <1>4, <1>5, <1>6, <1>7, <1>8, <1>9, <1>10, <1>11, <1>12, <1>13,
     <1>14, <1>15 DEF Next

LEMMA WhereStep == TypeOK /\ AsksHere /\ Where /\ [Next]_evars => Where'
<1> SUFFICES ASSUME TypeOK, AsksHere, Where, [Next]_evars PROVE Where'
  OBVIOUS
<1> DEFINE At(t) ==
      /\ shell[t] \in {"asking", "prompt"} /\ active[t] # None
            => active[t].rec.dir \in Under[cwd[t]]
      /\ shell[t] = "asking" => pending[t] = None
      /\ saving[t] # None /\ saving[t].rest.op = "allow" => shell[t] = "line"
<1>0. ASSUME NEW t \in Shell,
             UNCHANGED <<shell[t], active[t], cwd[t], pending[t], saving[t]>>
      PROVE  At(t)'
  BY <1>0 DEF Where
<1>1. ASSUME NEW s \in Shell, Start(s), NEW t \in Shell PROVE At(t)'
  BY <1>1 DEF Start, mgrvars, Where, TypeOK
<1>2. ASSUME NEW s \in Shell, AtPrompt(s), NEW t \in Shell PROVE At(t)'
  BY <1>2 DEF AtPrompt, Left, Where, TypeOK
<1>3. ASSUME NEW s \in Shell, NoProposal(s), NEW t \in Shell PROVE At(t)'
  BY <1>3 DEF NoProposal, mgrvars, Where, TypeOK
<1>4. ASSUME NEW s \in Shell, Proposal(s), NEW t \in Shell PROVE At(t)'
  <2>1. /\ shell' = [shell EXCEPT ![s] = "prompt"] /\ shell[s] = "asking" /\ saving[s] = None
        /\ UNCHANGED <<cwd, saving>> /\ \A u \in Shell : u # s => pending'[u] = pending[u]
    BY <1>4 DEF Proposal, TypeOK
  <2> PICK p \in Record :
         /\ p.dir \in Under[cwd[s]]
         /\ UNCHANGED active \/ (p \in trusted[s] /\ Apply(s, p))
    BY <1>4, ProposalCases
  <2>2. \A u \in Shell : u # s => active'[u] = active[u]
    BY ApplyMakesLive
  <2>3. active'[s] # None => active'[s].rec.dir \in Under[cwd[s]]
    BY <2>1, ApplyMakesLive DEF Where
  <2> QED BY <2>1, <2>2, <2>3 DEF Where, TypeOK
<1>5. ASSUME NEW s \in Shell, Write(s), NEW t \in Shell PROVE At(t)'
  <2>1. saving'[t] # None => saving[t] # None /\ saving'[t].rest = saving[t].rest
    BY <1>5 DEF Write, TypeOK, Save
  <2> QED BY <1>5, <2>1 DEF Write, mgrvars, Where
<1>6. ASSUME NEW s \in Shell, Rename(s), NEW t \in Shell PROVE At(t)'
  <2>1. UNCHANGED <<shell, cwd>> /\ saving' = [saving EXCEPT ![s] = None] /\ saving[s] # None
    BY <1>6 DEF Rename
  <2>2. pending'[t] \in {None, pending[t]}
    BY <1>6 DEF Rename, TypeOK
  <2>3. CASE Apply(s, saving[s].rest.p) /\ saving[s].rest.op = "allow"
    BY <2>1, <2>2, <2>3, ApplyMakesLive DEF Where, TypeOK
  <2>4. CASE UNCHANGED active \/ active' = [active EXCEPT ![s] = None]
    BY <2>1, <2>2, <2>4 DEF Where, TypeOK
  <2> QED BY <1>6, <2>3, <2>4 DEF Rename
<1>7. ASSUME NEW s \in Shell, Line(s), NEW t \in Shell PROVE At(t)'
  BY <1>7 DEF Line, mgrvars, Where, TypeOK
<1>8. ASSUME NEW s \in Shell, Kill(s), NEW t \in Shell PROVE At(t)'
  BY <1>8 DEF Kill, mgrvars, Where, TypeOK
<1>9. ASSUME NEW s \in Shell, AllowPending(s), NEW t \in Shell PROVE At(t)'
  <2>1. shell[s] = "line"
    BY <1>9 DEF AllowPending, MayTrust, Where
  <2> QED BY <1>9, <2>1 DEF AllowPending, Truncate, mgrvars, Where, TypeOK
<1>10. ASSUME NEW s \in Shell, NEW d \in Dir, RevokeDir(s, d), NEW t \in Shell PROVE At(t)'
  <2>1. UNCHANGED <<shell, cwd, pending>>
        /\ (UNCHANGED active \/ active' = [active EXCEPT ![s] = None])
    BY <1>10 DEF RevokeDir
  <2>2. UNCHANGED saving
        \/ saving' = [saving EXCEPT ![s] = [rest |-> [op |-> "revoke", dir |-> d], fd |-> SaveInode]]
    BY <1>10 DEF RevokeDir, Truncate
  <2>3. saving'[t] = saving[t] \/ saving'[t].rest.op = "revoke"
    BY <2>2 DEF TypeOK
  <2>4. active'[t] \in {None, active[t]}
    BY <2>1 DEF TypeOK
  <2> QED BY <2>1, <2>3, <2>4 DEF Where
<1>11. ASSUME NEW s \in Shell, NEW d \in Dir, Cd(s, d), NEW t \in Shell PROVE At(t)'
  BY <1>11 DEF Cd, Where, TypeOK
<1>12. ASSUME NEW s \in Shell, NEW d \in Dir, NEW h \in Hash, Restore(s, d, h), NEW t \in Shell
       PROVE  At(t)'
  BY <1>12 DEF Restore, Where, TypeOK
<1>13. ASSUME NEW s \in Shell, NEW v \in Var, MakeReadonly(s, v), NEW t \in Shell PROVE At(t)'
  BY <1>13, <1>0 DEF MakeReadonly, mgrvars
<1>14. ASSUME NEW d \in Dir, NEW h \in Hash \cup {None}, Edit(d, h), NEW t \in Shell PROVE At(t)'
  BY <1>14, <1>0 DEF Edit, mgrvars
<1>15. ASSUME UNCHANGED evars, NEW t \in Shell PROVE At(t)'
  BY <1>15, <1>0 DEF evars, mgrvars
<1>16. \A t \in Shell : At(t)'
  BY <1>1, <1>2, <1>3, <1>4, <1>5, <1>6, <1>7, <1>8, <1>9, <1>10, <1>11, <1>12, <1>13,
     <1>14, <1>15 DEF Next
<1> QED BY <1>16 DEF Where

\* Nothing applies silently, and a diff is live at the prompt only in its own tree.
THEOREM OnlyWhatWasAllowedIsLive == Spec => []LiveIsAllowedHere
<1>1. Init => Where
  BY DEF Init, Where
<1>2. TypeOK /\ AllowedOnly /\ Where => LiveIsAllowedHere
  BY DEF AllowedOnly, Where, LiveIsAllowedHere, LiveOnlyInItsSubtree
<1> QED BY <1>1, <1>2, TypesKept, AllowedInit, AllowedStep, WhereStep, PTL DEF Spec
-----------------------------------------------------------------------------
(* What a session gets back                                                *)

\* The values of a session whose user made nothing readonly, one session at a time.
OwnValues(s) ==
  readonly[s] = {} =>
     IF active[s] = None THEN \A v \in Var : env[s][v] = "user"
     ELSE /\ \A v \in Var : active[s].saved[v] = "user"
          /\ \A v \in Var \ Touched[active[s].hash] : env[s][v] = "user"

\* Reverting gives such a session its own values back.
LEMMA RevertedIsOwn ==
  ASSUME TypeOK, Values, NEW s \in Shell, readonly[s] = {}
  PROVE  \A v \in Var : Reverted(s)[v] = "user"
<1>1. CASE active[s] = None
  BY <1>1 DEF Values, Reverted
<1>2. CASE active[s] # None
  BY <1>2 DEF Values, Reverted
<1> QED BY <1>1, <1>2

\* Reverting on the spot leaves the values right.
LEMMA RevertKeepsOwn ==
  ASSUME TypeOK, Values, NEW s \in Shell, UNCHANGED readonly,
         env' = [env EXCEPT ![s] = Reverted(s)], active' = [active EXCEPT ![s] = None]
  PROVE  OwnValues(s)'
<1>1. env'[s] = Reverted(s) /\ active'[s] = None
  BY DEF TypeOK
<1> QED BY <1>1, RevertedIsOwn DEF OwnValues

\* Applying does: what it hides is what reverting would have given back.
LEMMA ApplyKeepsOwn ==
  ASSUME TypeOK, Values, NEW s \in Shell, NEW p \in Record, UNCHANGED readonly, Apply(s, p)
  PROVE  OwnValues(s)'
<1> SUFFICES ASSUME readonly[s] = {} PROVE OwnValues(s)'
  BY DEF OwnValues
<1> DEFINE before == Snapshot(s)
<1>1. \A v \in Var : before[v] = "user"
  BY RevertedIsOwn DEF Snapshot
<1>2. before \in [Var -> Hash \cup {"user"}] /\ p.hash \in Hash
  BY RevertedTyped DEF Snapshot, Record
<1>3. LastSet[p.hash] \in Touched[p.hash]
  BY <1>2, EnvAssumption
<1>4. active'[s] = [rec |-> p, hash |-> p.hash, saved |-> before]
  BY DEF Apply, TypeOK
<1>5. active'[s] # None
  BY <1>2, <1>4, EnvAssumption DEF Diff
<1>6. env'[s] = [v \in Var |-> IF v \in Touched[p.hash] \ readonly[s] THEN p.hash ELSE before[v]]
  BY DEF Apply, TypeOK
<1> HIDE DEF before
<1> QED BY <1>1, <1>4, <1>5, <1>6 DEF OwnValues

\* A session that a step does not touch keeps its values.
LEMMA OthersKeepOwn ==
  ASSUME TypeOK, Values, NEW t \in Shell,
         UNCHANGED <<readonly[t], active[t], env[t]>>
  PROVE  OwnValues(t)'
BY DEF Values, OwnValues

LEMMA ValuesStep == TypeOK /\ AsksHere /\ Values /\ [Next]_evars => Values'
<1> SUFFICES ASSUME TypeOK, AsksHere, Values, [Next]_evars PROVE Values'
  OBVIOUS
<1>1. ASSUME NEW s \in Shell, AtPrompt(s), NEW t \in Shell PROVE OwnValues(t)'
  <2>1. UNCHANGED readonly
    BY <1>1 DEF AtPrompt
  <2>2. CASE UNCHANGED <<env, active>>
    BY <2>1, <2>2, OthersKeepOwn
  <2>3. CASE env' = [env EXCEPT ![s] = Reverted(s)] /\ active' = [active EXCEPT ![s] = None]
    BY <2>1, <2>3, RevertKeepsOwn, OthersKeepOwn DEF TypeOK
  <2> QED BY <1>1, <2>2, <2>3 DEF AtPrompt
<1>2. ASSUME NEW s \in Shell, Proposal(s), NEW t \in Shell PROVE OwnValues(t)'
  <2>1. UNCHANGED readonly
    BY <1>2 DEF Proposal
  <2> PICK p \in Record : UNCHANGED <<env, active>> \/ Apply(s, p)
    BY <1>2, ProposalCases
  <2>2. CASE UNCHANGED <<env, active>>
    BY <2>1, <2>2, OthersKeepOwn
  <2>3. CASE Apply(s, p) /\ t # s
    BY <2>1, <2>3, OthersKeepOwn DEF Apply, TypeOK
  <2>4. CASE Apply(s, p) /\ t = s
    BY <2>1, <2>4, ApplyKeepsOwn
  <2> QED BY <2>2, <2>3, <2>4
<1>3. ASSUME NEW s \in Shell, Rename(s), NEW t \in Shell PROVE OwnValues(t)'
  <2>1. UNCHANGED readonly
    BY <1>3 DEF Rename
  <2>2. CASE UNCHANGED <<env, active>>
    BY <2>1, <2>2, OthersKeepOwn
  <2>3. CASE env' = [env EXCEPT ![s] = Reverted(s)] /\ active' = [active EXCEPT ![s] = None]
    BY <2>1, <2>3, RevertKeepsOwn, OthersKeepOwn DEF TypeOK
  <2>4. CASE Apply(s, saving[s].rest.p) /\ saving[s].rest.op = "allow"
    <3>1. saving[s].rest.p \in Record
      BY <1>3, <2>4 DEF Rename, TypeOK, Save
    <3>2. CASE t # s
      BY <2>1, <2>4, <3>2, OthersKeepOwn DEF Apply, TypeOK
    <3> QED BY <2>1, <2>4, <3>1, <3>2, ApplyKeepsOwn
  <2> QED BY <1>3, <2>2, <2>3, <2>4 DEF Rename
<1>4. ASSUME NEW s \in Shell, NEW d \in Dir, RevokeDir(s, d), NEW t \in Shell PROVE OwnValues(t)'
  <2>1. UNCHANGED readonly
    BY <1>4 DEF RevokeDir
  <2>2. CASE UNCHANGED <<env, active>>
    BY <2>1, <2>2, OthersKeepOwn
  <2>3. CASE env' = [env EXCEPT ![s] = Reverted(s)] /\ active' = [active EXCEPT ![s] = None]
    BY <2>1, <2>3, RevertKeepsOwn, OthersKeepOwn DEF TypeOK
  <2> QED BY <1>4, <2>2, <2>3 DEF RevokeDir
<1>5. ASSUME NEW s \in Shell, NEW v \in Var, MakeReadonly(s, v), NEW t \in Shell
      PROVE  OwnValues(t)'
  BY <1>5, OthersKeepOwn DEF MakeReadonly, mgrvars, OwnValues, TypeOK
<1>6. ASSUME UNCHANGED <<env, active, readonly>>, NEW t \in Shell PROVE OwnValues(t)'
  BY <1>6, OthersKeepOwn
<1>7. ASSUME NEW s \in Shell,
             \/ Start(s) \/ NoProposal(s) \/ Write(s) \/ Line(s) \/ Kill(s) \/ AllowPending(s)
             \/ \E d \in Dir : Cd(s, d) \/ \E h \in Hash : Restore(s, d, h)
      PROVE  UNCHANGED <<env, active, readonly>>
  BY <1>7 DEF Start, NoProposal, Write, Line, Kill, AllowPending, Cd, Restore, mgrvars
<1>8. ASSUME NEW d \in Dir, NEW h \in Hash \cup {None}, Edit(d, h)
      PROVE  UNCHANGED <<env, active, readonly>>
  BY <1>8 DEF Edit, mgrvars
<1>9. CASE UNCHANGED evars
  BY <1>6, <1>9 DEF evars, mgrvars, Values, OwnValues
<1>10. \A t \in Shell : OwnValues(t)'
  BY <1>1, <1>2, <1>3, <1>4, <1>5, <1>6, <1>7, <1>8, <1>9 DEF Next, evars, mgrvars
<1> QED BY <1>10 DEF Values, OwnValues

\* A session without a live diff, whose user made nothing readonly, has its own values.
THEOREM RevertingGivesBack == Spec => []OwnValuesBack
<1>1. Init => Values
  BY DEF Init, Values
<1>2. Values => OwnValuesBack
  BY DEF Values, OwnValuesBack
<1> QED BY <1>1, <1>2, TypesKept, ValuesStep, PTL DEF Spec
-----------------------------------------------------------------------------
(* What is announced                                                       *)

LEMMA AnnouncedStep == TypeOK /\ AsksHere /\ Announced /\ [Next]_evars => Announced'
<1> SUFFICES ASSUME TypeOK, AsksHere, Announced, [Next]_evars PROVE Announced'
  OBVIOUS
<1> DEFINE
      Waits(t) ==
        pending[t] # None /\ pending[t].plugin = "plugin" => pending[t] \in told[t]
      Noticed(t) ==
        \A d \in Dir, h \in Hash :
           notified[t] = <<d, h>> => [plugin |-> "plugin", dir |-> d, hash |-> h] \in told[t]
      Typed == notified \in [Shell -> (Dir \X Hash) \cup {None}]
<1>1. ASSUME UNCHANGED told, Typed',
             \A t \in Shell : /\ pending'[t] \in {None, pending[t]} \/ pending'[t].plugin # "plugin"
                              /\ notified'[t] \in {None, notified[t]}
      PROVE  Announced'
  <2>1. \A d \in Dir, h \in Hash : <<d, h>> # None
    BY EnvAssumption
  <2>2. \A t \in Shell : Waits(t)'
    BY <1>1 DEF Announced, PendingWasAnnounced
  <2>3. \A t \in Shell : Noticed(t)'
    BY <1>1, <2>1 DEF Announced
  <2> QED BY <1>1, <2>2, <2>3 DEF Announced, PendingWasAnnounced
<1>2. ASSUME NEW s \in Shell, Proposal(s) PROVE Announced'
  <2> PICK p \in Record :
         /\ p.plugin = "plugin"
         /\ \/ UNCHANGED <<pending, notified, told>>
            \/ /\ pending' = [pending EXCEPT ![s] = p]
               /\ IF notified[s] # NoticeKey(p)
                  THEN /\ notified' = [notified EXCEPT ![s] = NoticeKey(p)]
                       /\ told' = [told EXCEPT ![s] = @ \cup {p}]
                  ELSE UNCHANGED <<notified, told>>
    BY <1>2, ProposalCases
  <2>1. p = [plugin |-> "plugin", dir |-> p.dir, hash |-> p.hash] /\ p.dir \in Dir /\ p.hash \in Hash
    BY DEF Record
  <2>2. CASE UNCHANGED <<pending, notified, told>>
    BY <2>2 DEF Announced, PendingWasAnnounced
  <2>3. CASE /\ pending' = [pending EXCEPT ![s] = p]
             /\ notified' = [notified EXCEPT ![s] = <<p.dir, p.hash>>]
             /\ told' = [told EXCEPT ![s] = @ \cup {p}]
    <3>1. Typed'
      BY <2>1, <2>3 DEF Announced
    <3>2. \A t \in Shell : told'[t] = IF t = s THEN told[t] \cup {p} ELSE told[t]
      BY <2>3 DEF TypeOK
    <3>3. \A t \in Shell : pending'[t] = IF t = s THEN p ELSE pending[t]
      BY <2>3 DEF TypeOK
    <3>4. ASSUME NEW t \in Shell PROVE Waits(t)'
      <4>1. CASE t = s
        BY <3>2, <3>3, <4>1
      <4>2. CASE t # s
        BY <3>2, <3>3, <4>2 DEF Announced, PendingWasAnnounced
      <4> QED BY <4>1, <4>2
    <3>5. ASSUME NEW t \in Shell PROVE Noticed(t)'
      <4>1. CASE t = s
        <5>1. notified'[s] = <<p.dir, p.hash>>
          <6>1. Typed
            BY DEF Announced
          <6> QED BY <2>3, <6>1
        <5>2. p \in told'[s]
          BY <3>2
        <5>3. \A d \in Dir, h \in Hash :
                 <<d, h>> = <<p.dir, p.hash>> => [plugin |-> "plugin", dir |-> d, hash |-> h] = p
          BY <2>1
        <5> QED BY <4>1, <5>1, <5>2, <5>3
      <4>2. CASE t # s
        BY <2>3, <3>2, <4>2 DEF Announced
      <4> QED BY <4>1, <4>2
    <3> QED BY <3>1, <3>4, <3>5 DEF Announced, PendingWasAnnounced
  <2>4. CASE /\ pending' = [pending EXCEPT ![s] = p]
             /\ notified[s] = <<p.dir, p.hash>> /\ UNCHANGED <<notified, told>>
    <3>1. p \in told[s]
      BY <2>1, <2>4 DEF Announced
    <3>2. \A t \in Shell : Waits(t)'
      BY <2>4, <3>1 DEF Announced, PendingWasAnnounced, TypeOK
    <3> QED BY <2>4, <3>2 DEF Announced, PendingWasAnnounced
  <2> QED BY <2>2, <2>3, <2>4 DEF NoticeKey
<1>3. ASSUME NEW s \in Shell, AtPrompt(s) PROVE Announced'
  BY <1>3, <1>1 DEF AtPrompt, Announced, TypeOK
<1>4. ASSUME NEW s \in Shell, Rename(s) PROVE Announced'
  <2>1. /\ UNCHANGED told
        /\ UNCHANGED pending \/ pending' = [pending EXCEPT ![s] = None]
        /\ UNCHANGED notified \/ notified' = [notified EXCEPT ![s] = None]
    BY <1>4 DEF Rename
  <2>2. Typed'
    BY <2>1 DEF Announced
  <2>3. \A t \in Shell : pending'[t] \in {None, pending[t]} /\ notified'[t] \in {None, notified[t]}
    BY <2>1 DEF Announced, TypeOK
  <2> QED BY <2>1, <2>2, <2>3, <1>1
<1>5. ASSUME NEW s \in Shell, NEW d \in Dir, RevokeDir(s, d) PROVE Announced'
  <2>1. /\ UNCHANGED <<told, pending>>
        /\ UNCHANGED notified \/ notified' = [notified EXCEPT ![s] = None]
    BY <1>5 DEF RevokeDir
  <2>2. Typed'
    BY <2>1 DEF Announced
  <2>3. \A t \in Shell : notified'[t] \in {None, notified[t]}
    BY <2>1 DEF Announced
  <2> QED BY <2>1, <2>2, <2>3, <1>1
<1>6. ASSUME NEW s \in Shell, NEW d \in Dir, NEW h \in Hash, Restore(s, d, h) PROVE Announced'
  <2>1. pending' = [pending EXCEPT ![s] = [plugin |-> "session-restore", dir |-> d, hash |-> h]]
        /\ notified' = [notified EXCEPT ![s] = None] /\ UNCHANGED told
    BY <1>6 DEF Restore
  <2>2. \A t \in Shell : pending'[t] = pending[t] \/ pending'[t].plugin = "session-restore"
    BY <2>1 DEF TypeOK
  <2>3. Typed' /\ \A t \in Shell : notified'[t] \in {None, notified[t]}
    BY <2>1 DEF Announced
  <2> QED BY <2>1, <2>2, <2>3, <1>1
<1>7. CASE UNCHANGED <<told, pending, notified>>
  BY <1>7 DEF Announced, PendingWasAnnounced
<1>8. ASSUME NEW s \in Shell,
             \/ Start(s) \/ NoProposal(s) \/ Write(s) \/ Line(s) \/ Kill(s) \/ AllowPending(s)
             \/ \E d \in Dir : Cd(s, d)
             \/ \E v \in Var : MakeReadonly(s, v)
      PROVE  UNCHANGED <<told, pending, notified>>
  BY <1>8 DEF Start, NoProposal, Write, Line, Kill, AllowPending, Cd, MakeReadonly, mgrvars
<1>9. ASSUME NEW d \in Dir, NEW h \in Hash \cup {None}, Edit(d, h)
      PROVE  UNCHANGED <<told, pending, notified>>
  BY <1>9 DEF Edit, mgrvars
<1> QED
  BY <1>2, <1>3, <1>4, <1>5, <1>6, <1>7, <1>8, <1>9 DEF Next, evars, mgrvars

\* A plugin's diff that waits for an answer was announced in this session.
THEOREM NothingWaitsUnannounced == Spec => []PendingWasAnnounced
<1>1. Init => Announced
  <2> SUFFICES ASSUME Init PROVE Announced
    OBVIOUS
  <2>1. \A d \in Dir, h \in Hash : <<d, h>> # None
    BY EnvAssumption
  <2> QED BY <2>1 DEF Init, Announced, PendingWasAnnounced
<1>2. Announced => PendingWasAnnounced
  BY DEF Announced
<1> QED BY <1>1, <1>2, TypesKept, AnnouncedStep, PTL DEF Spec
-----------------------------------------------------------------------------
(* What a crash leaves                                                     *)

\* Truncating the temporary file leaves the list alone, and marks the file unless the
\* save is the only one.
LEMMA TruncateLeavesWhole ==
  ASSUME TypeOK, Whole, NEW s \in Shell, saving[s] = None, NEW rest, Truncate(s, rest)
  PROVE  Whole'
<1>1. /\ SaveInode \in Inode /\ SaveInode # 0
      /\ SaveInode # disk.file
  BY SaveInodeTyped, ZeroIsNone DEF Whole
<1>2. /\ disk'.file = disk.file /\ disk'.tmp = SaveInode
      /\ \A i \in Inode : i # SaveInode => disk'.data[i] = disk.data[i]
  BY DEF Truncate, TypeOK
<1>3. /\ saving'[s].fd = SaveInode
      /\ \A t \in Shell : t # s => saving'[t] = saving[t]
  BY DEF Truncate, TypeOK
<1>4. shared' = IF \E t \in Shell \ {s} : saving[t] # None
                THEN shared \cup {SaveInode} ELSE shared \ {SaveInode}
  BY DEF Truncate
<1>5. ListIsWhole'
  <2>1. disk.file \notin shared' \cup {0}
          => disk.file \notin shared \cup {0} /\ disk.file \in Inode
    BY <1>1, <1>4 DEF TypeOK
  <2> QED BY <1>1, <1>2, <2>1 DEF Whole, ListIsWhole
<1>6. disk'.tmp \notin shared' \cup {0} => \A t \in Shell : t # s => saving'[t] = None
  BY <1>2, <1>3, <1>4
<1> QED BY <1>1, <1>2, <1>3, <1>5, <1>6 DEF Whole

LEMMA WholeStep == TypeOK /\ Whole /\ [Next]_evars => Whole'
<1> SUFFICES ASSUME TypeOK, Whole, [Next]_evars PROVE Whole'
  OBVIOUS
<1>1. ASSUME UNCHANGED <<disk, saving, shared>> PROVE Whole'
  BY <1>1 DEF Whole, ListIsWhole
<1>2. ASSUME NEW s \in Shell, Write(s) PROVE Whole'
  <2>1. saving[s].fd \in Inode /\ saving[s].fd # 0 /\ UNCHANGED shared
    BY <1>2 DEF Write, TypeOK, Save
  <2>2. /\ disk'.file = disk.file /\ disk'.tmp = disk.tmp
        /\ disk'.data[saving[s].fd] = trusted[s]
        /\ \A i \in Inode : i # saving[s].fd => disk'.data[i] = disk.data[i]
    BY <1>2, <2>1 DEF Write, TypeOK
  <2>3. trusted[s] # Torn
    BY EnvAssumption DEF TypeOK
  <2>4. ListIsWhole'
    <3>1. disk.file # 0 => disk.file \in Inode
      BY DEF TypeOK
    <3> QED BY <2>1, <2>2, <2>3, <3>1 DEF Whole, ListIsWhole
  <2>5. saving[s] # None /\ saving'[s].fd = 0
        /\ \A t \in Shell : t # s => saving'[t] = saving[t]
    BY <1>2 DEF Write, TypeOK, Save
  <2>6. disk'.tmp \notin shared' \cup {0}
          => /\ \A t \in Shell : t # s => saving'[t] = None
             /\ disk'.data[disk'.tmp] # Torn
    BY <2>1, <2>2, <2>3, <2>5 DEF Whole
  <2> QED BY <2>2, <2>4, <2>5, <2>6 DEF Whole
<1>3. ASSUME NEW s \in Shell, Rename(s) PROVE Whole'
  <2>1. saving[s] # None /\ saving[s].fd = 0 /\ UNCHANGED shared
        /\ \A t \in Shell : saving'[t] \in {None, saving[t]}
    BY <1>3 DEF Rename, TypeOK
  <2>2. CASE disk.tmp = 0
    BY <1>3, <2>1, <2>2 DEF Rename, Whole, ListIsWhole
  <2>3. CASE disk.tmp # 0
    <3>1. disk' = [disk EXCEPT !.file = disk.tmp, !.tmp = 0]
      BY <1>3, <2>3 DEF Rename
    <3>2. disk'.file = disk.tmp /\ disk'.tmp = 0 /\ disk'.data = disk.data
      BY <3>1 DEF TypeOK
    <3>3. disk.tmp \notin shared => disk.data[disk.tmp] # Torn
      BY <2>1, <2>3 DEF Whole
    <3> QED BY <2>1, <2>3, <3>2, <3>3 DEF Whole, ListIsWhole
  <2> QED BY <2>2, <2>3
<1>4. ASSUME NEW s \in Shell, Kill(s) PROVE Whole'
  <2>1. UNCHANGED <<disk, shared>> /\ \A t \in Shell : saving'[t] \in {None, saving[t]}
    BY <1>4 DEF Kill, TypeOK
  <2> QED BY <2>1 DEF Whole, ListIsWhole
<1>5. ASSUME NEW s \in Shell, AllowPending(s) PROVE Whole'
  BY <1>5, TruncateLeavesWhole DEF AllowPending, MayTrust
<1>6. ASSUME NEW s \in Shell, NEW d \in Dir, RevokeDir(s, d) PROVE Whole'
  BY <1>1, <1>6, TruncateLeavesWhole DEF RevokeDir, MayTrust
<1>7. ASSUME NEW s \in Shell,
             \/ Start(s) \/ AtPrompt(s) \/ NoProposal(s) \/ Proposal(s) \/ Line(s)
             \/ \E d \in Dir : Cd(s, d) \/ \E h \in Hash : Restore(s, d, h)
             \/ \E v \in Var : MakeReadonly(s, v)
      PROVE  UNCHANGED <<disk, saving, shared>>
  BY <1>7 DEF Start, AtPrompt, NoProposal, Proposal, Line, Cd, Restore, MakeReadonly
<1>8. ASSUME NEW d \in Dir, NEW h \in Hash \cup {None}, Edit(d, h)
      PROVE  UNCHANGED <<disk, saving, shared>>
  BY <1>8 DEF Edit
<1> QED
  BY <1>1, <1>2, <1>3, <1>4, <1>5, <1>6, <1>7, <1>8 DEF Next, evars

\* Whatever number of sessions has crashed in the middle of a save, the list is whole,
\* unless its inode was last truncated while another session was saving.
THEOREM CrashLeavesWholeList == Spec => []ListIsWhole
<1>1. Init => Whole
  <2> SUFFICES ASSUME Init PROVE Whole
    OBVIOUS
  <2>1. disk.tmp = 0 /\ (disk.file # 0 => disk.file = 1 /\ disk.data[1] = Earlier)
    <3>1. 1 \in Inode
      BY EnvAssumption, FS_CardinalityType DEF Inode
    <3> QED BY <3>1 DEF Init
  <2>2. Earlier # Torn
    BY EnvAssumption
  <2> QED BY <2>1, <2>2 DEF Init, Whole, ListIsWhole
<1>2. Whole => ListIsWhole
  BY DEF Whole
<1> QED BY <1>1, <1>2, TypesKept, WholeStep, PTL DEF Spec
=============================================================================
