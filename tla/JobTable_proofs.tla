-------------------------- MODULE JobTable_proofs --------------------------
(***************************************************************************)
(* Proofs about JobTable, for every value of its constants: any number of  *)
(* jobs, processes and background statements.                              *)
(*                                                                         *)
(* The first half holds whatever the lines are (any Features).  GroupInv   *)
(* is inductive.  Most actions disturb little of it and take one leaf;     *)
(* those that touch a job's counters, its group or the line have a lemma   *)
(* each, with one step for the types they disturb and one for each of      *)
(* Lines, Groups, Held and Terminal, the other parts of GroupInv.          *)
(*                                                                         *)
(* The second half is about plain lines (PlainLines): commands one after   *)
(* another, foreground pipelines, single commands with &, fg, bg and kill. *)
(* There the accounting is exact and every wait has one owner.  LineInv is *)
(* inductive, in this order: where commands are on their way to their job  *)
(* (Placed, Sided, InLineOnly, Filed), what live counts (Counts), when a   *)
(* job has a reaper (ReaperAlone), and what fg, bg and EndLine may         *)
(* conclude from a job's state (Resumed, Settled).                         *)
(***************************************************************************)
EXTENDS JobTable, FiniteSetTheorems, TLAPS

USE DEF HandlerPC, ReaperPC, MainPC, InLine, Fresh,
        jobVars, tableVars, procVars, handlerVars, mainVars

(* What the proofs use of the assumption on the constants.                 *)
LEMMA Distinct ==
  /\ NoJob \notin Job
  /\ NoProc \notin Proc
  /\ Shell \notin Proc \cup {NoProc}
  /\ 0 \notin Offset
BY ConstantsAssumption DEF ConstantsAssumption
-----------------------------------------------------------------------------
(* What the shared critical sections keep                                  *)

(* ensureReaper leaves the types of a job's fields right.                  *)
LEMMA EnsureReaperTypes ==
  ASSUME NEW j \in Job, JobTypes, EnsureReaper(j),
         UNCHANGED <<state, pgid, background, live>>
  PROVE  JobTypes'
<1>1. reaping' \in [Job -> BOOLEAN]
  BY DEF JobTypes, EnsureReaper
<1>2. rpc' \in [Job -> ReaperPC]
  BY DEF JobTypes, EnsureReaper
<1> QED BY <1>1, <1>2 DEF JobTypes

(* procDone leaves the types right and makes no job available again.       *)
LEMMA ProcDoneTypes ==
  ASSUME NEW j \in Job, JobTypes, TableTypes, ProcDone(j)
  PROVE  /\ state' \in [Job -> {"Unborn", "Running", "Stopped", "Done"}]
         /\ live' \in [Job -> Int]
         /\ reaping' \in [Job -> BOOLEAN]
         /\ jobs' \subseteq Job
         /\ \A k \in Job : ~Fresh(k) => ~Fresh(k)'
<1>1. live' \in [Job -> Int]
  BY DEF JobTypes, ProcDone
<1>2. reaping' \in [Job -> BOOLEAN]
  <2>1. reaping[j] \in BOOLEAN /\ (reaping[j] /\ ~Releases(j)) \in BOOLEAN
    BY Zenon DEF JobTypes
  <2> QED BY <2>1 DEF JobTypes, ProcDone
<1>3. CASE NoneRemain(j)
  BY <1>1, <1>2, <1>3 DEF JobTypes, TableTypes, ProcDone, Removed
<1>4. CASE ~NoneRemain(j)
  BY <1>1, <1>2, <1>4 DEF JobTypes, TableTypes, ProcDone
<1> QED BY <1>3, <1>4
-----------------------------------------------------------------------------
(* The actions that disturb more than one part                             *)

(* Start: the leader's group is new, so no other job can claim it, and a   *)
(* background leader leaves the terminal where it is.                      *)
LEMMA StartStep ==
  ASSUME GroupInv, NEW p \in Proc, Start(p)
  PROVE  GroupInv'
<1> USE Distinct DEF Leader
<1> DEFINE j == hjob[p]
<1>1. /\ TypeOK /\ Lines /\ Groups /\ Held /\ Terminal
      /\ j \in Job /\ pst[p] = "unborn"
  BY DEF GroupInv, Start, TypeOK, ProcTypes, Lines, HandlerHasJob, Groups,
               ProcessHasGroup
<1>2. JobTypes'
  <2>1. live[j] + 1 \in Int
    BY <1>1 DEF TypeOK, JobTypes
  <2>2. live' = [live EXCEPT ![j] = live[j] + 1]
    BY DEF Start, OneMore
  <2>3. live' \in [Job -> Int]
    BY <1>1, <2>1, <2>2 DEF TypeOK, JobTypes
  <2>4. pgid' \in [Job -> Proc \cup {NoProc}]
    BY <1>1 DEF Start, TypeOK, JobTypes
  <2> QED BY <1>1, <2>3, <2>4 DEF Start, TypeOK, JobTypes
<1>3. (TableTypes /\ ProcTypes /\ HandlerTypes /\ MainTypes)'
  BY <1>1 DEF Start, TypeOK, TableTypes, ProcTypes, HandlerTypes, MainTypes
<1>4. Lines'
  BY <1>1 DEF Start, TypeOK, HandlerTypes, Lines, LineHasJob, SelIsJob,
              HandlerHasJob
<1>5. Groups'
  BY <1>1 DEF Start, TypeOK, JobTypes, ProcTypes, HandlerTypes, Groups,
              ProcessHasGroup, GroupHasLeader, FreshHasNoGroup, Held,
              HeldNotFresh
<1>6. Held'
  BY <1>1 DEF Start, Held, HeldNotFresh, KindsKept
<1>7. TerminalHeld'
  BY <1>1 DEF Start, TypeOK, ProcTypes, Terminal, TerminalHeld, TakesTerminal
<1>8. BackgroundOffTerminal'
  <2>1. SUFFICES ASSUME NEW k \in Job, background[k], tty' = pgid'[k]
                 PROVE  pc \in {"mark", "takeover", "waitchange"} /\ fore
                        /\ sel = k
    BY DEF Start, BackgroundOffTerminal
  <2>2. CASE Leader(p)
    <3>1. pgid' = [pgid EXCEPT ![j] = p]
      BY <2>2 DEF Start
    <3>2. CASE background[j]
      <4>1. tty' = tty
        BY <3>2 DEF Start, TakesTerminal
      <4>2. tty # p
        BY <1>1 DEF Terminal, TerminalHeld
      <4>3. k # j
        BY <2>1, <3>1, <4>1, <4>2, <1>1 DEF TypeOK, JobTypes
      <4> QED BY <1>1, <2>1, <3>1, <4>1, <4>3
              DEF Terminal, BackgroundOffTerminal, TypeOK, JobTypes
    <3>3. CASE ~background[j]
      <4>1. tty' = p
        BY <2>2, <3>3 DEF Start, TakesTerminal
      <4>2. pgid[k] = p /\ k # j
        BY <1>1, <2>1, <3>1, <3>3, <4>1 DEF TypeOK, JobTypes
      <4> QED BY <1>1, <4>2 DEF Groups, GroupHasLeader
    <3> QED BY <3>2, <3>3
  <2>3. CASE ~Leader(p)
    BY <1>1, <2>1, <2>3
    DEF Start, TakesTerminal, Terminal, BackgroundOffTerminal
  <2> QED BY <2>2, <2>3
<1> QED BY <1>2, <1>3, <1>4, <1>5, <1>6, <1>7, <1>8
    DEF GroupInv, TypeOK, Terminal

(* DispatchBackground: a new job has no group and is nobody else's.        *)
LEMMA DispatchBackgroundStep ==
  ASSUME GroupInv, NEW p \in Proc, DispatchBackground(p)
  PROVE  GroupInv'
<1> USE Distinct
<1>1. /\ TypeOK /\ Lines /\ Groups /\ Held /\ Terminal
      /\ at[p] \in Offset /\ pst[p] = "unborn"
  BY DEF GroupInv, DispatchBackground, InBackground, TypeOK, ProcTypes,
       TableTypes,
               Groups, ProcessHasGroup
<1>2. CASE bgJobs[at[p]] # NoJob
  <2>1. /\ hjob' = [hjob EXCEPT ![p] = bgJobs[at[p]]]
        /\ bgJobs[at[p]] \in Job
        /\ UNCHANGED <<state, background, jobs, bgJobs>>
    BY <1>1, <1>2 DEF DispatchBackground, TypeOK, TableTypes
  <2>2. TypeOK'
    BY <1>1, <2>1 DEF DispatchBackground, TypeOK, JobTypes, TableTypes,
                      ProcTypes, HandlerTypes, MainTypes
  <2>3. Lines'
    BY <1>1, <2>1 DEF DispatchBackground, TypeOK, HandlerTypes, Lines,
                      LineHasJob, SelIsJob, HandlerHasJob
  <2>4. Groups'
    BY <1>1, <2>1 DEF DispatchBackground, TypeOK, JobTypes, ProcTypes,
         HandlerTypes, Groups, ProcessHasGroup, GroupHasLeader, FreshHasNoGroup
  <2>5. Held'
    BY <1>1, <2>1 DEF DispatchBackground, TypeOK, HandlerTypes, Held,
                      HeldNotFresh, KindsKept
  <2>6. Terminal'
    BY <1>1, <2>1 DEF DispatchBackground, Terminal, TerminalHeld,
                      BackgroundOffTerminal
  <2> QED BY <2>2, <2>3, <2>4, <2>5, <2>6 DEF GroupInv
<1>3. CASE bgJobs[at[p]] = NoJob
  <2>1. PICK j \in Job :
          /\ NewJob(j, TRUE)
          /\ jobs' = jobs \cup {j}
          /\ bgJobs' = [bgJobs EXCEPT ![at[p]] = j]
          /\ hjob' = [hjob EXCEPT ![p] = j]
    BY <1>3 DEF DispatchBackground
  <2>2. /\ state[j] = "Unborn"
        /\ state' = [state EXCEPT ![j] = "Running"]
        /\ background' = [background EXCEPT ![j] = TRUE]
        /\ pgid[j] = NoProc
    BY <1>1, <2>1 DEF NewJob, Groups, FreshHasNoGroup
  <2>3. JobTypes'
    BY <1>1, <2>2 DEF DispatchBackground, TypeOK, JobTypes
  <2>4. (TableTypes /\ ProcTypes /\ HandlerTypes /\ MainTypes)'
    BY <1>1, <2>1 DEF DispatchBackground, TypeOK, TableTypes, ProcTypes,
                      HandlerTypes, MainTypes
  <2>5. Lines'
    BY <1>1, <2>1 DEF DispatchBackground, TypeOK, HandlerTypes, Lines,
                      LineHasJob, SelIsJob, HandlerHasJob
  <2>6. Groups'
    BY <1>1, <2>1, <2>2 DEF DispatchBackground, TypeOK, JobTypes, ProcTypes,
         HandlerTypes, Groups, ProcessHasGroup, GroupHasLeader, FreshHasNoGroup
  <2>7. HeldNotFresh'
    BY <1>1, <2>1, <2>2 DEF DispatchBackground, TypeOK, JobTypes, TableTypes,
                            HandlerTypes, Held, HeldNotFresh
  <2>8. KindsKept'
    <3>1. (current \in Job => ~background[current])'
      BY <1>1, <2>2 DEF DispatchBackground, TypeOK, JobTypes, Held,
                        HeldNotFresh, KindsKept
    <3>2. \A o \in Offset : bgJobs'[o] \in Job => background'[bgJobs'[o]]
      BY <1>1, <2>1, <2>2 DEF TypeOK, JobTypes, TableTypes, Held, KindsKept
    <3>3. (pc = "decide" => ~background[sel])'
      BY <1>1, <2>2 DEF DispatchBackground, TypeOK, JobTypes, Held,
                        HeldNotFresh, KindsKept
    <3> QED BY <3>1, <3>2, <3>3 DEF KindsKept
  <2>9. Terminal'
    BY <1>1, <2>2 DEF DispatchBackground, TypeOK, JobTypes, ProcTypes,
         Terminal,
                      TerminalHeld, BackgroundOffTerminal
  <2> QED BY <2>3, <2>4, <2>5, <2>6, <2>7, <2>8, <2>9
          DEF GroupInv, TypeOK, Held
<1> QED BY <1>2, <1>3

(* HandlerDone and ReaperDone: procDone by the one or by the other.        *)
LEMMA HandlerDoneStep ==
  ASSUME GroupInv, NEW p \in Proc, HandlerDone(p)
  PROVE  GroupInv'
<1>1. TypeOK /\ Lines /\ Groups /\ Held /\ Terminal /\ hjob[p] \in Job
  BY DEF GroupInv, HandlerDone, Lines, HandlerHasJob
<1>2. ProcDone(hjob[p])
  BY DEF HandlerDone
<1>3. TypeOK'
  BY <1>1, <1>2, ProcDoneTypes DEF HandlerDone, TypeOK, JobTypes, TableTypes,
       ProcTypes, HandlerTypes, MainTypes
<1>4. Lines' /\ Terminal'
  BY <1>1 DEF HandlerDone, TypeOK, HandlerTypes, Lines, LineHasJob, SelIsJob,
       HandlerHasJob, Terminal, TerminalHeld, BackgroundOffTerminal
<1>5. \A k \in Job : ~Fresh(k) => ~Fresh(k)'
  BY <1>1, <1>2, ProcDoneTypes DEF TypeOK
<1>6. Groups'
  BY <1>1, <1>5 DEF HandlerDone, TypeOK, HandlerTypes, Groups,
       ProcessHasGroup, GroupHasLeader, FreshHasNoGroup
<1>7. Held'
  BY <1>1, <1>5 DEF HandlerDone, Held, HeldNotFresh, KindsKept, Lines,
       SelIsJob
<1> QED BY <1>3, <1>4, <1>6, <1>7 DEF GroupInv

(* ReaperDone: the reaper accounts for the process it has just reaped.     *)
LEMMA ReaperDoneStep ==
  ASSUME GroupInv, NEW j \in Job, ReaperDone(j)
  PROVE  GroupInv'
<1>1. TypeOK /\ Lines /\ Groups /\ Held /\ Terminal
  BY DEF GroupInv
<1>2. ProcDone(j)
  BY DEF ReaperDone
<1>3. TypeOK'
  BY <1>1, <1>2, ProcDoneTypes DEF ReaperDone, TypeOK, JobTypes, TableTypes,
       ProcTypes, HandlerTypes, MainTypes
<1>4. Lines' /\ Terminal'
  BY <1>1 DEF ReaperDone, Lines, LineHasJob, SelIsJob, HandlerHasJob,
       Terminal, TerminalHeld, BackgroundOffTerminal
<1>5. \A k \in Job : ~Fresh(k) => ~Fresh(k)'
  BY <1>1, <1>2, ProcDoneTypes DEF TypeOK
<1>6. Groups' /\ Held'
  BY <1>1, <1>5 DEF ReaperDone, Groups, ProcessHasGroup, GroupHasLeader,
       FreshHasNoGroup, Held, HeldNotFresh, KindsKept, Lines, SelIsJob
<1> QED BY <1>3, <1>4, <1>6 DEF GroupInv

(* The reaper takes a status of some member of the group.                  *)
LEMMA ReapExitStep ==
  ASSUME GroupInv, NEW j \in Job, ReapExit(j)
  PROVE  GroupInv'
<1>1. TypeOK /\ Lines /\ Groups /\ Held /\ Terminal
  BY DEF GroupInv
<1>2. PICK p \in Members(j) : pst' = [pst EXCEPT ![p] = "gone"]
  BY DEF ReapExit
<1>3. p \in Proc /\ pst[p] # "unborn"
  BY <1>2 DEF Members
<1>4. (JobTypes /\ TableTypes /\ HandlerTypes /\ MainTypes)'
  BY <1>1 DEF ReapExit, TypeOK, JobTypes, TableTypes, HandlerTypes, MainTypes
<1>5. ProcTypes'
  BY <1>1, <1>2, <1>3 DEF ReapExit, TypeOK, ProcTypes
<1>6. Lines' /\ Held' /\ BackgroundOffTerminal'
  BY <1>1 DEF ReapExit, Lines, LineHasJob, SelIsJob, HandlerHasJob, Held,
       HeldNotFresh, KindsKept, Terminal, BackgroundOffTerminal
<1>7. Groups' /\ TerminalHeld'
  BY <1>1, <1>2, <1>3 DEF ReapExit, TypeOK, ProcTypes, JobTypes, Groups,
       ProcessHasGroup, GroupHasLeader, FreshHasNoGroup, Terminal,
       TerminalHeld
<1> QED BY <1>4, <1>5, <1>6, <1>7 DEF GroupInv, TypeOK, Terminal

(* Return: the handler of a background command starts the reaper, if       *)
(* nobody waits for the job yet.                                           *)
LEMMA ReturnStep ==
  ASSUME GroupInv, NEW p \in Proc, Return(p)
  PROVE  GroupInv'
<1>1. TypeOK /\ Lines /\ Groups /\ Held /\ Terminal /\ hjob[p] \in Job
  BY DEF GroupInv, Return, Lines, HandlerHasJob
<1>2. JobTypes'
  BY <1>1, EnsureReaperTypes DEF Return, TypeOK, JobTypes
<1>3. (TableTypes /\ ProcTypes /\ HandlerTypes /\ MainTypes)'
  BY <1>1 DEF Return, TypeOK, TableTypes, ProcTypes, HandlerTypes, MainTypes
<1>4. Lines' /\ Groups'
  BY <1>1 DEF Return, TypeOK, HandlerTypes, Lines, LineHasJob, SelIsJob,
       HandlerHasJob, Groups, ProcessHasGroup, GroupHasLeader, FreshHasNoGroup
<1>5. Held' /\ Terminal'
  BY <1>1 DEF Return, Held, HeldNotFresh, KindsKept, Terminal, TerminalHeld,
       BackgroundOffTerminal
<1> QED BY <1>2, <1>3, <1>4, <1>5 DEF GroupInv, TypeOK

(* ResumeTakeover: fg or bg starts the reaper of a job whose handlers      *)
(* have returned, then fg waits and bg comes back to the line.             *)
LEMMA ResumeTakeoverStep ==
  ASSUME GroupInv, ResumeTakeover
  PROVE  GroupInv'
<1>1. TypeOK /\ Lines /\ Groups /\ Held /\ Terminal /\ sel \in Job
  BY DEF GroupInv, ResumeTakeover, Lines, SelIsJob
<1>2. JobTypes'
  BY <1>1, EnsureReaperTypes DEF ResumeTakeover, TypeOK, JobTypes
<1>3. (TableTypes /\ ProcTypes /\ HandlerTypes)'
  BY <1>1 DEF ResumeTakeover, TypeOK, TableTypes, ProcTypes, HandlerTypes
<1>4. MainTypes'
  <2>1. fore' \in BOOLEAN
    BY <1>1 DEF ResumeTakeover, Back, TypeOK, MainTypes
  <2>2. /\ pc' \in MainPC /\ todo' \subseteq Offset
        /\ sel' \in Job \cup {NoJob} /\ was' \in BOOLEAN /\ stale' \in BOOLEAN
    BY <1>1 DEF ResumeTakeover, Back, TypeOK, MainTypes
  <2> QED BY <2>1, <2>2 DEF MainTypes
<1>5. Lines' /\ Held'
  BY <1>1 DEF ResumeTakeover, Back, Lines, LineHasJob, SelIsJob,
       HandlerHasJob, Held, HeldNotFresh, KindsKept
<1>6. Groups' /\ Terminal'
  BY <1>1 DEF ResumeTakeover, Back, Groups, ProcessHasGroup, GroupHasLeader,
       FreshHasNoGroup, Terminal, TerminalHeld, BackgroundOffTerminal
<1> QED BY <1>2, <1>3, <1>4, <1>5, <1>6 DEF GroupInv, TypeOK

(* EndLineReap: a line that ends starts the reaper of what it leaves.      *)
LEMMA EndLineReapStep ==
  ASSUME GroupInv, EndLineReap
  PROVE  GroupInv'
<1> USE Distinct
<1>1. TypeOK /\ Lines /\ Groups /\ Held /\ Terminal /\ sel \in Job
  BY DEF GroupInv, EndLineReap, Lines, SelIsJob
<1>2. JobTypes'
  BY <1>1, EnsureReaperTypes DEF EndLineReap, TypeOK, JobTypes
<1>3. (TableTypes /\ ProcTypes /\ HandlerTypes /\ MainTypes)'
  BY <1>1 DEF EndLineReap, Back, TypeOK, TableTypes, ProcTypes, HandlerTypes,
       MainTypes
<1>4. Lines' /\ Held'
  BY <1>1 DEF EndLineReap, Back, Lines, LineHasJob, SelIsJob, HandlerHasJob,
       Held, HeldNotFresh, KindsKept
<1>5. Groups' /\ Terminal'
  BY <1>1 DEF EndLineReap, Back, Groups, ProcessHasGroup, GroupHasLeader,
       FreshHasNoGroup, Terminal, TerminalHeld, BackgroundOffTerminal
<1> QED BY <1>2, <1>3, <1>4, <1>5 DEF GroupInv, TypeOK

(* fg and EndLine come back to the line or to the prompt.                  *)
LEMMA FgReturnStep ==
  ASSUME GroupInv, FgReturn
  PROVE  GroupInv'
<1> USE Distinct
<1>1. TypeOK /\ Lines /\ Groups /\ Held /\ Terminal
  BY DEF GroupInv
<1>2. (JobTypes /\ TableTypes /\ ProcTypes /\ HandlerTypes)'
  BY <1>1 DEF FgReturn, TakeTerminal, TypeOK, JobTypes, TableTypes, ProcTypes,
       HandlerTypes
<1>3. MainTypes'
  BY <1>1 DEF FgReturn, Back, TypeOK, MainTypes
<1>4. Lines' /\ Held'
  BY <1>1 DEF FgReturn, Back, Lines, LineHasJob, SelIsJob, HandlerHasJob,
       Held, HeldNotFresh, KindsKept
<1>5. Groups'
  BY <1>1 DEF FgReturn, Groups, ProcessHasGroup, GroupHasLeader,
       FreshHasNoGroup
<1>6. Terminal'
  BY <1>1 DEF FgReturn, TakeTerminal, TypeOK, JobTypes, Terminal,
       TerminalHeld, BackgroundOffTerminal
<1> QED BY <1>2, <1>3, <1>4, <1>5, <1>6 DEF GroupInv, TypeOK

(* EndLine: the line's job leaves `current' and becomes the one EndLine    *)
(* works on, so it stays a foreground job in use.                          *)
LEMMA EndLineStep ==
  ASSUME GroupInv, EndLine
  PROVE  GroupInv'
<1> USE Distinct
<1>1. TypeOK /\ Lines /\ Groups /\ Held /\ Terminal /\ current \in Job
  BY DEF GroupInv, EndLine, Lines, LineHasJob
<1>2. (JobTypes /\ TableTypes /\ ProcTypes /\ HandlerTypes)'
  BY <1>1 DEF EndLine, TakeTerminal, TypeOK, JobTypes, TableTypes, ProcTypes,
       HandlerTypes
<1>3. MainTypes'
  BY <1>1 DEF EndLine, TypeOK, MainTypes
<1>4. Lines' /\ Held'
  BY <1>1 DEF EndLine, Lines, LineHasJob, SelIsJob, HandlerHasJob,
       Held, HeldNotFresh, KindsKept
<1>5. Groups'
  BY <1>1 DEF EndLine, Groups, ProcessHasGroup, GroupHasLeader,
       FreshHasNoGroup
<1>6. Terminal'
  BY <1>1 DEF EndLine, TakeTerminal, TypeOK, JobTypes, Terminal,
       TerminalHeld, BackgroundOffTerminal
<1> QED BY <1>2, <1>3, <1>4, <1>5, <1>6 DEF GroupInv, TypeOK

(* A job given back has no group, no handler and no background statement.  *)
LEMMA EndLineEmptyStep ==
  ASSUME GroupInv, EndLineEmpty
  PROVE  GroupInv'
<1> USE Distinct
<1>1. /\ TypeOK /\ Lines /\ Groups /\ Held /\ Terminal
      /\ sel \in Job /\ current \notin Job
  BY DEF GroupInv, EndLineEmpty, Lines, SelIsJob, LineHasJob
<1>2. (JobTypes /\ TableTypes /\ ProcTypes /\ HandlerTypes)'
  BY <1>1 DEF EndLineEmpty, TypeOK, JobTypes, TableTypes, ProcTypes,
       HandlerTypes
<1>3. MainTypes'
  BY <1>1 DEF EndLineEmpty, Back, TypeOK, MainTypes
<1>4. Lines' /\ Terminal'
  BY <1>1 DEF EndLineEmpty, Back, Lines, LineHasJob, SelIsJob, HandlerHasJob,
       Terminal, TerminalHeld, BackgroundOffTerminal
<1>5. Groups'
  BY <1>1 DEF EndLineEmpty, TypeOK, JobTypes, Groups, ProcessHasGroup,
       GroupHasLeader, FreshHasNoGroup
<1>6. Held'
  <2>1. CASE state' = state
    BY <1>1, <2>1 DEF EndLineEmpty, Back, Held, HeldNotFresh, KindsKept
  <2>2. CASE /\ \A p \in Proc : hjob[p] # sel
             /\ state' = [state EXCEPT ![sel] = "Unborn"]
    BY <1>1, <2>2 DEF EndLineEmpty, Back, TypeOK, JobTypes, Held,
         HeldNotFresh, KindsKept
  <2> QED BY <2>1, <2>2 DEF EndLineEmpty
<1> QED BY <1>2, <1>3, <1>4, <1>5, <1>6 DEF GroupInv, TypeOK

(* EndLineDecide: EndLine reads whether it keeps the job, which changes no *)
(* job and no group.                                                       *)
LEMMA EndLineDecideStep ==
  ASSUME GroupInv, EndLineDecide
  PROVE  GroupInv'
<1> USE Distinct
<1>1. TypeOK /\ Lines /\ Groups /\ Held /\ Terminal
  BY DEF GroupInv
<1>2. (JobTypes /\ TableTypes /\ ProcTypes /\ HandlerTypes)'
  BY <1>1 DEF EndLineDecide, TypeOK, JobTypes, TableTypes, ProcTypes,
       HandlerTypes
<1>3. MainTypes'
  <2>1. was' \in BOOLEAN
    BY DEF EndLineDecide
  <2>2. fore' \in BOOLEAN
    BY <1>1 DEF EndLineDecide, Back, TypeOK, MainTypes
  <2>3. /\ pc' \in MainPC /\ todo' \subseteq Offset
        /\ sel' \in Job \cup {NoJob} /\ stale' \in BOOLEAN
    BY <1>1 DEF EndLineDecide, Back, TypeOK, MainTypes
  <2> QED BY <2>1, <2>2, <2>3 DEF MainTypes
<1>4. Lines' /\ Held'
  BY <1>1 DEF EndLineDecide, Back, Lines, LineHasJob, SelIsJob, HandlerHasJob,
       Held, HeldNotFresh, KindsKept
<1>5. Groups' /\ Terminal'
  BY <1>1 DEF EndLineDecide, Back, Groups, ProcessHasGroup, GroupHasLeader,
       FreshHasNoGroup, Terminal, TerminalHeld, BackgroundOffTerminal
<1> QED BY <1>2, <1>3, <1>4, <1>5 DEF GroupInv, TypeOK

(* EndLineFile: the job is filed under its number, or the prompt returns.  *)
LEMMA EndLineFileStep ==
  ASSUME GroupInv, EndLineFile
  PROVE  GroupInv'
<1> USE Distinct
<1>1. TypeOK /\ Lines /\ Groups /\ Held /\ Terminal /\ sel \in Job
  BY DEF GroupInv, EndLineFile, Lines, SelIsJob
<1>2. (JobTypes /\ TableTypes /\ ProcTypes /\ HandlerTypes)'
  BY <1>1 DEF EndLineFile, TypeOK, JobTypes, TableTypes, ProcTypes,
       HandlerTypes
<1>3. MainTypes'
  <2>1. fore' \in BOOLEAN
    BY <1>1 DEF EndLineFile, Back, TypeOK, MainTypes
  <2>2. /\ pc' \in MainPC /\ todo' \subseteq Offset
        /\ sel' \in Job \cup {NoJob} /\ was' \in BOOLEAN /\ stale' \in BOOLEAN
    BY <1>1 DEF EndLineFile, Back, TypeOK, MainTypes
  <2> QED BY <2>1, <2>2 DEF MainTypes
<1>4. Lines' /\ Held'
  BY <1>1 DEF EndLineFile, Back, Lines, LineHasJob, SelIsJob, HandlerHasJob,
       Held, HeldNotFresh, KindsKept
<1>5. Groups' /\ Terminal'
  BY <1>1 DEF EndLineFile, Back, Groups, ProcessHasGroup, GroupHasLeader,
       FreshHasNoGroup, Terminal, TerminalHeld, BackgroundOffTerminal
<1> QED BY <1>2, <1>3, <1>4, <1>5 DEF GroupInv, TypeOK
-----------------------------------------------------------------------------
(* Every step keeps the invariant                                          *)

(* Every step of the specification keeps the invariant, or stutters.       *)
LEMMA GroupInvStep == GroupInv /\ [Next]_vars => GroupInv'
<1> SUFFICES ASSUME GroupInv, [Next]_vars PROVE GroupInv'
  OBVIOUS
<1> USE Distinct
    DEF GroupInv, TypeOK, JobTypes, TableTypes, ProcTypes, HandlerTypes,
        MainTypes, Lines, LineHasJob, SelIsJob, HandlerHasJob, Groups,
        ProcessHasGroup, GroupHasLeader, FreshHasNoGroup, Held, HeldNotFresh,
        KindsKept, Terminal, TerminalHeld, BackgroundOffTerminal
<1>1. ASSUME NEW r \in SUBSET Offset, SetBackgroundRanges(r) PROVE GroupInv'
  BY <1>1 DEF SetBackgroundRanges
<1>2. ASSUME NEW r \in SUBSET Offset, AgentStep(r) PROVE GroupInv'
  BY <1>2 DEF AgentStep
<1>3. ASSUME BeginLine PROVE GroupInv'
  BY <1>3 DEF BeginLine, NewJob
<1>4. ASSUME NEW p \in Proc, LaunchForeground(p) PROVE GroupInv'
  BY <1>4 DEF LaunchForeground, Launch, Positions
<1>5. ASSUME NEW p \in Proc, LaunchSubstitution(p) PROVE GroupInv'
  BY <1>5 DEF LaunchSubstitution, Launch, Positions
<1>6. ASSUME NEW o \in Offset, NEW S \in SUBSET Proc,
             LaunchBackground(o, S)
      PROVE  GroupInv'
  BY <1>6 DEF LaunchBackground, Launch, Positions
<1>7. ASSUME NEW j \in Job, Fg(j) PROVE GroupInv'
  BY <1>7 DEF Fg
<1>8. ASSUME NEW j \in Job, Bg(j) PROVE GroupInv'
  BY <1>8 DEF Bg
<1>9. ASSUME NEW j \in Job, KillJob(j) PROVE GroupInv'
  BY <1>9 DEF KillJob, Continue, Continued, Members
<1>10. ASSUME NEW p \in Proc, DispatchBackground(p) PROVE GroupInv'
  BY <1>10, DispatchBackgroundStep
<1>11. ASSUME NEW p \in Proc, DispatchForeground(p) PROVE GroupInv'
  BY <1>11 DEF DispatchForeground
<1>12. ASSUME NEW p \in Proc, DispatchNext(p) PROVE GroupInv'
  BY <1>12 DEF DispatchNext
<1>13. ASSUME NEW p \in Proc, Start(p) PROVE GroupInv'
  BY <1>13, StartStep
<1>14. ASSUME NEW p \in Proc, StartRefused(p) PROVE GroupInv'
  BY <1>14 DEF StartRefused, Failed
<1>15. ASSUME NEW p \in Proc, StartMissing(p) PROVE GroupInv'
  BY <1>15 DEF StartMissing
<1>16. ASSUME NEW p \in Proc, WaitExit(p) PROVE GroupInv'
  BY <1>16 DEF WaitExit
<1>17. ASSUME NEW p \in Proc, HandlerDone(p) PROVE GroupInv'
  BY <1>17, HandlerDoneStep
<1>18. ASSUME NEW p \in Proc, WaitStop(p) PROVE GroupInv'
  BY <1>18 DEF WaitStop
<1>19. ASSUME NEW p \in Proc, HandlerStopped(p) PROVE GroupInv'
  BY <1>19 DEF HandlerStopped, MarkStopped
<1>20. ASSUME NEW p \in Proc, Return(p) PROVE GroupInv'
  BY <1>20, ReturnStep
<1>21. ASSUME NEW j \in Job, ReapExit(j) PROVE GroupInv'
  BY <1>21, ReapExitStep
<1>22. ASSUME NEW j \in Job, ReaperDone(j) PROVE GroupInv'
  BY <1>22, ReaperDoneStep
<1>23. ASSUME NEW j \in Job, ReaperLoops(j) PROVE GroupInv'
  BY <1>23 DEF ReaperLoops
<1>24. ASSUME NEW j \in Job, ReapStop(j) PROVE GroupInv'
  BY <1>24 DEF ReapStop
<1>25. ASSUME NEW j \in Job, ReaperStopped(j) PROVE GroupInv'
  BY <1>25 DEF ReaperStopped, MarkStopped
<1>26. ASSUME NEW j \in Job, ReapNone(j) PROVE GroupInv'
  BY <1>26 DEF ReapNone
<1>27. ASSUME NEW j \in Job, ReaperGivesUp(j) PROVE GroupInv'
  BY <1>27 DEF ReaperGivesUp
<1>28. ASSUME ResumeSnapshot PROVE GroupInv'
  BY <1>28 DEF ResumeSnapshot
<1>29. ASSUME ResumeContinue PROVE GroupInv'
  BY <1>29 DEF ResumeContinue, Continue, Continued, GivesTerminal,
       GroupExists, Members
<1>30. ASSUME ResumeMark PROVE GroupInv'
  BY <1>30 DEF ResumeMark
<1>31. ASSUME ResumeTakeover PROVE GroupInv'
  BY <1>31, ResumeTakeoverStep
<1>32. ASSUME FgReturn PROVE GroupInv'
  BY <1>32, FgReturnStep
<1>33. ASSUME EndLine PROVE GroupInv'
  BY <1>33, EndLineStep
<1>34. ASSUME EndLineEmpty PROVE GroupInv'
  BY <1>34, EndLineEmptyStep
<1>35. ASSUME EndLineDecide PROVE GroupInv'
  BY <1>35, EndLineDecideStep
<1>36. ASSUME EndLineFile PROVE GroupInv'
  BY <1>36, EndLineFileStep
<1>37. ASSUME EndLineReap PROVE GroupInv'
  BY <1>37, EndLineReapStep
<1>38. ASSUME NEW p \in Proc, Stop(p) PROVE GroupInv'
  BY <1>38 DEF Stop
<1>39. ASSUME NEW p \in Proc, Exit(p) PROVE GroupInv'
  BY <1>39 DEF Exit
<1>40. ASSUME NEW p \in Proc, HandlerTakesTerminal(p) PROVE GroupInv'
  BY <1>40 DEF HandlerTakesTerminal, TakeTerminal
<1>41. CASE UNCHANGED vars
  BY <1>41 DEF vars
<1> QED
  BY <1>1, <1>2, <1>3, <1>4, <1>5, <1>6, <1>7, <1>8, <1>9, <1>10, <1>11,
     <1>12, <1>13, <1>14, <1>15, <1>16, <1>17, <1>18, <1>19, <1>20, <1>21,
     <1>22, <1>23, <1>24, <1>25, <1>26, <1>27, <1>28, <1>29, <1>30, <1>31,
     <1>32, <1>33, <1>34, <1>35, <1>36, <1>37, <1>38, <1>39, <1>40,
     <1>41
  DEF Next, User, Handler, Reaper, Resume, CloseLine, Kernel
-----------------------------------------------------------------------------
(* The theorems                                                            *)

(* The session starts with no job in use and the terminal the shell's.     *)
LEMMA InitGroupInv == Init => GroupInv
<1> SUFFICES ASSUME Init PROVE GroupInv
  OBVIOUS
<1> USE Distinct DEF Init
<1>1. JobTypes
  BY DEF JobTypes
<1>2. TableTypes /\ ProcTypes
  BY DEF TableTypes, ProcTypes
<1>3. HandlerTypes /\ MainTypes
  BY DEF HandlerTypes, MainTypes
<1>4. Lines
  BY DEF Lines, LineHasJob, SelIsJob, HandlerHasJob
<1>5. Groups
  BY DEF Groups, ProcessHasGroup, GroupHasLeader, FreshHasNoGroup
<1>6. Held
  BY DEF Held, HeldNotFresh, KindsKept
<1>7. Terminal
  BY DEF Terminal, TerminalHeld, BackgroundOffTerminal
<1> QED BY <1>1, <1>2, <1>3, <1>4, <1>5, <1>6, <1>7 DEF GroupInv, TypeOK

(* The bookkeeping of process groups is right in every reachable state.    *)
THEOREM GroupInvHolds == Spec => []GroupInv
BY InitGroupInv, GroupInvStep, PTL DEF Spec

(* Every variable keeps its type; in particular the terminal is never      *)
(* given to process group 0.                                               *)
THEOREM TypeCorrect == Spec => []TypeOK
<1>1. GroupInv => TypeOK
  BY DEF GroupInv
<1> QED BY <1>1, GroupInvHolds, PTL

(* Whatever the line holds and whichever goroutine comes first, a job      *)
(* written with & holds the terminal only while fg has given it to it      *)
(* (the switch in spawn, and resume).                                      *)
THEOREM BackgroundKeepsOffTerminal == Spec => []BackgroundOffTerminal
<1>1. GroupInv => BackgroundOffTerminal
  BY DEF GroupInv, Terminal
<1> QED BY <1>1, GroupInvHolds, PTL
-----------------------------------------------------------------------------
(* What plain lines keep                                                   *)

(* Lines of commands one after another, foreground pipelines and single    *)
(* commands with &, whether or not they can be started.                    *)
PlainLines == Features \subseteq {"pipes", "badpath"}

\* The handler is about to start a process or has yet to account for one.
Busy(p) == hpc[p] \in {"spawn", "wait", "exited", "stopped"}

\* A command waits at the exec seam at the position of its own statement, alone there
\* and before its statement has a job.
Placed ==
  /\ ~stale /\ todo \subseteq bgRanges
  /\ \A p \in Proc : hpc[p] = "seam" =>
       IF kind[p] = "bg" THEN at[p] \in bgRanges \ todo /\ bgJobs[at[p]] = NoJob
                         ELSE at[p] = 0
  /\ \A p, q \in Proc :
       hpc[p] = "seam" /\ hpc[q] = "seam" /\ kind[p] = "bg" /\ kind[q] = "bg" /\ at[p] = at[q]
         => p = q
  /\ \A o \in todo : bgJobs[o] = NoJob

\* A command is of the kind of its job, and is a background job's only one.
Sided ==
  /\ \A p \in Proc :
       /\ kind[p] # "subst"
       /\ hpc[p] \in {"none", "seam", "next"} => hjob[p] = NoJob
       /\ hjob[p] \in Job => (kind[p] = "bg" <=> background[hjob[p]])
       /\ hpc[p] = "terminal" => kind[p] = "fg"
  /\ \A p, q \in Proc :
       hjob[p] \in Job /\ background[hjob[p]] /\ hjob[q] = hjob[p] => p = q

\* The line goes on to nothing else while a handler of it is at work.
InLineOnly ==
  \A p \in Proc : Attached(p) => pc = "run" /\ (hpc[p] # "seam" => hjob[p] = current)

\* The line's own job is not listed while it is open, and what fg and EndLine work on
\* is in use.
Filed ==
  /\ \A j \in jobs : ~Fresh(j)
  /\ current \notin jobs
  /\ pc \in {"decide", "file"} => sel \notin jobs
  /\ pc \in {"resume", "continue", "mark", "takeover", "waitchange"} => sel # current /\ ~Fresh(sel)
  /\ pc \in {"file", "reap"} => ~Fresh(sel) /\ ~background[sel]

\* The processes of job j that live is to count, and one for its reaper.
Owes(p, j) ==
  /\ hjob[p] = j /\ pst[p] # "unborn"
  /\ pst[p] \in Unreaped \/ hpc[p] = "exited"
Owed(j) == {p \in Proc : Owes(p, j)}
InHand(j) == IF rpc[j] = "exited" THEN 1 ELSE 0

\* A child is reaped where it is waited for, and accounted for after that.
Counts ==
  /\ LiveCounts
  /\ \A p \in Proc : hpc[p] = "exited" => pst[p] = "gone"
  /\ \A p \in Proc : hpc[p] \in {"wait", "stopped"} => pst[p] \in Unreaped
  /\ \A p \in stopEvt : pst[p] = "stopped"

\* A job has a reaper only while no handler of it is at work and the line has left it;
\* the reaper goes on until nothing is left, and then its job is Done.
ReaperAlone ==
  /\ \A p \in Proc : Busy(p) => rpc[hjob[p]] = "none" /\ ~reaping[hjob[p]]
  /\ \A j \in Job : Fresh(j) \/ LineHolds(j) => rpc[j] = "none" /\ ~reaping[j]
  /\ \A j \in Job :
       IF rpc[j] = "none" THEN ~reaping[j]
       ELSE \/ (reaping[j] /\ state[j] # "Done" /\ live[j] > 0)
            \/ (~reaping[j] /\ state[j] = "Done" /\ live[j] = 0 /\ rpc[j] = "check")
  /\ \A j \in Job : rpc[j] # "echild"

\* What fg and bg resume with a reaper has no handler at work, and a background
\* command is Running until its handler says otherwise.
Resumed ==
  /\ was /\ pc \in {"continue", "mark", "takeover"} =>
        \A p \in Proc : hjob[p] = sel => ~Busy(p)
  /\ \A p \in Proc : Busy(p) /\ background[hjob[p]] => state[hjob[p]] = "Running"

\* What the state of a job says of its processes.
Settled ==
  /\ \A p \in Proc :
       pst[p] \in Unreaped /\ LineHolds(hjob[p]) /\ hpc[p] \notin {"wait", "stopped"}
         => state[hjob[p]] = "Stopped"
  /\ \A j \in Job : state[j] = "Stopped" => live[j] > 0
  /\ \A j \in Job : state[j] = "Done" /\ ~LineHolds(j) => live[j] = 0
  /\ pc \in {"file", "reap"} => state[sel] = "Stopped"
  /\ pc = "file" => was
-----------------------------------------------------------------------------
(* Commands on their way to their job                                      *)

\* What plain lines rule out of the launches.
LEMMA Plain ==
  ASSUME PlainLines
  PROVE  /\ \A o \in Offset : ~stale => Positions(o) = {o}
         /\ ~stale => Positions(0) = {0}
         /\ ~("late" \in Features) /\ ~("agent" \in Features) /\ ~("subst" \in Features)
         /\ ~("functions" \in Features) /\ ~("bgpipes" \in Features)
BY DEF PlainLines, Positions

\* A background statement of a plain line has one command at most.
LEMMA AtMostOne ==
  ASSUME NEW S \in SUBSET Proc, Cardinality(S) <= 1
  PROVE  \A p, q \in S : p = q
<1>1. IsFiniteSet(S)
  BY ConstantsAssumption, FS_Subset DEF ConstantsAssumption
<1>2. Cardinality(S) = 0 \/ Cardinality(S) = 1
  BY <1>1, FS_CardinalityType
<1>3. CASE Cardinality(S) = 0
  BY <1>1, <1>3, FS_EmptySet
<1>4. CASE Cardinality(S) = 1
  <2>1. \E x : S = {x}
    BY <1>1, <1>4, FS_Singleton
  <2> QED BY <2>1
<1> QED BY <1>2, <1>3, <1>4

\* Every step keeps the places of the commands that wait at the exec seam.
LEMMA PlacedStep == ASSUME PlainLines PROVE GroupInv /\ Placed /\ [Next]_vars => Placed'
<1> SUFFICES ASSUME PlainLines, GroupInv, Placed, [Next]_vars PROVE Placed'
  OBVIOUS
<1>1. /\ hpc \in [Proc -> HandlerPC] /\ kind \in [Proc -> {"fg", "bg", "subst"}]
      /\ at \in [Proc -> Offset \cup {0}] /\ bgJobs \in [Offset -> Job \cup {NoJob}]
      /\ bgRanges \subseteq Offset /\ todo \subseteq Offset /\ 0 \notin Offset /\ NoJob \notin Job
  BY Distinct DEF GroupInv, TypeOK, HandlerTypes, TableTypes, MainTypes
<1>2. ASSUME NEW r \in SUBSET Offset, SetBackgroundRanges(r) PROVE Placed'
  <2>1. \A p \in Proc : kind[p] = "bg" => hpc[p] # "seam"
    BY <1>2, Plain DEF SetBackgroundRanges, BackgroundArrived
  <2> QED BY <1>1, <1>2, <2>1 DEF SetBackgroundRanges, Placed
<1>3. ASSUME NEW r \in SUBSET Offset, AgentStep(r) PROVE Placed'
  BY <1>3, Plain DEF AgentStep
<1>4. ASSUME NEW p \in Proc, LaunchForeground(p) \/ LaunchSubstitution(p) PROVE Placed'
  <2>1. /\ hpc' = [q \in Proc |-> IF q \in {p} THEN "seam" ELSE hpc[q]]
        /\ kind' = [q \in Proc |-> IF q \in {p} THEN "fg" ELSE kind[q]]
        /\ at' = [q \in Proc |-> IF q \in {p} THEN 0 ELSE at[q]]
        /\ UNCHANGED <<stale, todo, bgRanges, bgJobs>>
    BY <1>4, Plain DEF LaunchForeground, LaunchSubstitution, Launch, Placed
  <2> QED BY <1>1, <2>1 DEF Placed
<1>5. ASSUME NEW o \in Offset, NEW S \in SUBSET Proc, LaunchBackground(o, S) PROVE Placed'
  <2>1. /\ hpc' = [q \in Proc |-> IF q \in S THEN "seam" ELSE hpc[q]]
        /\ kind' = [q \in Proc |-> IF q \in S THEN "bg" ELSE kind[q]]
        /\ at' = [q \in Proc |-> IF q \in S THEN o ELSE at[q]]
        /\ o \in todo /\ todo' = todo \ {o}
        /\ UNCHANGED <<stale, bgRanges, bgJobs>>
    BY <1>5, Plain DEF LaunchBackground, Launch, Placed
  <2>2. \A p, q \in S : p = q
    BY <1>5, Plain, AtMostOne DEF LaunchBackground
  <2> QED BY <1>1, <2>1, <2>2 DEF Placed
<1>6. ASSUME NEW p \in Proc, DispatchBackground(p) PROVE Placed'
  <2>1. /\ kind[p] = "bg" /\ at[p] \in bgRanges \ todo /\ bgJobs[at[p]] = NoJob
        /\ hpc[p] = "seam"
    BY <1>1, <1>6 DEF DispatchBackground, InBackground, Placed
  <2>2. PICK j \in Job : bgJobs' = [bgJobs EXCEPT ![at[p]] = j]
    BY <1>6, <2>1 DEF DispatchBackground
  <2>3. /\ hpc' = [hpc EXCEPT ![p] = "spawn"] /\ at' = [at EXCEPT ![p] = 0]
        /\ UNCHANGED <<stale, todo, bgRanges, kind>>
    BY <1>6 DEF DispatchBackground
  <2> QED BY <1>1, <2>1, <2>2, <2>3 DEF Placed
<1>7. ASSUME NEW p \in Proc, Handler(p), ~DispatchBackground(p) PROVE Placed'
  <2>1. /\ \A q \in Proc : hpc'[q] = "seam" => hpc[q] = "seam" /\ at'[q] = at[q]
        /\ UNCHANGED <<kind, stale, todo, bgRanges, bgJobs>>
    BY <1>1, <1>7 DEF Handler, DispatchForeground, DispatchNext, Start, StartRefused, StartMissing,
       WaitExit, HandlerDone, WaitStop, HandlerStopped, HandlerTakesTerminal, Return
  <2> QED BY <2>1 DEF Placed
<1>8. ASSUME \/ BeginLine \/ Resume \/ CloseLine \/ Kernel \/ UNCHANGED vars
             \/ \E j \in Job : Reaper(j) \/ Fg(j) \/ Bg(j) \/ KillJob(j)
      PROVE  Placed'
  <2>1. /\ UNCHANGED <<hpc, at, kind, todo, bgRanges, bgJobs>>
        /\ stale' = stale \/ stale' = FALSE
    BY <1>8 DEF BeginLine, Resume, ResumeSnapshot, ResumeContinue, ResumeMark, ResumeTakeover,
       FgReturn, CloseLine, EndLine, EndLineEmpty, EndLineDecide, EndLineFile, EndLineReap, Kernel,
       Stop, Exit, vars, Reaper, ReapExit, ReaperDone, ReaperLoops, ReapStop, ReaperStopped,
       ReapNone, ReaperGivesUp, Fg, Bg, KillJob
  <2> QED BY <2>1 DEF Placed
<1> QED
  BY <1>2, <1>3, <1>4, <1>5, <1>6, <1>7, <1>8 DEF Next, User

\* A job in use stays in use and of its kind, but for an empty one that EndLine gives back.
LEMMA InUse ==
  ASSUME GroupInv, [Next]_vars, NEW k \in Job, ~Fresh(k)
  PROVE  background'[k] = background[k] /\ (~Fresh(k)' \/ (EndLineEmpty /\ k = sel))
<1>1. /\ state \in [Job -> {"Unborn", "Running", "Stopped", "Done"}]
      /\ background \in [Job -> BOOLEAN]
  BY DEF GroupInv, TypeOK, JobTypes
<1>2. ASSUME NEW j \in Job, ProcDone(j) PROVE ~Fresh(k)'
  BY <1>1, <1>2 DEF ProcDone
<1>3. ASSUME NEW j \in Job, NEW bg \in BOOLEAN, NewJob(j, bg)
      PROVE  background'[k] = background[k] /\ ~Fresh(k)'
  BY <1>1, <1>3 DEF NewJob
<1>4. ASSUME NEW p \in Proc, Handler(p) PROVE background'[k] = background[k] /\ ~Fresh(k)'
  <2>1. CASE DispatchBackground(p)
    BY <1>1, <1>3, <2>1 DEF DispatchBackground
  <2>2. CASE HandlerDone(p)
    <3>1. hjob[p] \in Job
      BY <2>2 DEF HandlerDone, GroupInv, Lines, HandlerHasJob
    <3> QED BY <1>2, <2>2, <3>1 DEF HandlerDone
  <2>3. CASE HandlerStopped(p)
    BY <1>1, <2>3 DEF HandlerStopped, MarkStopped
  <2>4. CASE ~DispatchBackground(p) /\ ~HandlerDone(p) /\ ~HandlerStopped(p)
    BY <1>4, <2>4 DEF Handler, DispatchForeground, DispatchNext, Start, StartRefused, StartMissing,
       WaitExit, WaitStop, HandlerTakesTerminal, Return
  <2> QED BY <2>1, <2>2, <2>3, <2>4
<1>5. ASSUME NEW j \in Job, Reaper(j) PROVE background'[k] = background[k] /\ ~Fresh(k)'
  <2>1. CASE ReaperDone(j)
    BY <1>2, <2>1 DEF ReaperDone
  <2>2. CASE ~ReaperDone(j)
    BY <1>1, <1>5, <2>2 DEF Reaper, ReapExit, ReaperLoops, ReapStop, ReaperStopped, MarkStopped,
       ReapNone, ReaperGivesUp
  <2> QED BY <2>1, <2>2
<1>6. ASSUME BeginLine \/ Resume \/ CloseLine
      PROVE  background'[k] = background[k] /\ (~Fresh(k)' \/ (EndLineEmpty /\ k = sel))
  <2>1. CASE BeginLine
    BY <1>3, <2>1 DEF BeginLine
  <2>2. CASE Resume
    BY <1>1, <2>2 DEF Resume, ResumeSnapshot, ResumeContinue, ResumeMark, ResumeTakeover, FgReturn
  <2>3. CASE CloseLine
    BY <1>1, <2>3 DEF CloseLine, EndLine, EndLineEmpty, EndLineDecide, EndLineFile, EndLineReap
  <2> QED BY <1>6, <2>1, <2>2, <2>3
<1>7. ASSUME User, ~BeginLine PROVE background'[k] = background[k] /\ ~Fresh(k)'
  BY <1>7 DEF User, SetBackgroundRanges, AgentStep, LaunchForeground, LaunchSubstitution,
     LaunchBackground, Launch, Fg, Bg, KillJob
<1>8. ASSUME Kernel \/ UNCHANGED vars PROVE background'[k] = background[k] /\ ~Fresh(k)'
  BY <1>8 DEF Kernel, Stop, Exit, vars
<1> QED BY <1>4, <1>5, <1>6, <1>7, <1>8 DEF Next

\* Every step keeps foreground and background apart.
LEMMA SidedStep == ASSUME PlainLines PROVE GroupInv /\ Placed /\ Sided /\ [Next]_vars => Sided'
<1> SUFFICES ASSUME PlainLines, GroupInv, Placed, Sided, [Next]_vars PROVE Sided'
  OBVIOUS
<1>1. /\ hpc \in [Proc -> HandlerPC] /\ kind \in [Proc -> {"fg", "bg", "subst"}]
      /\ hjob \in [Proc -> Job \cup {NoJob}] /\ NoJob \notin Job
      /\ background \in [Job -> BOOLEAN] /\ state \in [Job -> {"Unborn", "Running", "Stopped", "Done"}]
      /\ at \in [Proc -> Offset \cup {0}] /\ bgRanges \subseteq Offset /\ 0 \notin Offset
  BY Distinct DEF GroupInv, TypeOK, HandlerTypes, JobTypes, TableTypes
<1>2. \A p \in Proc : hjob[p] \in Job => ~Fresh(hjob[p])
  BY DEF GroupInv, Held, HeldNotFresh
<1>3. \A k \in Job : ~Fresh(k) => background'[k] = background[k]
  BY InUse
<1>4. ASSUME NEW p \in Proc, LaunchForeground(p) \/ LaunchSubstitution(p) PROVE Sided'
  <2>1. /\ hpc[p] = "none" /\ hpc' = [q \in Proc |-> IF q \in {p} THEN "seam" ELSE hpc[q]]
        /\ kind' = [q \in Proc |-> IF q \in {p} THEN "fg" ELSE kind[q]]
        /\ UNCHANGED <<hjob, background>>
    BY <1>4, Plain DEF LaunchForeground, LaunchSubstitution, Launch
  <2> QED BY <1>1, <2>1 DEF Sided
<1>5. ASSUME NEW o \in Offset, NEW S \in SUBSET Proc, LaunchBackground(o, S) PROVE Sided'
  <2>1. /\ \A q \in S : hpc[q] = "none"
        /\ hpc' = [q \in Proc |-> IF q \in S THEN "seam" ELSE hpc[q]]
        /\ kind' = [q \in Proc |-> IF q \in S THEN "bg" ELSE kind[q]]
        /\ UNCHANGED <<hjob, background>>
    BY <1>5 DEF LaunchBackground, Launch
  <2> QED BY <1>1, <2>1 DEF Sided
<1>6. ASSUME NEW p \in Proc, DispatchBackground(p) PROVE Sided'
  <2>1. /\ kind[p] = "bg" /\ bgJobs[at[p]] = NoJob /\ hpc[p] = "seam"
    BY <1>1, <1>6 DEF DispatchBackground, InBackground, Placed
  <2>2. PICK j \in Job : NewJob(j, TRUE) /\ hjob' = [hjob EXCEPT ![p] = j]
    BY <1>6, <2>1 DEF DispatchBackground
  <2>3. /\ hpc' = [hpc EXCEPT ![p] = "spawn"] /\ kind' = kind
        /\ background'[j] /\ \A q \in Proc : hjob[q] # j
    BY <1>1, <1>2, <1>6, <2>2 DEF DispatchBackground, NewJob
  <2> QED BY <1>1, <1>2, <1>3, <2>1, <2>2, <2>3 DEF Sided
<1>7. ASSUME NEW p \in Proc, DispatchForeground(p) PROVE Sided'
  <2>1. /\ kind[p] # "bg" /\ hpc[p] = "seam" /\ current \in Job /\ ~background[current]
    BY <1>7 DEF DispatchForeground, InBackground, Placed, GroupInv, TypeOK, TableTypes, Held, KindsKept
  <2>2. /\ hpc' = [hpc EXCEPT ![p] = "spawn"] /\ hjob' = [hjob EXCEPT ![p] = current]
        /\ UNCHANGED <<kind, background>>
    BY <1>7 DEF DispatchForeground
  <2> QED BY <1>1, <2>1, <2>2 DEF Sided
<1>8. ASSUME NEW p \in Proc, HandlerStopped(p) PROVE Sided'
  <2>1. hjob[p] \in Job
    BY <1>8 DEF HandlerStopped, GroupInv, Lines, HandlerHasJob
  <2>2. /\ hpc' = [hpc EXCEPT ![p] = IF background[hjob[p]] THEN "return" ELSE "terminal"]
        /\ hpc[p] = "stopped" /\ UNCHANGED <<kind, hjob, background>>
    BY <1>8 DEF HandlerStopped
  <2> QED BY <1>1, <2>1, <2>2 DEF Sided
<1>9. ASSUME NEW p \in Proc, Handler(p), ~DispatchBackground(p), ~DispatchForeground(p),
             ~HandlerStopped(p)
      PROVE  Sided'
  <2>1. /\ \A q \in Proc :
             /\ hpc'[q] \in {"none", "seam", "next"} => hpc[q] \in {"none", "seam", "next"}
             /\ hpc'[q] = "terminal" => hpc[q] = "terminal"
        /\ UNCHANGED <<kind, hjob, background>>
    BY <1>1, <1>9 DEF Handler, DispatchNext, Start, StartRefused, StartMissing,
       WaitExit, HandlerDone, WaitStop, HandlerTakesTerminal, Return
  <2> QED BY <2>1 DEF Sided
<1>10. ASSUME UNCHANGED <<hpc, kind, hjob>> PROVE Sided'
  BY <1>1, <1>2, <1>3, <1>10 DEF Sided
<1>11. ASSUME \/ BeginLine \/ Resume \/ CloseLine \/ Kernel \/ UNCHANGED vars
              \/ \E j \in Job : Reaper(j) \/ Fg(j) \/ Bg(j) \/ KillJob(j)
              \/ \E r \in SUBSET Offset : SetBackgroundRanges(r) \/ AgentStep(r)
      PROVE  UNCHANGED <<hpc, kind, hjob>>
  BY <1>11 DEF BeginLine, Resume, ResumeSnapshot, ResumeContinue, ResumeMark, ResumeTakeover,
       FgReturn, CloseLine, EndLine, EndLineEmpty, EndLineDecide, EndLineFile, EndLineReap, Kernel,
       Stop, Exit, vars, Reaper, ReapExit, ReaperDone, ReaperLoops, ReapStop, ReaperStopped,
       ReapNone, ReaperGivesUp, Fg, Bg, KillJob, SetBackgroundRanges, AgentStep
<1> QED
  BY <1>4, <1>5, <1>6, <1>7, <1>8, <1>9, <1>10, <1>11 DEF Next, User

\* Every step keeps the handlers of the line within it.
LEMMA InLineStep ==
  ASSUME PlainLines PROVE GroupInv /\ Placed /\ Sided /\ InLineOnly /\ [Next]_vars => InLineOnly'
<1> SUFFICES ASSUME PlainLines, GroupInv, Placed, Sided, InLineOnly, [Next]_vars PROVE InLineOnly'
  OBVIOUS
<1> DEFINE Working == {"seam", "spawn", "wait", "exited", "stopped", "terminal"}
<1>1. /\ hpc \in [Proc -> HandlerPC] /\ kind \in [Proc -> {"fg", "bg", "subst"}]
      /\ hjob \in [Proc -> Job \cup {NoJob}]
  BY DEF GroupInv, TypeOK, HandlerTypes
<1>2. ASSUME NEW p \in Proc, LaunchForeground(p) \/ LaunchSubstitution(p) PROVE InLineOnly'
  <2>1. /\ hpc' = [q \in Proc |-> IF q \in {p} THEN "seam" ELSE hpc[q]]
        /\ kind' = [q \in Proc |-> IF q \in {p} THEN "fg" ELSE kind[q]]
        /\ pc = "run" /\ UNCHANGED <<pc, hjob, current>>
    BY <1>2, Plain DEF LaunchForeground, LaunchSubstitution, Launch
  <2> QED BY <1>1, <2>1 DEF InLineOnly, Attached
<1>3. ASSUME NEW o \in Offset, NEW S \in SUBSET Proc, LaunchBackground(o, S) PROVE InLineOnly'
  <2>1. /\ hpc' = [q \in Proc |-> IF q \in S THEN "seam" ELSE hpc[q]]
        /\ kind' = [q \in Proc |-> IF q \in S THEN "bg" ELSE kind[q]]
        /\ UNCHANGED <<pc, hjob, current>>
    BY <1>3 DEF LaunchBackground, Launch
  <2> QED BY <1>1, <2>1 DEF InLineOnly, Attached
<1>4. ASSUME NEW p \in Proc, DispatchBackground(p) PROVE InLineOnly'
  <2>1. kind[p] = "bg"
    BY <1>1, <1>4, Distinct DEF DispatchBackground, InBackground, Placed, GroupInv, TypeOK, TableTypes
  <2>2. \E j \in Job : hjob' = [hjob EXCEPT ![p] = j]
    <3>1. at[p] \in Offset /\ bgJobs \in [Offset -> Job \cup {NoJob}]
      BY <1>4 DEF DispatchBackground, InBackground, GroupInv, TypeOK, TableTypes
    <3> QED BY <1>4, <3>1 DEF DispatchBackground
  <2>3. hpc' = [hpc EXCEPT ![p] = "spawn"] /\ UNCHANGED <<pc, kind, current>>
    BY <1>4 DEF DispatchBackground, mainVars
  <2> QED BY <1>1, <2>1, <2>2, <2>3 DEF InLineOnly, Attached
<1>5. ASSUME NEW p \in Proc, DispatchForeground(p) PROVE InLineOnly'
  <2>1. /\ hpc' = [hpc EXCEPT ![p] = "spawn"] /\ hjob' = [hjob EXCEPT ![p] = current]
        /\ hpc[p] = "seam" /\ UNCHANGED <<pc, kind, current>>
    BY <1>5 DEF DispatchForeground, mainVars
  <2> QED BY <1>1, <2>1 DEF InLineOnly, Attached
<1>6. ASSUME NEW p \in Proc, Handler(p), ~DispatchBackground(p), ~DispatchForeground(p)
      PROVE  InLineOnly'
  <2>1. /\ \A q \in Proc : hpc'[q] \in Working =>
              hpc[q] \in Working /\ (hpc[q] = "seam" => hpc'[q] = "seam")
        /\ UNCHANGED <<pc, kind, hjob, current>>
    BY <1>1, <1>6 DEF Handler, DispatchNext, Start, StartRefused, StartMissing,
       WaitExit, HandlerDone, WaitStop, HandlerStopped, HandlerTakesTerminal, Return, mainVars
  <2> QED BY <2>1 DEF InLineOnly, Attached
<1>7. ASSUME UNCHANGED <<hpc, kind, hjob>>, \/ UNCHANGED <<pc, current>>
                                            \/ Idle
                                            \/ pc # "run"
      PROVE  InLineOnly'
  BY <1>7 DEF InLineOnly, Attached, Idle
<1>8. ASSUME \/ BeginLine \/ Resume \/ CloseLine \/ Kernel \/ UNCHANGED vars
             \/ \E j \in Job : Reaper(j) \/ Fg(j) \/ Bg(j) \/ KillJob(j)
             \/ \E r \in SUBSET Offset : SetBackgroundRanges(r) \/ AgentStep(r)
      PROVE  /\ UNCHANGED <<hpc, kind, hjob>>
             /\ UNCHANGED <<pc, current>> \/ Idle \/ pc # "run"
  BY <1>8 DEF BeginLine, Resume, ResumeSnapshot, ResumeContinue, ResumeMark, ResumeTakeover,
       FgReturn, CloseLine, EndLine, EndLineEmpty, EndLineDecide, EndLineFile, EndLineReap, Kernel,
       Stop, Exit, vars, Reaper, ReapExit, ReaperDone, ReaperLoops, ReapStop, ReaperStopped,
       ReapNone, ReaperGivesUp, Fg, Bg, KillJob, SetBackgroundRanges, AgentStep
<1> QED BY <1>2, <1>3, <1>4, <1>5, <1>6, <1>7, <1>8 DEF Next, User

\* Every step keeps the job of the line off the list until EndLine files it.
LEMMA FiledStep == GroupInv /\ Filed /\ [Next]_vars => Filed'
<1> SUFFICES ASSUME GroupInv, Filed, [Next]_vars PROVE Filed'
  OBVIOUS
<1>1. /\ state \in [Job -> {"Unborn", "Running", "Stopped", "Done"}]
      /\ jobs \subseteq Job /\ current \in Job \cup {NoJob} /\ NoJob \notin Job
      /\ sel \in Job \cup {NoJob} /\ (pc \notin {"prompt", "ready", "run"} => sel \in Job)
      /\ background \in [Job -> BOOLEAN]
      /\ current \in Job <=> pc \in InLine
  BY Distinct DEF GroupInv, TypeOK, JobTypes, TableTypes, MainTypes, Lines, SelIsJob, LineHasJob
<1>2. /\ current \in Job => ~Fresh(current)
      /\ pc = "decide" => ~Fresh(sel) /\ ~background[sel]
  BY DEF GroupInv, Held, HeldNotFresh, KindsKept
<1>3. \A k \in Job : ~Fresh(k) => background'[k] = background[k]
                                 /\ (~Fresh(k)' \/ (EndLineEmpty /\ k = sel))
  BY InUse
<1>4. ASSUME jobs' \subseteq jobs, UNCHANGED <<current, pc, sel>> PROVE Filed'
  <2>1. ~EndLineEmpty
    BY <1>4 DEF EndLineEmpty, Back
  <2> QED BY <1>1, <1>3, <1>4, <2>1 DEF Filed
<1>5. ASSUME NEW p \in Proc, DispatchBackground(p) PROVE Filed'
  <2>1. CASE UNCHANGED jobs
    BY <1>4, <1>5, <2>1 DEF DispatchBackground
  <2>2. CASE \E j \in Job : NewJob(j, TRUE) /\ jobs' = jobs \cup {j}
    <3> PICK j \in Job : NewJob(j, TRUE) /\ jobs' = jobs \cup {j}
      BY <2>2
    <3>1. Fresh(j) /\ ~Fresh(j)' /\ UNCHANGED <<current, pc, sel>>
      BY <1>1, <1>5 DEF NewJob, DispatchBackground, mainVars
    <3>2. ~EndLineEmpty
      BY <3>1 DEF EndLineEmpty, Back
    <3> QED BY <1>1, <1>2, <1>3, <3>1, <3>2 DEF Filed
  <2> QED BY <1>5, <2>1, <2>2 DEF DispatchBackground
<1>6. ASSUME NEW p \in Proc, Handler(p), ~DispatchBackground(p) PROVE Filed'
  <2>1. jobs' \subseteq jobs /\ UNCHANGED <<current, pc, sel>>
    BY <1>6 DEF Handler, DispatchForeground, DispatchNext, Start, StartRefused, StartMissing, Removed,
       WaitExit, HandlerDone, ProcDone, WaitStop, HandlerStopped, HandlerTakesTerminal, Return
  <2> QED BY <1>4, <2>1
<1>7. ASSUME \/ Kernel \/ UNCHANGED vars
             \/ \E j \in Job : Reaper(j) \/ KillJob(j)
             \/ \E p \in Proc : LaunchForeground(p) \/ LaunchSubstitution(p)
             \/ \E o \in Offset, S \in SUBSET Proc : LaunchBackground(o, S)
      PROVE  Filed'
  <2>1. jobs' \subseteq jobs /\ UNCHANGED <<current, pc, sel>>
    BY <1>7 DEF Kernel, Stop, Exit, vars, Reaper, ReapExit, ReaperDone, ProcDone, Removed,
       ReaperLoops, ReapStop, ReaperStopped, ReapNone, ReaperGivesUp, KillJob,
       LaunchForeground, LaunchSubstitution, LaunchBackground, Launch
  <2> QED BY <1>4, <2>1
<1>8. ASSUME \E r \in SUBSET Offset : SetBackgroundRanges(r) \/ AgentStep(r) PROVE Filed'
  BY <1>1, <1>8 DEF SetBackgroundRanges, AgentStep, Filed
<1>9. ASSUME BeginLine PROVE Filed'
  BY <1>1, <1>9 DEF BeginLine, NewJob, Filed
<1>10. ASSUME NEW j \in Job, Fg(j) \/ Bg(j) PROVE Filed'
  BY <1>1, <1>10 DEF Fg, Bg, Filed
<1>11. ASSUME Resume PROVE Filed'
  <2>1. /\ UNCHANGED <<jobs, current>> /\ ~EndLineEmpty
        /\ pc \in {"resume", "continue", "mark", "takeover", "waitchange"}
        /\ \/ pc' = "run"
           \/ sel' = sel /\ pc' \in {"resume", "continue", "mark", "takeover", "waitchange"}
    BY <1>11 DEF Resume, ResumeSnapshot, ResumeContinue, ResumeMark, ResumeTakeover, FgReturn, Back,
       EndLineEmpty
  <2> QED BY <1>1, <1>3, <2>1 DEF Filed
<1>12. ASSUME EndLine PROVE Filed'
  BY <1>1, <1>12 DEF EndLine, Filed
<1>13. ASSUME EndLineEmpty PROVE Filed'
  BY <1>1, <1>13 DEF EndLineEmpty, Back, Filed
<1>14. ASSUME EndLineDecide PROVE Filed'
  <2>1. UNCHANGED <<jobs, current, state, background>> /\ pc = "decide"
        /\ (pc' = "prompt" \/ (pc' = "file" /\ sel' = sel))
    BY <1>14 DEF EndLineDecide, Back
  <2> QED BY <1>1, <1>2, <2>1 DEF Filed
<1>15. ASSUME EndLineFile PROVE Filed'
  <2>1. /\ jobs' = jobs \cup {sel} /\ UNCHANGED <<current, state, background>> /\ pc = "file"
        /\ pc' = "prompt" \/ (pc' = "reap" /\ sel' = sel)
    BY <1>15 DEF EndLineFile, Back
  <2> QED BY <1>1, <2>1 DEF Filed
<1>16. ASSUME EndLineReap PROVE Filed'
  BY <1>1, <1>16 DEF EndLineReap, Back, Filed
<1> QED
  BY <1>5, <1>6, <1>7, <1>8, <1>9, <1>10, <1>11, <1>12, <1>13, <1>14, <1>15, <1>16
  DEF Next, User, CloseLine
-----------------------------------------------------------------------------
(* What live counts                                                        *)

(* Counting                                                                *)

\* What live is compared with is the size of a finite set.
LEMMA OwedFinite ==
  ASSUME NEW j
  PROVE  /\ Unaccounted(j) = Cardinality(Owed(j)) + InHand(j) /\ IsFiniteSet(Owed(j))
         /\ Unaccounted(j)' = Cardinality(Owed(j)') + InHand(j)' /\ IsFiniteSet(Owed(j)')
<1>1. IsFiniteSet(Proc)
  BY ConstantsAssumption DEF ConstantsAssumption
<1>2. IsFiniteSet(Owed(j)) /\ IsFiniteSet(Owed(j)')
  <2>1. Owed(j) \in SUBSET Proc /\ Owed(j)' \in SUBSET Proc
    BY DEF Owed
  <2> QED BY <1>1, <2>1, FS_Subset
<1>3. /\ {p \in Members(j) : pst[p] \in Unreaped \/ hpc[p] = "exited"} = Owed(j)
      /\ {p \in Members(j)' : pst'[p] \in Unreaped \/ hpc'[p] = "exited"} = Owed(j)'
  BY DEF Members, Owed, Owes
<1> QED BY <1>2, <1>3 DEF Unaccounted, InHand

\* The step leaves the count as it is.
LEMMA CountSame ==
  ASSUME NEW k, live[k] = Unaccounted(k), live'[k] = live[k],
         rpc'[k] = "exited" <=> rpc[k] = "exited",
         \A p \in Proc : Owes(p, k)' <=> Owes(p, k)
  PROVE  live'[k] = Unaccounted(k)'
<1>1. Owed(k)' = Owed(k) /\ InHand(k)' = InHand(k)
  BY DEF Owed, InHand
<1> QED BY <1>1, OwedFinite

\* A process is counted.
LEMMA CountMore ==
  ASSUME NEW k, live[k] = Unaccounted(k), live'[k] = live[k] + 1, InHand(k)' = InHand(k),
         NEW q \in Proc, ~Owes(q, k), \A p \in Proc : Owes(p, k)' <=> Owes(p, k) \/ p = q
  PROVE  live'[k] = Unaccounted(k)'
<1>1. Owed(k)' = Owed(k) \cup {q} /\ q \notin Owed(k)
  BY DEF Owed
<1>2. Cardinality(Owed(k)') = Cardinality(Owed(k)) + 1
  BY <1>1, OwedFinite, FS_AddElement
<1>3. Cardinality(Owed(k)) \in Nat /\ InHand(k) \in Nat
  BY OwedFinite, FS_CardinalityType DEF InHand
<1> QED BY <1>2, <1>3, OwedFinite

\* A process is no longer counted for itself.
LEMMA OneFewer ==
  ASSUME NEW k, NEW q \in Proc, Owes(q, k), \A p \in Proc : Owes(p, k)' <=> Owes(p, k) /\ p # q
  PROVE  Cardinality(Owed(k)') = Cardinality(Owed(k)) - 1
<1>1. Owed(k)' = Owed(k) \ {q} /\ q \in Owed(k)
  BY DEF Owed
<1> QED BY <1>1, OwedFinite, FS_RemoveElement

\* It is never negative.
LEMMA CountIsNat ==
  ASSUME NEW k PROVE Unaccounted(k) \in Nat /\ Cardinality(Owed(k)) \in Nat
BY OwedFinite, FS_CardinalityType DEF InHand

\* Who is owed is counted.
LEMMA OwedCounts == ASSUME NEW k, NEW p \in Proc, Owes(p, k) PROVE Unaccounted(k) > 0
<1>1. Owed(k) # {}
  BY DEF Owed
<1>2. Cardinality(Owed(k)) # 0 /\ Cardinality(Owed(k)) \in Nat
  BY <1>1, OwedFinite, FS_EmptySet, FS_CardinalityType
<1> QED BY <1>2, OwedFinite DEF InHand

\* And a count has somebody that is owed.
LEMMA CountedIsOwed ==
  ASSUME NEW k, Unaccounted(k) # 0, rpc[k] # "exited" PROVE \E p \in Proc : Owes(p, k)
<1>1. SUFFICES ASSUME Owed(k) = {} PROVE FALSE
  BY DEF Owed
<1>2. Cardinality(Owed(k)) = 0
  BY <1>1, FS_EmptySet
<1> QED BY <1>2, OwedFinite DEF InHand

\* A reaper that waits has a process to wait for.
LEMMA ReaperHasProcess ==
  ASSUME GroupInv, Counts, ReaperAlone, NEW j \in Job, rpc[j] \in {"wait", "stopped"}
  PROVE  GroupExists(j)
<1>1. live[j] > 0 /\ rpc[j] # "exited"
  BY DEF ReaperAlone
<1>2. PICK p \in Proc : Owes(p, j)
  BY <1>1, CountedIsOwed DEF Counts, LiveCounts
<1>3. hpc[p] # "exited"
  BY <1>2 DEF ReaperAlone, Busy, Owes
<1> QED BY <1>2, <1>3 DEF GroupExists, Members, Owes

\* When a reaper becomes due, none is there.
LEMMA DueIsNone ==
  ASSUME ReaperAlone, NEW j \in Job, ReaperDue(j) PROVE rpc[j] = "none"
BY DEF ReaperAlone, ReaperDue

\* Starting a reaper leaves the statuses that reapers have in hand.
LEMMA EnsureKeepsHand ==
  ASSUME GroupInv, ReaperAlone, NEW j \in Job, NEW k \in Job,
         EnsureReaper(j) \/ UNCHANGED rpc
  PROVE  rpc'[k] = "exited" <=> rpc[k] = "exited"
BY DueIsNone DEF EnsureReaper, GroupInv, TypeOK, JobTypes

\* The moves of the processes: what is said of a child that is waited for.
Children ==
  /\ \A p \in Proc : hpc[p] = "exited" => pst[p] = "gone"
  /\ \A p \in Proc : hpc[p] \in {"wait", "stopped"} => pst[p] \in Unreaped
  /\ \A p \in stopEvt : pst[p] = "stopped"

\* Every step keeps what is said of a child that is waited for.
LEMMA ChildrenStep == GroupInv /\ Counts /\ ReaperAlone /\ [Next]_vars => Children'
<1> SUFFICES ASSUME GroupInv, Counts, ReaperAlone, [Next]_vars PROVE Children'
  OBVIOUS
<1> USE DEF Unreaped
<1>1. /\ hpc \in [Proc -> HandlerPC] /\ stopEvt \subseteq Proc
      /\ pst \in [Proc -> {"unborn", "running", "stopped", "zombie", "gone"}]
      /\ Children
  BY DEF GroupInv, TypeOK, HandlerTypes, ProcTypes, Counts, Children
<1>2. ASSUME NEW p \in Proc, Start(p) PROVE Children'
  <2>1. pst[p] = "unborn"
    BY <1>1, <1>2 DEF Start, GroupInv, Groups, ProcessHasGroup
  <2> QED BY <1>1, <1>2, <2>1 DEF Start, Children
<1>3. ASSUME NEW p \in Proc, WaitExit(p) PROVE Children'
  BY <1>1, <1>3 DEF WaitExit, Children
<1>4. ASSUME NEW p \in Proc, WaitStop(p) PROVE Children'
  BY <1>1, <1>4 DEF WaitStop, Children
<1>5. ASSUME NEW p \in Proc, Handler(p), ~Start(p), ~WaitExit(p), ~WaitStop(p) PROVE Children'
  <2>1. /\ \A q \in Proc : /\ hpc'[q] = "exited" => hpc[q] = "exited"
                           /\ hpc'[q] \in {"wait", "stopped"} => hpc[q] \in {"wait", "stopped"}
        /\ UNCHANGED <<pst, stopEvt>>
    BY <1>1, <1>5 DEF Handler, DispatchBackground, DispatchForeground, DispatchNext, StartRefused,
       StartMissing, HandlerDone, HandlerStopped, HandlerTakesTerminal, Return
  <2> QED BY <1>1, <2>1 DEF Children
<1>6. ASSUME NEW j \in Job, ReapExit(j) PROVE Children'
  <2>1. PICK p \in Members(j) : pst[p] = "zombie" /\ pst' = [pst EXCEPT ![p] = "gone"]
    BY <1>6 DEF ReapExit
  <2>2. p \in Proc /\ hjob[p] = j
    BY <2>1 DEF Members
  <2>3. rpc[j] = "wait" /\ UNCHANGED <<hpc, stopEvt>>
    BY <1>6 DEF ReapExit
  <2>4. ~Busy(p)
    BY <2>2, <2>3 DEF ReaperAlone
  <2> QED BY <1>1, <2>1, <2>2, <2>3, <2>4 DEF Busy, Children
<1>7. ASSUME NEW j \in Job, Continue(j), UNCHANGED hpc PROVE Children'
  BY <1>1, <1>7 DEF Continue, Continued, Children
<1>8. ASSUME Kernel PROVE Children'
  BY <1>1, <1>8 DEF Kernel, Stop, Exit, Children
<1>9. ASSUME UNCHANGED <<hpc, pst>>, stopEvt' \subseteq stopEvt PROVE Children'
  BY <1>1, <1>9 DEF Children
<1>10. ASSUME \/ \E p \in Proc : LaunchForeground(p) \/ LaunchSubstitution(p)
              \/ \E o \in Offset, S \in SUBSET Proc : LaunchBackground(o, S)
       PROVE  Children'
  <2>1. /\ \A q \in Proc : hpc'[q] \in {"exited", "wait", "stopped"} => hpc[q] = hpc'[q]
        /\ UNCHANGED <<pst, stopEvt>>
    BY <1>1, <1>10 DEF LaunchForeground, LaunchSubstitution, LaunchBackground, Launch
  <2> QED BY <1>1, <2>1 DEF Children
<1>11. ASSUME NEW j \in Job, Reaper(j), ~ReapExit(j) PROVE UNCHANGED <<hpc, pst>> /\ stopEvt' \subseteq stopEvt
  BY <1>11 DEF Reaper, ReaperDone, ReaperLoops, ReapStop, ReaperStopped, ReapNone, ReaperGivesUp
<1>12. ASSUME Resume, ~ResumeContinue PROVE UNCHANGED <<hpc, pst>> /\ stopEvt' \subseteq stopEvt
  BY <1>12 DEF Resume, ResumeSnapshot, ResumeMark, ResumeTakeover, FgReturn
<1>13. ASSUME ResumeContinue PROVE Children'
  <2>1. sel \in Job
    BY <1>13 DEF ResumeContinue, GroupInv, Lines, SelIsJob
  <2> QED BY <1>7, <1>13, <2>1 DEF ResumeContinue
<1>14. ASSUME NEW j \in Job, KillJob(j) PROVE Children'
  BY <1>7, <1>14 DEF KillJob
<1>15. ASSUME \/ BeginLine \/ CloseLine \/ UNCHANGED vars
              \/ \E j \in Job : Fg(j) \/ Bg(j)
              \/ \E r \in SUBSET Offset : SetBackgroundRanges(r) \/ AgentStep(r)
       PROVE  UNCHANGED <<hpc, pst>> /\ stopEvt' \subseteq stopEvt
  BY <1>15 DEF BeginLine, CloseLine, EndLine, EndLineEmpty, EndLineDecide, EndLineFile, EndLineReap,
     vars, Fg, Bg, SetBackgroundRanges, AgentStep
<1> QED
  BY <1>2, <1>3, <1>4, <1>5, <1>6, <1>8, <1>9, <1>10, <1>11, <1>12, <1>13, <1>14, <1>15
  DEF Next, User

\* Every step keeps the count, by the process it concerns.
LEMMA CountsStep == GroupInv /\ Counts /\ ReaperAlone /\ [Next]_vars => Counts'
<1> SUFFICES ASSUME GroupInv, Counts, ReaperAlone, [Next]_vars, NEW k \in Job
             PROVE  live'[k] = Unaccounted(k)'
  BY ChildrenStep DEF Counts, Children, LiveCounts
<1>1. /\ hpc \in [Proc -> HandlerPC] /\ hjob \in [Proc -> Job \cup {NoJob}]
      /\ pst \in [Proc -> {"unborn", "running", "stopped", "zombie", "gone"}]
      /\ rpc \in [Job -> ReaperPC] /\ live \in [Job -> Int]
      /\ Children
  BY DEF GroupInv, TypeOK, HandlerTypes, ProcTypes, JobTypes, Counts, Children
<1>2. live[k] = Unaccounted(k) /\ Unaccounted(k) \in Nat
  BY CountIsNat DEF Counts, LiveCounts
<1>3. ASSUME UNCHANGED live, rpc'[k] = "exited" <=> rpc[k] = "exited",
             \A p \in Proc : Owes(p, k)' <=> Owes(p, k)
      PROVE  live'[k] = Unaccounted(k)'
  BY <1>2, <1>3, CountSame
<1>4. ASSUME NEW p \in Proc, Start(p) PROVE live'[k] = Unaccounted(k)'
  <2>1. hjob[p] \in Job /\ pst[p] = "unborn"
    BY <1>1, <1>4 DEF Start, GroupInv, Groups, ProcessHasGroup, Lines, HandlerHasJob
  <2>2. /\ live' = [live EXCEPT ![hjob[p]] = live[hjob[p]] + 1]
        /\ hpc' = [hpc EXCEPT ![p] = "wait"] /\ pst' = [pst EXCEPT ![p] = "running"]
        /\ UNCHANGED <<hjob, rpc>>
    BY <1>4 DEF Start, OneMore, handlerVars
  <2>3. CASE hjob[p] = k
    <3>1. ~Owes(p, k) /\ \A q \in Proc : Owes(q, k)' <=> Owes(q, k) \/ q = p
      BY <1>1, <2>1, <2>2, <2>3 DEF Owes, Unreaped
    <3>2. live'[k] = live[k] + 1 /\ InHand(k)' = InHand(k)
      BY <1>1, <2>2, <2>3 DEF InHand
    <3> QED BY <1>2, <3>1, <3>2, CountMore
  <2>4. CASE hjob[p] # k
    <3>1. \A q \in Proc : Owes(q, k)' <=> Owes(q, k)
      BY <1>1, <2>1, <2>2, <2>4 DEF Owes
    <3>2. live'[k] = live[k]
      BY <1>1, <2>1, <2>2, <2>4
    <3> QED BY <1>2, <2>2, <3>1, <3>2, CountSame
  <2> QED BY <2>3, <2>4
<1>5. ASSUME NEW p \in Proc, WaitExit(p) PROVE live'[k] = Unaccounted(k)'
  <2>1. /\ pst[p] = "zombie" /\ hpc[p] = "wait"
        /\ hpc' = [hpc EXCEPT ![p] = "exited"] /\ pst' = [pst EXCEPT ![p] = "gone"]
        /\ UNCHANGED <<hjob, rpc, live>>
    BY <1>1, <1>5 DEF WaitExit, Children, Unreaped
  <2>2. \A q \in Proc : Owes(q, k)' <=> Owes(q, k)
    BY <1>1, <2>1 DEF Owes, Unreaped
  <2> QED BY <1>3, <2>1, <2>2
<1>6. ASSUME NEW p \in Proc, HandlerDone(p) PROVE live'[k] = Unaccounted(k)'
  <2>1. hjob[p] \in Job /\ pst[p] = "gone" /\ hpc[p] = "exited"
    BY <1>1, <1>6 DEF HandlerDone, Children, GroupInv, Lines, HandlerHasJob
  <2>2. /\ live' = [live EXCEPT ![hjob[p]] = live[hjob[p]] - 1]
        /\ hpc' = [hpc EXCEPT ![p] = "return"] /\ UNCHANGED <<pst, hjob, rpc>>
    BY <1>6 DEF HandlerDone, ProcDone
  <2>3. CASE hjob[p] = k
    <3>1. Owes(p, k) /\ \A q \in Proc : Owes(q, k)' <=> Owes(q, k) /\ q # p
      BY <1>1, <2>1, <2>2, <2>3 DEF Owes, Unreaped
    <3>2. Cardinality(Owed(k)') = Cardinality(Owed(k)) - 1
      BY <3>1, OneFewer
    <3>3. live'[k] = live[k] - 1 /\ InHand(k)' = InHand(k)
      BY <1>1, <2>2, <2>3 DEF InHand
    <3> QED BY <1>2, <3>2, <3>3, OwedFinite, CountIsNat DEF InHand
  <2>4. CASE hjob[p] # k
    <3>1. \A q \in Proc : Owes(q, k)' <=> Owes(q, k)
      BY <1>1, <2>1, <2>2, <2>4 DEF Owes
    <3>2. live'[k] = live[k]
      BY <1>1, <2>1, <2>2, <2>4
    <3> QED BY <1>2, <2>2, <3>1, <3>2, CountSame
  <2> QED BY <2>3, <2>4
<1>7. ASSUME NEW p \in Proc, Handler(p), ~Start(p), ~WaitExit(p), ~HandlerDone(p)
      PROVE  live'[k] = Unaccounted(k)'
  <2>1. \A q \in Proc : Owes(q, k)' <=> Owes(q, k)
    <3>1. /\ UNCHANGED pst
          /\ \A q \in Proc : hpc'[q] = "exited" <=> hpc[q] = "exited"
          /\ \A q \in Proc : hjob'[q] = hjob[q] \/ (q = p /\ hpc[p] = "seam")
      BY <1>1, <1>7 DEF Handler, DispatchBackground, DispatchForeground, DispatchNext, StartRefused,
       StartMissing, WaitStop, HandlerStopped, HandlerTakesTerminal, Return
    <3>2. hpc[p] = "seam" => pst[p] = "unborn"
      BY <1>1 DEF GroupInv, Groups, ProcessHasGroup
    <3> QED BY <3>1, <3>2 DEF Owes
  <2>2. UNCHANGED live
    BY <1>7 DEF Handler, DispatchBackground, DispatchForeground, DispatchNext, StartRefused, Failed,
       StartMissing, WaitStop, HandlerStopped, HandlerTakesTerminal, Return
  <2>3. (\E j \in Job : EnsureReaper(j)) \/ UNCHANGED rpc
    <3>1. hpc[p] \in {"return", "refused", "missing"} => hjob[p] \in Job
      BY DEF GroupInv, Lines, HandlerHasJob
    <3> QED BY <1>7, <3>1 DEF Handler, DispatchBackground, DispatchForeground, DispatchNext,
       StartRefused, StartMissing, WaitStop, HandlerStopped, HandlerTakesTerminal, Return
  <2> QED BY <1>3, <2>1, <2>2, <2>3, EnsureKeepsHand
<1>8. ASSUME NEW j \in Job, ReapExit(j) PROVE live'[k] = Unaccounted(k)'
  <2>1. PICK p \in Members(j) : pst[p] = "zombie" /\ pst' = [pst EXCEPT ![p] = "gone"]
    BY <1>8 DEF ReapExit
  <2>2. p \in Proc /\ hjob[p] = j /\ hpc[p] # "exited"
    BY <1>1, <2>1 DEF Members, Children
  <2>3. /\ rpc[j] = "wait" /\ rpc' = [rpc EXCEPT ![j] = "exited"] /\ UNCHANGED <<hpc, hjob, live>>
    BY <1>8 DEF ReapExit
  <2>4. CASE j = k
    <3>1. Owes(p, k) /\ \A q \in Proc : Owes(q, k)' <=> Owes(q, k) /\ q # p
      BY <1>1, <2>1, <2>2, <2>3, <2>4 DEF Owes, Unreaped
    <3>2. Cardinality(Owed(k)') = Cardinality(Owed(k)) - 1
      BY <2>2, <3>1, OneFewer
    <3>3. InHand(k) = 0 /\ InHand(k)' = 1
      BY <1>1, <2>3, <2>4 DEF InHand
    <3> QED BY <1>2, <2>3, <3>2, <3>3, OwedFinite, CountIsNat
  <2>5. CASE j # k
    <3>1. \A q \in Proc : Owes(q, k)' <=> Owes(q, k)
      BY <1>1, <2>1, <2>2, <2>3, <2>5 DEF Owes
    <3> QED BY <1>1, <1>3, <2>3, <2>5, <3>1
  <2> QED BY <2>4, <2>5
<1>9. ASSUME NEW j \in Job, ReaperDone(j) PROVE live'[k] = Unaccounted(k)'
  <2>1. /\ rpc[j] = "exited" /\ rpc' = [rpc EXCEPT ![j] = "check"]
        /\ live' = [live EXCEPT ![j] = live[j] - 1] /\ UNCHANGED <<pst, hpc, hjob>>
    BY <1>9 DEF ReaperDone, ProcDone
  <2>2. Owed(k)' = Owed(k)
    BY <2>1 DEF Owed, Owes
  <2>3. CASE j = k
    <3>1. InHand(k) = 1 /\ InHand(k)' = 0 /\ live'[k] = live[k] - 1
      BY <1>1, <2>1, <2>3 DEF InHand
    <3> QED BY <1>2, <2>2, <3>1, OwedFinite, CountIsNat
  <2>4. CASE j # k
    <3>1. InHand(k)' = InHand(k) /\ live'[k] = live[k]
      BY <1>1, <2>1, <2>4 DEF InHand
    <3> QED BY <1>2, <2>2, <3>1, OwedFinite
  <2> QED BY <2>3, <2>4
<1>10. ASSUME NEW j \in Job, Reaper(j), ~ReapExit(j), ~ReaperDone(j) PROVE live'[k] = Unaccounted(k)'
  <2>1. ~ReaperGivesUp(j)
    BY DEF ReaperGivesUp, ReaperAlone
  <2>2. /\ UNCHANGED <<hpc, hjob, pst, live>>
        /\ rpc'[k] = "exited" <=> rpc[k] = "exited"
    BY <1>1, <1>10, <2>1 DEF Reaper, ReaperLoops, ReapStop, ReaperStopped, ReapNone
  <2> QED BY <1>3, <2>2 DEF Owes
<1>11. ASSUME UNCHANGED <<hjob, live>>,
              \A p \in Proc : (hpc'[p] = "exited" <=> hpc[p] = "exited")
                              /\ (pst'[p] = pst[p] \/ (pst[p] \in Unreaped /\ pst'[p] \in Unreaped)),
              (\E j \in Job : EnsureReaper(j)) \/ UNCHANGED rpc
       PROVE  live'[k] = Unaccounted(k)'
  <2>1. \A q \in Proc : Owes(q, k)' <=> Owes(q, k)
    BY <1>11 DEF Owes, Unreaped
  <2> QED BY <1>3, <1>11, <2>1, EnsureKeepsHand
<1>12. ASSUME Resume PROVE live'[k] = Unaccounted(k)'
  <2>1. sel \in Job
    BY <1>12 DEF Resume, ResumeSnapshot, ResumeContinue, ResumeMark, ResumeTakeover, FgReturn,
       GroupInv, Lines, SelIsJob
  <2>2. UNCHANGED <<hjob, live, hpc>> /\ ((\E j \in Job : EnsureReaper(j)) \/ UNCHANGED rpc)
    BY <1>12, <2>1 DEF Resume, ResumeSnapshot, ResumeContinue, ResumeMark, ResumeTakeover, FgReturn
  <2>3. \A p \in Proc : pst'[p] = pst[p] \/ (pst[p] \in Unreaped /\ pst'[p] \in Unreaped)
    BY <1>12 DEF Resume, ResumeSnapshot, ResumeContinue, ResumeMark, ResumeTakeover, FgReturn,
       Continue, Continued, Unreaped
  <2> QED BY <1>11, <2>2, <2>3
<1>13. ASSUME Kernel \/ \E j \in Job : KillJob(j) PROVE live'[k] = Unaccounted(k)'
  <2>1. /\ UNCHANGED <<hjob, live, hpc, rpc>>
        /\ \A p \in Proc : pst'[p] = pst[p] \/ (pst[p] \in Unreaped /\ pst'[p] \in Unreaped)
    BY <1>1, <1>13 DEF Kernel, Stop, Exit, KillJob, Continue, Continued, Unreaped
  <2> QED BY <1>11, <2>1
<1>14. ASSUME CloseLine PROVE live'[k] = Unaccounted(k)'
  <2>1. pc = "reap" => sel \in Job
    BY DEF GroupInv, Lines, SelIsJob
  <2>2. /\ UNCHANGED <<hjob, live, hpc, pst>> /\ ((\E j \in Job : EnsureReaper(j)) \/ UNCHANGED rpc)
    BY <1>14, <2>1 DEF CloseLine, EndLine, EndLineEmpty, EndLineDecide, EndLineFile, EndLineReap
  <2> QED BY <1>11, <2>2
<1>15. ASSUME \/ BeginLine \/ UNCHANGED vars
              \/ \E j \in Job : Fg(j) \/ Bg(j)
              \/ \E r \in SUBSET Offset : SetBackgroundRanges(r) \/ AgentStep(r)
       PROVE  live'[k] = Unaccounted(k)'
  <2>1. UNCHANGED <<hjob, live, rpc, pst, hpc>>
    BY <1>15 DEF BeginLine, vars, Fg, Bg, SetBackgroundRanges, AgentStep
  <2> QED BY <1>11, <2>1
<1>16. ASSUME NEW S \in SUBSET Proc, NEW b, NEW o, Launch(S, b, o) PROVE live'[k] = Unaccounted(k)'
  <2>1. /\ \A p \in S : hpc[p] = "none"
        /\ hpc' = [p \in Proc |-> IF p \in S THEN "seam" ELSE hpc[p]]
        /\ UNCHANGED <<hjob, live, rpc, pst>>
    BY <1>16 DEF Launch
  <2>2. \A p \in Proc : hpc'[p] = "exited" <=> hpc[p] = "exited"
    BY <1>1, <2>1
  <2> QED BY <1>11, <2>1, <2>2
<1>17. ASSUME \/ \E p \in Proc : LaunchForeground(p) \/ LaunchSubstitution(p)
              \/ \E o \in Offset, S \in SUBSET Proc : LaunchBackground(o, S)
       PROVE  live'[k] = Unaccounted(k)'
  <2>1. \E S \in SUBSET Proc, b \in {"fg", "bg", "subst"}, o \in Offset \cup {0} : Launch(S, b, o)
    <3>1. \A p \in Proc : {p} \in SUBSET Proc
      OBVIOUS
    <3> QED BY <1>17, <3>1 DEF LaunchForeground, LaunchSubstitution, LaunchBackground
  <2> QED BY <1>16, <2>1
<1> QED
  BY <1>4, <1>5, <1>6, <1>7, <1>8, <1>9, <1>10, <1>12, <1>13, <1>14, <1>15, <1>17
  DEF Next, User
-----------------------------------------------------------------------------
(* Handlers and reapers                                                    *)

\* A command with & starts a job of its own.
LEMMA DispatchFresh ==
  ASSUME GroupInv, Placed, NEW p \in Proc, DispatchBackground(p)
  PROVE  \E j \in Job : /\ NewJob(j, TRUE) /\ jobs' = jobs \cup {j}
                        /\ hjob' = [hjob EXCEPT ![p] = j]
<1>1. at[p] \in Offset /\ at[p] # 0 /\ hpc[p] = "seam"
  BY Distinct DEF DispatchBackground, InBackground, GroupInv, TypeOK, TableTypes
<1>2. bgJobs[at[p]] = NoJob
  BY <1>1 DEF Placed
<1> QED BY <1>2 DEF DispatchBackground

\* A background job is not the line's.
LEMMA LineNotBackground ==
  ASSUME GroupInv, Filed, NEW j \in Job, LineHolds(j) PROVE ~background[j]
BY DEF LineHolds, Filed, GroupInv, Held, KindsKept

\* ensureReaper is right where its callers found the job without a handler at work.
LEMMA EnsureKeepsAlone ==
  ASSUME GroupInv, ReaperAlone, NEW j \in Job, EnsureReaper(j), UNCHANGED <<state, live, hjob>>,
         \A p \in Proc : Busy(p)' => Busy(p), \A k \in Job : LineHolds(k)' => LineHolds(k),
         ReaperDue(j) => /\ \A p \in Proc : hjob[p] = j => ~Busy(p)
                         /\ ~LineHolds(j)' /\ ~Fresh(j) /\ state[j] # "Done"
  PROVE  ReaperAlone'
<1>1. reaping \in [Job -> BOOLEAN] /\ rpc \in [Job -> ReaperPC] /\ live \in [Job -> Int]
  BY DEF GroupInv, TypeOK, JobTypes
<1>2. CASE ~ReaperDue(j)
  BY <1>1, <1>2 DEF EnsureReaper, ReaperAlone
<1>3. CASE ReaperDue(j)
  <2>1. reaping' = [reaping EXCEPT ![j] = TRUE] /\ rpc' = [rpc EXCEPT ![j] = "wait"] /\ live[j] > 0
    BY <1>3 DEF EnsureReaper, ReaperDue
  <2> QED BY <1>1, <1>3, <2>1 DEF ReaperAlone
<1> QED BY <1>2, <1>3

\* Every step keeps the handlers and the reaper of a job apart.
LEMMA ReaperAloneStep ==
  ASSUME PlainLines
  PROVE  GroupInv /\ Placed /\ Sided /\ InLineOnly /\ Filed /\ Counts /\ ReaperAlone /\ Resumed
         /\ Settled /\ [Next]_vars => ReaperAlone'
<1> SUFFICES ASSUME PlainLines, GroupInv, Placed, Sided, InLineOnly, Filed, Counts, ReaperAlone,
                    Resumed, Settled, [Next]_vars
             PROVE  ReaperAlone'
  OBVIOUS
<1>1. /\ hpc \in [Proc -> HandlerPC] /\ hjob \in [Proc -> Job \cup {NoJob}]
      /\ state \in [Job -> {"Unborn", "Running", "Stopped", "Done"}]
      /\ reaping \in [Job -> BOOLEAN] /\ rpc \in [Job -> ReaperPC] /\ live \in [Job -> Int]
      /\ current \in Job \cup {NoJob} /\ NoJob \notin Job
      /\ \A p \in Proc : hpc[p] \notin {"none", "seam", "next"} => hjob[p] \in Job
      /\ current \in Job <=> pc \in InLine
      /\ pc \notin {"prompt", "ready", "run"} => sel \in Job
  BY Distinct DEF GroupInv, TypeOK, HandlerTypes, JobTypes, TableTypes, Lines, HandlerHasJob,
     LineHasJob, SelIsJob
<1>2. ASSUME \A k \in Job : rpc'[k] = rpc[k] /\ reaping'[k] = reaping[k],
             \A p \in Proc : Busy(p)' => \/ Busy(p) /\ hjob'[p] = hjob[p]
                                         \/ hjob'[p] \in Job /\ (Fresh(hjob'[p]) \/ LineHolds(hjob'[p])),
             \A k \in Job : (Fresh(k) \/ LineHolds(k))' => Fresh(k) \/ LineHolds(k),
             \A k \in Job : rpc[k] # "none" => (state'[k] = "Done" <=> state[k] = "Done")
                                               /\ live'[k] = live[k]
      PROVE  ReaperAlone'
  <2>1. \A p \in Proc : Busy(p) => hjob[p] \in Job
    BY <1>1 DEF Busy
  <2>2. \A p \in Proc : Busy(p)' => rpc'[hjob'[p]] = "none" /\ ~reaping'[hjob'[p]]
    BY <1>2, <2>1 DEF ReaperAlone
  <2> QED BY <1>2, <2>2 DEF ReaperAlone
<1>3. ASSUME UNCHANGED <<rpc, reaping, live, hpc, hjob>>,
             \A k \in Job : (Fresh(k) \/ LineHolds(k))' => Fresh(k) \/ LineHolds(k),
             \A k \in Job : rpc[k] # "none" => (state'[k] = "Done" <=> state[k] = "Done")
      PROVE  ReaperAlone'
  BY <1>2, <1>3 DEF Busy
<1>4. ASSUME NEW p \in Proc, DispatchBackground(p) PROVE ReaperAlone'
  <2>1. PICK j \in Job : NewJob(j, TRUE) /\ hjob' = [hjob EXCEPT ![p] = j]
    BY <1>4, DispatchFresh
  <2>2. /\ hpc' = [hpc EXCEPT ![p] = "spawn"]
        /\ UNCHANGED <<live, reaping, rpc, current, pc, sel>>
    BY <1>4 DEF DispatchBackground
  <2>3. Fresh(j) /\ state' = [state EXCEPT ![j] = "Running"]
    BY <2>1 DEF NewJob
  <2>4. \A q \in Proc : Busy(q)' => (Busy(q) /\ hjob'[q] = hjob[q]) \/ hjob'[q] = j
    BY <1>1, <2>1, <2>2 DEF Busy
  <2>5. \A k \in Job : LineHolds(k)' => LineHolds(k)
    BY <2>2 DEF LineHolds
  <2>6. \A k \in Job : (state'[k] = "Done" <=> state[k] = "Done") /\ (Fresh(k)' => Fresh(k))
    BY <1>1, <2>3
  <2> QED BY <1>2, <2>2, <2>3, <2>4, <2>5, <2>6
<1>5. ASSUME NEW p \in Proc, DispatchForeground(p) PROVE ReaperAlone'
  <2>1. /\ hpc' = [hpc EXCEPT ![p] = "spawn"] /\ hjob' = [hjob EXCEPT ![p] = current]
        /\ UNCHANGED <<live, reaping, rpc, state, current, pc, sel>> /\ current \in Job
    BY <1>1, <1>5 DEF DispatchForeground
  <2>2. \A q \in Proc : Busy(q)' => (Busy(q) /\ hjob'[q] = hjob[q]) \/ hjob'[q] = current
    BY <1>1, <2>1 DEF Busy
  <2>3. LineHolds(current) /\ \A k \in Job : LineHolds(k)' => LineHolds(k)
    BY <2>1 DEF LineHolds
  <2> QED BY <1>2, <2>1, <2>2, <2>3
<1>6. ASSUME NEW p \in Proc,
             Start(p) \/ StartRefused(p) \/ StartMissing(p) \/ WaitExit(p) \/ HandlerDone(p)
             \/ WaitStop(p) \/ HandlerStopped(p) \/ HandlerTakesTerminal(p) \/ DispatchNext(p)
             \/ (Return(p) /\ ~background[hjob[p]])
      PROVE  ReaperAlone'
  <2>1. /\ \A q \in Proc : Busy(q)' => Busy(q)
        /\ UNCHANGED <<hjob, rpc, current, pc, sel>>
    BY <1>1, <1>6 DEF Start, StartRefused, StartMissing, WaitExit, HandlerDone, WaitStop,
       HandlerStopped, HandlerTakesTerminal, DispatchNext, Return, Busy
  <2>2. \A k \in Job : LineHolds(k)' => LineHolds(k)
    BY <2>1 DEF LineHolds
  <2>3. CASE Start(p) \/ HandlerDone(p) \/ HandlerStopped(p)
    <3>1. Busy(p) /\ hjob[p] \in Job
      BY <1>1, <2>3 DEF Start, HandlerDone, HandlerStopped, Busy
    <3>2. rpc[hjob[p]] = "none" /\ ~reaping[hjob[p]]
      BY <3>1 DEF ReaperAlone
    <3>3. \A k \in Job : /\ reaping'[k] = reaping[k] /\ (Fresh(k)' => Fresh(k))
                         /\ k # hjob[p] => live'[k] = live[k] /\ state'[k] = state[k]
      BY <1>1, <2>3, <3>1, <3>2 DEF Start, OneMore, HandlerDone, ProcDone, HandlerStopped, MarkStopped
    <3> QED BY <1>2, <2>1, <2>2, <3>2, <3>3
  <2>4. CASE ~(Start(p) \/ HandlerDone(p) \/ HandlerStopped(p))
    <3>1. UNCHANGED <<state, live, reaping>>
      BY <1>6, <2>4 DEF StartRefused, Failed, StartMissing, WaitExit, WaitStop,
         HandlerTakesTerminal, DispatchNext, Return
    <3> QED BY <1>2, <2>1, <2>2, <3>1
  <2> QED BY <2>3, <2>4
<1>7. ASSUME NEW p \in Proc, Return(p), background[hjob[p]] PROVE ReaperAlone'
  <2>1. /\ hjob[p] \in Job /\ ~Busy(p) /\ hpc' = [hpc EXCEPT ![p] = "end"]
        /\ EnsureReaper(hjob[p]) /\ UNCHANGED <<state, live, hjob, current, pc, sel>>
    BY <1>1, <1>7 DEF Return, Busy
  <2>2. /\ \A q \in Proc : Busy(q)' => Busy(q)
        /\ \A k \in Job : LineHolds(k)' => LineHolds(k)
    BY <1>1, <2>1 DEF Busy, LineHolds
  <2>3. /\ \A q \in Proc : hjob[q] = hjob[p] => ~Busy(q)
        /\ ~Fresh(hjob[p])
    BY <1>7, <2>1 DEF Sided, GroupInv, Held, HeldNotFresh
  <2>4. ~LineHolds(hjob[p])
    BY <1>7, <2>1, LineNotBackground
  <2>5. ReaperDue(hjob[p]) => state[hjob[p]] # "Done"
    BY <2>1, <2>4 DEF Settled, ReaperDue
  <2> QED BY <2>1, <2>2, <2>3, <2>4, <2>5, EnsureKeepsAlone
<1>8. ASSUME ResumeTakeover PROVE ReaperAlone'
  <2>1. /\ sel \in Job /\ pc = "takeover" /\ pc' \in {"waitchange", "run"}
        /\ UNCHANGED <<state, live, hjob, hpc, current>>
    BY <1>1, <1>8 DEF ResumeTakeover, Back
  <2>2. \A k \in Job : LineHolds(k)' <=> LineHolds(k)
    BY <2>1 DEF LineHolds
  <2>3. ~LineHolds(sel) /\ ~Fresh(sel)
    BY <2>1 DEF LineHolds, Filed
  <2>4. CASE ~was
    BY <1>8, <2>1, <2>2, <2>4, <1>3 DEF ResumeTakeover, HandlersReturned
  <2>5. CASE was
    <3>1. EnsureReaper(sel)
      BY <1>8, <2>5 DEF ResumeTakeover, HandlersReturned
    <3>2. \A p \in Proc : hjob[p] = sel => ~Busy(p)
      BY <2>1, <2>5 DEF Resumed
    <3>3. ReaperDue(sel) => state[sel] # "Done"
      BY <2>1, <2>3 DEF Settled, ReaperDue
    <3> QED BY <2>1, <2>2, <2>3, <3>1, <3>2, <3>3, EnsureKeepsAlone DEF Busy
  <2> QED BY <2>4, <2>5
<1>9. ASSUME EndLineReap PROVE ReaperAlone'
  <2>1. /\ sel \in Job /\ pc = "reap" /\ pc' = "prompt" /\ current = NoJob
        /\ UNCHANGED <<state, live, hjob, hpc, current>> /\ EnsureReaper(sel)
    BY <1>1, <1>9 DEF EndLineReap, Back
  <2>2. \A k \in Job : ~LineHolds(k)'
    BY <1>1, <2>1 DEF LineHolds
  <2>3. ~Fresh(sel) /\ state[sel] # "Done"
    BY <2>1 DEF Filed, Settled
  <2>4. \A p \in Proc : hjob[p] = sel => ~Busy(p)
    <3>1. ~background[sel]
      BY <2>1 DEF Filed
    <3>2. \A p \in Proc : hjob[p] = sel => kind[p] = "fg"
      BY <2>1, <3>1 DEF Sided, GroupInv, TypeOK, HandlerTypes
    <3> QED BY <2>1, <3>2 DEF InLineOnly, Attached, Busy
  <2> QED BY <2>1, <2>2, <2>3, <2>4, EnsureKeepsAlone DEF Busy
<1>10. ASSUME NEW j \in Job, ReaperDone(j) PROVE ReaperAlone'
  <2>1. /\ rpc[j] = "exited" /\ rpc' = [rpc EXCEPT ![j] = "check"]
        /\ live' = [live EXCEPT ![j] = live[j] - 1]
        /\ reaping' = [reaping EXCEPT ![j] = reaping[j] /\ ~(live[j] - 1 <= 0)]
        /\ IF live[j] - 1 <= 0 THEN state' = [state EXCEPT ![j] = "Done"] ELSE UNCHANGED state
        /\ UNCHANGED <<hpc, hjob, current, pc, sel>>
    BY <1>10 DEF ReaperDone, ProcDone, NoneRemain, Releases
  <2>2. reaping[j] /\ state[j] # "Done" /\ live[j] > 0
    BY <2>1 DEF ReaperAlone
  <2>3. /\ \A p \in Proc : Busy(p)' => Busy(p) /\ hjob[p] # j /\ hjob[p] \in Job
        /\ \A k \in Job : (Fresh(k) \/ LineHolds(k))' => (Fresh(k) \/ LineHolds(k)) /\ k # j
    BY <1>1, <2>1 DEF ReaperAlone, Busy, LineHolds
  <2>4. /\ \A k \in Job \ {j} : /\ rpc'[k] = rpc[k] /\ reaping'[k] = reaping[k]
                                /\ live'[k] = live[k] /\ state'[k] = state[k]
        /\ rpc'[j] = "check"
        /\ \/ reaping'[j] /\ state'[j] # "Done" /\ live'[j] > 0
           \/ ~reaping'[j] /\ state'[j] = "Done" /\ live'[j] = 0
    <3>1. live[j] \in Int /\ live'[j] = live[j] - 1 /\ rpc'[j] = "check"
      BY <1>1, <2>1
    <3>2. \A k \in Job \ {j} : /\ rpc'[k] = rpc[k] /\ reaping'[k] = reaping[k]
                                /\ live'[k] = live[k] /\ state'[k] = state[k]
      BY <1>1, <2>1
    <3>3. CASE live[j] - 1 <= 0
      <4>1. state'[j] = "Done" /\ ~reaping'[j]
        BY <1>1, <2>1, <3>3
      <4>2. live'[j] = 0
        BY <2>2, <3>1, <3>3
      <4> QED BY <3>1, <3>2, <4>1, <4>2
    <3>4. CASE ~(live[j] - 1 <= 0)
      <4>1. UNCHANGED state /\ reaping'[j]
        BY <1>1, <2>1, <2>2, <3>4
      <4> QED BY <2>2, <3>1, <3>2, <3>4, <4>1
    <3> QED BY <3>3, <3>4
  <2> QED BY <2>1, <2>3, <2>4 DEF ReaperAlone
<1>11. ASSUME NEW j \in Job, Reaper(j), ~ReaperDone(j) PROVE ReaperAlone'
  <2>1. ~ReapNone(j) /\ ~ReaperGivesUp(j)
    BY ReaperHasProcess DEF ReapNone, ReaperGivesUp, ReaperAlone
  <2>2. /\ rpc[j] # "none" /\ rpc' = [rpc EXCEPT ![j] = rpc'[j]]
        /\ rpc'[j] \in {"exited", "stopped", "wait", "none"}
        /\ UNCHANGED <<reaping, live, hpc, hjob, current, pc, sel>>
        /\ \A k \in Job : (Fresh(k)' => Fresh(k))
        /\ \A k \in Job : state'[k] = "Done" <=> state[k] = "Done"
    BY <1>1, <1>11, <2>1 DEF Reaper, ReapExit, ReaperLoops, ReapStop, ReaperStopped, MarkStopped,
       ReaperAlone
  <2>3. /\ rpc'[j] = "none" => rpc[j] = "check" /\ state[j] = "Done"
        /\ rpc'[j] # "none" => ~(rpc[j] = "check" /\ state[j] = "Done")
    BY <1>1, <1>11, <2>1 DEF Reaper, ReapExit, ReaperLoops, DoneNow, ReapStop, ReaperStopped
  <2>4. /\ \A p \in Proc : Busy(p)' => Busy(p) /\ hjob[p] # j /\ hjob[p] \in Job
        /\ \A k \in Job : (Fresh(k) \/ LineHolds(k))' => (Fresh(k) \/ LineHolds(k)) /\ k # j
    BY <1>1, <2>2 DEF ReaperAlone, Busy, LineHolds
  <2>5. \A k \in Job \ {j} : rpc'[k] = rpc[k]
    BY <1>1, <2>2
  <2>6. IF rpc'[j] = "none" THEN ~reaping[j] ELSE reaping[j] /\ state'[j] # "Done" /\ live[j] > 0
    BY <2>2, <2>3 DEF ReaperAlone
  <2> QED BY <2>2, <2>4, <2>5, <2>6 DEF ReaperAlone
<1>12. ASSUME BeginLine PROVE ReaperAlone'
  <2>1. PICK j \in Job : NewJob(j, FALSE) /\ current' = j
    BY <1>12 DEF BeginLine
  <2>2. /\ pc = "ready" /\ pc' = "run" /\ UNCHANGED <<live, reaping, rpc, hpc, hjob>>
    BY <1>12 DEF BeginLine
  <2> QED BY <1>1, <1>3, <2>1, <2>2 DEF NewJob, LineHolds
<1>13. ASSUME CloseLine, ~EndLineReap PROVE ReaperAlone'
  <2>1. UNCHANGED <<rpc, reaping, live, hpc, hjob>>
    BY <1>13 DEF CloseLine, EndLine, EndLineEmpty, EndLineDecide, EndLineFile
  <2>2. \A k \in Job : (Fresh(k) \/ LineHolds(k))' => Fresh(k) \/ LineHolds(k)
    BY <1>1, <1>13 DEF CloseLine, EndLine, EndLineEmpty, EndLineDecide, EndLineFile, Back, LineHolds
  <2>3. \A k \in Job : rpc[k] # "none" => (state'[k] = "Done" <=> state[k] = "Done")
    <3>1. CASE EndLineEmpty
      <4>1. LineHolds(sel) /\ sel \in Job
        BY <1>1, <3>1 DEF EndLineEmpty, LineHolds
      <4>2. \A k \in Job : k # sel => state'[k] = state[k]
        BY <1>1, <3>1 DEF EndLineEmpty
      <4> QED BY <4>1, <4>2 DEF ReaperAlone
    <3>2. CASE ~EndLineEmpty
      BY <1>13, <3>2 DEF CloseLine, EndLine, EndLineDecide, EndLineFile
    <3> QED BY <3>1, <3>2
  <2> QED BY <1>3, <2>1, <2>2, <2>3
<1>14. ASSUME Resume, ~ResumeTakeover PROVE ReaperAlone'
  <2>1. /\ UNCHANGED <<rpc, reaping, live, hpc, hjob, current>>
        /\ {pc, pc'} \cap {"decide", "file", "reap"} = {}
    BY <1>14 DEF Resume, ResumeSnapshot, ResumeContinue, ResumeMark, FgReturn, Back
  <2>2. \A k \in Job : /\ state'[k] = "Done" <=> state[k] = "Done"
                       /\ Fresh(k)' => Fresh(k)
    BY <1>1, <1>14 DEF Resume, ResumeSnapshot, ResumeContinue, ResumeMark, FgReturn
  <2> QED BY <1>3, <2>1, <2>2 DEF LineHolds
<1>15. ASSUME \/ Kernel \/ UNCHANGED vars
              \/ \E j \in Job : Fg(j) \/ Bg(j) \/ KillJob(j)
              \/ \E r \in SUBSET Offset : SetBackgroundRanges(r) \/ AgentStep(r)
       PROVE  ReaperAlone'
  <2>1. /\ UNCHANGED <<rpc, reaping, live, hpc, hjob, state, current>>
        /\ UNCHANGED <<pc, sel>> \/ {pc, pc'} \cap {"decide", "file", "reap"} = {}
    BY <1>15 DEF Kernel, Stop, Exit, vars, Fg, Bg, KillJob, SetBackgroundRanges, AgentStep
  <2> QED BY <1>3, <2>1 DEF LineHolds
<1>16. ASSUME NEW S \in SUBSET Proc, NEW b, NEW o, Launch(S, b, o) PROVE ReaperAlone'
  <2>1. /\ hpc' = [p \in Proc |-> IF p \in S THEN "seam" ELSE hpc[p]]
        /\ UNCHANGED <<rpc, reaping, live, hjob, state, current, pc, sel>>
    BY <1>16 DEF Launch
  <2>2. \A p \in Proc : Busy(p)' => Busy(p)
    BY <1>1, <2>1 DEF Busy
  <2> QED BY <1>2, <2>1, <2>2 DEF LineHolds
<1>17. ASSUME \/ \E p \in Proc : LaunchForeground(p) \/ LaunchSubstitution(p)
              \/ \E o \in Offset, S \in SUBSET Proc : LaunchBackground(o, S)
       PROVE  ReaperAlone'
  <2>1. \E S \in SUBSET Proc, b \in {"fg", "bg", "subst"}, o \in Offset \cup {0} : Launch(S, b, o)
    <3>1. \A p \in Proc : {p} \in SUBSET Proc
      OBVIOUS
    <3> QED BY <1>17, <3>1 DEF LaunchForeground, LaunchSubstitution, LaunchBackground
  <2> QED BY <1>16, <2>1
<1> QED
  BY <1>4, <1>5, <1>6, <1>7, <1>8, <1>9, <1>10, <1>11, <1>12, <1>13, <1>14, <1>15, <1>17
  DEF Next, User, Handler
-----------------------------------------------------------------------------
(* What the state of a job says                                            *)

\* The same of the state a step leads to.
LEMMA OwedCountsThen == ASSUME NEW k, NEW p \in Proc, Owes(p, k)' PROVE Unaccounted(k)' > 0
<1>1. Owed(k)' # {}
  BY DEF Owed
<1>2. Cardinality(Owed(k)') # 0 /\ Cardinality(Owed(k)') \in Nat
  BY <1>1, OwedFinite, FS_EmptySet, FS_CardinalityType
<1> QED BY <1>2, OwedFinite DEF InHand

\* No handler of a job written without & is at work while its line is not running.
LEMMA QuietOffLine ==
  ASSUME GroupInv, Sided, InLineOnly, NEW j \in Job, pc # "run", ~background[j],
         NEW p \in Proc, hjob[p] = j
  PROVE  ~Busy(p) /\ hpc[p] # "terminal"
<1>1. kind[p] = "fg"
  BY DEF Sided, GroupInv, TypeOK, HandlerTypes
<1> QED BY <1>1 DEF InLineOnly, Attached, Busy

\* The handler of a job written without & works for the line that runs.
LEMMA LineAtWork ==
  ASSUME GroupInv, Sided, InLineOnly, NEW p \in Proc, Busy(p), ~background[hjob[p]]
  PROVE  pc = "run" /\ hjob[p] = current /\ hjob[p] \in Job
<1>1. hjob[p] \in Job
  BY DEF Busy, GroupInv, Lines, HandlerHasJob
<1>2. kind[p] = "fg"
  BY <1>1 DEF Sided, GroupInv, TypeOK, HandlerTypes
<1> QED BY <1>1, <1>2 DEF InLineOnly, Attached, Busy

\* A command without & reaches the seam of the line that runs.
LEMMA SeamOfLine ==
  ASSUME GroupInv, Placed, Sided, InLineOnly, NEW p \in Proc, DispatchForeground(p)
  PROVE  pc = "run" /\ current \in Job /\ ~background[current]
<1>1. hpc[p] = "seam" /\ at[p] \notin bgRanges /\ current # NoJob
  BY DEF DispatchForeground, InBackground
<1>2. kind[p] = "fg"
  BY <1>1 DEF Placed, Sided, GroupInv, TypeOK, HandlerTypes
<1> QED BY <1>1, <1>2 DEF InLineOnly, Attached, GroupInv, TypeOK, TableTypes, Held, KindsKept

\* The three ways to launch are launches of a set of processes.
LEMMA LaunchIsLaunch ==
  ASSUME \/ \E p \in Proc : LaunchForeground(p) \/ LaunchSubstitution(p)
         \/ \E o \in Offset, S \in SUBSET Proc : LaunchBackground(o, S)
  PROVE  \E S \in SUBSET Proc, b \in {"fg", "bg", "subst"}, o \in Offset \cup {0} : Launch(S, b, o)
<1>1. \A p \in Proc : {p} \in SUBSET Proc
  OBVIOUS
<1> QED BY <1>1 DEF LaunchForeground, LaunchSubstitution, LaunchBackground

\* Every step keeps what fg and bg rely on.
LEMMA ResumedStep ==
  ASSUME PlainLines
  PROVE  GroupInv /\ Placed /\ Sided /\ InLineOnly /\ Filed /\ ReaperAlone /\ Resumed
         /\ [Next]_vars => Resumed'
<1> SUFFICES ASSUME PlainLines, GroupInv, Placed, Sided, InLineOnly, Filed, ReaperAlone, Resumed,
                    [Next]_vars
             PROVE  Resumed'
  OBVIOUS
<1> DEFINE Resuming == was /\ pc \in {"continue", "mark", "takeover"}
<1>1. /\ hpc \in [Proc -> HandlerPC] /\ hjob \in [Proc -> Job \cup {NoJob}]
      /\ state \in [Job -> {"Unborn", "Running", "Stopped", "Done"}]
      /\ background \in [Job -> BOOLEAN] /\ rpc \in [Job -> ReaperPC]
      /\ NoJob \notin Job /\ current \in Job \cup {NoJob}
      /\ \A p \in Proc : Busy(p) => hjob[p] \in Job /\ ~Fresh(hjob[p])
      /\ pc \notin {"prompt", "ready", "run"} => sel \in Job
  BY Distinct DEF GroupInv, TypeOK, HandlerTypes, JobTypes, TableTypes, Lines, HandlerHasJob,
     SelIsJob, Held, HeldNotFresh, Busy
<1>2. \A k \in Job : ~Fresh(k) => background'[k] = background[k]
  BY InUse
<1>3. ASSUME UNCHANGED hjob, \A p \in Proc : Busy(p)' => Busy(p),
             Resuming' => Resuming /\ sel' = sel,
             \A p \in Proc : Busy(p)' /\ background[hjob[p]] /\ state[hjob[p]] = "Running"
                             => state'[hjob[p]] = "Running"
      PROVE  Resumed'
  BY <1>1, <1>2, <1>3 DEF Resumed
<1>4. ASSUME NEW p \in Proc, DispatchBackground(p) PROVE Resumed'
  <2>1. PICK j \in Job : NewJob(j, TRUE) /\ hjob' = [hjob EXCEPT ![p] = j]
    BY <1>4, DispatchFresh
  <2>2. hpc' = [hpc EXCEPT ![p] = "spawn"] /\ UNCHANGED <<pc, sel, was>>
    BY <1>4 DEF DispatchBackground
  <2>3. Fresh(j) /\ state' = [state EXCEPT ![j] = "Running"]
    BY <2>1 DEF NewJob
  <2>4. \A q \in Proc : Busy(q)' => (Busy(q) /\ hjob'[q] = hjob[q]) \/ hjob'[q] = j
    BY <1>1, <2>1, <2>2 DEF Busy
  <2>5. Resuming => sel # j
    BY <2>3 DEF Filed
  <2>6. state'[j] = "Running" /\ \A k \in Job : k # j => state'[k] = state[k]
    BY <1>1, <2>3
  <2> QED BY <1>1, <1>2, <2>2, <2>3, <2>4, <2>5, <2>6 DEF Resumed
<1>5. ASSUME NEW p \in Proc, DispatchForeground(p) PROVE Resumed'
  <2>1. pc = "run" /\ current \in Job /\ ~background[current]
    BY <1>5, SeamOfLine
  <2>2. /\ hpc' = [hpc EXCEPT ![p] = "spawn"] /\ hjob' = [hjob EXCEPT ![p] = current]
        /\ UNCHANGED <<pc, state, background>>
    BY <1>5 DEF DispatchForeground
  <2>3. \A q \in Proc : Busy(q)' => (Busy(q) /\ hjob'[q] = hjob[q]) \/ hjob'[q] = current
    BY <1>1, <2>2 DEF Busy
  <2> QED BY <2>1, <2>2, <2>3 DEF Resumed
<1>6. ASSUME NEW p \in Proc, HandlerDone(p) \/ HandlerStopped(p) PROVE Resumed'
  <2>1. /\ Busy(p) /\ ~Busy(p)' /\ UNCHANGED <<hjob, pc, sel, was>>
        /\ \A q \in Proc : Busy(q)' => Busy(q)
    BY <1>1, <1>6 DEF HandlerDone, HandlerStopped, Busy
  <2>2. \A k \in Job : k # hjob[p] => state'[k] = state[k]
    BY <1>1, <1>6 DEF HandlerDone, ProcDone, HandlerStopped, MarkStopped
  <2>3. \A q \in Proc : Busy(q)' /\ background[hjob[q]] => hjob[q] # hjob[p]
    BY <1>1, <2>1 DEF Sided
  <2> QED BY <1>1, <1>3, <2>1, <2>2, <2>3
<1>7. ASSUME NEW p \in Proc, Handler(p), ~DispatchBackground(p), ~DispatchForeground(p),
             ~HandlerDone(p), ~HandlerStopped(p)
      PROVE  Resumed'
  <2>1. /\ \A q \in Proc : Busy(q)' => Busy(q)
        /\ UNCHANGED <<hjob, state, pc, sel, was>>
    BY <1>1, <1>7 DEF Handler, Start, StartRefused, StartMissing, WaitExit, WaitStop,
       HandlerTakesTerminal, DispatchNext, Return, Busy
  <2> QED BY <1>3, <2>1
<1>8. ASSUME NEW j \in Job, Reaper(j) PROVE Resumed'
  <2>1. /\ UNCHANGED <<hpc, hjob, pc, sel, was>>
        /\ \A k \in Job : k # j => state'[k] = state[k]
    BY <1>1, <1>8 DEF Reaper, ReapExit, ReaperDone, ProcDone, ReaperLoops, ReapStop, ReaperStopped,
       MarkStopped, ReapNone, ReaperGivesUp
  <2>2. \A p \in Proc : Busy(p) => hjob[p] # j
    BY <1>8 DEF ReaperAlone, Reaper, ReapExit, ReaperDone, ReaperLoops, ReapStop, ReaperStopped,
       ReapNone, ReaperGivesUp
  <2> QED BY <1>1, <1>3, <2>1, <2>2 DEF Busy
<1>9. ASSUME ResumeSnapshot PROVE Resumed'
  <2>1. /\ pc = "resume" /\ was' = (state[sel] = "Stopped") /\ sel \in Job
        /\ UNCHANGED <<hpc, hjob, sel, state, background>>
    BY <1>1, <1>9 DEF ResumeSnapshot
  <2>2. ASSUME was', NEW p \in Proc, hjob[p] = sel PROVE ~Busy(p)
    <3>1. CASE background[sel]
      BY <2>1, <2>2, <3>1 DEF Resumed
    <3>2. CASE ~background[sel]
      BY <2>1, <2>2, <3>2, QuietOffLine
    <3> QED BY <3>1, <3>2
  <2> QED BY <2>1, <2>2 DEF Resumed, Busy
<1>10. ASSUME Resume, ~ResumeSnapshot PROVE Resumed'
  <2>1. UNCHANGED <<hpc, hjob>> /\ (Resuming' => Resuming /\ sel' = sel)
    BY <1>10 DEF Resume, ResumeContinue, ResumeMark, ResumeTakeover, FgReturn, Back
  <2>2. \A k \in Job : state[k] = "Running" => state'[k] = "Running"
    BY <1>1, <1>10 DEF Resume, ResumeContinue, ResumeMark, ResumeTakeover, FgReturn
  <2> QED BY <1>1, <1>3, <2>1, <2>2 DEF Busy
<1>11. ASSUME CloseLine PROVE Resumed'
  <2>1. UNCHANGED <<hpc, hjob>> /\ ~Resuming'
    BY <1>11 DEF CloseLine, EndLine, EndLineEmpty, EndLineDecide, EndLineFile, EndLineReap, Back
  <2>2. \A p \in Proc : Busy(p) => state'[hjob[p]] = state[hjob[p]]
    <3>1. CASE EndLineEmpty
      BY <1>1, <3>1 DEF EndLineEmpty
    <3>2. CASE ~EndLineEmpty
      BY <1>11, <3>2 DEF CloseLine, EndLine, EndLineDecide, EndLineFile, EndLineReap
    <3> QED BY <3>1, <3>2
  <2> QED BY <1>1, <1>3, <2>1, <2>2 DEF Busy
<1>12. ASSUME BeginLine PROVE Resumed'
  <2>1. /\ UNCHANGED <<hpc, hjob>> /\ ~Resuming'
        /\ \E j \in Job : Fresh(j) /\ state' = [state EXCEPT ![j] = "Running"]
    BY <1>12 DEF BeginLine, NewJob
  <2> QED BY <1>1, <1>3, <2>1 DEF Busy
<1>13. ASSUME \/ Kernel \/ UNCHANGED vars
              \/ \E j \in Job : Fg(j) \/ Bg(j) \/ KillJob(j)
              \/ \E r \in SUBSET Offset : SetBackgroundRanges(r) \/ AgentStep(r)
       PROVE  Resumed'
  <2>1. /\ UNCHANGED <<hpc, hjob, state>>
        /\ UNCHANGED <<pc, sel, was>> \/ ~Resuming'
    BY <1>13 DEF Kernel, Stop, Exit, vars, Fg, Bg, KillJob, SetBackgroundRanges, AgentStep
  <2> QED BY <1>1, <1>3, <2>1 DEF Busy
<1>14. ASSUME NEW S \in SUBSET Proc, NEW b, NEW o, Launch(S, b, o) PROVE Resumed'
  <2>1. /\ hpc' = [p \in Proc |-> IF p \in S THEN "seam" ELSE hpc[p]]
        /\ UNCHANGED <<hjob, state, sel, pc>> /\ pc = "run"
    BY <1>14 DEF Launch
  <2>2. \A p \in Proc : Busy(p)' => Busy(p)
    BY <1>1, <2>1 DEF Busy
  <2> QED BY <1>3, <2>1, <2>2
<1> QED
  BY <1>4, <1>5, <1>6, <1>7, <1>8, <1>9, <1>10, <1>11, <1>12, <1>13, <1>14, LaunchIsLaunch
  DEF Next, User

\* procDone either leaves a process to wait for or makes the job Done and unlists it.
LEMMA DoneOrMore ==
  ASSUME GroupInv, Counts', NEW j \in Job, ProcDone(j)
  PROVE  /\ \/ state'[j] = "Done" /\ live'[j] = 0 /\ j \notin jobs' /\ jobs' \subseteq jobs
            \/ UNCHANGED <<state, jobs>> /\ live'[j] > 0
         /\ \A k \in Job : k # j => state'[k] = state[k] /\ live'[k] = live[k]
<1>1. /\ state \in [Job -> {"Unborn", "Running", "Stopped", "Done"}] /\ live \in [Job -> Int]
  BY DEF GroupInv, TypeOK, JobTypes
<1>2. live'[j] = Unaccounted(j)' /\ Unaccounted(j)' \in Nat
  BY OwedFinite, FS_CardinalityType DEF Counts, LiveCounts, InHand
<1>3. live' = [live EXCEPT ![j] = live[j] - 1] /\ live'[j] = live[j] - 1
  BY <1>1 DEF ProcDone
<1>4. \A k \in Job : k # j => live'[k] = live[k]
  BY <1>1, <1>3
<1>5. CASE live[j] - 1 <= 0
  <2>1. state' = [state EXCEPT ![j] = "Done"] /\ jobs' = jobs \ {j}
    BY <1>5 DEF ProcDone, NoneRemain, Removed
  <2>2. live'[j] = 0
    BY <1>2, <1>3, <1>5
  <2> QED BY <1>1, <1>4, <2>1, <2>2
<1>6. CASE ~(live[j] - 1 <= 0)
  <2>1. UNCHANGED <<state, jobs>>
    BY <1>6 DEF ProcDone, NoneRemain
  <2>2. live'[j] > 0
    BY <1>1, <1>3, <1>6
  <2> QED BY <1>4, <2>1, <2>2
<1> QED BY <1>5, <1>6

\* Live jobs: what live says of the processes.
LEMMA LiveIsOwed ==
  ASSUME Counts, NEW j \in Job
  PROVE  /\ live[j] \in Nat
         /\ \A p \in Proc : Owes(p, j) => live[j] > 0
         /\ live[j] > 0 /\ rpc[j] # "exited" => \E p \in Proc : Owes(p, j)
<1>1. live[j] = Unaccounted(j) /\ Unaccounted(j) \in Nat
  BY CountIsNat DEF Counts, LiveCounts
<1> QED BY <1>1, OwedCounts, CountedIsOwed

\* EndLine files a job only as one that has stopped.
LEMMA KeptIsStopped ==
  ASSUME GroupInv, Sided, InLineOnly, Counts, ReaperAlone, Settled, pc = "decide", Keep(sel)
  PROVE  state[sel] = "Stopped"
<1>1. sel \in Job /\ ~background[sel] /\ LineHolds(sel)
  BY DEF GroupInv, Lines, SelIsJob, Held, KindsKept, LineHolds
<1>2. SUFFICES ASSUME live[sel] > 0 PROVE state[sel] = "Stopped"
  BY DEF Keep
<1>3. rpc[sel] # "exited"
  BY <1>1 DEF ReaperAlone
<1>4. PICK p \in Proc : Owes(p, sel)
  BY <1>1, <1>2, <1>3, LiveIsOwed
<1>5. hjob[p] = sel /\ ~Busy(p)
  BY <1>1, <1>4, QuietOffLine DEF Owes
<1>6. pst[p] \in Unreaped
  BY <1>4, <1>5 DEF Owes, Busy
<1> QED BY <1>1, <1>5, <1>6 DEF Settled, Busy

\* Every step keeps what a state says; Counts holds of the next state by CountsStep.
LEMMA SettledStep ==
  ASSUME PlainLines
  PROVE  GroupInv /\ Placed /\ Sided /\ InLineOnly /\ Filed /\ Counts /\ Counts' /\ ReaperAlone
         /\ Resumed /\ Settled /\ [Next]_vars => Settled'
<1> SUFFICES ASSUME PlainLines, GroupInv, Placed, Sided, InLineOnly, Filed, Counts, Counts',
                    ReaperAlone, Resumed, Settled, [Next]_vars
             PROVE  Settled'
  OBVIOUS
<1> DEFINE Here(p) == pst[p] \in Unreaped /\ LineHolds(hjob[p]) /\ hpc[p] \notin {"wait", "stopped"}
<1>1. /\ hpc \in [Proc -> HandlerPC] /\ hjob \in [Proc -> Job \cup {NoJob}]
      /\ state \in [Job -> {"Unborn", "Running", "Stopped", "Done"}]
      /\ background \in [Job -> BOOLEAN] /\ rpc \in [Job -> ReaperPC] /\ live \in [Job -> Int]
      /\ pst \in [Proc -> {"unborn", "running", "stopped", "zombie", "gone"}]
      /\ NoJob \notin Job /\ current \in Job \cup {NoJob}
      /\ current \in Job <=> pc \in InLine
      /\ pc \notin {"prompt", "ready", "run"} => sel \in Job
  BY Distinct DEF GroupInv, TypeOK, HandlerTypes, JobTypes, TableTypes, ProcTypes, Lines,
     LineHasJob, SelIsJob
<1>2. /\ \A p \in Proc : hpc[p] \notin {"none", "seam", "next"} => hjob[p] \in Job /\ ~Fresh(hjob[p])
      /\ \A p \in Proc : pst[p] # "unborn" =>
           /\ hjob[p] \in Job /\ hpc[p] \notin {"none", "seam", "next", "spawn"}
           /\ pgid[hjob[p]] # NoProc
      /\ \A p \in Proc : pst[p] \in Unreaped => hjob[p] \in Job
  BY DEF GroupInv, Lines, HandlerHasJob, Held, HeldNotFresh, Groups, ProcessHasGroup, Unreaped
<1>3. ASSUME UNCHANGED <<state, live>>,
             \A p \in Proc : Here(p)' => Here(p) /\ hjob'[p] = hjob[p],
             \A k \in Job : state[k] = "Done" /\ LineHolds(k) => LineHolds(k)',
             \/ UNCHANGED <<pc, sel, was>> \/ pc' \notin {"file", "reap"}
      PROVE  Settled'
  BY <1>1, <1>2, <1>3 DEF Settled
<1>4. ASSUME NEW p \in Proc, DispatchBackground(p) PROVE Settled'
  <2>1. PICK j \in Job : NewJob(j, TRUE) /\ hjob' = [hjob EXCEPT ![p] = j]
    BY <1>4, DispatchFresh
  <2>2. /\ hpc' = [hpc EXCEPT ![p] = "spawn"] /\ hpc[p] = "seam"
        /\ UNCHANGED <<pc, sel, was, pst, current, live>>
    BY <1>4 DEF DispatchBackground
  <2>3. Fresh(j) /\ state' = [state EXCEPT ![j] = "Running"]
    BY <2>1 DEF NewJob
  <2>4. \A q \in Proc : Here(q)' => Here(q) /\ hjob'[q] = hjob[q] /\ hjob[q] # j
    BY <1>1, <1>2, <2>1, <2>2, <2>3 DEF LineHolds, Unreaped
  <2>5. \A k \in Job : LineHolds(k)' <=> LineHolds(k)
    BY <2>2 DEF LineHolds
  <2>6. state'[j] = "Running" /\ \A k \in Job : k # j => state'[k] = state[k]
    BY <1>1, <2>3
  <2>7. pc \in {"file", "reap"} => sel # j
    BY <2>3 DEF Filed
  <2> QED BY <1>1, <1>2, <2>2, <2>4, <2>5, <2>6, <2>7 DEF Settled
<1>5. ASSUME NEW p \in Proc, DispatchForeground(p) PROVE Settled'
  <2>1. /\ hpc' = [hpc EXCEPT ![p] = "spawn"] /\ hjob' = [hjob EXCEPT ![p] = current]
        /\ hpc[p] = "seam" /\ UNCHANGED <<pc, sel, was, pst, current, live, state>>
    BY <1>5 DEF DispatchForeground
  <2>2. \A q \in Proc : Here(q)' => Here(q) /\ hjob'[q] = hjob[q]
    BY <1>1, <1>2, <2>1 DEF LineHolds, Unreaped
  <2> QED BY <1>3, <2>1, <2>2 DEF LineHolds
<1>6. ASSUME NEW p \in Proc, Start(p) PROVE Settled'
  <2>1. /\ hpc' = [hpc EXCEPT ![p] = "wait"] /\ hjob[p] \in Job /\ Busy(p)
        /\ pst' = [pst EXCEPT ![p] = "running"]
        /\ live' = [live EXCEPT ![hjob[p]] = live[hjob[p]] + 1]
        /\ UNCHANGED <<state, hjob, pc, sel, was, current>>
    BY <1>2, <1>6 DEF Start, OneMore, Busy
  <2>2. ~LineHolds(hjob[p]) => state[hjob[p]] # "Done"
    BY <2>1, LineAtWork DEF Resumed, LineHolds
  <2>3. \A q \in Proc : Here(q)' => Here(q)
    BY <1>1, <2>1 DEF LineHolds
  <2>4. \A k \in Job : live'[k] >= live[k] /\ (k # hjob[p] => live'[k] = live[k])
    BY <1>1, <2>1
  <2> QED BY <1>1, <2>1, <2>2, <2>3, <2>4 DEF Settled, LineHolds
<1>7. ASSUME NEW p \in Proc, HandlerDone(p) PROVE Settled'
  <2>1. /\ hpc' = [hpc EXCEPT ![p] = "return"] /\ hjob[p] \in Job /\ hpc[p] = "exited"
        /\ UNCHANGED <<pst, hjob, pc, sel, was, current, background>> /\ ProcDone(hjob[p])
    BY <1>2, <1>7 DEF HandlerDone
  <2>2. pst[p] = "gone" /\ Busy(p)
    BY <2>1 DEF Counts, Busy
  <2>3. \A q \in Proc : Here(q)' => Here(q)
    BY <1>1, <2>1, <2>2 DEF LineHolds, Unreaped
  <2>4. \A q \in Proc : Here(q)' => live'[hjob[q]] > 0
    BY <1>2, <2>1, OwedCountsThen DEF Owes, Unreaped, Counts, LiveCounts
  <2>5. pc \in {"file", "reap"} => sel # hjob[p]
    BY <2>2, QuietOffLine, <2>1 DEF Filed
  <2>6. /\ \/ state'[hjob[p]] = "Done" /\ live'[hjob[p]] = 0
           \/ UNCHANGED state /\ live'[hjob[p]] > 0
        /\ \A k \in Job : k # hjob[p] => state'[k] = state[k] /\ live'[k] = live[k]
    BY <2>1, DoneOrMore
  <2>7. \A k \in Job : LineHolds(k)' <=> LineHolds(k)
    BY <2>1 DEF LineHolds
  <2>8. CASE state'[hjob[p]] = "Done" /\ live'[hjob[p]] = 0
    <3>1. \A q \in Proc : Here(q)' => hjob[q] # hjob[p] /\ hjob'[q] = hjob[q] /\ hjob[q] \in Job
      BY <1>2, <2>1, <2>3, <2>4, <2>8
    <3>2. \A q \in Proc : Here(q)' => state'[hjob'[q]] = "Stopped"
      <4> SUFFICES ASSUME NEW q \in Proc, Here(q)' PROVE state'[hjob'[q]] = "Stopped"
        OBVIOUS
      <4>1. state[hjob[q]] = "Stopped"
        BY <2>3 DEF Settled
      <4> QED BY <2>6, <3>1, <4>1
    <3>3. pc' \in {"file", "reap"} => state'[sel'] = "Stopped"
      BY <1>1, <2>1, <2>5, <2>6 DEF Settled
    <3>4. \A k \in Job : /\ state'[k] = "Stopped" => live'[k] > 0
                         /\ state'[k] = "Done" /\ ~LineHolds(k)' => live'[k] = 0
      BY <2>6, <2>7, <2>8 DEF Settled
    <3> QED BY <2>1, <3>2, <3>3, <3>4 DEF Settled
  <2>9. CASE UNCHANGED state /\ live'[hjob[p]] > 0
    <3>1. \A k \in Job : state[k] = "Done" /\ ~LineHolds(k) => k # hjob[p]
      BY <2>1, <2>2, LiveIsOwed, LineAtWork DEF Settled, Resumed, LineHolds
    <3> QED BY <1>1, <1>2, <2>1, <2>3, <2>6, <2>7, <2>9, <3>1 DEF Settled
  <2> QED BY <2>6, <2>8, <2>9
<1>8. ASSUME NEW p \in Proc, HandlerStopped(p) PROVE Settled'
  <2>1. /\ hpc[p] = "stopped" /\ hpc'[p] \in {"return", "terminal"} /\ hjob[p] \in Job
        /\ \A q \in Proc : q # p => hpc'[q] = hpc[q]
        /\ state' = [state EXCEPT ![hjob[p]] = "Stopped"]
        /\ UNCHANGED <<pst, hjob, pc, sel, was, current, background, live>>
    BY <1>1, <1>2, <1>8 DEF HandlerStopped, MarkStopped
  <2>2. Busy(p) /\ Owes(p, hjob[p])
    BY <1>2, <2>1 DEF Busy, Owes, Counts, Unreaped
  <2>3. live[hjob[p]] > 0
    BY <2>1, <2>2, LiveIsOwed
  <2>4. \A q \in Proc : Here(q)' => Here(q) \/ q = p
    BY <1>1, <2>1 DEF LineHolds
  <2>5. state'[hjob[p]] = "Stopped" /\ \A k \in Job : k # hjob[p] => state'[k] = state[k]
    BY <1>1, <2>1
  <2> QED BY <1>1, <1>2, <2>1, <2>3, <2>4, <2>5 DEF Settled, LineHolds
<1>9. ASSUME NEW p \in Proc, Handler(p), ~DispatchBackground(p), ~DispatchForeground(p), ~Start(p),
             ~HandlerDone(p), ~HandlerStopped(p)
      PROVE  Settled'
  <2>1. UNCHANGED <<hjob, state, live, pc, sel, was, current>>
    BY <1>9 DEF Handler, StartRefused, Failed, StartMissing, WaitExit, WaitStop,
       HandlerTakesTerminal, DispatchNext, Return
  <2>2. \A q \in Proc : Here(q)' => Here(q)
    <3>1. CASE WaitExit(p)
      BY <1>1, <2>1, <3>1 DEF WaitExit, LineHolds, Unreaped
    <3>2. CASE ~WaitExit(p)
      BY <1>1, <1>9, <2>1, <3>2 DEF Handler, StartRefused, StartMissing, WaitStop,
         HandlerTakesTerminal, DispatchNext, Return, LineHolds
    <3> QED BY <3>1, <3>2
  <2> QED BY <1>3, <2>1, <2>2 DEF LineHolds
<1>10. ASSUME NEW j \in Job, Reaper(j) PROVE Settled'
  <2>1. /\ rpc[j] # "none" /\ UNCHANGED <<hpc, hjob, pc, sel, was, current>>
        /\ \A p \in Proc : pst'[p] = pst[p] \/ pst'[p] = "gone"
    BY <1>1, <1>10 DEF Reaper, ReapExit, ReaperDone, ReaperLoops, ReapStop, ReaperStopped,
       ReapNone, ReaperGivesUp
  <2>2. ~LineHolds(j) /\ (pc \in {"file", "reap"} => sel # j)
    BY <2>1 DEF ReaperAlone, LineHolds
  <2>3. \A q \in Proc : Here(q)' => Here(q) /\ hjob[q] # j
    BY <2>1, <2>2 DEF LineHolds, Unreaped
  <2>4. /\ \A k \in Job : k # j => state'[k] = state[k] /\ live'[k] = live[k]
        /\ state'[j] = "Stopped" => live'[j] > 0
        /\ state'[j] = "Done" => live'[j] = 0
    <3>1. CASE ReaperDone(j)
      <4>1. ProcDone(j) /\ live[j] > 0 /\ state[j] # "Done"
        BY <3>1 DEF ReaperDone, ReaperAlone
      <4> QED BY <4>1, DoneOrMore
    <3>2. CASE ReaperStopped(j)
      <4>1. live[j] > 0
        BY <3>2 DEF ReaperStopped, ReaperAlone
      <4> QED BY <1>1, <3>2, <4>1 DEF ReaperStopped, MarkStopped
    <3>3. CASE ~ReaperDone(j) /\ ~ReaperStopped(j)
      <4>1. UNCHANGED <<state, live>>
        BY <1>10, <3>3 DEF Reaper, ReapExit, ReaperLoops, ReapStop, ReapNone, ReaperGivesUp, ReaperAlone
      <4> QED BY <2>2, <4>1 DEF Settled
    <3> QED BY <3>1, <3>2, <3>3
  <2> QED BY <1>1, <1>2, <2>1, <2>2, <2>3, <2>4 DEF Settled, LineHolds
<1>11. ASSUME ResumeMark PROVE Settled'
  <2>1. /\ pc = "mark" /\ pc' = "takeover" /\ sel \in Job
        /\ UNCHANGED <<hpc, hjob, pst, live, sel, current>>
        /\ \A k \in Job : k # sel => state'[k] = state[k]
        /\ state'[sel] = state[sel] \/ state'[sel] = "Running"
    BY <1>1, <1>11 DEF ResumeMark
  <2>2. sel # current
    BY <2>1 DEF Filed
  <2> QED BY <1>1, <1>2, <2>1, <2>2 DEF Settled, LineHolds
<1>12. ASSUME Resume, ~ResumeMark PROVE Settled'
  <2>1. UNCHANGED <<hpc, hjob, state, live, current>> /\ {pc, pc'} \cap {"decide", "file", "reap"} = {}
    BY <1>12 DEF Resume, ResumeSnapshot, ResumeContinue, ResumeTakeover, FgReturn, Back
  <2>2. \A p \in Proc : pst'[p] = pst[p] \/ pst[p] = "stopped"
    BY <1>12 DEF Resume, ResumeSnapshot, ResumeContinue, Continue, Continued, Members, ResumeTakeover,
       FgReturn
  <2>3. \A p \in Proc : Here(p)' => Here(p)
    BY <2>1, <2>2 DEF LineHolds, Unreaped
  <2> QED BY <1>3, <2>1, <2>3 DEF LineHolds
<1>13. ASSUME EndLine PROVE Settled'
  <2>1. /\ sel' = current /\ current' = NoJob /\ pc = "run" /\ pc' = "decide"
        /\ UNCHANGED <<hpc, hjob, state, live, pst>>
    BY <1>13 DEF EndLine
  <2>2. \A k \in Job : LineHolds(k)' <=> LineHolds(k)
    BY <1>1, <2>1 DEF LineHolds
  <2> QED BY <1>2, <1>3, <2>1, <2>2
<1>14. ASSUME EndLineEmpty PROVE Settled'
  <2>1. /\ pc = "decide" /\ pc' = "prompt" /\ sel \in Job /\ current = NoJob /\ pgid[sel] = NoProc
        /\ UNCHANGED <<hpc, hjob, live, pst, current>>
        /\ \A k \in Job : k # sel => state'[k] = state[k]
        /\ state'[sel] = state[sel] \/ state'[sel] = "Unborn"
    BY <1>1, <1>14 DEF EndLineEmpty, Back
  <2>2. \A p \in Proc : ~Owes(p, sel)
    BY <1>2, <2>1 DEF Owes
  <2>3. LineHolds(sel) /\ rpc[sel] # "exited"
    BY <2>1 DEF LineHolds, ReaperAlone
  <2>4. live[sel] = 0
    BY <2>1, <2>2, <2>3, LiveIsOwed
  <2>5. \A k \in Job : ~LineHolds(k)' /\ (LineHolds(k) => k = sel)
    BY <1>1, <2>1 DEF LineHolds
  <2> QED BY <1>1, <1>2, <2>1, <2>4, <2>5 DEF Settled
<1>15. ASSUME EndLineDecide PROVE Settled'
  <2>1. /\ pc = "decide" /\ sel \in Job /\ current = NoJob /\ was' = (state[sel] = "Stopped")
        /\ UNCHANGED <<hpc, hjob, live, pst, current, state>>
        /\ IF Keep(sel) THEN pc' = "file" /\ sel' = sel ELSE pc' = "prompt"
    BY <1>1, <1>15 DEF EndLineDecide, Back
  <2>2. CASE Keep(sel)
    <3>1. state[sel] = "Stopped"
      BY <2>1, <2>2, KeptIsStopped
    <3>2. \A k \in Job : LineHolds(k)' <=> LineHolds(k)
      BY <2>1, <2>2 DEF LineHolds
    <3> QED BY <1>1, <1>2, <2>1, <2>2, <3>1, <3>2 DEF Settled
  <2>3. CASE ~Keep(sel)
    <3>1. live[sel] = 0
      BY <2>1, <2>3, LiveIsOwed DEF Keep
    <3>2. \A k \in Job : ~LineHolds(k)' /\ (LineHolds(k) => k = sel)
      BY <1>1, <2>1, <2>3 DEF LineHolds
    <3> QED BY <1>1, <1>2, <2>1, <2>3, <3>1, <3>2 DEF Settled
  <2> QED BY <2>2, <2>3
<1>16. ASSUME EndLineFile \/ EndLineReap PROVE Settled'
  <2>1. /\ pc \in {"file", "reap"} /\ sel \in Job /\ current = NoJob
        /\ pc' = "prompt" \/ (pc' = "reap" /\ sel' = sel)
        /\ UNCHANGED <<hpc, hjob, live, pst, current, state>>
    BY <1>1, <1>16 DEF EndLineFile, EndLineReap, Back
  <2>2. \A k \in Job : (LineHolds(k) => k = sel) /\ (LineHolds(k)' => LineHolds(k))
    BY <1>1, <2>1 DEF LineHolds
  <2>3. state[sel] = "Stopped"
    BY <2>1 DEF Settled
  <2> QED BY <1>1, <1>2, <2>1, <2>2, <2>3 DEF Settled
<1>17. ASSUME BeginLine PROVE Settled'
  <2>1. PICK j \in Job : Fresh(j) /\ state' = [state EXCEPT ![j] = "Running"] /\ current' = j
    BY <1>17 DEF BeginLine, NewJob
  <2>2. /\ pc = "ready" /\ pc' = "run" /\ current = NoJob
        /\ UNCHANGED <<hpc, hjob, pst, live, sel>>
    BY <1>1, <1>17 DEF BeginLine
  <2>3. \A k \in Job : ~LineHolds(k) /\ (LineHolds(k)' <=> k = j)
    BY <1>1, <2>1, <2>2 DEF LineHolds
  <2>4. \A p \in Proc : ~Here(p)'
    BY <1>1, <1>2, <2>1, <2>2, <2>3 DEF Unreaped
  <2> QED BY <1>1, <2>1, <2>2, <2>3, <2>4 DEF Settled
<1>18. ASSUME \/ Kernel \/ \E j \in Job : KillJob(j) PROVE Settled'
  <2>1. UNCHANGED <<hpc, hjob, state, live, pc, sel, was, current>>
    BY <1>18 DEF Kernel, Stop, Exit, KillJob
  <2>2. \A p \in Proc : pst'[p] = pst[p] \/ pst[p] \in Unreaped
    BY <1>1, <1>18 DEF Kernel, Stop, Exit, KillJob, Continue, Continued, Members, Unreaped
  <2>3. \A p \in Proc : Here(p)' => Here(p)
    BY <1>1, <2>1, <2>2 DEF LineHolds, Unreaped
  <2> QED BY <1>3, <2>1, <2>3 DEF LineHolds
<1>19. ASSUME \/ UNCHANGED vars
              \/ \E j \in Job : Fg(j) \/ Bg(j)
              \/ \E r \in SUBSET Offset : SetBackgroundRanges(r) \/ AgentStep(r)
       PROVE  Settled'
  <2>1. /\ UNCHANGED <<hpc, hjob, state, live, pst, current>>
        /\ UNCHANGED <<pc, sel, was>> \/ {pc, pc'} \cap {"decide", "file", "reap"} = {}
    BY <1>19 DEF vars, Fg, Bg, SetBackgroundRanges, AgentStep
  <2> QED BY <1>3, <2>1 DEF LineHolds
<1>20. ASSUME NEW S \in SUBSET Proc, NEW b, NEW o, Launch(S, b, o) PROVE Settled'
  <2>1. /\ hpc' = [p \in Proc |-> IF p \in S THEN "seam" ELSE hpc[p]]
        /\ UNCHANGED <<hjob, state, live, pst, current, sel, pc>> /\ pc = "run"
        /\ \A p \in S : hpc[p] = "none"
    BY <1>20 DEF Launch
  <2>2. \A p \in Proc : Here(p)' => Here(p)
    BY <1>1, <1>2, <2>1 DEF LineHolds, Unreaped
  <2> QED BY <1>3, <2>1, <2>2 DEF LineHolds
<1> QED
  BY <1>4, <1>5, <1>6, <1>7, <1>8, <1>9, <1>10, <1>11, <1>12, <1>13, <1>14, <1>15, <1>16, <1>17,
     <1>18, <1>19, <1>20, LaunchIsLaunch
  DEF Next, User, CloseLine
-----------------------------------------------------------------------------
(* Children, the list and the terminal                                     *)

\* The bookkeeping of a session of plain lines.
LineInv ==
  /\ GroupInv /\ Placed /\ Sided /\ InLineOnly /\ Filed
  /\ Counts /\ ReaperAlone /\ Resumed /\ Settled

\* While fg waits, whatever still runs outside the terminal has its handler waiting.
TerminalKept ==
  /\ pc \in {"prompt", "ready", "decide", "file", "reap"} => tty = Shell
  /\ pc = "waitchange" => fore
  /\ pc \in {"mark", "takeover", "waitchange"} /\ fore /\ tty # pgid[sel] =>
       \A p \in Proc : hjob[p] = sel /\ pst[p] = "running" => hpc[p] = "wait"

\* Every step leaves each child with somebody to reap it.
LEMMA WaiterStep ==
  ASSUME PlainLines
  PROVE  LineInv /\ LineInv' /\ EveryChildHasAWaiter /\ [Next]_vars => EveryChildHasAWaiter'
<1> SUFFICES ASSUME PlainLines, LineInv, LineInv', EveryChildHasAWaiter, [Next]_vars
             PROVE  EveryChildHasAWaiter'
  OBVIOUS
<1>0. GroupInv /\ Placed /\ Sided /\ InLineOnly /\ Filed /\ Counts /\ ReaperAlone /\ Settled
      /\ ReaperAlone' /\ Counts'
  BY DEF LineInv
<1> DEFINE Waited(p) ==
      \/ hpc[p] \in {"wait", "stopped"}
      \/ hpc[p] = "return" /\ background[hjob[p]]
      \/ rpc[hjob[p]] # "none" \/ LineHolds(hjob[p])
<1>1. /\ hpc \in [Proc -> HandlerPC] /\ hjob \in [Proc -> Job \cup {NoJob}]
      /\ pst \in [Proc -> {"unborn", "running", "stopped", "zombie", "gone"}]
      /\ rpc \in [Job -> ReaperPC] /\ reaping \in [Job -> BOOLEAN] /\ live \in [Job -> Int]
      /\ current \in Job \cup {NoJob} /\ NoJob \notin Job
      /\ pc \notin {"prompt", "ready", "run"} => sel \in Job
      /\ current \in Job <=> pc \in InLine
  BY <1>0, Distinct DEF GroupInv, TypeOK, HandlerTypes, JobTypes, TableTypes, ProcTypes, Lines,
     SelIsJob, LineHasJob
<1>2. \A p \in Proc : pst[p] \in Unreaped =>
        /\ hjob[p] \in Job /\ hpc[p] \notin {"none", "seam", "next", "spawn"}
        /\ pgid[hjob[p]] # NoProc /\ ~Fresh(hjob[p]) /\ Waited(p)
        /\ live[hjob[p]] > 0
  <2> SUFFICES ASSUME NEW p \in Proc, pst[p] \in Unreaped
               PROVE  /\ hjob[p] \in Job /\ hpc[p] \notin {"none", "seam", "next", "spawn"}
                      /\ pgid[hjob[p]] # NoProc /\ ~Fresh(hjob[p]) /\ Waited(p)
                      /\ live[hjob[p]] > 0
    OBVIOUS
  <2>1. pst[p] # "unborn"
    BY DEF Unreaped
  <2>2. /\ hjob[p] \in Job /\ hpc[p] \notin {"none", "seam", "next", "spawn"}
        /\ pgid[hjob[p]] # NoProc /\ ~Fresh(hjob[p]) /\ Owes(p, hjob[p])
    BY <1>0, <2>1 DEF GroupInv, Groups, ProcessHasGroup, Lines, HandlerHasJob, Held,
       HeldNotFresh, Owes
  <2>3. live[hjob[p]] > 0
    BY <1>0, <2>2, LiveIsOwed
  <2>4. Waited(p)
    BY DEF EveryChildHasAWaiter
  <2> QED BY <2>2, <2>3, <2>4
<1>3. \A k \in Job : ~Fresh(k) => background'[k] = background[k]
  BY <1>0, InUse
<1>4. ASSUME \A p \in Proc : pst'[p] \in Unreaped => (pst[p] \in Unreaped /\ Waited(p)') \/ hpc'[p] = "wait"
      PROVE  EveryChildHasAWaiter'
  BY <1>4 DEF EveryChildHasAWaiter, Unreaped
<1>5. ASSUME \A p \in Proc : /\ pst'[p] \in Unreaped => pst[p] \in Unreaped /\ hjob'[p] = hjob[p]
                             /\ pst'[p] \in Unreaped /\ hpc[p] \in {"wait", "stopped", "return"}
                                  => hpc'[p] = hpc[p],
             \A k \in Job : /\ rpc[k] # "none" => rpc'[k] # "none"
                            /\ LineHolds(k) => LineHolds(k)'
      PROVE  EveryChildHasAWaiter'
  BY <1>2, <1>3, <1>4, <1>5
<1>6. ASSUME NEW j \in Job, EnsureReaper(j)
      PROVE  /\ \A k \in Job : rpc[k] # "none" => rpc'[k] # "none"
             /\ live[j] > 0 => rpc'[j] # "none"
  BY <1>0, <1>1, <1>6 DEF EnsureReaper, ReaperDue, ReaperAlone
<1>7. ASSUME NEW p \in Proc, Start(p) PROVE EveryChildHasAWaiter'
  <2>1. /\ hpc' = [hpc EXCEPT ![p] = "wait"] /\ pst' = [pst EXCEPT ![p] = "running"]
        /\ UNCHANGED <<hjob, rpc, pc, current, sel>>
    BY <1>7 DEF Start
  <2> QED BY <1>1, <1>2, <1>3, <1>4, <2>1 DEF LineHolds
<1>8. ASSUME NEW p \in Proc, HandlerStopped(p) PROVE EveryChildHasAWaiter'
  <2>1. /\ hpc[p] = "stopped" /\ UNCHANGED <<pst, hjob, rpc, pc, current, sel, background>>
        /\ hpc' = [hpc EXCEPT ![p] = IF background[hjob[p]] THEN "return" ELSE "terminal"]
    BY <1>8 DEF HandlerStopped
  <2>2. ~background[hjob[p]] => LineHolds(hjob[p])
    BY <1>0, <2>1, LineAtWork DEF Busy, LineHolds
  <2>3. Waited(p)'
    <3>1. CASE background[hjob[p]]
      BY <1>1, <2>1, <3>1
    <3>2. CASE ~background[hjob[p]]
      BY <2>1, <2>2, <3>2 DEF LineHolds
    <3> QED BY <3>1, <3>2
  <2> QED BY <1>1, <1>2, <1>4, <2>1, <2>3 DEF LineHolds
<1>9. ASSUME NEW p \in Proc, Return(p) PROVE EveryChildHasAWaiter'
  <2>1. /\ hpc' = [hpc EXCEPT ![p] = "end"] /\ hpc[p] \in {"return", "refused", "missing"}
        /\ hjob[p] \in Job /\ UNCHANGED <<pst, hjob, pc, current, sel, background>>
        /\ IF background[hjob[p]] THEN EnsureReaper(hjob[p]) ELSE UNCHANGED rpc
    BY <1>0, <1>9 DEF Return, GroupInv, Lines, HandlerHasJob
  <2>2. \A k \in Job : rpc[k] # "none" => rpc'[k] # "none"
    BY <1>6, <2>1
  <2>3. pst[p] \in Unreaped /\ background[hjob[p]] => rpc'[hjob[p]] # "none"
    BY <1>2, <1>6, <2>1
  <2> QED BY <1>1, <1>2, <1>4, <2>1, <2>2, <2>3 DEF LineHolds
<1>10. ASSUME NEW p \in Proc, Handler(p), ~Start(p), ~HandlerStopped(p), ~Return(p)
       PROVE  EveryChildHasAWaiter'
  <2>1. UNCHANGED <<rpc, pc, current, sel>>
    BY <1>10 DEF Handler, DispatchBackground, DispatchForeground, DispatchNext, StartRefused,
       StartMissing, WaitExit, HandlerDone, WaitStop, HandlerTakesTerminal
  <2>2. /\ \A q \in Proc : q # p => pst'[q] = pst[q] /\ hpc'[q] = hpc[q] /\ hjob'[q] = hjob[q]
        /\ pst'[p] \in Unreaped => pst[p] \in Unreaped /\ hjob'[p] = hjob[p]
        /\ \/ pst'[p] = "gone" \/ hpc[p] \notin {"wait", "stopped", "return"}
           \/ hpc[p] = "wait" /\ hpc'[p] = "stopped"
    <3>1. CASE DispatchBackground(p)
      <4>1. hpc[p] = "seam" /\ UNCHANGED pst /\ hpc' = [hpc EXCEPT ![p] = "spawn"]
            /\ \E j \in Job : hjob' = [hjob EXCEPT ![p] = j]
        BY <1>0, <3>1, DispatchFresh DEF DispatchBackground
      <4> QED BY <1>1, <1>2, <4>1
    <3>2. CASE DispatchForeground(p)
      BY <1>1, <1>2, <3>2 DEF DispatchForeground
    <3>3. CASE WaitExit(p)
      BY <1>1, <3>3 DEF WaitExit, Unreaped
    <3>4. CASE ~DispatchBackground(p) /\ ~DispatchForeground(p) /\ ~WaitExit(p)
      BY <1>1, <1>10, <3>4 DEF Handler, DispatchNext, StartRefused,
       StartMissing, HandlerDone, WaitStop, HandlerTakesTerminal
    <3> QED BY <3>1, <3>2, <3>3, <3>4
  <2> QED BY <1>2, <1>3, <1>4, <2>1, <2>2 DEF LineHolds, Unreaped
<1>11. ASSUME NEW j \in Job, Reaper(j) PROVE EveryChildHasAWaiter'
  <2>1. /\ UNCHANGED <<hpc, hjob, pc, current, sel, background>>
        /\ \A p \in Proc : pst'[p] \in Unreaped => pst[p] \in Unreaped
        /\ \A k \in Job : k # j => rpc'[k] = rpc[k]
    BY <1>1, <1>11 DEF Reaper, ReapExit, ReaperDone, ReaperLoops, ReapStop, ReaperStopped,
       ReapNone, ReaperGivesUp, Unreaped
  <2>2. rpc'[j] = "none" => live[j] = 0
    <3>1. rpc'[j] = "none" => rpc[j] = "check" /\ state[j] = "Done"
      BY <1>0, <1>1, <1>11 DEF Reaper, ReapExit, ReaperDone, ReaperLoops, DoneNow, ReapStop,
         ReaperStopped, ReapNone, ReaperGivesUp, ReaperAlone
    <3> QED BY <1>0, <3>1 DEF ReaperAlone
  <2> QED BY <1>1, <1>2, <1>4, <2>1, <2>2 DEF LineHolds
<1>12. ASSUME Resume PROVE EveryChildHasAWaiter'
  <2>1. /\ UNCHANGED <<hpc, hjob, current>> /\ {pc, pc'} \cap {"decide", "file", "reap"} = {}
    BY <1>12 DEF Resume, ResumeSnapshot, ResumeContinue, ResumeMark, ResumeTakeover, FgReturn, Back
  <2>2. \A p \in Proc : pst'[p] = pst[p] \/ pst[p] = "stopped"
    BY <1>12 DEF Resume, ResumeSnapshot, ResumeContinue, Continue, Continued, Members, ResumeMark,
       ResumeTakeover, FgReturn
  <2>3. \A k \in Job : rpc[k] # "none" => rpc'[k] # "none"
    <3>1. CASE ResumeTakeover
      BY <1>1, <1>6, <3>1 DEF ResumeTakeover
    <3>2. CASE ~ResumeTakeover
      BY <1>12, <3>2 DEF Resume, ResumeSnapshot, ResumeContinue, ResumeMark, FgReturn
    <3> QED BY <3>1, <3>2
  <2> QED BY <1>5, <2>1, <2>2, <2>3 DEF LineHolds, Unreaped
<1>13. ASSUME EndLine \/ BeginLine PROVE EveryChildHasAWaiter'
  <2>1. /\ UNCHANGED <<hpc, hjob, pst, rpc>>
        /\ \A k \in Job : LineHolds(k) => LineHolds(k)'
    BY <1>1, <1>13 DEF EndLine, BeginLine, LineHolds
  <2> QED BY <1>5, <2>1
<1>14. ASSUME EndLineEmpty PROVE EveryChildHasAWaiter'
  <2>1. /\ pc = "decide" /\ pc' = "prompt" /\ current = NoJob /\ pgid[sel] = NoProc
        /\ UNCHANGED <<hpc, hjob, pst, rpc, current, background>>
    BY <1>1, <1>14 DEF EndLineEmpty, Back
  <2>2. \A p \in Proc : pst[p] \in Unreaped => ~LineHolds(hjob[p])
    BY <1>1, <1>2, <2>1 DEF LineHolds
  <2> QED BY <1>2, <1>4, <2>1, <2>2
<1>15. ASSUME EndLineDecide PROVE EveryChildHasAWaiter'
  <2>1. /\ pc = "decide" /\ sel \in Job /\ current = NoJob
        /\ UNCHANGED <<hpc, hjob, pst, current, rpc, background>>
        /\ IF Keep(sel) THEN pc' = "file" /\ sel' = sel ELSE pc' = "prompt"
    BY <1>1, <1>15 DEF EndLineDecide, Back
  <2>2. CASE Keep(sel)
    BY <1>5, <2>1, <2>2 DEF LineHolds
  <2>3. CASE ~Keep(sel)
    <3>1. live[sel] <= 0
      BY <1>1, <2>1, <2>3 DEF Keep
    <3>2. \A p \in Proc : pst[p] \in Unreaped => ~LineHolds(hjob[p])
      BY <1>1, <1>2, <2>1, <3>1 DEF LineHolds
    <3> QED BY <1>2, <1>4, <2>1, <3>2
  <2> QED BY <2>2, <2>3
<1>16. ASSUME EndLineFile PROVE EveryChildHasAWaiter'
  <2>1. /\ pc = "file" /\ pc' = "reap" /\ UNCHANGED <<hpc, hjob, pst, current, rpc, sel>>
    BY <1>0, <1>16 DEF EndLineFile, LeftStopped, Settled
  <2> QED BY <1>5, <2>1 DEF LineHolds
<1>17. ASSUME EndLineReap PROVE EveryChildHasAWaiter'
  <2>1. /\ pc = "reap" /\ sel \in Job /\ current = NoJob /\ EnsureReaper(sel)
        /\ UNCHANGED <<hpc, hjob, pst, current, background>>
    BY <1>1, <1>17 DEF EndLineReap
  <2>2. \A k \in Job : LineHolds(k) => k = sel
    BY <1>1, <2>1 DEF LineHolds
  <2>3. \A p \in Proc : pst[p] \in Unreaped /\ LineHolds(hjob[p]) => rpc'[hjob[p]] # "none"
    BY <1>2, <1>6, <2>1, <2>2
  <2> QED BY <1>2, <1>4, <1>6, <2>1, <2>3
<1>18. ASSUME \/ Kernel \/ UNCHANGED vars
              \/ \E j \in Job : Fg(j) \/ Bg(j) \/ KillJob(j)
              \/ \E r \in SUBSET Offset : SetBackgroundRanges(r) \/ AgentStep(r)
       PROVE  EveryChildHasAWaiter'
  <2>1. UNCHANGED <<hpc, hjob, rpc, current>>
        /\ (UNCHANGED <<pc, sel>> \/ {pc, pc'} \cap {"decide", "file", "reap"} = {})
    BY <1>18 DEF Kernel, Stop, Exit, vars, Fg, Bg, KillJob, SetBackgroundRanges, AgentStep
  <2>2. \A p \in Proc : pst'[p] = pst[p] \/ pst[p] \in Unreaped
    BY <1>1, <1>18 DEF Kernel, Stop, Exit, vars, Fg, Bg, KillJob, Continue, Continued, Members,
       SetBackgroundRanges, AgentStep, Unreaped
  <2>3. \A p \in Proc : pst'[p] \in Unreaped => pst[p] \in Unreaped
    BY <2>2 DEF Unreaped
  <2> QED BY <1>5, <2>1, <2>3 DEF LineHolds
<1>19. ASSUME NEW S \in SUBSET Proc, NEW b, NEW o, Launch(S, b, o) PROVE EveryChildHasAWaiter'
  <2>1. /\ hpc' = [p \in Proc |-> IF p \in S THEN "seam" ELSE hpc[p]]
        /\ UNCHANGED <<hjob, rpc, pst, current, sel, pc>>
        /\ \A p \in S : hpc[p] = "none"
    BY <1>19 DEF Launch
  <2>2. \A p \in Proc : hpc[p] # "none" => hpc'[p] = hpc[p]
    BY <1>1, <2>1
  <2> QED BY <1>5, <2>1, <2>2 DEF LineHolds
<1> QED
  BY <1>7, <1>8, <1>9, <1>10, <1>11, <1>12, <1>13, <1>14, <1>15, <1>16, <1>17, <1>18, <1>19,
     LaunchIsLaunch
  DEF Next, User, CloseLine

\* No step lists a job that is Done.
LEMMA DoneNotListedStep ==
  ASSUME PlainLines PROVE LineInv /\ LineInv' /\ DoneNotListed /\ [Next]_vars => DoneNotListed'
<1> SUFFICES ASSUME PlainLines, LineInv, LineInv', DoneNotListed, [Next]_vars PROVE DoneNotListed'
  OBVIOUS
<1>1. /\ state \in [Job -> {"Unborn", "Running", "Stopped", "Done"}] /\ jobs \subseteq Job
      /\ pc \notin {"prompt", "ready", "run"} => sel \in Job
      /\ \A p \in Proc : hpc[p] \notin {"none", "seam", "next"} => hjob[p] \in Job
      /\ GroupInv /\ Placed /\ ReaperAlone /\ Counts' /\ Settled
  BY DEF LineInv, GroupInv, TypeOK, JobTypes, TableTypes, Lines, SelIsJob, HandlerHasJob
<1>2. ASSUME jobs' \subseteq jobs, \A j \in jobs' : state'[j] = "Done" => state[j] = "Done"
      PROVE  DoneNotListed'
  BY <1>2 DEF DoneNotListed
<1>3. ASSUME NEW p \in Proc, DispatchBackground(p) PROVE DoneNotListed'
  <2>1. PICK j \in Job : NewJob(j, TRUE) /\ jobs' = jobs \cup {j}
    BY <1>1, <1>3, DispatchFresh
  <2> QED BY <1>1, <2>1 DEF NewJob, DoneNotListed
<1>4. ASSUME NEW j \in Job, ProcDone(j) PROVE DoneNotListed'
  BY <1>1, <1>2, <1>4, DoneOrMore
<1>5. ASSUME NEW p \in Proc, Handler(p), ~DispatchBackground(p) PROVE DoneNotListed'
  <2>1. CASE HandlerDone(p)
    BY <1>1, <1>4, <2>1 DEF HandlerDone
  <2>2. CASE ~HandlerDone(p)
    BY <1>1, <1>2, <1>5, <2>2 DEF Handler, DispatchForeground, DispatchNext, Start, StartRefused,
       StartMissing, WaitExit, WaitStop, HandlerStopped, MarkStopped, HandlerTakesTerminal, Return
  <2> QED BY <2>1, <2>2
<1>6. ASSUME NEW j \in Job, Reaper(j) PROVE DoneNotListed'
  <2>1. CASE ReaperDone(j)
    BY <1>4, <2>1 DEF ReaperDone
  <2>2. CASE ~ReaperDone(j)
    BY <1>1, <1>2, <1>6, <2>2 DEF Reaper, ReapExit, ReaperLoops, ReapStop, ReaperStopped,
       MarkStopped, ReapNone, ReaperGivesUp, ReaperAlone
  <2> QED BY <2>1, <2>2
<1>7. ASSUME EndLineFile PROVE DoneNotListed'
  <2>1. jobs' = jobs \cup {sel} /\ UNCHANGED state /\ state[sel] = "Stopped"
    BY <1>1, <1>7 DEF EndLineFile, Settled
  <2> QED BY <2>1 DEF DoneNotListed
<1>8. ASSUME \/ BeginLine \/ Resume \/ EndLineEmpty
      PROVE  DoneNotListed'
  <2>1. UNCHANGED jobs /\ \A j \in Job : state'[j] = "Done" => state[j] = "Done"
    BY <1>1, <1>8 DEF BeginLine, NewJob, Resume, ResumeSnapshot, ResumeContinue, ResumeMark,
       ResumeTakeover, FgReturn, EndLineEmpty
  <2> QED BY <1>1, <1>2, <2>1
<1>9. ASSUME \/ EndLine \/ EndLineDecide \/ EndLineReap \/ Kernel \/ UNCHANGED vars
             \/ \E j \in Job : Fg(j) \/ Bg(j) \/ KillJob(j)
             \/ \E r \in SUBSET Offset : SetBackgroundRanges(r) \/ AgentStep(r)
      PROVE  DoneNotListed'
  BY <1>2, <1>9 DEF EndLine, EndLineDecide, EndLineReap, Kernel, Stop, Exit, vars, Fg, Bg, KillJob,
     SetBackgroundRanges, AgentStep
<1>10. ASSUME NEW S \in SUBSET Proc, NEW b, NEW o, Launch(S, b, o) PROVE DoneNotListed'
  BY <1>2, <1>10 DEF Launch
<1> QED
  BY <1>3, <1>5, <1>6, <1>7, <1>8, <1>9, <1>10, LaunchIsLaunch DEF Next, User, CloseLine

\* No step empties a listed job, where every command can be started.
LEMMA ListedHasProcessStep ==
  ASSUME PlainLines, "badpath" \notin Features
  PROVE  LineInv /\ LineInv' /\ ListedHasProcess /\ [Next]_vars => ListedHasProcess'
<1> SUFFICES ASSUME PlainLines, "badpath" \notin Features, LineInv, LineInv', ListedHasProcess,
                    [Next]_vars
             PROVE  ListedHasProcess'
  OBVIOUS
<1>1. /\ jobs \subseteq Job /\ live \in [Job -> Int] /\ hpc \in [Proc -> HandlerPC]
      /\ hjob \in [Proc -> Job \cup {NoJob}]
      /\ pc \notin {"prompt", "ready", "run"} => sel \in Job
      /\ \A p \in Proc : hpc[p] \notin {"none", "seam", "next"} => hjob[p] \in Job
      /\ GroupInv /\ Placed /\ Sided /\ InLineOnly /\ Filed /\ Counts /\ Counts' /\ ReaperAlone
      /\ Settled
  BY DEF LineInv, GroupInv, TypeOK, JobTypes, TableTypes, HandlerTypes, Lines, SelIsJob, HandlerHasJob
<1>2. ASSUME jobs' \subseteq jobs, \A j \in jobs' : live[j] > 0 => live'[j] > 0,
             \A p \in Proc : hpc[p] = "spawn" /\ hjob[p] \in jobs' =>
               (hpc'[p] = "spawn" /\ hjob'[p] = hjob[p]) \/ live'[hjob[p]] > 0
      PROVE  ListedHasProcess'
  BY <1>2 DEF ListedHasProcess
<1>3. ASSUME NEW p \in Proc, DispatchBackground(p) PROVE ListedHasProcess'
  <2>1. PICK j \in Job : jobs' = jobs \cup {j} /\ hjob' = [hjob EXCEPT ![p] = j]
    BY <1>1, <1>3, DispatchFresh
  <2>2. hpc[p] = "seam" /\ hpc' = [hpc EXCEPT ![p] = "spawn"] /\ UNCHANGED live
    BY <1>3 DEF DispatchBackground
  <2>3. hjob'[p] = j /\ hpc'[p] = "spawn"
    BY <1>1, <2>1, <2>2
  <2>4. \A q \in Proc : hpc[q] = "spawn" => hpc'[q] = "spawn" /\ hjob'[q] = hjob[q]
    BY <1>1, <2>1, <2>2
  <2> QED BY <2>1, <2>2, <2>3, <2>4 DEF ListedHasProcess
<1>4. ASSUME NEW p \in Proc, DispatchForeground(p) PROVE ListedHasProcess'
  <2>1. /\ hpc[p] = "seam" /\ hpc' = [hpc EXCEPT ![p] = "spawn"] /\ hjob' = [hjob EXCEPT ![p] = current]
        /\ UNCHANGED <<live, jobs>>
    BY <1>4 DEF DispatchForeground
  <2> QED BY <1>1, <1>2, <2>1
<1>5. ASSUME NEW p \in Proc, Start(p) PROVE ListedHasProcess'
  <2>1. /\ hpc' = [hpc EXCEPT ![p] = "wait"] /\ hjob[p] \in Job /\ UNCHANGED <<jobs, hjob>>
        /\ live' = [live EXCEPT ![hjob[p]] = live[hjob[p]] + 1] /\ live[hjob[p]] \in Nat
    BY <1>1, <1>5, LiveIsOwed DEF Start, OneMore
  <2>2. \A j \in Job : live'[j] >= live[j]
    BY <1>1, <2>1
  <2>3. live'[hjob[p]] > 0
    BY <1>1, <2>1
  <2>4. \A q \in Proc : q # p => hpc'[q] = hpc[q]
    BY <1>1, <2>1
  <2>5. \A j \in jobs' : live[j] > 0 => live'[j] > 0
    BY <1>1, <2>1, <2>2
  <2> QED BY <1>2, <2>1, <2>3, <2>4, <2>5
<1>6. ASSUME NEW p \in Proc, StartRefused(p) PROVE ListedHasProcess'
  <2>1. /\ hpc[p] = "spawn" /\ hpc' = [hpc EXCEPT ![p] = "refused"] /\ hjob[p] \in Job
        /\ UNCHANGED <<jobs, hjob, live>> /\ pgid[hjob[p]] # NoProc
    BY <1>1, <1>6 DEF StartRefused, Failed, Leader
  <2>2. ~background[hjob[p]]
    <3>1. /\ hjob[pgid[hjob[p]]] = hjob[p] /\ pst[pgid[hjob[p]]] # "unborn"
          /\ pgid[hjob[p]] \in Proc
      BY <1>1, <2>1 DEF GroupInv, Groups, GroupHasLeader, TypeOK, JobTypes
    <3>2. pst[p] = "unborn"
      BY <1>1, <2>1 DEF GroupInv, Groups, ProcessHasGroup
    <3> QED BY <1>1, <2>1, <3>1, <3>2 DEF Sided
  <2>3. hjob[p] \notin jobs
    BY <1>1, <2>1, <2>2, LineAtWork DEF Busy, Filed
  <2>4. \A q \in Proc : q # p => hpc'[q] = hpc[q]
    BY <1>1, <2>1
  <2> QED BY <1>2, <2>1, <2>3, <2>4
<1>7. ASSUME NEW j \in Job, ProcDone(j), UNCHANGED hjob, \A p \in Proc : hpc[p] = "spawn" => hpc'[p] = "spawn"
      PROVE  ListedHasProcess'
  <2>1. /\ jobs' \subseteq jobs /\ (j \in jobs' => live'[j] > 0)
        /\ \A k \in Job : k # j => live'[k] = live[k]
    BY <1>1, <1>7, DoneOrMore
  <2> QED BY <1>1, <1>2, <1>7, <2>1
<1>8. ASSUME NEW p \in Proc, Handler(p), ~DispatchBackground(p), ~DispatchForeground(p), ~Start(p),
             ~StartRefused(p)
      PROVE  ListedHasProcess'
  <2>1. UNCHANGED hjob /\ \A q \in Proc : hpc[q] = "spawn" => hpc'[q] = "spawn"
    BY <1>1, <1>8 DEF Handler, DispatchNext, StartMissing, WaitExit, HandlerDone, WaitStop,
       HandlerStopped, HandlerTakesTerminal, Return
  <2>2. CASE HandlerDone(p)
    BY <1>1, <1>7, <2>1, <2>2 DEF HandlerDone
  <2>3. CASE ~HandlerDone(p)
    <3>1. UNCHANGED <<live, jobs>>
      BY <1>8, <2>3 DEF Handler, DispatchNext, StartMissing, WaitExit, WaitStop, HandlerStopped,
         HandlerTakesTerminal, Return
    <3> QED BY <1>2, <2>1, <3>1
  <2> QED BY <2>2, <2>3
<1>9. ASSUME NEW j \in Job, Reaper(j) PROVE ListedHasProcess'
  <2>1. UNCHANGED <<hjob, hpc>> /\ ~ReaperGivesUp(j)
    BY <1>1, <1>9 DEF Reaper, ReapExit, ReaperDone, ReaperLoops, ReapStop, ReaperStopped, ReapNone,
       ReaperGivesUp, ReaperAlone
  <2>2. CASE ReaperDone(j)
    BY <1>7, <2>1, <2>2 DEF ReaperDone
  <2>3. CASE ~ReaperDone(j)
    <3>1. UNCHANGED <<live, jobs>>
      BY <1>9, <2>1, <2>3 DEF Reaper, ReapExit, ReaperLoops, ReapStop, ReaperStopped, ReapNone
    <3> QED BY <1>2, <2>1, <3>1
  <2> QED BY <2>2, <2>3
<1>10. ASSUME EndLineFile PROVE ListedHasProcess'
  <2>1. /\ jobs' = jobs \cup {sel} /\ UNCHANGED <<live, hpc, hjob>> /\ sel \in Job
        /\ state[sel] = "Stopped"
    BY <1>1, <1>10 DEF EndLineFile, Settled
  <2>2. live[sel] > 0
    BY <1>1, <2>1 DEF Settled
  <2> QED BY <2>1, <2>2 DEF ListedHasProcess
<1>11. ASSUME \/ EndLine \/ EndLineEmpty \/ EndLineDecide \/ EndLineReap \/ Kernel \/ UNCHANGED vars
              \/ BeginLine \/ Resume
              \/ \E j \in Job : Fg(j) \/ Bg(j) \/ KillJob(j)
              \/ \E r \in SUBSET Offset : SetBackgroundRanges(r) \/ AgentStep(r)
      PROVE  ListedHasProcess'
  <2>1. UNCHANGED <<jobs, live, hpc, hjob>>
    BY <1>11 DEF EndLine, EndLineEmpty, EndLineDecide, EndLineReap, Kernel, Stop, Exit, vars,
       BeginLine, Resume, ResumeSnapshot, ResumeContinue, ResumeMark, ResumeTakeover, FgReturn,
       Fg, Bg, KillJob, SetBackgroundRanges, AgentStep
  <2> QED BY <1>2, <2>1
<1>12. ASSUME NEW S \in SUBSET Proc, NEW b, NEW o, Launch(S, b, o) PROVE ListedHasProcess'
  <2>1. /\ UNCHANGED <<jobs, live, hjob>> /\ \A p \in S : hpc[p] = "none"
        /\ hpc' = [p \in Proc |-> IF p \in S THEN "seam" ELSE hpc[p]]
    BY <1>12 DEF Launch
  <2> QED BY <1>2, <2>1
<1> QED
  BY <1>3, <1>4, <1>5, <1>6, <1>8, <1>9, <1>10, <1>11, <1>12, LaunchIsLaunch
  DEF Next, User, CloseLine

\* Every step keeps the terminal with the foreground.
LEMMA TerminalKeptStep ==
  ASSUME PlainLines PROVE LineInv /\ TerminalKept /\ [Next]_vars => TerminalKept'
<1> SUFFICES ASSUME PlainLines, LineInv, TerminalKept, [Next]_vars PROVE TerminalKept'
  OBVIOUS
<1> DEFINE Giving == pc \in {"mark", "takeover", "waitchange"} /\ fore
<1>1. /\ hpc \in [Proc -> HandlerPC] /\ hjob \in [Proc -> Job \cup {NoJob}]
      /\ pst \in [Proc -> {"unborn", "running", "stopped", "zombie", "gone"}]
      /\ pgid \in [Job -> Proc \cup {NoProc}] /\ fore \in BOOLEAN
      /\ pc \notin {"prompt", "ready", "run"} => sel \in Job
      /\ \A p \in Proc : hpc[p] \notin {"none", "seam", "next"} => hjob[p] \in Job
      /\ \A p \in Proc : pst[p] # "unborn" => hpc[p] \notin {"none", "seam", "next", "spawn"}
      /\ GroupInv /\ Placed /\ Sided /\ InLineOnly /\ Counts
  BY DEF LineInv, GroupInv, TypeOK, JobTypes, ProcTypes, HandlerTypes, MainTypes, Lines, SelIsJob,
     HandlerHasJob, Groups, ProcessHasGroup
<1>2. ASSUME UNCHANGED <<pc, fore, sel, tty, pgid>>,
             \A p \in Proc : pst'[p] = "running" =>
               pst[p] = "running" /\ hjob'[p] = hjob[p] /\ (hpc[p] = "wait" => hpc'[p] = "wait")
      PROVE  TerminalKept'
  BY <1>2 DEF TerminalKept
<1>3. ASSUME NEW p \in Proc, Start(p) PROVE TerminalKept'
  <2>1. /\ hpc[p] = "spawn" /\ hpc' = [hpc EXCEPT ![p] = "wait"] /\ hjob[p] \in Job /\ Busy(p)
        /\ pst' = [pst EXCEPT ![p] = "running"] /\ UNCHANGED <<hjob, pc, fore, sel>>
        /\ \A k \in Job : k # hjob[p] => pgid'[k] = pgid[k]
        /\ ~background[hjob[p]] \/ UNCHANGED tty
    BY <1>1, <1>3 DEF Start, TakesTerminal, Busy
  <2>2. CASE ~background[hjob[p]]
    <3>1. pc = "run"
      BY <1>1, <2>1, <2>2, LineAtWork
    <3> QED BY <2>1, <3>1 DEF TerminalKept
  <2>3. CASE background[hjob[p]]
    <3>1. UNCHANGED tty /\ \A q \in Proc : hjob[q] = hjob[p] => q = p
      BY <1>1, <2>1, <2>3 DEF Sided
    <3>2. hpc'[p] = "wait" /\ \A q \in Proc : q # p => hpc'[q] = hpc[q] /\ pst'[q] = pst[q]
      BY <1>1, <2>1
    <3>3. ASSUME Giving, tty # pgid'[sel], NEW q \in Proc, hjob[q] = sel, pst'[q] = "running"
          PROVE  hpc'[q] = "wait"
      <4>1. CASE q = p
        BY <3>2, <4>1
      <4>2. CASE q # p
        <5>1. pgid'[sel] = pgid[sel]
          BY <1>1, <2>1, <3>1, <3>3, <4>2
        <5> QED BY <3>2, <3>3, <4>2, <5>1 DEF TerminalKept
      <4> QED BY <4>1, <4>2
    <3> QED BY <2>1, <3>1, <3>3 DEF TerminalKept
  <2> QED BY <2>2, <2>3
<1>4. ASSUME NEW p \in Proc, HandlerTakesTerminal(p) PROVE TerminalKept'
  <2>1. hpc[p] = "terminal" /\ kind[p] = "fg" /\ UNCHANGED pc
    BY <1>1, <1>4 DEF HandlerTakesTerminal, Sided
  <2>2. pc = "run"
    BY <1>1, <2>1 DEF InLineOnly, Attached
  <2> QED BY <2>1, <2>2 DEF TerminalKept
<1>5. ASSUME NEW p \in Proc, DispatchBackground(p) \/ DispatchForeground(p) PROVE TerminalKept'
  <2>1. /\ hpc[p] = "seam" /\ UNCHANGED <<pc, fore, sel, tty, pgid, pst>>
        /\ hpc' = [hpc EXCEPT ![p] = "spawn"]
    BY <1>5 DEF DispatchBackground, DispatchForeground
  <2>2. \E j \in Job \cup {NoJob} : hjob' = [hjob EXCEPT ![p] = j]
    BY <1>1, <1>5, DispatchFresh DEF DispatchForeground, GroupInv, TypeOK, TableTypes
  <2> QED BY <1>1, <1>2, <2>1, <2>2
<1>6. ASSUME NEW p \in Proc, Handler(p), ~Start(p), ~HandlerTakesTerminal(p),
             ~DispatchBackground(p), ~DispatchForeground(p)
      PROVE  TerminalKept'
  <2>1. UNCHANGED <<pc, fore, sel, tty, pgid, hjob>>
    BY <1>6 DEF Handler, DispatchNext, StartRefused, StartMissing, WaitExit, HandlerDone, WaitStop,
       HandlerStopped, Return
  <2>2. \A q \in Proc : pst'[q] = "running" =>
          pst[q] = "running" /\ (hpc[q] = "wait" => hpc'[q] = "wait")
    <3>1. CASE WaitStop(p)
      BY <1>1, <3>1 DEF WaitStop, ReportsStop, Counts
    <3>2. CASE WaitExit(p)
      BY <1>1, <3>2 DEF WaitExit
    <3>3. CASE ~WaitStop(p) /\ ~WaitExit(p)
      BY <1>1, <1>6, <3>3 DEF Handler, DispatchNext, StartRefused, StartMissing, HandlerDone,
         HandlerStopped, Return
    <3> QED BY <3>1, <3>2, <3>3
  <2> QED BY <1>2, <2>1, <2>2
<1>7. ASSUME NEW j \in Job, Reaper(j) PROVE TerminalKept'
  <2>1. UNCHANGED <<pc, fore, sel, tty, pgid, hpc, hjob>>
    BY <1>7 DEF Reaper, ReapExit, ReaperDone, ReaperLoops, ReapStop, ReaperStopped, ReapNone,
       ReaperGivesUp
  <2>2. \A q \in Proc : pst'[q] = "running" => pst[q] = "running"
    BY <1>1, <1>7 DEF Reaper, ReapExit, ReaperDone, ReaperLoops, ReapStop, ReaperStopped, ReapNone,
       ReaperGivesUp
  <2> QED BY <1>2, <2>1, <2>2
<1>8. ASSUME ResumeContinue PROVE TerminalKept'
  <2>1. /\ pc' = "mark" /\ UNCHANGED <<fore, sel, hjob, pgid>> /\ Continue(sel)
        /\ tty' = IF fore /\ GroupExists(sel) THEN pgid[sel] ELSE tty
    BY <1>8 DEF ResumeContinue, GivesTerminal
  <2>2. fore /\ tty' # pgid[sel] => \A p \in Proc : hjob[p] = sel => pst'[p] # "running"
    BY <1>1, <2>1 DEF GroupExists, Continue, Continued, Members, Unreaped
  <2> QED BY <2>1, <2>2 DEF TerminalKept
<1>9. ASSUME ResumeMark \/ ResumeTakeover PROVE TerminalKept'
  <2>1. /\ UNCHANGED <<tty, pgid, pst, hjob, hpc>>
        /\ pc \in {"mark", "takeover"} /\ pc' \in {"takeover", "waitchange", "run"}
        /\ pc' # "run" => UNCHANGED <<fore, sel>> /\ (pc' = "waitchange" => fore)
    BY <1>9 DEF ResumeMark, ResumeTakeover, Back
  <2> QED BY <2>1 DEF TerminalKept
<1>10. ASSUME ResumeSnapshot \/ FgReturn \/ BeginLine PROVE TerminalKept'
  BY <1>10 DEF ResumeSnapshot, FgReturn, Back, BeginLine, TerminalKept
<1>11. ASSUME CloseLine PROVE TerminalKept'
  <2>1. pc' \in {"prompt", "decide", "file", "reap"} /\ tty' = Shell
    BY <1>11 DEF CloseLine, EndLine, TakeTerminal, EndLineEmpty, EndLineDecide, EndLineFile,
       EndLineReap, Back, TerminalKept
  <2> QED BY <2>1 DEF TerminalKept
<1>12. ASSUME Kernel \/ UNCHANGED vars PROVE TerminalKept'
  BY <1>1, <1>2, <1>12 DEF Kernel, Stop, Exit, vars
<1>13. ASSUME \/ \E j \in Job : Fg(j) \/ Bg(j) \/ KillJob(j)
              \/ \E r \in SUBSET Offset : SetBackgroundRanges(r) \/ AgentStep(r)
       PROVE  TerminalKept'
  BY <1>13 DEF Fg, Bg, KillJob, SetBackgroundRanges, AgentStep, TerminalKept
<1>14. ASSUME NEW S \in SUBSET Proc, NEW b, NEW o, Launch(S, b, o) PROVE TerminalKept'
  BY <1>14 DEF Launch, TerminalKept
<1> QED
  BY <1>3, <1>4, <1>5, <1>6, <1>7, <1>8, <1>9, <1>10, <1>11, <1>12, <1>13, <1>14, LaunchIsLaunch
  DEF Next, User, Resume
-----------------------------------------------------------------------------
(* The theorems about plain lines                                          *)

\* A new session satisfies all of it.
LEMMA LineInvInit == ASSUME PlainLines PROVE Init => LineInv /\ EveryChildHasAWaiter /\ TerminalKept
                                                     /\ DoneNotListed /\ ListedHasProcess
<1> SUFFICES ASSUME Init PROVE LineInv /\ EveryChildHasAWaiter /\ TerminalKept
                               /\ DoneNotListed /\ ListedHasProcess
  OBVIOUS
<1> USE DEF Init
<1>1. GroupInv
  BY InitGroupInv
<1>2. Placed /\ Sided /\ InLineOnly
  BY Distinct DEF Placed, Sided, InLineOnly, Attached
<1>3. Filed /\ Resumed /\ TerminalKept
  BY DEF Filed, Resumed, Busy, TerminalKept
<1>4. \A j \in Job : live[j] = Unaccounted(j)
  <2> SUFFICES ASSUME NEW j \in Job PROVE live[j] = Unaccounted(j)
    OBVIOUS
  <2>1. Owed(j) = {}
    BY DEF Owed, Owes
  <2> QED BY <2>1, OwedFinite, FS_EmptySet DEF InHand
<1>5. Counts
  BY <1>4 DEF Counts, LiveCounts
<1>6. ReaperAlone
  BY DEF ReaperAlone, Busy
<1>7. Settled
  BY DEF Settled, Unreaped
<1>8. EveryChildHasAWaiter /\ DoneNotListed /\ ListedHasProcess
  BY DEF EveryChildHasAWaiter, DoneNotListed, ListedHasProcess, Unreaped
<1> QED BY <1>1, <1>2, <1>3, <1>5, <1>6, <1>7, <1>8 DEF LineInv

\* LineInv is inductive.
LEMMA LineInvStep == ASSUME PlainLines PROVE LineInv /\ [Next]_vars => LineInv'
<1> SUFFICES ASSUME PlainLines, LineInv, [Next]_vars PROVE LineInv'
  OBVIOUS
<1>1. /\ GroupInv /\ Placed /\ Sided /\ InLineOnly /\ Filed
      /\ Counts /\ ReaperAlone /\ Resumed /\ Settled
  BY DEF LineInv
<1>2. GroupInv' /\ Placed' /\ Sided' /\ InLineOnly' /\ Filed'
  BY <1>1, GroupInvStep, PlacedStep, SidedStep, InLineStep, FiledStep
<1>3. Counts'
  BY <1>1, CountsStep
<1>4. ReaperAlone' /\ Resumed' /\ Settled'
  BY <1>1, <1>3, ReaperAloneStep, ResumedStep, SettledStep
<1> QED BY <1>2, <1>3, <1>4 DEF LineInv

\* The bookkeeping is right in every reachable state.
LEMMA LineInvHolds == ASSUME PlainLines PROVE Spec => []LineInv
<1>1. Init => LineInv
  BY LineInvInit
<1>2. LineInv /\ [Next]_vars => LineInv'
  BY LineInvStep
<1> QED BY <1>1, <1>2, PTL DEF Spec

(* Wait ownership is exclusive: no reaper of a job is ever in Wait4(-pgid) *)
(* while a handler of that job waits for its child or has yet to account   *)
(* for it (ensureReaper's callers and the switch in resume and EndLine).   *)
THEOREM WaitersExclude == ASSUME PlainLines PROVE Spec => []OneWaiter
<1>1. LineInv => OneWaiter
  BY DEF LineInv, ReaperAlone, OneWaiter, Busy
<1> QED BY <1>1, LineInvHolds, PTL

(* live is exactly the number of processes that were started and that      *)
(* nobody has accounted for: spawn counts each one and procDone, called by *)
(* handler or reaper, takes each one off once.                             *)
THEOREM LiveIsExact == ASSUME PlainLines PROVE Spec => []LiveCounts
<1>1. LineInv => LiveCounts
  BY DEF LineInv, Counts
<1> QED BY <1>1, LineInvHolds, PTL

(* No zombie: every child not yet reaped has its handler, its reaper, or   *)
(* the line that will start the reaper when it ends.                       *)
THEOREM ChildrenAreWaitedFor == ASSUME PlainLines PROVE Spec => []EveryChildHasAWaiter
<1>1. Init => EveryChildHasAWaiter
  BY LineInvInit
<1>2. LineInv /\ LineInv' /\ EveryChildHasAWaiter /\ [Next]_vars => EveryChildHasAWaiter'
  BY WaiterStep
<1> QED BY <1>1, <1>2, LineInvHolds, PTL DEF Spec

(* A command written with & runs in a background job, whenever its         *)
(* goroutine arrives at the exec seam.                                     *)
THEOREM BackgroundIsRecognized == ASSUME PlainLines PROVE Spec => []BackgroundStaysBackground
<1>1. LineInv => BackgroundStaysBackground
  BY DEF LineInv, GroupInv, Lines, HandlerHasJob, Sided, BackgroundStaysBackground
<1> QED BY <1>1, LineInvHolds, PTL

(* What `jobs' shows is not Done and has something left to resume, at      *)
(* every moment another goroutine looks; only a command that cannot be     *)
(* started leaves a listed job empty.                                      *)
THEOREM ListIsLive ==
  ASSUME PlainLines, "badpath" \notin Features PROVE Spec => []ListedIsLive
<1>1. Init => DoneNotListed /\ ListedHasProcess
  BY LineInvInit
<1>2. LineInv /\ LineInv' /\ DoneNotListed /\ [Next]_vars => DoneNotListed'
  BY DoneNotListedStep
<1>3. LineInv /\ LineInv' /\ ListedHasProcess /\ [Next]_vars => ListedHasProcess'
  BY ListedHasProcessStep
<1>4. DoneNotListed /\ ListedHasProcess => ListedIsLive
  BY DEF ListedIsLive
<1> QED BY <1>1, <1>2, <1>3, <1>4, LineInvHolds, PTL DEF Spec

(* The terminal is the shell's at the prompt, and while fg waits for a job *)
(* it is that job's, unless nothing of the job runs: no handler that saw   *)
(* an earlier stop takes it back.                                          *)
THEOREM TerminalIsFollowed == ASSUME PlainLines PROVE Spec => []TerminalFollowsForeground
<1>1. Init => TerminalKept
  BY LineInvInit
<1>2. LineInv /\ TerminalKept /\ [Next]_vars => TerminalKept'
  BY TerminalKeptStep
<1>3. LineInv /\ TerminalKept => TerminalFollowsForeground
  <2> SUFFICES ASSUME LineInv, TerminalKept PROVE TerminalFollowsForeground
    OBVIOUS
  <2>1. TerminalAtPrompt
    BY DEF TerminalKept, TerminalAtPrompt
  <2>2. ASSUME pc = "waitchange", rpc[sel] = "wait", tty # pgid[sel], NEW p \in Members(sel)
        PROVE  pst[p] # "running"
    <3>1. p \in Proc /\ hjob[p] = sel
      BY DEF Members
    <3>2. hpc[p] # "wait"
      BY <2>2, <3>1 DEF LineInv, ReaperAlone, Busy
    <3> QED BY <2>2, <3>1, <3>2 DEF TerminalKept
  <2> QED BY <2>1, <2>2 DEF TerminalFollowsForeground, ForegroundHoldsTerminal
<1> QED BY <1>1, <1>2, <1>3, LineInvHolds, PTL DEF Spec
=============================================================================
