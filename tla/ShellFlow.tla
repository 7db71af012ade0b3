------------------------------ MODULE ShellFlow ------------------------------
(***************************************************************************)
(* Control flow of the interpreter (internal/shell/interp): what exit,     *)
(* return, break, continue, a fatal error, errexit and the ERR, EXIT and   *)
(* signal traps do to the statements around them.                          *)
(*                                                                         *)
(* The Go call stack is `stack', and `shells' the Runners in use, the      *)
(* current one last.  The program is whatever the actions choose: each     *)
(* list of statements grows until the model ends it.  Commands are known   *)
(* by what they do to the control flow, statuses are 0 and 1.  The stages  *)
(* of a pipeline touch no common Runner, so they run one after the other.  *)
(***************************************************************************)
EXTENDS Naturals, Sequences, FiniteSets, SequencesExt

CONSTANTS
    Scenarios,   \* records: the statements a program draws on, the options that are on,
                 \* how it is read (mode: "whole" file; "stream", RunStmts until Finish;
                 \* "lines", the interactive loop's Run of each line), and the bounds on
                 \* its statements, besides those a list needs, and on its signals
    MaxRounds,   \* bound: rounds of a loop
    MaxDepth     \* bound: the stack at which a compound statement may still begin

ASSUME ScenariosAssumption ==
    /\ \A c \in Scenarios : /\ c.mode \in {"whole", "stream", "lines"}
                            /\ c.stmts \in Nat /\ c.signals \in Nat
    /\ MaxRounds \in Nat /\ MaxDepth \in Nat \ {0}

VARIABLES
    shells, stack, program, opts, mode,
    left, signals, over,
    seen         \* history variable: what went wrong, and the shells that ended

vars == <<shells, stack, program, opts, mode, left, signals, over, seen>>

\* exitStatus.  flow holds the flags that stop the shell, fatal is fatalExit, which by
\* itself does not; by is the shell that set a flag; tested tells that the status came
\* about where errexit does not apply, and erred at which levels the ERR trap has run
\* for it (these are history).
Zero == [code |-> 0, flow |-> {}, fatal |-> FALSE, by |-> 0, tested |-> FALSE, erred |-> {}]

\* `exit n' and `return n' keep the low byte of n (uint8).
Byte(n) == n % 256

\* exitStatus.clear: a status that carries control flow is kept.
ClearAll(e) == Zero
Clear(e) == IF e.flow = {} /\ ~e.fatal THEN Zero ELSE e

\* exitStatus.fatal: the shell i exits, unless its status is a fatal one already.
Fatal(e, i) ==
    IF e.fatal THEN e
    ELSE [e EXCEPT !.flow = @ \cup {"exit"}, !.fatal = TRUE, !.by = i,
                   !.code = IF @ = 0 THEN 1 ELSE @]

Runner == [exit |-> Zero, last |-> Zero, brk |-> 0, cnt |-> 0, inLoop |-> FALSE, inFunc |-> FALSE,
           noErr |-> FALSE, errTrap |-> FALSE, exitTrap |-> FALSE, fired |-> FALSE,
           errFired |-> FALSE, level |-> 0, running |-> {},
           exits |-> 0, asked |-> FALSE]   \* history: EXIT actions run; exit was asked for

\* Runner.subshell: what crosses and what starts afresh.
Subshell(r) ==
    [Runner EXCEPT !.exit = r.exit, !.last = r.last, !.inFunc = r.inFunc,
                   !.errTrap = r.errTrap /\ "errtrace" \in opts,
                   !.level = r.level + 1, !.running = r.running]

Me == Last(shells)
Others == Front(shells)
Top == Last(stack)
Below == Front(stack)
Stop(r) == r.exit.flow # {}

\* A frame of the stack: where it stands, whether it has begun a statement (ran),
\* whether it has room for one only, and what it puts back at its end.
Frame(at, single, saved) == [at |-> at, ran |-> FALSE, single |-> single, ending |-> FALSE,
                             rounds |-> 0, hit |-> FALSE, saved |-> saved]
StmtFrame(neg, andOr, noErr) ==
    [at |-> "stmt", neg |-> neg, andOr |-> andOr, noErr |-> noErr, trapped |-> FALSE]

Conditions == {"cond", "whileCond", "left"}
Tested(ks) == \E i \in 1..Len(ks) :
    ks[i].at \in Conditions \/ (ks[i].at = "stmt" /\ ks[i].neg)

Init ==
    /\ shells = <<Runner>>
    /\ stack = <<Frame("top", FALSE, 0)>>
    /\ \E c \in Scenarios :
          /\ program = c.program /\ opts = c.opts /\ mode = c.mode
          /\ left = c.stmts /\ signals = c.signals
    /\ over = FALSE
    /\ seen = [late |-> FALSE, miscut |-> FALSE, errTwice |-> FALSE, unjust |-> FALSE,
               after |-> FALSE, overruled |-> FALSE, dropped |-> FALSE, ended |-> {}]

-----------------------------------------------------------------------------
\* Runner.stmts, loopStmtsBroken and stmtsTopLevel, between two statements.  In a
\* loop body continue is looked at first, then break; at the top level an aborting
\* error is over, and whatever else began on its line is passed over.
LeaveLoopUncounted(r, ks, n, how) ==
    [shell |-> [r EXCEPT ![how] = n + 1, !.inLoop = Last(ks).saved], stack |-> Front(ks)]
LeaveLoop(r, ks, n, how) ==
    [shell |-> [r EXCEPT ![how] = n, !.inLoop = Last(ks).saved], stack |-> Front(ks)]
NextRound(r, ks) ==
    [shell |-> [r EXCEPT !.cnt = 0, !.inLoop = Last(ks).saved],
     stack |-> [ks EXCEPT ![Len(ks)].ending = TRUE]]

Resume(r, ks) ==
    LET looping == Last(ks).at \in {"for", "while"}
    IN  IF looping /\ r.cnt > 1 THEN LeaveLoop(r, ks, r.cnt - 1, "cnt")
        ELSE IF looping /\ r.cnt = 1 THEN NextRound(r, ks)
        ELSE IF looping /\ r.brk > 0 THEN LeaveLoop(r, ks, r.brk - 1, "brk")
        ELSE [shell |-> IF Last(ks).at = "top" THEN [r EXCEPT !.exit.flow = @ \ {"abort"}] ELSE r,
              stack |-> ks]

Goto(r, ks) == shells' = Append(Others, r) /\ stack' = ks

\* A statement may begin here; a list holds one statement at least.
AtStmt == Top.at \notin {"stmt"} /\ ~Top.ending /\ (Top.single => ~Top.ran) /\ ~over
ListDone == Top.at # "stmt" /\ ~Top.ending /\ (Top.ran \/ Stop(Me)) /\ ~over

\* Runner.stmt and the head of stmtSync: the flags of the last statement are reset.
Begun == [Me EXCEPT !.exit = Zero, !.errFired = FALSE]
Here == [stack EXCEPT ![Len(stack)].ran = TRUE]

Begin(st, cost) ==
    /\ AtStmt /\ ~Stop(Me)
    /\ left >= cost
    /\ left' = left - cost
    /\ seen' = [seen EXCEPT !.late = @ \/ Me.brk > 0 \/ Me.cnt > 0,
                            !.after = @ \/ (Me.asked /\ Me.running = {})]
    /\ UNCHANGED <<program, opts, mode, signals, over>>

-----------------------------------------------------------------------------
\* Commands that are over at once.  A list that lacks its statement may have `true' or
\* `false' when the bound on statements is used up.
Asks(r, e) == [r EXCEPT !.exit = e, !.asked = @ \/ ("exit" \in e.flow /\ r.running = {})]
Raise(flag, c) == [Zero EXCEPT !.code = c, !.flow = {flag}, !.by = Len(shells)]

Simple(st, neg) ==
    /\ Begin(st, IF st \in {"true", "false"} /\ left = 0 /\ ~Top.ran THEN 0 ELSE 1)
    /\ neg => st \in {"true", "false"} /\ "not" \in program
    /\ LET r == [Begun EXCEPT !.noErr = @ \/ neg]
           sf == StmtFrame(neg, FALSE, Me.noErr)
           done(e) == Goto(Asks(r, e), Append(Here, sf))
           failed == [Zero EXCEPT !.code = 1, !.tested = Tested(Append(Here, sf))]
       IN  \/ st = "true" /\ done(Zero)
           \/ st = "false" /\ done(failed)
           \/ st = "exit" /\ \E n \in {1, 256} : done(Raise("exit", Byte(n)))
           \/ st = "return" /\ \E n \in {1, 256} :
                 done(IF Me.inFunc THEN Raise("return", Byte(n)) ELSE failed)
           \/ st = "abort" /\ done(Raise("abort", 1))
           \/ st = "fatal" /\ done(Fatal(Zero, Len(shells)))
           \/ st = "trapErr" /\ Goto([r EXCEPT !.errTrap = TRUE], Append(Here, sf))
           \/ st = "trapExit" /\ Goto([r EXCEPT !.exitTrap = TRUE], Append(Here, sf))

\* break and continue: the loops they name, innermost first (hit marks them).
Loops == {i \in 1..Len(stack) :
              stack[i].at \in {"for", "while"} /\ ~stack[i].ending
              /\ \A j \in i..Len(stack) : stack[j].at \notin {"sub", "bg", "stageL", "stageR"}}
Named(n) == {i \in Loops : Cardinality({j \in Loops : j >= i}) <= n}

Breaks(st, n) ==
    /\ Begin(st, 1)
    /\ LET r == IF ~Me.inLoop THEN Begun
                ELSE [Begun EXCEPT ![IF st = "break" THEN "brk" ELSE "cnt"] = n]
           out == IF ~Me.inLoop THEN {}
                  ELSE IF st = "break" THEN Named(n) ELSE Named(n - 1)
       IN  Goto(r, Append([i \in 1..Len(stack) |->
                              IF i \in out THEN [Here[i] EXCEPT !.hit = TRUE] ELSE Here[i]],
                          StmtFrame(FALSE, FALSE, Me.noErr)))

-----------------------------------------------------------------------------
\* Compound commands and function calls: stmtSync's frame, and what runs inside.
Compound(st, neg) ==
    /\ Begin(st, 1)
    /\ Len(stack) < MaxDepth
    /\ neg => "not" \in program
    /\ LET r == [Begun EXCEPT !.noErr = @ \/ neg]
           sf == StmtFrame(neg, st \in {"and", "or"}, Me.noErr)
           inside == Append(Here, sf)
           list(at, single, saved) == Append(inside, Frame(at, single, saved))
           forked(at, single) ==
               /\ shells' = Others \o <<r, Subshell(r)>>
               /\ stack' = list(at, single, 0)
       IN  \/ st = "block" /\ Goto(r, list("block", FALSE, 0))
           \/ st = "if" /\ Goto([r EXCEPT !.noErr = TRUE], list("cond", FALSE, r.noErr))
           \/ st \in {"and", "or"} /\ ~neg
              /\ Goto([r EXCEPT !.noErr = TRUE], list("left", TRUE, [noErr |-> r.noErr, op |-> st]))
           \/ st \in {"for", "while"}
              /\ Goto(r, Append(inside, [Frame(st, FALSE, r.inLoop) EXCEPT !.ending = TRUE]))
           \/ st = "sub" /\ forked("sub", FALSE)
           \/ st = "pipe" /\ forked("stageL", TRUE)
           \/ st = "bg" /\ ~neg /\ forked("bg", TRUE)
           \/ /\ st = "call"
              /\ Goto([r EXCEPT !.inFunc = TRUE, !.errFired = FALSE, !.level = @ + 1],
                      [list("func", TRUE, [inFunc |-> r.inFunc, errFired |-> r.errFired])
                          EXCEPT ![Len(stack) + 2].ran = TRUE]
                      \o <<StmtFrame(FALSE, FALSE, r.noErr), Frame("block", FALSE, 0)>>)

Leave(r, ks) ==
    /\ Goto(r, ks)
    /\ UNCHANGED <<program, opts, mode, left, signals, over, seen>>

\* The lists of a block, of a right operand and of the branch of an if.
EndBlock == ListDone /\ Top.at \in {"block", "right"} /\ Leave(Me, Below)

\* if: the condition, then one of the branches; clear keeps control flow.
Conditional(r, saved) == [r EXCEPT !.noErr = saved]
EndCond ==
    /\ ListDone /\ Top.at = "cond"
    /\ LET r == Conditional(Me, Top.saved)
       IN  IF r.exit.code = 0 THEN Leave(r, Append(Below, Frame("block", FALSE, 0)))
           ELSE \E ks \in {Below, Append(Below, Frame("block", FALSE, 0))} :
                    Leave([r EXCEPT !.exit = Clear(@)], ks)

\* && and ||.
EndLeft ==
    /\ ListDone /\ Top.at = "left"
    /\ Leave(Conditional(Me, Top.saved.noErr),
             IF (Me.exit.code = 0) = (Top.saved.op = "and")
             THEN Append(Below, Frame("right", TRUE, 0)) ELSE Below)

\* Between the rounds of a loop: while evaluates its condition unless the shell is
\* to stop, for takes the next item.
Round ==
    /\ Top.at \in {"for", "while"} /\ Top.ending /\ ~over
    /\ ~Stop(Me)
    /\ Top.at = "for" => Top.rounds < MaxRounds
    /\ LET ks == Append(Below, [Top EXCEPT !.ending = FALSE, !.ran = FALSE, !.rounds = @ + 1])
       IN  IF Top.at = "for" THEN Goto([Me EXCEPT !.inLoop = TRUE], ks)
           ELSE Goto([Me EXCEPT !.noErr = TRUE], Append(stack, Frame("whileCond", FALSE, Me.noErr)))
    /\ seen' = [seen EXCEPT !.miscut = @ \/ (Top.at = "for" /\ Top.hit)]
    /\ UNCHANGED <<program, opts, mode, left, signals, over>>

EndWhileCond ==
    /\ ListDone /\ Top.at = "whileCond"
    /\ Me.exit.code = 0 => Last(Below).rounds < MaxRounds
    /\ LET r == [Conditional(Me, Top.saved) EXCEPT !.exit = Clear(@)]
       IN  IF Me.exit.code # 0 THEN Goto(r, Front(Below))
           ELSE Goto([r EXCEPT !.inLoop = TRUE],
                     [Below EXCEPT ![Len(Below)].ending = FALSE, ![Len(Below)].ran = FALSE,
                                   ![Len(Below)].rounds = @ + 1])
    /\ seen' = [seen EXCEPT !.miscut = @ \/ (Me.exit.code = 0 /\ Last(Below).hit)]
    /\ UNCHANGED <<program, opts, mode, left, signals, over>>

\* The items run out, or the shell is to stop.
EndLoop ==
    /\ Top.at \in {"for", "while"} /\ Top.ending /\ ~over
    /\ Top.at = "for" \/ Stop(Me)
    /\ Leave(Me, Below)

EndBody ==
    /\ ListDone /\ Top.at \in {"for", "while"}
    /\ Leave(NextRound(Me, stack).shell, NextRound(Me, stack).stack)

-----------------------------------------------------------------------------
\* runTrapCallback: the action starts with a clean status; one kind of trap does not
\* run inside itself.
InTrap(r, kind) == [r EXCEPT !.running = @ \cup {kind}, !.last = r.exit, !.exit = Zero]
Action(r, kind, keep) ==
    Frame("action", FALSE, [exit |-> r.exit, last |-> r.last, errFired |-> r.errFired,
                            kind |-> kind, keep |-> keep])

\* Its end: the status comes back, unless a handler that may redirect control did.
RestoredErrNot(r, saved) == r
Restored(r, saved) == [r EXCEPT !.errFired = saved.errFired]
EndAction ==
    /\ ListDone /\ Top.at = "action"
    /\ LET s == Top.saved
           r == [Restored(Me, s) EXCEPT !.running = @ \ {s.kind}]
           redirects == s.keep /\ Stop(Me)
       IN  /\ Goto(IF redirects THEN r ELSE [r EXCEPT !.exit = s.exit, !.last = s.last], Below)
           /\ seen' = [seen EXCEPT !.overruled = @ \/ redirects]
    /\ UNCHANGED <<program, opts, mode, left, signals, over>>

\* runPendingSignalTraps, before each statement of the main shell, whether or not
\* the statement will run, and at the end of the script (runEpilogue).
Awaited == IF Top.at = "top" THEN stack ELSE [stack EXCEPT ![Len(stack)].ran = FALSE]
Signal ==
    /\ AtStmt /\ Len(shells) = 1 /\ signals > 0 /\ Me.running = {}
    /\ signals' = signals - 1
    /\ Goto(InTrap(Me, "signal"), Append(Awaited, Action(Me, "signal", TRUE)))
    /\ UNCHANGED <<program, opts, mode, left, over, seen>>

\* The rest of stmtSync: the ERR trap once per level, errexit, the negation.
Fails == Me.exit.code # 0 /\ ~Top.neg /\ ~Top.andOr /\ ~Top.noErr
FiresErr == Fails /\ ~Top.trapped /\ ~Me.errFired /\ (Me.level = 0 \/ "errtrace" \in opts)

ErrTrap ==
    /\ Top.at = "stmt" /\ ~over
    /\ FiresErr /\ Me.errTrap /\ "error" \notin Me.running
    /\ LET r == [Me EXCEPT !.errFired = TRUE, !.exit.erred = @ \cup {Me.level}, !.noErr = Top.noErr]
       IN  Goto(InTrap(r, "error"),
                Append([stack EXCEPT ![Len(stack)].trapped = TRUE], Action(r, "error", FALSE)))
    /\ seen' = [seen EXCEPT !.errTwice = @ \/ Me.level \in Me.exit.erred]
    /\ UNCHANGED <<program, opts, mode, left, signals, over>>

ErrExit(e) == [e EXCEPT !.flow = @ \cup {"exit"}, !.by = Len(shells)]
EndStmt ==
    /\ Top.at = "stmt" /\ ~over
    /\ ~(FiresErr /\ Me.errTrap /\ "error" \notin Me.running)
    /\ LET exits == Fails /\ "errexit" \in opts
           e == IF Top.neg
                THEN IF Me.exit.code = 0 THEN [Me.exit EXCEPT !.code = 1, !.tested = TRUE]
                     ELSE Clear(Me.exit)
                ELSE IF exits THEN ErrExit(Me.exit) ELSE Me.exit
           r == [Asks(Me, e) EXCEPT !.last = e, !.noErr = Top.noErr, !.errFired = @ \/ FiresErr]
           next == Resume(r, Below)
       IN  /\ Goto(next.shell, next.stack)
           /\ seen' = [seen EXCEPT
                 !.unjust = @ \/ (exits /\ Me.exit.flow = {} /\ Me.exit.tested),
                 !.miscut = @ \/ (Len(next.stack) < Len(Below) /\ ~Last(Below).hit)]
    /\ UNCHANGED <<program, opts, mode, left, signals, over>>

-----------------------------------------------------------------------------
\* Runner.call after the body.  An exit on its way runs the EXIT trap here, with the
\* function's frame still there.
FiresExitAgain(r) == r.exitTrap
FiresExit(r) == r.exitTrap /\ ~r.fired
ExitAction(me, ks) ==
    LET r == [me EXCEPT !.fired = TRUE]
    IN  IF "exit" \in me.running THEN Goto(r, ks)
        ELSE Goto([InTrap(r, "exit") EXCEPT !.exits = @ + 1], Append(ks, Action(r, "exit", TRUE)))
Ending == [stack EXCEPT ![Len(stack)].ending = TRUE]

FuncExitTrap ==
    /\ ListDone /\ Top.at = "func"
    /\ "exit" \in Me.exit.flow /\ FiresExit(Me) /\ Me.running = {}
    /\ ExitAction(Me, Ending)
    /\ UNCHANGED <<program, opts, mode, left, signals, over, seen>>

EndFunc ==
    /\ Top.at = "func" /\ ~over
    /\ Top.ending \/ (ListDone /\ ~("exit" \in Me.exit.flow /\ FiresExit(Me) /\ Me.running = {}))
    /\ Leave([Me EXCEPT !.inFunc = Top.saved.inFunc, !.errFired = Top.saved.errFired,
                        !.level = @ - 1, !.exit.flow = @ \ {"return"}, !.exit.tested = Tested(Below)],
             Below)

\* runSubshellExitTrap, at the end of every shell but the main one.
Shells == {"sub", "bg", "stageL", "stageR"}
SubExitTrap ==
    /\ ListDone /\ Top.at \in Shells /\ FiresExit(Me)
    /\ ExitAction(Me, Ending)
    /\ UNCHANGED <<program, opts, mode, left, signals, over, seen>>

\* What a subshell leaves to the shell around it.
LeftFatal(e) == [e EXCEPT !.flow = IF e.fatal THEN @ ELSE {}]
Contained(e) == [e EXCEPT !.flow = {}]
ContainedStage(e) == [e EXCEPT !.flow = @ \ {"exit", "abort"}]
Ended == seen' = [seen EXCEPT !.ended =
    @ \cup {[trap |-> Me.exitTrap, exits |-> Me.exits, nested |-> "exit" \in Me.running]}]
ShellOver(at) == ~over /\ Top.at = at /\ (Top.ending \/ (ListDone /\ ~FiresExit(Me)))
Parent == Last(Others)
WithParent(r, ks) == shells' = Append(Front(Others), r) /\ stack' = ks
OfCommand(e) == [e EXCEPT !.tested = Tested(Below)]

EndSub ==
    /\ ShellOver("sub")
    /\ WithParent([Parent EXCEPT !.exit = OfCommand(Contained(Me.exit))], Below)
    /\ Ended
    /\ UNCHANGED <<program, opts, mode, left, signals, over>>

\* A background job: its status is for `wait'.
EndBg ==
    /\ ShellOver("bg")
    /\ WithParent(Parent, Below)
    /\ Ended
    /\ UNCHANGED <<program, opts, mode, left, signals, over>>

\* A pipeline.  Its last stage is a subshell too, unless lastpipe is on.
EndStageL ==
    /\ ShellOver("stageL")
    /\ LET e == Contained(Me.exit)
       IN  IF "lastpipe" \in opts THEN WithParent(Parent, Append(Below, Frame("lastStage", TRUE, e)))
           ELSE /\ shells' = Append(Others, Subshell(Parent))
                /\ stack' = Append(Below, Frame("stageR", TRUE, e))
    /\ Ended
    /\ UNCHANGED <<program, opts, mode, left, signals, over>>

\* Its status, of the last stage's e and the first one's l.  A fatal error of the first
\* stage is surfaced in the shell i of the pipeline, unless the status carries one.
PipeFail(e, l) == IF "pipefail" \in opts /\ l.code # 0 /\ e.code = 0 THEN l ELSE e
OfPipe(e, l, i) == IF l.fatal THEN Fatal(PipeFail(e, l), i) ELSE PipeFail(e, l)

EndStageR ==
    /\ ShellOver("stageR")
    /\ LET e == OfPipe(ContainedStage(Me.exit), Top.saved, Len(Others))
       IN  WithParent([Parent EXCEPT !.exit = OfCommand(e)], Below)
    /\ Ended
    /\ UNCHANGED <<program, opts, mode, left, signals, over>>
EndLastStage ==
    /\ ListDone /\ Top.at = "lastStage"
    /\ LET e == OfPipe(Me.exit, Top.saved, Len(shells))
       IN  /\ Goto([Me EXCEPT !.exit = e], Below)
           /\ seen' = [seen EXCEPT !.dropped = @ \/ (Stop(Me) /\ e.flow = {})]
    /\ UNCHANGED <<program, opts, mode, left, signals, over>>

-----------------------------------------------------------------------------
\* The end of a run: runEpilogue, and whether the callers start another.
RunEnds(ended) ==
    LET exits == ended \/ "exit" \in Me.exit.flow
        r == [Me EXCEPT !.last = Me.exit]
    IN  IF exits /\ FiresExit(r) THEN ExitAction(r, Ending)
        ELSE Goto([r EXCEPT !.fired = @ \/ exits], Ending)

EndRun ==
    /\ ListDone /\ Top.at = "top"
    /\ RunEnds(mode # "stream")
    /\ UNCHANGED <<program, opts, mode, left, signals, over, seen>>

\* runPrologue of the next line.
NextLine ==
    /\ Top.at = "top" /\ Top.ending /\ ~over
    /\ mode # "whole" /\ left > 0 /\ ~Top.single /\ "exit" \notin Me.exit.flow
    /\ Leave([Me EXCEPT !.exit = Zero, !.fired = FALSE], <<Frame("top", FALSE, 0)>>)

\* The input ends: Finish, when the script was read as it ran.
Finish ==
    /\ Top.at = "top" /\ Top.ending /\ ~over
    /\ mode = "stream" /\ ~Top.single /\ "exit" \notin Me.exit.flow
    /\ LET r == [Me EXCEPT !.exit = Me.last]
       IN  IF FiresExit(r) THEN ExitAction(r, [Ending EXCEPT ![1].single = TRUE])
           ELSE Goto(r, [Ending EXCEPT ![1].single = TRUE])
    /\ UNCHANGED <<program, opts, mode, left, signals, over, seen>>

Over ==
    /\ Top.at = "top" /\ Top.ending /\ ~over
    /\ mode = "stream" => Top.single \/ "exit" \in Me.exit.flow
    /\ over' = TRUE
    /\ Ended
    /\ UNCHANGED <<shells, stack, program, opts, mode, left, signals>>

Next ==
    \/ \E st \in program \cup {"true"}, neg \in BOOLEAN : Simple(st, neg) \/ Compound(st, neg)
    \/ \E st \in program \cap {"break", "continue"}, n \in 1..2 : Breaks(st, n)
    \/ EndBlock \/ EndCond \/ EndLeft \/ Round \/ EndWhileCond \/ EndLoop \/ EndBody
    \/ Signal \/ ErrTrap \/ EndAction \/ EndStmt
    \/ FuncExitTrap \/ EndFunc \/ SubExitTrap
    \/ EndSub \/ EndBg \/ EndStageL \/ EndStageR \/ EndLastStage
    \/ EndRun \/ NextLine \/ Finish \/ Over

Spec == Init /\ [][Next]_vars

-----------------------------------------------------------------------------
\* Types; a status fits a byte (`exit 256' is 0).
Flows == {"return", "exit", "abort"}
Status == [code: 0..255, flow: SUBSET Flows, fatal: BOOLEAN, by: 0..MaxDepth,
           tested: BOOLEAN, erred: SUBSET (0..MaxDepth)]
TypeOK ==
    /\ \A i \in 1..Len(shells) :
          /\ shells[i].exit \in Status /\ shells[i].last.code \in 0..255
          /\ shells[i].brk \in 0..2 /\ shells[i].cnt \in 0..2
          /\ shells[i].running \subseteq {"signal", "error", "exit"}
    /\ Len(shells) > 0 /\ Len(stack) > 0
    /\ left \in Nat /\ signals \in Nat /\ over \in BOOLEAN

\* An exit on its way has given way to what a trap's action asked for (overruled), or
\* to the failure of an earlier stage (dropped).
Redirected == seen.overruled \/ seen.dropped

\* A script that set an EXIT trap runs it once in each shell, whichever way the shell
\* ends: exit in a function, in a subshell, in a pipeline's stage, a fatal error, the
\* end of the input.  (At the prompt each line is a run, and runs it.)
ExitTrapOnce ==
    ~Redirected /\ mode # "lines" =>
        /\ \A i \in 1..Len(shells) : shells[i].exits <= 1
        /\ \A e \in seen.ended : e.trap /\ ~e.nested => e.exits = 1

\* However many compound commands a failure travels through, the ERR trap runs for it
\* once at each level of calls and subshells (errTrapFired, and what calls and trap
\* actions do with it), unless a trap's action has put another status in its place.
ErrTrapOncePerLevel == seen.errTwice => seen.overruled

\* Nothing a shell does loses its `exit': once asked for outside a trap, no statement
\* of that shell begins any more (exitStatus.clear, the negation and every restored
\* status must keep the flag).
ExitSticks == seen.after => Redirected

\* "Lastpipe: the final stage runs in the current shell" (runner.go:1712), so that its
\* exit or return is the shell's.  Not so with pipefail, when it leaves with status 0
\* and an earlier stage has failed: the pipeline's status is that stage's, flags and all.
LastStageLeaves == ~seen.dropped

\* An exit or an abort ends the shell it happens in and no shell around it: subshells,
\* background jobs and the stages of pipelines contain it.  Of a fatal error they
\* contain the exit and leave the mark, which ends a shell around them only where the
\* code raises it again: a first stage's in the shell of the pipeline.
StaysInShell ==
    \A i \in 1..Len(shells) :
        shells[i].exit.flow \cap {"exit", "abort"} # {} => shells[i].exit.by = i

\* A fatal error of a pipeline's first stage ends the shell of the pipeline ("surface
\* fatal errors immediately", runner.go:1785).  Violated: exitStatus.fatal does nothing
\* to a status that is marked already, as pipefail's copy of the first stage's is, or
\* that of a last stage which failed as well; and their exit has been taken away.
FatalSurfaces ==
    [][Top.at \in {"stageR", "lastStage"} /\ Len(stack') < Len(stack) /\ Top.saved.fatal
           => Stop(Last(shells'))]_vars

\* `break n' and `continue n' leave the loops they name, and no other, unless one of
\* them was overtaken by statements that ran behind it (BreakEndsBody).
BreakHitsItsLoops == seen.miscut => seen.late

\* The frames of shell i, counted from the frame that forked it.
ShellOf(n) == 1 + Cardinality({j \in 1..n : stack[j].at \in Shells})

\* noErrExit is on exactly inside conditions, left operands and negations, and inLoop
\* exactly inside loop bodies, whatever left the statements in between: every save has
\* had its restore.
Balanced ==
    \A i \in 1..Len(shells) :
        LET mine == {n \in 1..Len(stack) : ShellOf(n) = i}
        IN  /\ shells[i].noErr <=> \E n \in mine :
                   stack[n].at \in Conditions \/ (stack[n].at = "stmt" /\ stack[n].neg)
            /\ shells[i].inLoop <=> \E n \in mine : stack[n].at \in {"for", "while"} /\ ~stack[n].ending

\* What ends or excuses a piece of a script does so in its own scope: no exit leaks out
\* of a subshell, and no construct leaves its flags behind.
FlagsScoped == TypeOK /\ StaysInShell /\ Balanced

\* errexit ends the shell only for a status that came about where errexit applies:
\* "Exceptions: conditions ..., part of && or || lists, preceded by !" (stmtSync).
\* Violated: the statement around the list sees the status and exits.
ErrexitSpares == ~seen.unjust

\* After a break or a continue no statement runs before the loop it names has seen it
\* ("execute commands until break or return is encountered").  Violated: only the loop
\* itself looks, so the rest of a block inside the body runs.
BreakEndsBody == ~seen.late
=============================================================================
