-------------------------- MODULE ShellFlow_proofs --------------------------
(***************************************************************************)
(* Proofs about ShellFlow, for every set of scenarios, however many rounds *)
(* and however deep the stack: FlagsScoped, ErrTrapOncePerLevel,           *)
(* ExitSticks and ExitTrapOnce.                                            *)
(*                                                                         *)
(* The stack of frames determines most of a shell.  At every place of the  *)
(* stack the frames below it say which shell runs there, at what level,    *)
(* whether it is in a condition or in the body of a loop, and which trap   *)
(* actions are running (Context).  A shell that is right there (ShellOK)   *)
(* has these values in its own fields, an exit that it asked for itself,   *)
(* and what is left of its ERR and EXIT traps.  The current shell is right *)
(* at the top; the one that forked a subshell is right below the frame of  *)
(* the fork; and a frame that saves a flag or a status saves what is right *)
(* below it (FrameOK).  Ok puts the three together.                        *)
(*                                                                         *)
(* What a construct does to a flag between its begin and its end is then   *)
(* no longer a matter of the whole history.  Move says that a step keeps   *)
(* Ok if it leaves the frames up to a place alike and is right in the one  *)
(* it puts above them; Open, Close, PushAction, ActionOver, Fork and       *)
(* JoinBack are its forms, and each action of ShellFlow is one of them.    *)
(*                                                                         *)
(* The properties about exits have excuses (Redirected), and hold until    *)
(* one of them occurs.  Ok has the excuse as its parameter x: "none", then *)
(* "dropped" and "overruled", each with less to show.                      *)
(***************************************************************************)
EXTENDS ShellFlow, FiniteSetTheorems, SequenceTheorems, TLAPS

-----------------------------------------------------------------------------
(***************************************************************************)
(* What the frames below a place of the stack say about the shell there.   *)
(***************************************************************************)
Tests(f) == f.at \in Conditions \/ (f.at = "stmt" /\ f.neg)
InRound(f) == f.at \in {"for", "while"} /\ ~f.ending
Deeper == Shells \cup {"func"}

\* The shell of frame n, its level of calls and subshells, whether it is in a condition,
\* in a loop's body, and which trap actions are running.
Frames(ks, ats, n) == {j \in 1..n : ks[j].at \in ats}
Shell(ks, n) == 1 + Cardinality(Frames(ks, Shells, n))
Level(ks, n) == Cardinality(Frames(ks, Deeper, n))
InTest(ks, n) == \E m \in 1..n : Tests(ks[m]) /\ Shell(ks, m) = Shell(ks, n)
InLoop(ks, n) == \E m \in 1..n : InRound(ks[m]) /\ Shell(ks, m) = Shell(ks, n)
Kinds(ks, n) == {ks[m].saved.kind : m \in {j \in 1..n : ks[j].at = "action"}}

Context(ks, n) ==
    [shell |-> Shell(ks, n), level |-> Level(ks, n), test |-> InTest(ks, n),
     loop |-> InLoop(ks, n), kinds |-> Kinds(ks, n)]

\* Types.
Trap == {"signal", "error", "exit"}
RunnerT ==
    [exit: Status, last: Status, brk: 0..2, cnt: 0..2, inLoop: BOOLEAN, inFunc: BOOLEAN,
     noErr: BOOLEAN, errTrap: BOOLEAN, exitTrap: BOOLEAN, fired: BOOLEAN, errFired: BOOLEAN,
     level: 0..MaxDepth, running: SUBSET Trap, exits: Nat, asked: BOOLEAN]
StmtT == [at: {"stmt"}, neg: BOOLEAN, andOr: BOOLEAN, noErr: BOOLEAN, trapped: BOOLEAN]
ListT(ats, saved) ==
    [at: ats, ran: BOOLEAN, single: BOOLEAN, ending: BOOLEAN, rounds: Nat, hit: BOOLEAN,
     saved: saved]
ActionSaved == [exit: Status, last: Status, errFired: BOOLEAN, kind: Trap, keep: BOOLEAN]
FrameT ==
    StmtT \cup ListT({"top", "block", "right", "sub", "bg", "stageL"}, {0})
    \cup ListT({"cond", "whileCond", "for", "while"}, BOOLEAN)
    \cup ListT({"left"}, [noErr: BOOLEAN, op: {"and", "or"}])
    \cup ListT({"func"}, [inFunc: BOOLEAN, errFired: BOOLEAN])
    \cup ListT({"action"}, ActionSaved)
    \cup ListT({"stageR", "lastStage"}, Status)

ByOwn(e, i) == e.flow \cap {"exit", "abort"} # {} => e.by = i
From(n, e) == \A l \in e.erred : l >= n

\* x: excused; m: the mode; t: the frame at the bottom; n: the place.
Done(m, t, n) == n = 1 /\ (t.single \/ (t.ending /\ m = "whole"))
Bound(m, r, c) == r.asked \/ (c.shell = 1 /\ r.fired /\ m # "lines")
Leaves(m, e, t, n) == "exit" \in e.flow \/ Done(m, t, n)

ShellFits(r, c) ==
    /\ r.noErr = c.test /\ r.inLoop = c.loop /\ r.level = c.level /\ r.running = c.kinds
    /\ ByOwn(r.exit, c.shell) /\ (c.shell = 1 => ByOwn(r.last, 1))
    /\ From(c.level, r.exit)
ShellKeeps(x, m, r, c, t, n) ==
    \/ x = "overruled"
    \/ r.level \in r.exit.erred => r.errFired \/ (n = 1 /\ t.ending)
ShellLeaves(x, m, r, c, t, n) ==
    x # "none" \/ (Bound(m, r, c) /\ c.kinds = {} => Leaves(m, r.exit, t, n))
ShellTraps(x, m, r, c, t, n) ==
    \/ x # "none" \/ m = "lines"
    \/ /\ r.exits \in {0, 1} /\ (r.exits = 1 => r.fired)
       /\ c.shell > 1 /\ r.fired => r.exits = 1 \/ "exit" \in c.kinds
       /\ c.shell = 1 /\ r.fired /\ r.exits = 0 => n = 1 /\ t.ending /\ ~r.exitTrap
       /\ c.shell = 1 =>
            /\ t.ending /\ (m # "stream" \/ n > 1) => r.fired
            /\ t.single => t.ending /\ (r.fired \/ (n = 1 /\ ~r.exitTrap))
            /\ n = 1 /\ t.ending /\ "exit" \in r.exit.flow => r.fired \/ t.single
ShellOK(x, m, r, c, t, n) ==
    /\ ShellFits(r, c) /\ ShellKeeps(x, m, r, c, t, n)
    /\ ShellLeaves(x, m, r, c, t, n) /\ ShellTraps(x, m, r, c, t, n)

FrameFits(f, c) ==
    /\ f.at = "top" /\ f.single => f.ending
    /\ f.at = "stmt" => f.noErr = c.test
    /\ f.at \in {"cond", "whileCond"} => f.saved = c.test
    /\ f.at = "left" => f.saved.noErr = c.test
    /\ f.at \in {"for", "while"} => f.saved = c.loop
    /\ f.at = "action" =>
         /\ f.saved.kind \notin c.kinds
         /\ ByOwn(f.saved.exit, c.shell) /\ (c.shell = 1 => ByOwn(f.saved.last, 1))
         /\ From(c.level, f.saved.exit)
    /\ f.at \in {"stageR", "lastStage"} => f.saved.flow = {} /\ From(c.level + 1, f.saved)
ActionOK(x, m, f, r, c, t, n) ==
    /\ x = "overruled" \/ (c.level \in f.saved.exit.erred => f.saved.errFired \/ (n = 1 /\ t.ending))
    /\ x # "none" \/ (Bound(m, r, c) /\ c.kinds = {} => Leaves(m, f.saved.exit, t, n))
    /\ x # "none" \/ m = "lines" \/ (f.saved.kind = "exit" => r.exits = 1)
ForkOK(f, r) == f.ending => r.fired

\* What is said of the frame n.
FrameOK(x, m, ss, ks, n) ==
    /\ ks[n].at = "top" <=> n = 1
    /\ n = 2 => ks[n].at \in {"stmt", "action"}
    /\ ks[n].at = "whileCond" => ks[n - 1].at = "while" /\ ks[n - 1].ending
    /\ FrameFits(ks[n], Context(ks, n - 1))
    /\ ks[n].at = "action" =>
          ActionOK(x, m, ks[n], ss[Shell(ks, n)], Context(ks, n - 1), ks[1], n - 1)
    /\ ks[n].at \in Shells =>
          /\ ForkOK(ks[n], ss[Shell(ks, n)])
          /\ ShellOK(x, m, ss[Shell(ks, n) - 1], Context(ks, n - 1), ks[1], n - 1)
          /\ ss[Shell(ks, n) - 1].exit.flow = {} /\ ss[Shell(ks, n) - 1].exit.erred = {}

Ok(x, m, ss, ks) ==
    /\ ss \in Seq(RunnerT) /\ ks \in Seq(FrameT) /\ Len(ss) > 0 /\ Len(ks) > 0
    /\ Len(ss) = Shell(ks, Len(ks)) /\ Len(ss) <= MaxDepth
    /\ \A n \in 1..Len(ks) : FrameOK(x, m, ss, ks, n)
    /\ \A i \in 2..Len(ss) : \E n \in 1..Len(ks) : ks[n].at \in Shells /\ Shell(ks, n) = i
    /\ ShellOK(x, m, ss[Len(ss)], Context(ks, Len(ks)), ks[1], Len(ks))

Excuse(sn) == IF sn.overruled THEN "overruled" ELSE IF sn.dropped THEN "dropped" ELSE "none"

SeenT ==
    [late: BOOLEAN, miscut: BOOLEAN, errTwice: BOOLEAN, unjust: BOOLEAN, after: BOOLEAN,
     overruled: BOOLEAN, dropped: BOOLEAN,
     ended: SUBSET [trap: BOOLEAN, exits: Nat, nested: BOOLEAN]]

-----------------------------------------------------------------------------
\* Facts about sequences that every step uses.
LEMMA Ends ==
    ASSUME NEW S, NEW s \in Seq(S), Len(s) > 0
    PROVE  /\ Last(s) = s[Len(s)] /\ Last(s) \in S
           /\ Front(s) \in Seq(S) /\ Len(Front(s)) = Len(s) - 1
           /\ \A i \in 1..(Len(s) - 1) : Front(s)[i] = s[i]
<1>1. Len(s) \in Nat /\ s \in [1..Len(s) -> S]
  OBVIOUS
<1>2. Front(s) = SubSeq(s, 1, Len(s) - 1)
  BY DEF Front
<1>3. Last(s) = s[Len(s)]
  BY DEF Last
<1>4. s[Len(s)] \in S
  BY <1>1
<1>5. SubSeq(s, 1, Len(s) - 1) = [i \in 1..(Len(s) - 1) |-> s[i]]
  BY <1>1
<1>6. QED
  BY <1>1, <1>2, <1>3, <1>4, <1>5

\* What Append gives: one element more, the others where they were.
LEMMA Appended ==
    ASSUME NEW S, NEW s \in Seq(S), NEW e \in S
    PROVE  /\ Append(s, e) \in Seq(S) /\ Len(Append(s, e)) = Len(s) + 1
           /\ Append(s, e)[Len(s) + 1] = e
           /\ \A i \in 1..Len(s) : Append(s, e)[i] = s[i]
  OBVIOUS

-----------------------------------------------------------------------------
\* A frame takes its shell, its level and so on from the frame below it.
LEMMA CountStep ==
    ASSUME NEW n \in Nat \ {0}, NEW A, NEW B, IsFiniteSet(A), n \notin A,
           NEW p \in BOOLEAN, B = IF p THEN A \cup {n} ELSE A
    PROVE  Cardinality(B) = Cardinality(A) + (IF p THEN 1 ELSE 0) /\ Cardinality(A) \in Nat
<1>1. Cardinality(A) \in Nat
  BY FS_CardinalityType
<1>2. Cardinality(A \cup {n}) = Cardinality(A) + 1
  BY FS_AddElement
<1> QED
  BY <1>1, <1>2

\* How many of the first n frames are of some kinds: at most n, no fewer than of the
\* first m, and one more than of the first n - 1 if the last is of these kinds.
LEMMA Counted ==
    ASSUME NEW ks, NEW n \in Nat, NEW A
    PROVE  /\ IsFiniteSet(Frames(ks, A, n)) /\ Cardinality(Frames(ks, A, n)) \in Nat
           /\ Cardinality(Frames(ks, A, n)) <= n
           /\ n > 0 => Cardinality(Frames(ks, A, n)) =
                 Cardinality(Frames(ks, A, n - 1)) + (IF ks[n].at \in A THEN 1 ELSE 0)
           /\ \A m \in 0..n : /\ Cardinality(Frames(ks, A, m)) \in Nat
                              /\ Cardinality(Frames(ks, A, m)) <= Cardinality(Frames(ks, A, n))
           /\ Cardinality(Frames(ks, A, 0)) = 0
<1> DEFINE C(k) == Frames(ks, A, k)
<1>1. \A k \in 0..n : IsFiniteSet(C(k)) /\ Cardinality(C(k)) \in Nat /\ Cardinality(C(k)) <= k
  <2> SUFFICES ASSUME NEW k \in 0..n
               PROVE  IsFiniteSet(C(k)) /\ Cardinality(C(k)) \in Nat /\ Cardinality(C(k)) <= k
    OBVIOUS
  <2>1. IsFiniteSet(1..k) /\ Cardinality(1..k) = k
    BY FS_Interval
  <2>2. C(k) \in SUBSET (1..k)
    BY DEF Frames
  <2> HIDE DEF C
  <2> QED
    BY <2>1, <2>2, FS_Subset, FS_CardinalityType
<1>2. ASSUME n > 0
      PROVE  Cardinality(C(n)) = Cardinality(C(n - 1)) + (IF ks[n].at \in A THEN 1 ELSE 0)
  <2> DEFINE p == ks[n].at \in A
  <2>1. C(n) = IF p THEN C(n - 1) \cup {n} ELSE C(n - 1)
    BY <1>2 DEF Frames
  <2>2. n \notin C(n - 1) /\ n - 1 \in 0..n /\ n \in Nat \ {0} /\ p \in BOOLEAN
    BY <1>2 DEF Frames
  <2> HIDE DEF C
  <2> QED
    BY <2>1, <2>2, <1>1, CountStep
<1>3. \A m \in 0..n : Cardinality(C(m)) <= Cardinality(C(n))
  <2> SUFFICES ASSUME NEW m \in 0..n PROVE Cardinality(C(m)) <= Cardinality(C(n))
    OBVIOUS
  <2>1. C(m) \in SUBSET C(n)
    BY DEF Frames
  <2> HIDE DEF C
  <2> QED
    BY <1>1, <2>1, FS_Subset
<1>4. C(0) = {}
  BY DEF Frames
<1> HIDE DEF C
<1>5. Cardinality(C(0)) = 0
  BY <1>4, FS_EmptySet
<1> QED
  BY <1>1, <1>2, <1>3, <1>5 DEF C

\* The number of the shell at frame n: the main shell is 1, each frame of a subshell
\* begins the next, and no frame above belongs to a shell further out.
LEMMA ShellStep ==
    ASSUME NEW ks, NEW n \in Nat
    PROVE  /\ Shell(ks, n) \in Nat \ {0} /\ Shell(ks, n) <= n + 1 /\ Shell(ks, 0) = 1
           /\ n > 0 => Shell(ks, n) = Shell(ks, n - 1) + (IF ks[n].at \in Shells THEN 1 ELSE 0)
           /\ \A m \in 0..n : Shell(ks, m) \in Nat \ {0} /\ Shell(ks, m) <= Shell(ks, n)
<1> DEFINE C(k) == Cardinality(Frames(ks, Shells, k))
<1>1. \A k : Shell(ks, k) = 1 + C(k)
  BY DEF Shell
<1>2. /\ C(n) \in Nat /\ C(n) <= n /\ C(0) = 0
      /\ n > 0 => C(n) = C(n - 1) + (IF ks[n].at \in Shells THEN 1 ELSE 0)
      /\ \A m \in 0..n : C(m) \in Nat /\ C(m) <= C(n)
  BY Counted
<1>3. n > 0 => n - 1 \in 0..n
  OBVIOUS
<1> HIDE DEF C
<1> QED
  BY <1>1, <1>2, <1>3

\* The level at frame n: each call and each subshell is one more.
LEMMA LevelStep ==
    ASSUME NEW ks, NEW n \in Nat
    PROVE  /\ Level(ks, n) \in Nat /\ Level(ks, n) <= n /\ Level(ks, 0) = 0
           /\ n > 0 => Level(ks, n) = Level(ks, n - 1) + (IF ks[n].at \in Deeper THEN 1 ELSE 0)
  BY Counted DEF Level

\* What a frame adds to the context below it.
LEMMA ContextStep ==
    ASSUME NEW ks, NEW n \in Nat \ {0}
    PROVE  /\ ks[n].at \in Shells =>
                 /\ Shell(ks, n) = Shell(ks, n - 1) + 1
                 /\ InTest(ks, n) = Tests(ks[n]) /\ InLoop(ks, n) = InRound(ks[n])
           /\ ks[n].at \notin Shells =>
                 /\ Shell(ks, n) = Shell(ks, n - 1)
                 /\ InTest(ks, n) = (Tests(ks[n]) \/ InTest(ks, n - 1))
                 /\ InLoop(ks, n) = (InRound(ks[n]) \/ InLoop(ks, n - 1))
           /\ Level(ks, n) = Level(ks, n - 1) + (IF ks[n].at \in Deeper THEN 1 ELSE 0)
           /\ Kinds(ks, n) = Kinds(ks, n - 1) \cup
                               (IF ks[n].at = "action" THEN {ks[n].saved.kind} ELSE {})
<1>0. n \in Nat /\ n > 0 /\ n - 1 \in Nat
  OBVIOUS
<1>1. Shell(ks, n) = Shell(ks, n - 1) + (IF ks[n].at \in Shells THEN 1 ELSE 0)
  BY <1>0, ShellStep
<1>2. \A m \in 1..(n - 1) : Shell(ks, m) <= Shell(ks, n - 1) /\ Shell(ks, m) \in Nat
  BY <1>0, ShellStep
<1>3. Shell(ks, n - 1) \in Nat /\ Shell(ks, n) \in Nat
  BY <1>0, ShellStep
<1>4. ASSUME ks[n].at \in Shells
      PROVE  InTest(ks, n) = Tests(ks[n]) /\ InLoop(ks, n) = InRound(ks[n])
  <2>1. \A m \in 1..n : Shell(ks, m) = Shell(ks, n) <=> m = n
    BY <1>0, <1>1, <1>2, <1>3, <1>4
  <2>2. n \in 1..n
    BY <1>0
  <2>3. InTest(ks, n) <=> Tests(ks[n])
    BY <2>1, <2>2 DEF InTest
  <2>4. InLoop(ks, n) <=> InRound(ks[n])
    BY <2>1, <2>2 DEF InLoop
  <2> QED
    BY <2>3, <2>4 DEF InTest, InLoop, Tests, InRound
<1>5. ASSUME ks[n].at \notin Shells
      PROVE  /\ InTest(ks, n) = (Tests(ks[n]) \/ InTest(ks, n - 1))
             /\ InLoop(ks, n) = (InRound(ks[n]) \/ InLoop(ks, n - 1))
  <2>1. Shell(ks, n) = Shell(ks, n - 1)
    BY <1>1, <1>3, <1>5
  <2>2. \A m : m \in 1..n <=> m \in 1..(n - 1) \/ m = n
    BY <1>0
  <2> QED
    BY <2>1, <2>2 DEF InTest, InLoop
<1>6. Level(ks, n) = Level(ks, n - 1) + (IF ks[n].at \in Deeper THEN 1 ELSE 0)
  BY <1>0, LevelStep
<1>7. Kinds(ks, n) = Kinds(ks, n - 1) \cup
                               (IF ks[n].at = "action" THEN {ks[n].saved.kind} ELSE {})
  <2>1. \A m : m \in 1..n <=> m \in 1..(n - 1) \/ m = n
    BY <1>0
  <2> QED
    BY <2>1 DEF Kinds
<1> QED
  BY <1>1, <1>3, <1>4, <1>5, <1>6, <1>7

\* Two stacks whose frames say the same up to n.
Alike(f, g) ==
    /\ f.at = g.at
    /\ f.at = "stmt" => f.neg = g.neg /\ f.noErr = g.noErr
    /\ f.at # "stmt" => f.saved = g.saved
    /\ f.at \in {"for", "while", "top"} \cup Shells => f.ending = g.ending
    /\ f.at = "top" => f.single = g.single

\* Stacks that are alike up to n have the same context there.
LEMMA ContextAlike ==
    ASSUME NEW ks, NEW k2, NEW n \in Nat, \A i \in 1..n : Alike(k2[i], ks[i])
    PROVE  /\ Shell(k2, n) = Shell(ks, n) /\ Level(k2, n) = Level(ks, n)
           /\ InTest(k2, n) = InTest(ks, n) /\ InLoop(k2, n) = InLoop(ks, n)
           /\ Kinds(k2, n) = Kinds(ks, n) /\ Context(k2, n) = Context(ks, n)
<1>1. \A m \in 0..n : Frames(k2, Shells, m) = Frames(ks, Shells, m)
  BY DEF Alike, Frames
<1>2. \A m \in 0..n : Shell(k2, m) = Shell(ks, m)
  BY <1>1 DEF Shell
<1>3. Frames(k2, Deeper, n) = Frames(ks, Deeper, n)
  BY DEF Alike, Frames
<1>4. Level(k2, n) = Level(ks, n)
  BY <1>3 DEF Level
<1>5. \A m \in 1..n : (Tests(k2[m]) <=> Tests(ks[m])) /\ (InRound(k2[m]) <=> InRound(ks[m]))
  BY DEF Alike, Tests, InRound, Conditions
<1>6. n \in 0..n /\ \A m \in 1..n : m \in 0..n
  OBVIOUS
<1>7. InTest(k2, n) = InTest(ks, n) /\ InLoop(k2, n) = InLoop(ks, n)
  BY <1>2, <1>5, <1>6 DEF InTest, InLoop
<1>8. Kinds(k2, n) = Kinds(ks, n)
  <2>1. \A j \in 1..n : k2[j].at = "action" <=> ks[j].at = "action"
    BY DEF Alike
  <2>2. {j \in 1..n : k2[j].at = "action"} = {j \in 1..n : ks[j].at = "action"}
    BY <2>1
  <2>3. \A j \in 1..n : ks[j].at = "action" => k2[j].saved = ks[j].saved
    BY DEF Alike
  <2> QED
    BY <2>2, <2>3 DEF Kinds
<1> QED
  BY <1>2, <1>4, <1>6, <1>7, <1>8 DEF Context

-----------------------------------------------------------------------------
\* The context above a frame.
After(c, f) ==
    [shell |-> c.shell + (IF f.at \in Shells THEN 1 ELSE 0),
     level |-> c.level + (IF f.at \in Deeper THEN 1 ELSE 0),
     test |-> Tests(f) \/ (f.at \notin Shells /\ c.test),
     loop |-> InRound(f) \/ (f.at \notin Shells /\ c.loop),
     kinds |-> c.kinds \cup (IF f.at = "action" THEN {f.saved.kind} ELSE {})]

\* The context at a frame is that of the frame below it with what the frame adds.
LEMMA ContextAfter ==
    ASSUME NEW ks, NEW n \in Nat \ {0}
    PROVE  Context(ks, n) = After(Context(ks, n - 1), ks[n])
<1>0. n \in Nat /\ n > 0
  OBVIOUS
<1>1. Tests(ks[n]) \in BOOLEAN /\ InRound(ks[n]) \in BOOLEAN
  BY DEF Tests, InRound
<1>2. InTest(ks, n - 1) \in BOOLEAN /\ InLoop(ks, n - 1) \in BOOLEAN
  BY DEF InTest, InLoop
<1>3. InTest(ks, n) = (Tests(ks[n]) \/ (ks[n].at \notin Shells /\ InTest(ks, n - 1)))
  <2>1. CASE ks[n].at \in Shells
    BY <1>1, <2>1, ContextStep
  <2>2. CASE ks[n].at \notin Shells
    BY <1>2, <2>2, ContextStep
  <2> QED
    BY <2>1, <2>2
<1>4. InLoop(ks, n) = (InRound(ks[n]) \/ (ks[n].at \notin Shells /\ InLoop(ks, n - 1)))
  <2>1. CASE ks[n].at \in Shells
    BY <1>1, <2>1, ContextStep
  <2>2. CASE ks[n].at \notin Shells
    BY <1>2, <2>2, ContextStep
  <2> QED
    BY <2>1, <2>2
<1>5. Shell(ks, n) = Shell(ks, n - 1) + (IF ks[n].at \in Shells THEN 1 ELSE 0)
  BY <1>0, ShellStep
<1>6. Level(ks, n) = Level(ks, n - 1) + (IF ks[n].at \in Deeper THEN 1 ELSE 0)
  BY ContextStep
<1>7. Kinds(ks, n) = Kinds(ks, n - 1) \cup
                        (IF ks[n].at = "action" THEN {ks[n].saved.kind} ELSE {})
  BY ContextStep
<1> QED
  BY <1>3, <1>4, <1>5, <1>6, <1>7 DEF Context, After

\* A shell that has fired its EXIT trap has fired it, one that has run it has run it, and
\* one comes to be bound to leave only while no trap action runs.
Heeds(x, m, old, new, c) ==
    /\ old.fired => new.fired
    /\ x # "none" \/ c.kinds = {} \/ (Bound(m, new, c) => Bound(m, old, c))
    /\ x # "none" \/ m = "lines" \/ (old.exits = 1 => new.exits = 1)

\* The frames that a step leaves alone keep what is said of them.
LEMMA FrameKept ==
    ASSUME NEW x, NEW m, NEW ss, NEW ks, NEW p \in Nat, NEW n \in 1..p,
           FrameOK(x, m, ss, ks, n), ks[1].at = "top",
           NEW s2, NEW k2, \A i \in 1..p : Alike(k2[i], ks[i]),
           \A i \in Nat : i > 0 /\ i < Shell(ks, p) => s2[i] = ss[i],
           Heeds(x, m, ss[Shell(ks, p)], s2[Shell(ks, p)], Context(ks, p))
    PROVE  FrameOK(x, m, s2, k2, n)
<1> DEFINE i == Shell(ks, n)
<1> DEFINE c == Context(ks, n - 1)
<1>1. n \in Nat /\ n > 0 /\ n <= p /\ n - 1 \in Nat /\ 1 \in 1..p
  OBVIOUS
<1>2. Context(k2, n - 1) = c /\ Shell(k2, n) = i
  <2>1. \A j \in 1..(n - 1) : Alike(k2[j], ks[j])
    BY <1>1
  <2>2. \A j \in 1..n : Alike(k2[j], ks[j])
    BY <1>1
  <2> QED
    BY <1>1, <2>1, <2>2, ContextAlike
<1>3. i \in Nat /\ i > 0 /\ i <= Shell(ks, p) /\ Shell(ks, p) \in Nat
  BY <1>1, ShellStep
<1>4. Alike(k2[n], ks[n]) /\ Alike(k2[1], ks[1])
  BY <1>1
<1>5. k2[1].at = "top" /\ k2[1].ending = ks[1].ending /\ k2[1].single = ks[1].single
  BY <1>4 DEF Alike
<1>6. \A r, d, k : /\ ShellOK(x, m, r, d, k2[1], k) <=> ShellOK(x, m, r, d, ks[1], k)
                   /\ \A f : ActionOK(x, m, f, r, d, k2[1], k) <=> ActionOK(x, m, f, r, d, ks[1], k)
  BY <1>5 DEF ShellOK, ShellKeeps, ShellLeaves, ShellTraps, ActionOK, Leaves, Done
<1>7. k2[n].at = ks[n].at
  BY <1>4 DEF Alike
<1>8. FrameFits(k2[n], Context(k2, n - 1))
  BY <1>2, <1>4 DEF FrameOK, FrameFits, Alike
<1>9. ASSUME k2[n].at = "action"
      PROVE  ActionOK(x, m, k2[n], s2[Shell(k2, n)], Context(k2, n - 1), k2[1], n - 1)
  <2>1. ActionOK(x, m, ks[n], ss[i], c, ks[1], n - 1)
    BY <1>7, <1>9 DEF FrameOK
  <2>2. k2[n].saved = ks[n].saved
    BY <1>4, <1>7, <1>9 DEF Alike
  <2>3. ActionOK(x, m, k2[n], ss[i], c, ks[1], n - 1)
    BY <2>1, <2>2 DEF ActionOK
  <2>4. CASE i < Shell(ks, p)
    <3>1. s2[i] = ss[i]
      BY <1>3, <2>4
    <3> QED
      BY <1>2, <1>6, <2>3, <3>1
  <2>5. CASE i = Shell(ks, p)
    <3>1. Context(ks, p).kinds # {}
      <4>1. n \in {j \in 1..p : ks[j].at = "action"}
        BY <1>7, <1>9
      <4>2. ks[n].saved.kind \in Kinds(ks, p)
        BY <4>1 DEF Kinds
      <4> QED
        BY <4>2 DEF Context
    <3>2. c.shell = Context(ks, p).shell
      <4>1. ks[n].at \notin Shells
        BY <1>7, <1>9 DEF Shells
      <4>2. Shell(ks, n) = Shell(ks, n - 1)
        BY <1>1, <4>1, ContextStep
      <4> QED
        BY <4>2, <2>5 DEF Context
    <3>3. x # "none" \/ (Bound(m, s2[i], c) => Bound(m, ss[i], c))
      BY <3>1, <3>2, <2>5 DEF Heeds, Bound
    <3>4. x # "none" \/ m = "lines" \/ (ss[i].exits = 1 => s2[i].exits = 1)
      BY <2>5 DEF Heeds
    <3>5. ActionOK(x, m, k2[n], s2[i], c, ks[1], n - 1)
      BY <2>3, <3>3, <3>4 DEF ActionOK
    <3> QED
      BY <1>2, <1>6, <3>5
  <2> QED
    BY <1>3, <2>4, <2>5
<1>10. ASSUME k2[n].at \in Shells
       PROVE  /\ ForkOK(k2[n], s2[Shell(k2, n)])
              /\ ShellOK(x, m, s2[Shell(k2, n) - 1], Context(k2, n - 1), k2[1], n - 1)
              /\ s2[Shell(k2, n) - 1].exit.flow = {} /\ s2[Shell(k2, n) - 1].exit.erred = {}
  <2>1. /\ ForkOK(ks[n], ss[i])
        /\ ShellOK(x, m, ss[i - 1], c, ks[1], n - 1)
        /\ ss[i - 1].exit.flow = {} /\ ss[i - 1].exit.erred = {}
    BY <1>7, <1>10 DEF FrameOK
  <2>2. i = Shell(ks, n - 1) + 1 /\ Shell(ks, n - 1) \in Nat /\ Shell(ks, n - 1) > 0
    BY <1>1, <1>7, <1>10, ContextStep, ShellStep
  <2>3. s2[i - 1] = ss[i - 1]
    BY <2>2, <1>3
  <2>4. ss[i].fired => s2[i].fired
    BY <1>3 DEF Heeds
  <2>5. k2[n].ending = ks[n].ending
    BY <1>4, <1>7, <1>10 DEF Alike
  <2>6. ForkOK(k2[n], s2[i])
    BY <2>1, <2>4, <2>5 DEF ForkOK
  <2> QED
    BY <1>2, <1>6, <2>1, <2>3, <2>6
<1>11. k2[n].at = "top" <=> n = 1
  BY <1>7 DEF FrameOK
<1>12. n = 2 => k2[n].at \in {"stmt", "action"}
  BY <1>7 DEF FrameOK
<1>13. ASSUME k2[n].at = "whileCond"
       PROVE  k2[n - 1].at = "while" /\ k2[n - 1].ending
  <2>1. ks[n - 1].at = "while" /\ ks[n - 1].ending /\ n # 1
    BY <1>7, <1>13 DEF FrameOK
  <2>2. n - 1 \in 1..p
    BY <1>1, <2>1
  <2>3. Alike(k2[n - 1], ks[n - 1])
    BY <2>2
  <2> QED
    BY <2>1, <2>3 DEF Alike
<1> QED
  BY <1>8, <1>9, <1>10, <1>11, <1>12, <1>13 DEF FrameOK

\* A step keeps the frames up to p and has one new frame above them at most.
LEMMA Move ==
    ASSUME NEW x, NEW m, NEW ss, NEW ks, Ok(x, m, ss, ks),
           NEW p \in 0..Len(ks), NEW k2 \in Seq(FrameT), NEW s2 \in Seq(RunnerT),
           Len(k2) \in {p, p + 1}, Len(k2) > 0, \A i \in 1..p : Alike(k2[i], ks[i]),
           Len(s2) = Shell(k2, Len(k2)), Len(s2) <= MaxDepth,
           \A i \in Nat : i > 0 /\ i < Shell(ks, p) => s2[i] = ss[i],
           p > 0 => Heeds(x, m, ss[Shell(ks, p)], s2[Shell(ks, p)], Context(ks, p)),
           Len(k2) = p + 1 => FrameOK(x, m, s2, k2, p + 1),
           ShellOK(x, m, s2[Len(s2)], Context(k2, Len(k2)), k2[1], Len(k2))
    PROVE  Ok(x, m, s2, k2)
<1>1. p \in Nat /\ p <= Len(ks) /\ Len(ks) \in Nat /\ Len(k2) \in Nat /\ Len(s2) \in Nat
  BY DEF Ok
<1>2. Shell(k2, p) = Shell(ks, p) /\ Shell(ks, p) \in Nat /\ Shell(ks, p) > 0
  <2>1. Shell(k2, p) = Shell(ks, p)
    BY <1>1, ContextAlike
  <2>2. Shell(ks, p) \in Nat \ {0}
    BY <1>1, ShellStep
  <2> QED
    BY <2>1, <2>2
<1>3. Len(k2) = p + 1 => Shell(k2, p + 1) = Shell(ks, p) + (IF k2[p + 1].at \in Shells THEN 1 ELSE 0)
  <2>1. PICK q \in Nat : q = p + 1
    BY <1>1
  <2>2. q > 0 /\ q - 1 = p
    BY <1>1, <2>1
  <2>3. Shell(k2, q) = Shell(k2, q - 1) + (IF k2[q].at \in Shells THEN 1 ELSE 0)
    BY <2>2, ShellStep
  <2> QED
    BY <1>2, <2>1, <2>2, <2>3
<1>4. Len(s2) > 0
  BY <1>1, <1>2, <1>3
<1>5. ASSUME NEW n \in 1..Len(k2) PROVE FrameOK(x, m, s2, k2, n)
  <2>1. CASE n = p + 1
    BY <1>1, <1>5, <2>1
  <2>2. CASE n # p + 1
    <3>1. p > 0 /\ n \in 1..p /\ n \in 1..Len(ks) /\ 1 \in 1..Len(ks)
      BY <1>1, <1>5, <2>2
    <3>2. FrameOK(x, m, ss, ks, n) /\ ks[1].at = "top"
      BY <3>1 DEF Ok, FrameOK
    <3> QED
      BY <1>1, <3>1, <3>2, FrameKept, ZenonT(30)
  <2> QED
    BY <2>1, <2>2
<1>6. ASSUME NEW i \in 2..Len(s2)
      PROVE  \E n \in 1..Len(k2) : k2[n].at \in Shells /\ Shell(k2, n) = i
  <2>0. i \in Nat /\ i >= 2 /\ i <= Len(s2)
    BY <1>1, <1>6
  <2>1. CASE i <= Shell(ks, p)
    <3>1. Shell(ks, p) <= Shell(ks, Len(ks))
      BY <1>1, ShellStep
    <3>2. i \in 2..Len(ss)
      BY <2>0, <2>1, <3>1, <1>2 DEF Ok
    <3>3. PICK n \in 1..Len(ks) : ks[n].at \in Shells /\ Shell(ks, n) = i
      BY <3>2 DEF Ok
    <3>4. n \in Nat /\ n > 0 /\ n - 1 \in Nat
      BY <1>1
    <3>5. n <= p
      <4> SUFFICES ASSUME n > p PROVE FALSE
        BY <1>1, <3>4
      <4>1. p \in 0..(n - 1)
        BY <1>1, <3>4
      <4>2. Shell(ks, p) <= Shell(ks, n - 1) /\ Shell(ks, n - 1) \in Nat
        BY <3>4, <4>1, ShellStep
      <4>3. Shell(ks, n) = Shell(ks, n - 1) + 1
        BY <3>3, <3>4, ContextStep
      <4> QED
        BY <1>2, <2>1, <3>3, <4>2, <4>3
    <3>6. n \in 1..Len(k2) /\ n \in 1..p /\ \A j \in 1..n : j \in 1..p
      BY <1>1, <3>4, <3>5
    <3>7. k2[n].at = ks[n].at
      BY <3>6 DEF Alike
    <3>8. Shell(k2, n) = Shell(ks, n)
      BY <3>4, <3>6, ContextAlike
    <3> QED
      BY <3>3, <3>6, <3>7, <3>8
  <2>2. CASE i > Shell(ks, p)
    <3>1. Len(k2) = p + 1 /\ k2[p + 1].at \in Shells /\ Shell(k2, p + 1) = i
      BY <1>1, <1>2, <1>3, <2>0, <2>2
    <3>2. p + 1 \in 1..Len(k2)
      BY <1>1, <3>1
    <3> QED
      BY <3>1, <3>2
  <2> QED
    BY <1>2, <2>0, <2>1, <2>2
<1> QED
  BY <1>4, <1>5, <1>6 DEF Ok

\* An excuse excuses the more.
LEMMA Excused ==
    ASSUME NEW x, NEW y, NEW m, NEW ss, NEW ks, Ok(x, m, ss, ks),
           y = x \/ y = "overruled" \/ (x = "none" /\ y = "dropped")
    PROVE  Ok(y, m, ss, ks)
<1>1. \A r, c, t, n : ShellOK(x, m, r, c, t, n) => ShellOK(y, m, r, c, t, n)
  BY DEF ShellOK, ShellKeeps, ShellLeaves, ShellTraps
<1>2. \A f, r, c, t, n : ActionOK(x, m, f, r, c, t, n) => ActionOK(y, m, f, r, c, t, n)
  BY DEF ActionOK
<1>3. \A n : FrameOK(x, m, ss, ks, n) => FrameOK(y, m, ss, ks, n)
  BY <1>1, <1>2 DEF FrameOK
<1> QED
  BY <1>1, <1>3 DEF Ok

-----------------------------------------------------------------------------
\* What holds at the top of the stack.
ContextT == [shell: Nat \ {0}, level: Nat, test: BOOLEAN, loop: BOOLEAN, kinds: SUBSET Trap]

\* What Ok says of the top: the types of the top, the current shell and what is below
\* them, the context there, and that only the frame at the bottom is that of a run.
LEMMA Place ==
    ASSUME NEW x, NEW m, NEW ss, NEW ks, Ok(x, m, ss, ks)
    PROVE  /\ ss \in Seq(RunnerT) /\ ks \in Seq(FrameT)
           /\ Len(ks) \in Nat /\ Len(ks) > 0 /\ Len(ks) - 1 \in Nat
           /\ Len(ss) \in Nat /\ Len(ss) > 0 /\ Len(ss) <= MaxDepth /\ Len(ss) <= Len(ks)
           /\ Len(ss) = Shell(ks, Len(ks)) /\ Context(ks, Len(ks)).shell = Len(ss)
           /\ Last(ks) = ks[Len(ks)] /\ Last(ks) \in FrameT
           /\ Last(ss) = ss[Len(ss)] /\ Last(ss) \in RunnerT
           /\ Front(ks) \in Seq(FrameT) /\ Len(Front(ks)) = Len(ks) - 1
           /\ \A i \in 1..(Len(ks) - 1) : Front(ks)[i] = ks[i]
           /\ Front(ss) \in Seq(RunnerT) /\ Len(Front(ss)) = Len(ss) - 1
           /\ \A i \in 1..(Len(ss) - 1) : Front(ss)[i] = ss[i]
           /\ Context(ks, Len(ks)) = After(Context(ks, Len(ks) - 1), Last(ks))
           /\ Context(ks, Len(ks)) \in ContextT /\ Context(ks, Len(ks) - 1) \in ContextT
           /\ FrameFits(Last(ks), Context(ks, Len(ks) - 1))
           /\ ShellOK(x, m, Last(ss), Context(ks, Len(ks)), ks[1], Len(ks))
           /\ ks[1].at = "top" /\ (Last(ks).at = "top" <=> Len(ks) = 1)
           /\ Last(ks).at = "top" \/ Last(ks).at = "stmt" \/ Last(ks).at = "action"
              \/ Last(Front(ks)).at # "top"
<1>1. ss \in Seq(RunnerT) /\ ks \in Seq(FrameT) /\ Len(ss) > 0 /\ Len(ks) > 0
      /\ Len(ss) = Shell(ks, Len(ks)) /\ Len(ss) <= MaxDepth
  BY DEF Ok
<1>2. Len(ks) \in Nat /\ Len(ss) \in Nat /\ Len(ks) - 1 \in Nat /\ Len(ks) \in Nat \ {0}
  BY <1>1
<1>3. /\ Last(ks) = ks[Len(ks)] /\ Last(ks) \in FrameT
      /\ Front(ks) \in Seq(FrameT) /\ Len(Front(ks)) = Len(ks) - 1
      /\ \A i \in 1..(Len(ks) - 1) : Front(ks)[i] = ks[i]
  BY <1>1, Ends
<1>4. /\ Last(ss) = ss[Len(ss)] /\ Last(ss) \in RunnerT
      /\ Front(ss) \in Seq(RunnerT) /\ Len(Front(ss)) = Len(ss) - 1
      /\ \A i \in 1..(Len(ss) - 1) : Front(ss)[i] = ss[i]
  BY <1>1, Ends
<1>5. Context(ks, Len(ks)) = After(Context(ks, Len(ks) - 1), ks[Len(ks)])
  BY <1>2, ContextAfter
<1>6. ASSUME NEW n \in Nat, n <= Len(ks) PROVE Context(ks, n) \in ContextT
  <2>1. Shell(ks, n) \in Nat \ {0} /\ Level(ks, n) \in Nat
    BY ShellStep, LevelStep
  <2>2. InTest(ks, n) \in BOOLEAN /\ InLoop(ks, n) \in BOOLEAN
    BY DEF InTest, InLoop
  <2>3. Kinds(ks, n) \subseteq Trap
    <3>1. \A f \in FrameT : f.at = "action" => f.saved.kind \in Trap
      BY DEF FrameT, StmtT, ListT, ActionSaved
    <3>2. \A j \in 1..n : ks[j] \in FrameT
      BY <1>1, <1>2, <1>6
    <3> QED
      BY <3>1, <3>2 DEF Kinds
  <2> QED
    BY <2>1, <2>2, <2>3 DEF Context, ContextT
<1>7. Context(ks, Len(ks)) \in ContextT /\ Context(ks, Len(ks) - 1) \in ContextT
  BY <1>2, <1>6
<1>8. \A n \in 1..Len(ks) : FrameOK(x, m, ss, ks, n)
  BY DEF Ok
<1>9. Len(ks) \in 1..Len(ks) /\ 1 \in 1..Len(ks)
  BY <1>1, <1>2
<1>10. FrameFits(Last(ks), Context(ks, Len(ks) - 1)) /\ (Last(ks).at = "top" <=> Len(ks) = 1)
  BY <1>3, <1>8, <1>9 DEF FrameOK
<1>11. ks[1].at = "top"
  BY <1>8, <1>9 DEF FrameOK
<1>12. ShellOK(x, m, Last(ss), Context(ks, Len(ks)), ks[1], Len(ks))
  BY <1>4 DEF Ok
<1>13. Len(ss) <= Len(ks)
  <2>1. Cardinality(Frames(ks, Shells, Len(ks))) < Len(ks)
    <3>1. 1 \notin Frames(ks, Shells, Len(ks))
      BY <1>11 DEF Frames, Shells
    <3>2. Frames(ks, Shells, Len(ks)) \in SUBSET (2..Len(ks))
      BY <1>2, <3>1 DEF Frames
    <3>3. IsFiniteSet(2..Len(ks)) /\ Cardinality(2..Len(ks)) = Len(ks) - 1
      BY <1>2, FS_Interval
    <3> QED
      BY <1>2, <3>2, <3>3, FS_Subset, FS_CardinalityType
  <2>2. Cardinality(Frames(ks, Shells, Len(ks))) \in Nat
    BY <1>2, Counted
  <2> QED
    BY <1>1, <1>2, <2>1, <2>2 DEF Shell
<1>14. Context(ks, Len(ks)).shell = Len(ss)
  BY <1>1 DEF Context
<1>15. ASSUME Last(ks).at # "top", Last(ks).at # "stmt", Last(ks).at # "action"
       PROVE  Last(Front(ks)).at # "top"
  <2>1. PICK n \in Nat : n = Len(ks) /\ n > 0
    BY <1>1, <1>2
  <2>2. n # 1 /\ n # 2
    BY <1>3, <1>8, <1>9, <1>10, <1>15, <2>1 DEF FrameOK
  <2>3. n - 1 > 0 /\ n - 1 # 1 /\ n - 1 \in 1..(n - 1) /\ n - 1 \in 1..n
    BY <2>1, <2>2
  <2>4. ks[n - 1].at # "top"
    BY <1>8, <2>1, <2>3 DEF FrameOK
  <2>5. Last(Front(ks)) = Front(ks)[n - 1]
    BY <1>3, <2>1 DEF Last
  <2> QED
    BY <1>3, <2>1, <2>3, <2>4, <2>5
<1> QED
  BY <1>1, <1>2, <1>3, <1>4, <1>5, <1>7, <1>10, <1>11, <1>12, <1>13, <1>14, <1>15

\* One that agrees with another at the bottom stands for it there.
LEMMA TopAlike ==
    ASSUME NEW x, NEW m, NEW t, NEW u, t.at = "top", Alike(u, t)
    PROVE  \A r, c, n : /\ ShellOK(x, m, r, c, u, n) <=> ShellOK(x, m, r, c, t, n)
                        /\ \A f : ActionOK(x, m, f, r, c, u, n) <=> ActionOK(x, m, f, r, c, t, n)
<1>1. u.ending = t.ending /\ u.single = t.single
  BY DEF Alike
<1> QED
  BY <1>1 DEF ShellOK, ShellKeeps, ShellLeaves, ShellTraps, ActionOK, Leaves, Done

\* A frame is like itself.
LEMMA AlikeSelf ==
    ASSUME NEW f PROVE Alike(f, f)
  BY DEF Alike

\* The current shell is another, and no frame changes what it says.
LEMMA Touch ==
    ASSUME NEW x, NEW m, NEW ss, NEW ks, Ok(x, m, ss, ks), NEW r \in RunnerT,
           NEW kl \in Seq(FrameT), Len(kl) = Len(ks), \A i \in 1..Len(ks) : Alike(kl[i], ks[i]),
           Heeds(x, m, Last(ss), r, Context(ks, Len(ks))),
           ShellOK(x, m, r, Context(ks, Len(ks)), ks[1], Len(ks))
    PROVE  Ok(x, m, Append(Front(ss), r), kl)
<1> DEFINE s2 == Append(Front(ss), r)
<1>0. /\ Len(ks) \in Nat /\ Len(ks) > 0 /\ Len(ss) \in Nat /\ Len(ss) > 0 /\ Len(ss) <= MaxDepth
      /\ Front(ss) \in Seq(RunnerT) /\ Len(Front(ss)) = Len(ss) - 1
      /\ \A i \in 1..(Len(ss) - 1) : Front(ss)[i] = ss[i]
      /\ Len(ss) = Shell(ks, Len(ks)) /\ Last(ss) = ss[Len(ss)] /\ ks[1].at = "top"
  BY Place
<1>1. /\ s2 \in Seq(RunnerT) /\ Len(s2) = Len(ss) /\ s2[Len(ss)] = r
      /\ \A i \in Nat : i > 0 /\ i < Len(ss) => s2[i] = ss[i]
  BY <1>0
<1>2. Context(kl, Len(ks)) = Context(ks, Len(ks)) /\ Shell(kl, Len(ks)) = Len(ss)
  BY <1>0, ContextAlike
<1>3. ShellOK(x, m, s2[Len(s2)], Context(kl, Len(kl)), kl[1], Len(kl))
  <2>1. Alike(kl[1], ks[1])
    BY <1>0
  <2>2. ShellOK(x, m, r, Context(ks, Len(ks)), kl[1], Len(ks))
    BY <1>0, <2>1, TopAlike
  <2> QED
    BY <1>0, <1>1, <1>2, <2>2
<1> HIDE DEF s2
<1>4. Len(ks) \in 0..Len(ks) /\ Len(kl) \in {Len(ks), Len(ks) + 1} /\ Len(kl) > 0
  BY <1>0
<1>5. Len(s2) = Shell(kl, Len(kl)) /\ Len(s2) <= MaxDepth
  BY <1>0, <1>1, <1>2
<1>6. \A i \in Nat : i > 0 /\ i < Shell(ks, Len(ks)) => s2[i] = ss[i]
  BY <1>0, <1>1
<1>7. Len(ks) > 0 => Heeds(x, m, ss[Shell(ks, Len(ks))], s2[Shell(ks, Len(ks))], Context(ks, Len(ks)))
  BY <1>0, <1>1
<1>8. Len(kl) = Len(ks) + 1 => FrameOK(x, m, s2, kl, Len(ks) + 1)
  BY <1>0
<1>9. s2 \in Seq(RunnerT)
  BY <1>1
<1>10. Ok(x, m, s2, kl)
  BY <1>3, <1>4, <1>5, <1>6, <1>7, <1>8, <1>9, Move, ZenonT(60)
<1> QED
  BY <1>10 DEF s2

\* A new frame in the same shell.
LEMMA Push ==
    ASSUME NEW x, NEW m, NEW ss, NEW ks, Ok(x, m, ss, ks), NEW r \in RunnerT,
           NEW kl \in Seq(FrameT), Len(kl) = Len(ks), \A i \in 1..Len(ks) : Alike(kl[i], ks[i]),
           NEW f \in FrameT, f.at \notin Shells, f.at # "top",
           Heeds(x, m, Last(ss), r, Context(ks, Len(ks))),
           FrameFits(f, Context(ks, Len(ks))),
           f.at = "action" => ActionOK(x, m, f, r, Context(ks, Len(ks)), ks[1], Len(ks)),
           Last(ks).at = "top" => f.at = "stmt" \/ f.at = "action",
           f.at = "whileCond" => Last(ks).at = "while" /\ Last(ks).ending,
           ShellOK(x, m, r, After(Context(ks, Len(ks)), f), ks[1], Len(ks) + 1)
    PROVE  Ok(x, m, Append(Front(ss), r), Append(kl, f))
<1> DEFINE s2 == Append(Front(ss), r)
<1> DEFINE k2 == Append(kl, f)
<1>0. /\ Len(ks) \in Nat /\ Len(ks) > 0 /\ Len(ss) \in Nat /\ Len(ss) > 0 /\ Len(ss) <= MaxDepth
      /\ Front(ss) \in Seq(RunnerT) /\ Len(Front(ss)) = Len(ss) - 1
      /\ \A i \in 1..(Len(ss) - 1) : Front(ss)[i] = ss[i]
      /\ Len(ss) = Shell(ks, Len(ks)) /\ Last(ss) = ss[Len(ss)] /\ ks[1].at = "top"
      /\ Last(ks) = ks[Len(ks)] /\ (Last(ks).at = "top" <=> Len(ks) = 1)
  BY Place
<1>1. /\ s2 \in Seq(RunnerT) /\ Len(s2) = Len(ss) /\ s2[Len(ss)] = r
      /\ \A i \in Nat : i > 0 /\ i < Len(ss) => s2[i] = ss[i]
  BY <1>0
<1>2. /\ k2 \in Seq(FrameT) /\ Len(k2) = Len(ks) + 1 /\ k2[Len(ks) + 1] = f
      /\ \A i \in 1..Len(ks) : k2[i] = kl[i]
  BY <1>0
<1> HIDE DEF s2, k2
<1>3. \A i \in 1..Len(ks) : Alike(k2[i], ks[i])
  BY <1>2
<1>20. PICK p \in Nat : p = Len(ks)
  BY <1>0
<1>21. Context(k2, p) = Context(ks, p) /\ Shell(k2, p) = Shell(ks, p)
  <2>1. \A i \in 1..p : Alike(k2[i], ks[i])
    BY <1>3, <1>20
  <2> QED
    BY <2>1, ContextAlike
<1>4. Context(k2, Len(ks)) = Context(ks, Len(ks)) /\ Shell(k2, Len(ks)) = Len(ss)
  BY <1>0, <1>20, <1>21
<1>5. PICK q \in Nat \ {0} : q = Len(ks) + 1
  BY <1>0
<1>6. q - 1 = Len(ks) /\ q \in Nat /\ q > 0
  BY <1>0, <1>5
<1>7. Context(k2, q) = After(Context(ks, Len(ks)), f)
  <2>1. Context(k2, q) = After(Context(k2, q - 1), k2[q])
    BY ContextAfter
  <2> QED
    BY <1>2, <1>4, <1>5, <1>6, <2>1
<1>8. Shell(k2, q) = Len(ss)
  <2>1. Shell(k2, q) = Shell(k2, q - 1) + (IF k2[q].at \in Shells THEN 1 ELSE 0)
    BY <1>6, ShellStep
  <2> QED
    BY <1>0, <1>2, <1>4, <1>5, <1>6, <2>1
<1>9. Alike(k2[1], ks[1]) /\ 1 \in 1..Len(ks)
  BY <1>0, <1>3
<1>10. FrameOK(x, m, s2, k2, q)
  <2>1. k2[q].at = f.at /\ k2[q] = f
    BY <1>2, <1>5
  <2>2. q # 1
    BY <1>0, <1>5
  <2>3. f.at = "action" => ActionOK(x, m, f, r, Context(ks, Len(ks)), k2[1], Len(ks))
    BY <1>0, <1>9, TopAlike
  <2>4. q = 2 => f.at = "stmt" \/ f.at = "action"
    BY <1>0, <1>5
  <2>5. f.at = "whileCond" => k2[q - 1].at = "while" /\ k2[q - 1].ending
    <3>1. Alike(k2[Len(ks)], ks[Len(ks)])
      BY <1>0, <1>3
    <3> QED
      BY <1>0, <1>6, <3>1 DEF Alike
  <2> QED
    BY <1>1, <1>4, <1>6, <1>8, <2>1, <2>2, <2>3, <2>4, <2>5 DEF FrameOK
<1>11. ShellOK(x, m, s2[Len(s2)], Context(k2, Len(k2)), k2[1], Len(k2))
  <2>1. ShellOK(x, m, r, After(Context(ks, Len(ks)), f), k2[1], Len(ks) + 1)
    BY <1>0, <1>9, TopAlike
  <2> QED
    BY <1>0, <1>1, <1>2, <1>5, <1>7, <2>1
<1>12. Len(ks) \in 0..Len(ks) /\ Len(k2) \in {Len(ks), Len(ks) + 1} /\ Len(k2) > 0
       /\ Len(s2) = Shell(k2, Len(k2)) /\ Len(s2) <= MaxDepth
  BY <1>0, <1>1, <1>2, <1>5, <1>8
<1>13. Len(ks) > 0 => Heeds(x, m, ss[Shell(ks, Len(ks))], s2[Shell(ks, Len(ks))], Context(ks, Len(ks)))
  BY <1>0, <1>1
<1>14. \A i \in Nat : i > 0 /\ i < Shell(ks, Len(ks)) => s2[i] = ss[i]
  BY <1>0, <1>1
<1>15. s2 \in Seq(RunnerT) /\ k2 \in Seq(FrameT)
  BY <1>1, <1>2
<1>16. Len(k2) = Len(ks) + 1 => FrameOK(x, m, s2, k2, Len(ks) + 1)
  BY <1>5, <1>10
<1>17. Ok(x, m, s2, k2)
  <2>1. p \in 0..Len(ks) /\ Len(k2) \in {p, p + 1} /\ Len(k2) > 0
    BY <1>12, <1>20
  <2>2. \A i \in 1..p : Alike(k2[i], ks[i])
    BY <1>3, <1>20
  <2>3. \A i \in Nat : i > 0 /\ i < Shell(ks, p) => s2[i] = ss[i]
    BY <1>14, <1>20
  <2>4. p > 0 => Heeds(x, m, ss[Shell(ks, p)], s2[Shell(ks, p)], Context(ks, p))
    BY <1>13, <1>20
  <2>5. Len(k2) = p + 1 => FrameOK(x, m, s2, k2, p + 1)
    BY <1>16, <1>20
  <2>6. Len(s2) = Shell(k2, Len(k2)) /\ Len(s2) <= MaxDepth
    BY <1>12
  <2> QED
    BY <1>11, <1>15, <2>1, <2>2, <2>3, <2>4, <2>5, <2>6, Move, SMTT(30)
<1> QED
  BY <1>17 DEF s2, k2

\* The frame at the top is over.
LEMMA Pop ==
    ASSUME NEW x, NEW m, NEW ss, NEW ks, Ok(x, m, ss, ks), NEW r \in RunnerT,
           Last(ks).at \notin Shells, Last(ks).at # "top",
           Heeds(x, m, Last(ss), r, Context(ks, Len(ks) - 1)),
           ShellOK(x, m, r, Context(ks, Len(ks) - 1), ks[1], Len(ks) - 1)
    PROVE  Ok(x, m, Append(Front(ss), r), Front(ks))
<1> DEFINE s2 == Append(Front(ss), r)
<1>0. /\ Len(ks) \in Nat /\ Len(ks) > 0 /\ Len(ss) \in Nat /\ Len(ss) > 0 /\ Len(ss) <= MaxDepth
      /\ Front(ss) \in Seq(RunnerT) /\ Len(Front(ss)) = Len(ss) - 1
      /\ \A i \in 1..(Len(ss) - 1) : Front(ss)[i] = ss[i]
      /\ Front(ks) \in Seq(FrameT) /\ Len(Front(ks)) = Len(ks) - 1
      /\ \A i \in 1..(Len(ks) - 1) : Front(ks)[i] = ks[i]
      /\ Len(ss) = Shell(ks, Len(ks)) /\ Last(ss) = ss[Len(ss)] /\ ks[1].at = "top"
      /\ Last(ks) = ks[Len(ks)] /\ Len(ks) # 1
  BY Place
<1>1. /\ s2 \in Seq(RunnerT) /\ Len(s2) = Len(ss) /\ s2[Len(ss)] = r
      /\ \A i \in Nat : i > 0 /\ i < Len(ss) => s2[i] = ss[i]
  BY <1>0
<1>2. PICK p \in Nat : p = Len(ks) - 1
  BY <1>0
<1>3. p \in 0..Len(ks) /\ p > 0 /\ Len(Front(ks)) = p /\ Len(ks) \in Nat \ {0}
  BY <1>0, <1>2
<1>4. \A i \in 1..p : Alike(Front(ks)[i], ks[i])
  BY <1>0, <1>2, AlikeSelf
<1>5. Shell(ks, p) = Len(ss)
  <2>1. Shell(ks, Len(ks)) = Shell(ks, Len(ks) - 1)
    BY <1>0, <1>3, ContextStep
  <2> QED
    BY <1>0, <1>2, <2>1
<1>6. Context(Front(ks), p) = Context(ks, p) /\ Shell(Front(ks), p) = Len(ss)
  BY <1>4, <1>5, ContextAlike
<1>7. Front(ks)[1] = ks[1]
  BY <1>0, <1>2, <1>3
<1> HIDE DEF s2
<1>8. ShellOK(x, m, s2[Len(s2)], Context(Front(ks), p), Front(ks)[1], p)
  BY <1>1, <1>2, <1>6, <1>7
<1>9. Len(Front(ks)) \in {p, p + 1} /\ Len(Front(ks)) > 0 /\ Len(Front(ks)) # p + 1
  BY <1>3
<1>10. Heeds(x, m, ss[Shell(ks, p)], s2[Shell(ks, p)], Context(ks, p))
  BY <1>0, <1>1, <1>2, <1>5
<1>11. \A i \in Nat : i > 0 /\ i < Shell(ks, p) => s2[i] = ss[i]
  BY <1>1, <1>5
<1>12. Len(s2) = Shell(Front(ks), Len(Front(ks))) /\ Len(s2) <= MaxDepth
  BY <1>0, <1>1, <1>3, <1>6
<1>13. ShellOK(x, m, s2[Len(s2)], Context(Front(ks), Len(Front(ks))), Front(ks)[1], Len(Front(ks)))
  BY <1>3, <1>8
<1>14. s2 \in Seq(RunnerT) /\ Front(ks) \in Seq(FrameT) /\ p \in 0..Len(ks)
  BY <1>0, <1>1, <1>3
<1>15. Ok(x, m, s2, Front(ks))
  BY <1>4, <1>9, <1>10, <1>11, <1>12, <1>13, <1>14, Move, ZenonT(60)
<1> QED
  BY <1>15 DEF s2

\* A shell that has not changed heeds itself.
LEMMA HeedsSelf ==
    ASSUME NEW x, NEW m, NEW r, NEW c PROVE Heeds(x, m, r, r, c)
  BY DEF Heeds

\* The frame at the top is another, in the same shell.
Bottom(ks, f) == IF Len(ks) = 1 THEN f ELSE ks[1]

\* The frame at the top becomes another of the same shell, with a shell that fits it:
\* everything below it keeps what is said of it.
LEMMA Retop ==
    ASSUME NEW x, NEW m, NEW ss, NEW ks, Ok(x, m, ss, ks), NEW r \in RunnerT,
           NEW f \in FrameT, Last(ks).at \notin Shells, f.at \notin Shells,
           f.at = "top" <=> Len(ks) = 1, f.at \notin {"action", "whileCond"},
           Last(ks).at # "stmt", Last(ks).at # "action",
           Len(ks) > 1 => Heeds(x, m, Last(ss), r, Context(ks, Len(ks) - 1)),
           FrameFits(f, Context(ks, Len(ks) - 1)),
           ShellOK(x, m, r, After(Context(ks, Len(ks) - 1), f), Bottom(ks, f), Len(ks))
    PROVE  Ok(x, m, Append(Front(ss), r), Append(Front(ks), f))
<1> DEFINE s2 == Append(Front(ss), r)
<1> DEFINE k2 == Append(Front(ks), f)
<1>0. /\ Len(ks) \in Nat /\ Len(ks) > 0 /\ Len(ss) \in Nat /\ Len(ss) > 0 /\ Len(ss) <= MaxDepth
      /\ Front(ss) \in Seq(RunnerT) /\ Len(Front(ss)) = Len(ss) - 1
      /\ \A i \in 1..(Len(ss) - 1) : Front(ss)[i] = ss[i]
      /\ Front(ks) \in Seq(FrameT) /\ Len(Front(ks)) = Len(ks) - 1
      /\ \A i \in 1..(Len(ks) - 1) : Front(ks)[i] = ks[i]
      /\ Len(ss) = Shell(ks, Len(ks)) /\ Last(ss) = ss[Len(ss)] /\ ks[1].at = "top"
      /\ Last(ks) = ks[Len(ks)] /\ (Last(ks).at = "top" <=> Len(ks) = 1)
  BY Place
<1>1. /\ s2 \in Seq(RunnerT) /\ Len(s2) = Len(ss) /\ s2[Len(ss)] = r
      /\ \A i \in Nat : i > 0 /\ i < Len(ss) => s2[i] = ss[i]
  BY <1>0
<1>2. PICK p \in Nat : p = Len(ks) - 1
  BY <1>0
<1>3. p \in 0..Len(ks) /\ Len(ks) = p + 1 /\ Len(ks) \in Nat \ {0}
  BY <1>0, <1>2
<1>4. /\ k2 \in Seq(FrameT) /\ Len(k2) = Len(ks) /\ k2[Len(ks)] = f
      /\ \A i \in 1..p : k2[i] = ks[i]
  BY <1>0, <1>2
<1> HIDE DEF s2, k2
<1>5. \A i \in 1..p : Alike(k2[i], ks[i])
  BY <1>4, AlikeSelf
<1>6. Shell(ks, p) = Len(ss)
  <2>1. Shell(ks, Len(ks)) = Shell(ks, Len(ks) - 1)
    BY <1>0, <1>3, ContextStep
  <2> QED
    BY <1>0, <1>2, <2>1
<1>7. Context(k2, p) = Context(ks, p) /\ Shell(k2, p) = Len(ss)
  BY <1>5, <1>6, ContextAlike
<1>8. Context(k2, Len(ks)) = After(Context(ks, p), f)
  <2>1. Context(k2, Len(ks)) = After(Context(k2, Len(ks) - 1), k2[Len(ks)])
    BY <1>3, ContextAfter
  <2> QED
    BY <1>2, <1>4, <1>7, <2>1
<1>9. Shell(k2, Len(ks)) = Len(ss)
  <2>1. Shell(k2, Len(ks)) = Shell(k2, Len(ks) - 1)
    BY <1>3, <1>4, ContextStep
  <2> QED
    BY <1>2, <1>7, <2>1
<1>10. k2[1] = Bottom(ks, f)
  <2>1. CASE Len(ks) = 1
    BY <1>4, <2>1 DEF Bottom
  <2>2. CASE Len(ks) # 1
    BY <1>0, <1>2, <1>4, <2>2 DEF Bottom
  <2> QED
    BY <2>1, <2>2
<1>11. FrameOK(x, m, s2, k2, Len(ks))
  <2>1. k2[Len(ks)] = f /\ Context(k2, Len(ks) - 1) = Context(ks, Len(ks) - 1)
    BY <1>2, <1>4, <1>7
  <2>2. Len(ks) # 2
    <3>1. FrameOK(x, m, ss, ks, Len(ks))
      BY <1>0 DEF Ok
    <3> QED
      BY <1>0, <3>1 DEF FrameOK
  <2> QED
    BY <2>1, <2>2 DEF FrameOK
<1>12. ShellOK(x, m, s2[Len(s2)], Context(k2, Len(k2)), k2[1], Len(k2))
  BY <1>1, <1>2, <1>4, <1>8, <1>10
<1>13. Len(k2) \in {p, p + 1} /\ Len(k2) > 0
  BY <1>0, <1>3, <1>4
<1>14. p > 0 => Heeds(x, m, ss[Shell(ks, p)], s2[Shell(ks, p)], Context(ks, p))
  BY <1>0, <1>1, <1>2, <1>3, <1>6
<1>15. \A i \in Nat : i > 0 /\ i < Shell(ks, p) => s2[i] = ss[i]
  BY <1>1, <1>6
<1>16. Len(s2) = Shell(k2, Len(k2)) /\ Len(s2) <= MaxDepth
  BY <1>0, <1>1, <1>4, <1>9
<1>17. Len(k2) = p + 1 => FrameOK(x, m, s2, k2, p + 1)
  BY <1>3, <1>11
<1>18. s2 \in Seq(RunnerT) /\ k2 \in Seq(FrameT)
  BY <1>1, <1>4
<1>19. Ok(x, m, s2, k2)
  BY <1>3, <1>5, <1>12, <1>13, <1>14, <1>15, <1>16, <1>17, <1>18, Move, ZenonT(60)
<1> QED
  BY <1>19 DEF s2, k2

\* The frame that forked the current shell is another one like it.
LEMMA Closing ==
    ASSUME NEW x, NEW m, NEW ss, NEW ks, Ok(x, m, ss, ks), NEW r \in RunnerT,
           NEW f \in FrameT, Last(ks).at \in Shells, f.at = Last(ks).at, FrameFits(f, Context(ks, Len(ks) - 1)),
           ForkOK(f, r), ShellOK(x, m, r, Context(ks, Len(ks)), ks[1], Len(ks))
    PROVE  Ok(x, m, Append(Front(ss), r), Append(Front(ks), f))
<1> DEFINE s2 == Append(Front(ss), r)
<1> DEFINE k2 == Append(Front(ks), f)
<1>0. /\ Len(ks) \in Nat /\ Len(ks) > 0 /\ Len(ss) \in Nat /\ Len(ss) > 0 /\ Len(ss) <= MaxDepth
      /\ Front(ss) \in Seq(RunnerT) /\ Len(Front(ss)) = Len(ss) - 1
      /\ \A i \in 1..(Len(ss) - 1) : Front(ss)[i] = ss[i]
      /\ Front(ks) \in Seq(FrameT) /\ Len(Front(ks)) = Len(ks) - 1
      /\ \A i \in 1..(Len(ks) - 1) : Front(ks)[i] = ks[i]
      /\ Len(ss) = Shell(ks, Len(ks)) /\ Last(ss) = ss[Len(ss)] /\ ks[1].at = "top"
      /\ Last(ks) = ks[Len(ks)] /\ (Last(ks).at = "top" <=> Len(ks) = 1)
      /\ Context(ks, Len(ks)) = After(Context(ks, Len(ks) - 1), Last(ks))
  BY Place
<1>1. /\ s2 \in Seq(RunnerT) /\ Len(s2) = Len(ss) /\ s2[Len(ss)] = r
      /\ \A i \in Nat : i > 0 /\ i < Len(ss) => s2[i] = ss[i]
  BY <1>0
<1>2. PICK p \in Nat : p = Len(ks) - 1
  BY <1>0
<1>3. p \in 0..Len(ks) /\ Len(ks) = p + 1 /\ Len(ks) \in Nat \ {0} /\ Len(ks) # 1
  BY <1>0, <1>2 DEF Shells
<1>4. /\ k2 \in Seq(FrameT) /\ Len(k2) = Len(ks) /\ k2[Len(ks)] = f
      /\ \A i \in 1..p : k2[i] = ks[i]
  BY <1>0, <1>2
<1> HIDE DEF s2, k2
<1>5. \A i \in 1..p : Alike(k2[i], ks[i])
  BY <1>4, AlikeSelf
<1>6. Shell(ks, p) + 1 = Len(ss) /\ Shell(ks, p) \in Nat /\ Shell(ks, p) > 0
  <2>1. Shell(ks, Len(ks)) = Shell(ks, Len(ks) - 1) + 1
    BY <1>0, <1>3, ContextStep
  <2>2. Shell(ks, p) \in Nat \ {0}
    BY ShellStep
  <2> QED
    BY <1>0, <1>2, <2>1, <2>2
<1>7. Context(k2, p) = Context(ks, p) /\ Shell(k2, p) = Shell(ks, p)
  BY <1>5, ContextAlike
<1>8. Context(k2, Len(ks)) = Context(ks, Len(ks))
  <2>1. Context(k2, Len(ks)) = After(Context(k2, Len(ks) - 1), k2[Len(ks)])
    BY <1>3, ContextAfter
  <2>2. After(Context(ks, p), f) = After(Context(ks, p), Last(ks))
    BY DEF After, Tests, InRound, Shells, Conditions
  <2> QED
    BY <1>0, <1>2, <1>4, <1>7, <2>1, <2>2
<1>9. Shell(k2, Len(ks)) = Len(ss)
  <2>1. Shell(k2, Len(ks)) = Shell(k2, Len(ks) - 1) + 1
    BY <1>3, <1>4, ContextStep
  <2> QED
    BY <1>2, <1>6, <1>7, <2>1
<1>10. k2[1] = ks[1]
  BY <1>0, <1>2, <1>3, <1>4
<1>11. FrameOK(x, m, s2, k2, Len(ks))
  <2>1. k2[Len(ks)] = f /\ Context(k2, Len(ks) - 1) = Context(ks, Len(ks) - 1)
    BY <1>2, <1>4, <1>7
  <2>2. FrameOK(x, m, ss, ks, Len(ks))
    BY <1>0 DEF Ok
  <2>3. /\ ShellOK(x, m, ss[Len(ss) - 1], Context(ks, Len(ks) - 1), ks[1], Len(ks) - 1)
        /\ ss[Len(ss) - 1].exit.flow = {} /\ ss[Len(ss) - 1].exit.erred = {}
    BY <1>0, <2>2 DEF FrameOK
  <2>4. s2[Len(ss) - 1] = ss[Len(ss) - 1]
    BY <1>0, <1>1, <1>6
  <2>5. f.at # "action" /\ f.at # "top" /\ f.at # "whileCond"
    BY DEF Shells
  <2>6. Len(ks) # 2
    BY <1>0, <2>2 DEF FrameOK, Shells
  <2> QED
    BY <1>1, <1>3, <1>9, <1>10, <2>1, <2>3, <2>4, <2>5, <2>6 DEF FrameOK
<1>12. ShellOK(x, m, s2[Len(s2)], Context(k2, Len(k2)), k2[1], Len(k2))
  BY <1>1, <1>4, <1>8, <1>10
<1>13. Len(k2) \in {p, p + 1} /\ Len(k2) > 0
  BY <1>0, <1>3, <1>4
<1>14. p > 0 => Heeds(x, m, ss[Shell(ks, p)], s2[Shell(ks, p)], Context(ks, p))
  BY <1>0, <1>1, <1>6, HeedsSelf
<1>15. \A i \in Nat : i > 0 /\ i < Shell(ks, p) => s2[i] = ss[i]
  BY <1>0, <1>1, <1>6
<1>16. Len(s2) = Shell(k2, Len(k2)) /\ Len(s2) <= MaxDepth
  BY <1>0, <1>1, <1>4, <1>9
<1>17. Len(k2) = p + 1 => FrameOK(x, m, s2, k2, p + 1)
  BY <1>3, <1>11
<1>18. s2 \in Seq(RunnerT) /\ k2 \in Seq(FrameT)
  BY <1>1, <1>4
<1>19. Ok(x, m, s2, k2)
  BY <1>3, <1>5, <1>12, <1>13, <1>14, <1>15, <1>16, <1>17, <1>18, Move, ZenonT(60)
<1> QED
  BY <1>19 DEF s2, k2

\* A shell is forked: the frame that did, the shell around it and the new one.
LEMMA Fork ==
    ASSUME NEW x, NEW m, NEW ss, NEW ks, Ok(x, m, ss, ks), Last(ks).at # "top",
           NEW kl \in Seq(FrameT), Len(kl) = Len(ks), \A i \in 1..Len(ks) : Alike(kl[i], ks[i]),
           NEW f \in FrameT, f.at \in Shells, NEW r \in RunnerT, NEW sub \in RunnerT,
           Heeds(x, m, Last(ss), r, Context(ks, Len(ks))), FrameFits(f, Context(ks, Len(ks))),
           ShellOK(x, m, r, Context(ks, Len(ks)), ks[1], Len(ks)),
           r.exit.flow = {}, r.exit.erred = {}, ForkOK(f, sub),
           Len(Append(Append(Front(ss), r), sub)) <= MaxDepth,
           ShellOK(x, m, sub, After(Context(ks, Len(ks)), f), ks[1], Len(ks) + 1)
    PROVE  Ok(x, m, Append(Append(Front(ss), r), sub), Append(kl, f))
<1> DEFINE s2 == Append(Append(Front(ss), r), sub)
<1> DEFINE k2 == Append(kl, f)
<1>19. Len(s2) <= MaxDepth
  OBVIOUS
<1>0. /\ Len(ks) \in Nat /\ Len(ks) > 0 /\ Len(ss) \in Nat /\ Len(ss) > 0 /\ Len(ss) <= MaxDepth
      /\ Front(ss) \in Seq(RunnerT) /\ Len(Front(ss)) = Len(ss) - 1
      /\ \A i \in 1..(Len(ss) - 1) : Front(ss)[i] = ss[i]
      /\ Len(ss) = Shell(ks, Len(ks)) /\ Last(ss) = ss[Len(ss)] /\ ks[1].at = "top"
      /\ (Last(ks).at = "top" <=> Len(ks) = 1)
  BY Place, SMTT(30)
<1>1. /\ s2 \in Seq(RunnerT) /\ Len(s2) = Len(ss) + 1 /\ s2[Len(ss)] = r
      /\ s2[Len(ss) + 1] = sub
      /\ \A i \in Nat : i > 0 /\ i < Len(ss) => s2[i] = ss[i]
  BY <1>0
<1>2. /\ k2 \in Seq(FrameT) /\ Len(k2) = Len(ks) + 1 /\ k2[Len(ks) + 1] = f
      /\ \A i \in 1..Len(ks) : k2[i] = kl[i]
  BY <1>0
<1> HIDE DEF s2, k2
<1>3. \A i \in 1..Len(ks) : Alike(k2[i], ks[i])
  BY <1>2
<1>20. PICK p \in Nat : p = Len(ks)
  BY <1>0
<1>21. Context(k2, p) = Context(ks, p) /\ Shell(k2, p) = Shell(ks, p)
  <2>1. \A i \in 1..p : Alike(k2[i], ks[i])
    BY <1>3, <1>20
  <2> QED
    BY <2>1, ContextAlike
<1>4. Context(k2, Len(ks)) = Context(ks, Len(ks)) /\ Shell(k2, Len(ks)) = Len(ss)
  BY <1>0, <1>20, <1>21
<1>5. PICK q \in Nat \ {0} : q = Len(ks) + 1
  BY <1>0
<1>6. q - 1 = Len(ks) /\ q \in Nat /\ q > 0 /\ q # 1
  BY <1>0, <1>5
<1>7. Context(k2, q) = After(Context(ks, Len(ks)), f)
  <2>1. Context(k2, q) = After(Context(k2, q - 1), k2[q])
    BY ContextAfter
  <2> QED
    BY <1>2, <1>4, <1>5, <1>6, <2>1
<1>8. Shell(k2, q) = Len(ss) + 1
  <2>1. Shell(k2, q) = Shell(k2, q - 1) + 1
    BY <1>2, <1>5, ContextStep
  <2> QED
    BY <1>4, <1>6, <2>1
<1>9. Alike(k2[1], ks[1]) /\ 1 \in 1..Len(ks)
  BY <1>0, <1>3
<1>10. FrameOK(x, m, s2, k2, q)
  <2>1. k2[q].at = f.at /\ k2[q] = f /\ f.at # "top" /\ f.at # "action"
        /\ f.at # "whileCond" /\ q # 2
    BY <1>0, <1>2, <1>5 DEF Shells
  <2>2. ShellOK(x, m, r, Context(ks, Len(ks)), k2[1], Len(ks))
    BY <1>0, <1>9, TopAlike
  <2>3. s2[Shell(k2, q)] = sub /\ s2[Shell(k2, q) - 1] = r
    BY <1>0, <1>1, <1>8
  <2> QED
    BY <1>4, <1>6, <2>1, <2>2, <2>3 DEF FrameOK
<1>11. ShellOK(x, m, s2[Len(s2)], Context(k2, Len(k2)), k2[1], Len(k2))
  <2>1. ShellOK(x, m, sub, After(Context(ks, Len(ks)), f), k2[1], Len(ks) + 1)
    BY <1>0, <1>9, TopAlike
  <2> QED
    BY <1>0, <1>1, <1>2, <1>5, <1>7, <2>1
<1>12. Len(ks) \in 0..Len(ks) /\ Len(k2) \in {Len(ks), Len(ks) + 1} /\ Len(k2) > 0
  BY <1>0, <1>2
<1>18. Len(s2) = Shell(k2, Len(k2)) /\ Len(s2) <= MaxDepth
  BY <1>1, <1>2, <1>5, <1>8, <1>19
<1>13. Len(ks) > 0 => Heeds(x, m, ss[Shell(ks, Len(ks))], s2[Shell(ks, Len(ks))], Context(ks, Len(ks)))
  BY <1>0, <1>1
<1>14. \A i \in Nat : i > 0 /\ i < Shell(ks, Len(ks)) => s2[i] = ss[i]
  BY <1>0, <1>1
<1>15. s2 \in Seq(RunnerT) /\ k2 \in Seq(FrameT)
  BY <1>1, <1>2
<1>16. Len(k2) = Len(ks) + 1 => FrameOK(x, m, s2, k2, Len(ks) + 1)
  BY <1>5, <1>10
<1>17. Ok(x, m, s2, k2)
  <2>1. p \in 0..Len(ks) /\ Len(k2) \in {p, p + 1} /\ Len(k2) > 0
    BY <1>12, <1>20
  <2>2. \A i \in 1..p : Alike(k2[i], ks[i])
    BY <1>3, <1>20
  <2>3. \A i \in Nat : i > 0 /\ i < Shell(ks, p) => s2[i] = ss[i]
    BY <1>14, <1>20
  <2>4. p > 0 => Heeds(x, m, ss[Shell(ks, p)], s2[Shell(ks, p)], Context(ks, p))
    BY <1>13, <1>20
  <2>5. Len(k2) = p + 1 => FrameOK(x, m, s2, k2, p + 1)
    BY <1>16, <1>20
  <2>6. Len(s2) = Shell(k2, Len(k2)) /\ Len(s2) <= MaxDepth
    BY <1>18
  <2> QED
    BY <1>11, <1>15, <2>1, <2>2, <2>3, <2>4, <2>5, <2>6, Move, SMTT(30)
<1> QED
  BY <1>17 DEF s2, k2

\* What the fork left of the shell around it.
LEMMA Around ==
    ASSUME NEW x, NEW m, NEW ss, NEW ks, Ok(x, m, ss, ks), Last(ks).at \in Shells
    PROVE  /\ Len(ss) > 1 /\ Len(ks) > 1
           /\ Last(Front(ss)) = ss[Len(ss) - 1] /\ Last(Front(ss)) \in RunnerT
           /\ Front(Front(ss)) \in Seq(RunnerT) /\ Len(Front(Front(ss))) = Len(ss) - 2
           /\ \A i \in 1..(Len(ss) - 2) : Front(Front(ss))[i] = ss[i]
           /\ Shell(ks, Len(ks) - 1) = Len(ss) - 1
           /\ Context(ks, Len(ks) - 1).shell = Len(ss) - 1
           /\ ForkOK(Last(ks), Last(ss))
           /\ ShellOK(x, m, Last(Front(ss)), Context(ks, Len(ks) - 1), ks[1], Len(ks) - 1)
           /\ Last(Front(ss)).exit.flow = {} /\ Last(Front(ss)).exit.erred = {}
<1>0. /\ Len(ks) \in Nat /\ Len(ks) > 0 /\ Len(ss) \in Nat /\ Len(ss) > 0
      /\ Front(ss) \in Seq(RunnerT) /\ Len(Front(ss)) = Len(ss) - 1
      /\ \A i \in 1..(Len(ss) - 1) : Front(ss)[i] = ss[i]
      /\ Len(ss) = Shell(ks, Len(ks)) /\ Last(ss) = ss[Len(ss)]
      /\ Last(ks) = ks[Len(ks)] /\ (Last(ks).at = "top" <=> Len(ks) = 1)
  BY Place
<1>1. Len(ks) \in Nat \ {0} /\ Len(ks) > 1 /\ Len(ks) - 1 \in Nat
  <2>1. Last(ks).at # "top"
    BY DEF Shells
  <2>2. Len(ks) # 1
    BY <1>0, <2>1
  <2>3. PICK n \in Nat : n = Len(ks) /\ n > 0 /\ n # 1
    BY <1>0, <2>2
  <2>4. n \in Nat \ {0} /\ n > 1 /\ n - 1 \in Nat
    BY <2>3
  <2> QED
    BY <2>3, <2>4
<1>2. Shell(ks, Len(ks)) = Shell(ks, Len(ks) - 1) + 1
  BY <1>0, <1>1, ContextStep
<1>3. Shell(ks, Len(ks) - 1) \in Nat \ {0}
  BY <1>1, ShellStep
<1>4. Shell(ks, Len(ks) - 1) = Len(ss) - 1 /\ Len(ss) > 1
  BY <1>0, <1>2, <1>3
<1>5. /\ Last(Front(ss)) = Front(ss)[Len(ss) - 1] /\ Last(Front(ss)) \in RunnerT
      /\ Front(Front(ss)) \in Seq(RunnerT) /\ Len(Front(Front(ss))) = Len(ss) - 1 - 1
      /\ \A i \in 1..(Len(ss) - 1 - 1) : Front(Front(ss))[i] = Front(ss)[i]
  <2>1. Len(Front(ss)) > 0
    BY <1>0, <1>4
  <2> QED
    BY <1>0, <2>1, Ends, ZenonT(30)
<1>6. Last(Front(ss)) = ss[Len(ss) - 1]
  BY <1>0, <1>4, <1>5
<1>7. \A i \in 1..(Len(ss) - 2) : Front(Front(ss))[i] = ss[i]
  BY <1>0, <1>4, <1>5
<1>8. FrameOK(x, m, ss, ks, Len(ks))
  BY <1>0 DEF Ok
<1>9. /\ ForkOK(Last(ks), Last(ss))
      /\ ShellOK(x, m, Last(Front(ss)), Context(ks, Len(ks) - 1), ks[1], Len(ks) - 1)
      /\ Last(Front(ss)).exit.flow = {} /\ Last(Front(ss)).exit.erred = {}
  BY <1>0, <1>6, <1>8 DEF FrameOK
<1>10. Context(ks, Len(ks) - 1).shell = Len(ss) - 1
  BY <1>4 DEF Context
<1> QED
  BY <1>0, <1>1, <1>4, <1>5, <1>6, <1>7, <1>9, <1>10

\* The current shell is over.
LEMMA Join ==
    ASSUME NEW x, NEW m, NEW ss, NEW ks, Ok(x, m, ss, ks), Last(ks).at \in Shells,
           NEW r \in RunnerT, Heeds(x, m, Last(Front(ss)), r, Context(ks, Len(ks) - 1)),
           ShellOK(x, m, r, Context(ks, Len(ks) - 1), ks[1], Len(ks) - 1)
    PROVE  Ok(x, m, Append(Front(Front(ss)), r), Front(ks))
<1> DEFINE s2 == Append(Front(Front(ss)), r)
<1>0. /\ Len(ks) \in Nat /\ Len(ss) \in Nat /\ Len(ss) <= MaxDepth
      /\ Front(ks) \in Seq(FrameT) /\ Len(Front(ks)) = Len(ks) - 1
      /\ \A i \in 1..(Len(ks) - 1) : Front(ks)[i] = ks[i]
  BY Place
<1>1. /\ Len(ss) > 1 /\ Len(ks) > 1
      /\ Last(Front(ss)) = ss[Len(ss) - 1]
      /\ Front(Front(ss)) \in Seq(RunnerT) /\ Len(Front(Front(ss))) = Len(ss) - 2
      /\ \A i \in 1..(Len(ss) - 2) : Front(Front(ss))[i] = ss[i]
      /\ Shell(ks, Len(ks) - 1) = Len(ss) - 1
  BY Around
<1>2. /\ s2 \in Seq(RunnerT) /\ Len(s2) = Len(ss) - 1 /\ s2[Len(ss) - 1] = r
      /\ \A i \in Nat : i > 0 /\ i < Len(ss) - 1 => s2[i] = ss[i]
  BY <1>0, <1>1
<1>3. PICK p \in Nat : p = Len(ks) - 1
  BY <1>0, <1>1
<1>4. p \in 0..Len(ks) /\ p > 0 /\ Len(Front(ks)) = p
  BY <1>0, <1>1, <1>3
<1>5. \A i \in 1..p : Alike(Front(ks)[i], ks[i])
  BY <1>0, <1>3, AlikeSelf
<1>6. Context(Front(ks), p) = Context(ks, p) /\ Shell(Front(ks), p) = Len(ss) - 1
  BY <1>1, <1>3, <1>5, ContextAlike
<1>7. Front(ks)[1] = ks[1]
  BY <1>0, <1>3, <1>4
<1> HIDE DEF s2
<1>8. ShellOK(x, m, s2[Len(s2)], Context(Front(ks), Len(Front(ks))), Front(ks)[1], Len(Front(ks)))
  BY <1>2, <1>3, <1>4, <1>6, <1>7
<1>9. Len(Front(ks)) \in {p, p + 1} /\ Len(Front(ks)) > 0
  BY <1>4
<1>10. p > 0 => Heeds(x, m, ss[Shell(ks, p)], s2[Shell(ks, p)], Context(ks, p))
  BY <1>1, <1>2, <1>3
<1>11. \A i \in Nat : i > 0 /\ i < Shell(ks, p) => s2[i] = ss[i]
  BY <1>1, <1>2, <1>3
<1>12. Len(s2) = Shell(Front(ks), Len(Front(ks))) /\ Len(s2) <= MaxDepth
  <2>1. MaxDepth \in Nat
    BY ScenariosAssumption
  <2> QED
    BY <1>0, <1>2, <1>4, <1>6, <2>1
<1>13. Len(Front(ks)) = p + 1 => FrameOK(x, m, s2, Front(ks), p + 1)
  BY <1>4
<1>14. s2 \in Seq(RunnerT) /\ Front(ks) \in Seq(FrameT)
  BY <1>0, <1>2
<1>15. Ok(x, m, s2, Front(ks))
  BY <1>4, <1>5, <1>8, <1>9, <1>10, <1>11, <1>12, <1>13, <1>14, Move, ZenonT(60)
<1> QED
  BY <1>15 DEF s2

-----------------------------------------------------------------------------
\* The shell goes on elsewhere, with the flags of that place: it has run no trap, and
\* an exit on its way is still on its way.
Follows(x, old, r, c) ==
    /\ r.noErr = c.test /\ r.inLoop = c.loop /\ r.level = c.level
    /\ r.running = old.running /\ r.fired = old.fired
    /\ r.exits = old.exits
    /\ ByOwn(r.exit, c.shell) /\ (c.shell = 1 => ByOwn(r.last, 1)) /\ From(c.level, r.exit)
    /\ x = "overruled" \/ (r.level \in r.exit.erred => r.errFired)
    /\ x # "none" \/ ("exit" \in old.exit.flow => "exit" \in r.exit.flow)
    /\ r.asked => old.asked \/ ("exit" \in r.exit.flow /\ old.running = {})

\* A shell that follows one in another context of the same shell is right there, and
\* what is said of it further down the stack stays true.
LEMMA Same ==
    ASSUME NEW x, NEW m, NEW old, NEW c, NEW t, NEW n \in Nat \ {0}, ShellOK(x, m, old, c, t, n),
           n = 1 => ~t.ending /\ ~t.single,
           NEW d, d.shell = c.shell, d.kinds = c.kinds, NEW r, Follows(x, old, r, d), NEW k
    PROVE  ShellOK(x, m, r, d, t, k) /\ Heeds(x, m, old, r, c) /\ Heeds(x, m, old, r, d)
<1>1. ShellFits(r, d)
  BY DEF Follows, ShellFits, ShellOK
<1>2. ShellKeeps(x, m, r, d, t, k)
  BY DEF Follows, ShellKeeps
<1>3. ASSUME x = "none", Bound(m, r, d), d.kinds = {}
      PROVE  "exit" \in r.exit.flow
  <2>1. CASE Bound(m, old, c)
    <3>1. Leaves(m, old.exit, t, n)
      BY <1>3, <2>1 DEF ShellOK, ShellLeaves
    <3>2. "exit" \in old.exit.flow \/ n # 1 \/ t.ending \/ t.single
      BY <3>1 DEF Leaves, Done
    <3>3. n # 1 => "exit" \in old.exit.flow
      BY <3>1 DEF Leaves, Done
    <3> QED
      BY <1>3, <3>2, <3>3 DEF Follows
  <2>2. CASE ~Bound(m, old, c)
    BY <1>3, <2>2 DEF Bound, Follows
  <2> QED
    BY <2>1, <2>2
<1>4. ShellLeaves(x, m, r, d, t, k)
  BY <1>3 DEF ShellLeaves, Leaves
<1>5. ASSUME x = "none", m # "lines"
      PROVE  /\ r.exits \in {0, 1} /\ (r.exits = 1 => r.fired)
             /\ d.shell > 1 /\ r.fired => r.exits = 1 \/ "exit" \in d.kinds
             /\ d.shell = 1 /\ r.fired => r.exits = 1
             /\ d.shell = 1 /\ t.ending => r.fired
             /\ d.shell = 1 /\ t.single => t.ending
  <2>1. r.fired = old.fired /\ r.exits = old.exits
    BY DEF Follows
  <2>2. ShellTraps(x, m, old, c, t, n)
    BY DEF ShellOK
  <2>3. old.exits \in {0, 1} /\ (old.exits = 1 => old.fired)
    BY <1>5, <2>2 DEF ShellTraps
  <2>4. d.shell > 1 /\ old.fired => old.exits = 1 \/ "exit" \in d.kinds
    BY <1>5, <2>2 DEF ShellTraps
  <2>5. d.shell = 1 /\ old.fired => old.exits = 1
    BY <1>5, <2>2, <2>3 DEF ShellTraps
  <2>6. d.shell = 1 /\ t.ending => old.fired
    <3>1. t.ending => n > 1
      OBVIOUS
    <3> QED
      BY <1>5, <2>2, <3>1 DEF ShellTraps
  <2>7. d.shell = 1 /\ t.single => t.ending
    BY <1>5, <2>2 DEF ShellTraps
  <2> QED
    BY <2>1, <2>3, <2>4, <2>5, <2>6, <2>7
<1>6. ShellTraps(x, m, r, d, t, k)
  BY <1>5 DEF ShellTraps
<1>7. Heeds(x, m, old, r, d)
  <2>1. old.fired => r.fired
    BY DEF Follows
  <2>2. old.exits = 1 => r.exits = 1
    BY DEF Follows
  <2>3. x # "none" \/ d.kinds = {} \/ (Bound(m, r, d) => Bound(m, old, d))
    BY DEF Follows, Bound, ShellOK, ShellFits
  <2> QED
    BY <2>1, <2>2, <2>3 DEF Heeds
<1>8. Heeds(x, m, old, r, c)
  BY <1>7 DEF Heeds, Bound
<1> QED
  BY <1>1, <1>2, <1>4, <1>6, <1>7, <1>8 DEF ShellOK

\* A frame that is no shell and no trap's action.
Plain(f) == f.at \notin Shells /\ f.at # "top" /\ f.at # "action"

\* A plain frame keeps the shell and the trap actions of the context below it.
LEMMA PlainAfter ==
    ASSUME NEW c \in ContextT, NEW f, f.at \notin Shells, f.at # "action"
    PROVE  After(c, f).shell = c.shell /\ After(c, f).kinds = c.kinds
  BY DEF After, ContextT

\* A plain frame ends, and the shell goes on below it with the flags of that place.
LEMMA Drop ==
    ASSUME NEW x, NEW m, NEW ss, NEW ks, Ok(x, m, ss, ks), NEW r \in RunnerT,
           Plain(Last(ks)), Follows(x, Last(ss), r, Context(ks, Len(ks) - 1))
    PROVE  Ok(x, m, Append(Front(ss), r), Front(ks))
<1> DEFINE c == Context(ks, Len(ks))
<1> DEFINE d == Context(ks, Len(ks) - 1)
<1>1. /\ c = After(d, Last(ks)) /\ d \in ContextT
      /\ ShellOK(x, m, Last(ss), c, ks[1], Len(ks))
      /\ (Last(ks).at = "top" <=> Len(ks) = 1) /\ Len(ks) \in Nat \ {0}
  BY Place
<1>2. /\ Len(ks) # 1 /\ Last(ks).at \notin Shells /\ Last(ks).at # "top"
      /\ Last(ks).at # "action"
  BY <1>1 DEF Plain
<1>3. d.shell = c.shell /\ d.kinds = c.kinds
  BY <1>1, <1>2, PlainAfter
<1>4. Follows(x, Last(ss), r, d)
  OBVIOUS
<1> HIDE DEF c, d
<1>5. ShellOK(x, m, r, d, ks[1], Len(ks) - 1) /\ Heeds(x, m, Last(ss), r, d)
  BY <1>1, <1>2, <1>3, <1>4, Same
<1> QED
  BY <1>2, <1>5, Pop DEF d

\* A plain frame begins above marked frames, and the shell goes on in it with the flags
\* of that place.
LEMMA Enter ==
    ASSUME NEW x, NEW m, NEW ss, NEW ks, Ok(x, m, ss, ks), NEW r \in RunnerT,
           NEW kl \in Seq(FrameT), Len(kl) = Len(ks), \A i \in 1..Len(ks) : Alike(kl[i], ks[i]),
           NEW f \in FrameT, Plain(f), FrameFits(f, Context(ks, Len(ks))),
           Last(ks).at = "top" => f.at = "stmt" /\ ~Last(ks).ending,
           f.at = "whileCond" => Last(ks).at = "while" /\ Last(ks).ending,
           Follows(x, Last(ss), r, After(Context(ks, Len(ks)), f))
    PROVE  Ok(x, m, Append(Front(ss), r), Append(kl, f))
<1> DEFINE c == Context(ks, Len(ks))
<1> DEFINE e == After(c, f)
<1>1. /\ c \in ContextT /\ ShellOK(x, m, Last(ss), c, ks[1], Len(ks))
      /\ (Last(ks).at = "top" <=> Len(ks) = 1) /\ Last(ks) = ks[Len(ks)]
      /\ Len(ks) \in Nat \ {0}
      /\ FrameFits(Last(ks), Context(ks, Len(ks) - 1))
  BY Place, SMTT(30)
<1>2. f.at \notin Shells /\ f.at # "top" /\ f.at # "action"
  BY DEF Plain
<1>3. e.shell = c.shell /\ e.kinds = c.kinds
  BY <1>1, <1>2, PlainAfter
<1>4. Len(ks) = 1 => ~ks[1].ending /\ ~ks[1].single
  BY <1>1 DEF FrameFits
<1>5. Follows(x, Last(ss), r, e)
  OBVIOUS
<1> HIDE DEF c, e
<1>6. ShellOK(x, m, r, e, ks[1], Len(ks) + 1) /\ Heeds(x, m, Last(ss), r, c)
  BY <1>1, <1>3, <1>4, <1>5, Same
<1>7. Last(ks).at = "top" => f.at = "stmt" \/ f.at = "action"
  OBVIOUS
<1>8. f.at = "action" => ActionOK(x, m, f, r, Context(ks, Len(ks)), ks[1], Len(ks))
  BY <1>2
<1> QED
  BY <1>2, <1>6, <1>7, <1>8, Push DEF c, e

-----------------------------------------------------------------------------
\* Front and Last take apart what Append has put together.
LEMMA FrontLast ==
    ASSUME NEW S, NEW s \in Seq(S), NEW e \in S
    PROVE  Front(Append(s, e)) = s /\ Last(Append(s, e)) = e
<1>1. Len(Append(s, e)) = Len(s) + 1 /\ Len(s) \in Nat
  OBVIOUS
<1>2. Last(Append(s, e)) = e
  BY <1>1 DEF Last
<1>3. Front(Append(s, e)) = SubSeq(Append(s, e), 1, Len(s))
  BY <1>1 DEF Front
<1>4. SubSeq(Append(s, e), 1, Len(s)) = s
  OBVIOUS
<1> QED
  BY <1>2, <1>3, <1>4

\* To replace the last element is to append the new one to the front.
LEMMA Replaced ==
    ASSUME NEW S, NEW s \in Seq(S), Len(s) > 0, NEW e \in S
    PROVE  [s EXCEPT ![Len(s)] = e] = Append(Front(s), e)
<1> DEFINE t == [s EXCEPT ![Len(s)] = e]
<1> DEFINE u == Append(Front(s), e)
<1>1. /\ Len(s) \in Nat /\ Front(s) \in Seq(S) /\ Len(Front(s)) = Len(s) - 1
      /\ \A i \in 1..(Len(s) - 1) : Front(s)[i] = s[i]
  BY Ends
<1>2. t \in Seq(S) /\ Len(t) = Len(s)
      /\ \A i \in 1..Len(s) : t[i] = IF i = Len(s) THEN e ELSE s[i]
  OBVIOUS
<1>3. u \in Seq(S) /\ Len(u) = Len(s)
      /\ \A i \in 1..Len(s) : u[i] = IF i = Len(s) THEN e ELSE s[i]
  BY <1>1
<1> HIDE DEF t, u
<1>4. \A i \in 1..Len(t) : t[i] = u[i]
  BY <1>2, <1>3
<1>5. t = u
  BY <1>2, <1>3, <1>4, SeqEqual
<1> QED
  BY <1>5 DEF t, u

\* What a shell of i carries on, whatever frame begins or ends.
Carries(x, o, r, i) ==
    /\ r.running = o.running /\ r.fired = o.fired /\ r.exits = o.exits
    /\ ByOwn(r.exit, i) /\ (i = 1 => ByOwn(r.last, 1))
    /\ r.exit.erred \subseteq o.exit.erred
    /\ r.level = o.level /\ o.errFired => r.errFired \/ r.exit.erred = {}
    /\ x # "none" \/ ("exit" \in o.exit.flow => "exit" \in r.exit.flow)
    /\ r.asked => o.asked \/ ("exit" \in r.exit.flow /\ o.running = {})

Flagged(r, c) == r.noErr = c.test /\ r.inLoop = c.loop /\ r.level = c.level

\* A shell that carries on, with the flags of its new place, follows the one before.
LEMMA Carried ==
    ASSUME NEW x, NEW m, NEW ss, NEW ks, Ok(x, m, ss, ks), Last(ks).at # "top",
           NEW r \in RunnerT, Carries(x, Last(ss), r, Len(ss)),
           NEW d \in ContextT, d.shell = Len(ss), Flagged(r, d),
           r.exit.erred = {} \/ d.level <= Last(ss).level
    PROVE  Follows(x, Last(ss), r, d)
<1> DEFINE o == Last(ss)
<1> DEFINE c == Context(ks, Len(ks))
<1>1. /\ c \in ContextT /\ ShellOK(x, m, o, c, ks[1], Len(ks)) /\ o \in RunnerT
      /\ Len(ks) # 1
  BY Place
<1>2. /\ o.level = c.level /\ From(c.level, o.exit)
      /\ x = "overruled" \/ (o.level \in o.exit.erred => o.errFired)
  BY <1>1 DEF ShellOK, ShellFits, ShellKeeps
<1>3. r.exit.erred \subseteq o.exit.erred
  BY DEF Carries
<1>4. o.level \in Nat /\ d.level \in Nat /\ \A l \in o.exit.erred : l \in Nat
  <2>1. o.level \in 0..MaxDepth /\ o.exit \in Status
    BY <1>1 DEF RunnerT
  <2>2. d.level \in Nat
    BY DEF ContextT
  <2> HIDE DEF o
  <2>3. \A l \in o.exit.erred : l \in Nat
    BY <2>1 DEF Status
  <2> QED
    BY <2>1, <2>2, <2>3
<1> HIDE DEF o, c
<1>5. From(d.level, r.exit)
  <2>1. CASE r.exit.erred = {}
    BY <2>1 DEF From
  <2>2. CASE d.level <= o.level
    <3>1. \A l \in r.exit.erred : l \in o.exit.erred /\ l >= o.level /\ l \in Nat
      BY <1>2, <1>3, <1>4 DEF From
    <3>2. \A l \in r.exit.erred : l >= d.level
      BY <1>4, <2>2, <3>1
    <3> QED
      BY <3>2 DEF From
  <2> QED
    BY <2>1, <2>2 DEF o
<1>6. x = "overruled" \/ (r.level \in r.exit.erred => r.errFired)
  <2> SUFFICES ASSUME x # "overruled", r.level \in r.exit.erred PROVE r.errFired
    OBVIOUS
  <2>1. r.level \in o.exit.erred /\ r.level = d.level
    BY <1>3 DEF Flagged
  <2>2. r.level = o.level
    <3>1. r.level >= o.level
      BY <1>2, <2>1 DEF From
    <3>2. d.level <= o.level
      BY DEF o
    <3> QED
      BY <1>4, <2>1, <3>1, <3>2
  <2>3. o.errFired
    BY <1>2, <2>1, <2>2
  <2> QED
    BY <2>2, <2>3 DEF Carries, o
<1> QED
  BY <1>5, <1>6 DEF Follows, Carries, Flagged, o

\* A frame begins, in the shell of the frame below.
Saves(f, o) ==
    /\ f.at = "stmt" => f.noErr = o.noErr
    /\ f.at \in {"cond", "whileCond"} => f.saved = o.noErr
    /\ f.at = "left" => f.saved.noErr = o.noErr
    /\ f.at \in {"for", "while"} => f.saved = o.inLoop
    /\ f.at \in {"stageR", "lastStage"} => f.saved.flow = {} /\ From(o.level + 1, f.saved)
Opens(f, o, r) ==
    /\ r.noErr = (o.noErr \/ Tests(f)) /\ r.inLoop = (o.inLoop \/ InRound(f))
    /\ r.level = o.level + (IF f.at = "func" THEN 1 ELSE 0)

\* A construct begins: it saves the flags it changes and sets them, and the stack with
\* its frame is right (conditions, operands, loops, calls, stages).
LEMMA Open ==
    ASSUME NEW x, NEW m, NEW ss, NEW ks, Ok(x, m, ss, ks), NEW r \in RunnerT,
           Last(ks).at # "top", NEW f \in FrameT, Plain(f), Saves(f, Last(ss)),
           f.at = "whileCond" => Last(ks).at = "while" /\ Last(ks).ending,
           Opens(f, Last(ss), r), Carries(x, Last(ss), r, Len(ss)),
           f.at = "func" => r.exit.erred = {}
    PROVE  Ok(x, m, Append(Front(ss), r), Append(ks, f))
<1> DEFINE o == Last(ss)
<1> DEFINE c == Context(ks, Len(ks))
<1> DEFINE d == After(c, f)
<1>1. /\ c \in ContextT /\ ShellOK(x, m, o, c, ks[1], Len(ks)) /\ o \in RunnerT
      /\ c.shell = Len(ss) /\ ks \in Seq(FrameT)
  BY Place
<1>2. o.noErr = c.test /\ o.inLoop = c.loop /\ o.level = c.level
  BY <1>1 DEF ShellOK, ShellFits
<1>3. f.at \notin Shells /\ f.at # "top" /\ f.at # "action"
  BY DEF Plain
<1>4. FrameFits(f, c)
  BY <1>2, <1>3 DEF FrameFits, Saves
<1>5. f.at \in Deeper <=> f.at = "func"
  BY <1>3 DEF Deeper
<1>6. d.shell = Len(ss) /\ d \in ContextT
  <2>1. Tests(f) \in BOOLEAN /\ InRound(f) \in BOOLEAN
    BY DEF Tests, InRound
  <2>2. d.shell = c.shell /\ d.kinds = c.kinds
    BY <1>1, <1>3, PlainAfter
  <2>3. d = [shell |-> d.shell, level |-> d.level, test |-> d.test, loop |-> d.loop, kinds |-> d.kinds]
    BY DEF After
  <2>4. d.level \in Nat /\ d.test \in BOOLEAN /\ d.loop \in BOOLEAN
    BY <1>1, <2>1 DEF After, ContextT
  <2> HIDE DEF d
  <2> QED
    BY <1>1, <2>2, <2>3, <2>4 DEF ContextT
<1>7. Flagged(r, d)
  <2>1. /\ d.test = (Tests(f) \/ c.test) /\ d.loop = (InRound(f) \/ c.loop)
        /\ d.level = c.level + (IF f.at = "func" THEN 1 ELSE 0)
    BY <1>1, <1>3, <1>5 DEF After, ContextT
  <2> HIDE DEF d
  <2> QED
    BY <1>2, <2>1 DEF Opens, Flagged
<1>8. r.exit.erred = {} \/ d.level <= o.level
  <2>1. CASE f.at = "func"
    BY <2>1
  <2>2. CASE f.at # "func"
    BY <1>1, <1>2, <1>5, <2>2 DEF After, ContextT
  <2> QED
    BY <2>1, <2>2
<1>9. \A i \in 1..Len(ks) : Alike(ks[i], ks[i])
  BY AlikeSelf
<1> HIDE DEF c, d
<1>10. Follows(x, Last(ss), r, d)
  BY <1>6, <1>7, <1>8, Carried DEF o
<1> QED
  BY <1>1, <1>4, <1>9, <1>10, Enter DEF c, d

\* A frame ends, and the shell has what it put back.
Closes(f, o, r) ==
    /\ r.noErr = IF f.at = "stmt" THEN f.noErr
                 ELSE IF f.at = "cond" \/ f.at = "whileCond" THEN f.saved
                 ELSE IF f.at = "left" THEN f.saved.noErr ELSE o.noErr
    /\ \/ f.at \in {"for", "while"} /\ r.inLoop = f.saved
       \/ (f.at \in {"for", "while"} => f.ending) /\ r.inLoop = o.inLoop
    /\ r.level = IF f.at = "func" THEN o.level - 1 ELSE o.level

\* The flags that a construct puts back at its end are those of the place below it:
\* every save has its restore.
LEMMA Closed ==
    ASSUME NEW x, NEW m, NEW ss, NEW ks, Ok(x, m, ss, ks), Plain(Last(ks)),
           NEW r, Closes(Last(ks), Last(ss), r)
    PROVE  /\ Flagged(r, Context(ks, Len(ks) - 1))
           /\ Context(ks, Len(ks) - 1).level <= Last(ss).level
           /\ Last(ks).at = "func" => Context(ks, Len(ks) - 1).level < Last(ss).level
           /\ Context(ks, Len(ks) - 1).shell = Len(ss)
           /\ Context(ks, Len(ks) - 1) \in ContextT
<1> DEFINE o == Last(ss)
<1> DEFINE f == Last(ks)
<1> DEFINE c == Context(ks, Len(ks))
<1> DEFINE d == Context(ks, Len(ks) - 1)
<1>1. /\ c = After(d, f) /\ d \in ContextT /\ f \in FrameT
      /\ ShellOK(x, m, o, c, ks[1], Len(ks)) /\ o \in RunnerT
      /\ c.shell = Len(ss) /\ FrameFits(f, d)
  BY Place
<1>2. o.noErr = c.test /\ o.inLoop = c.loop /\ o.level = c.level
  BY <1>1 DEF ShellOK, ShellFits
<1>3. f.at \notin Shells /\ f.at # "top" /\ f.at # "action"
  BY DEF Plain
<1>4. Closes(f, o, r)
  OBVIOUS
<1>5. f.at \in Deeper <=> f.at = "func"
  BY <1>3 DEF Deeper
<1> HIDE DEF o, f, d, c
<1>6. /\ c.test = (Tests(f) \/ d.test) /\ c.loop = (InRound(f) \/ d.loop)
      /\ c.level = d.level + (IF f.at = "func" THEN 1 ELSE 0) /\ c.shell = d.shell
  BY <1>1, <1>3, <1>5 DEF After, ContextT
<1>7. d.level \in Nat /\ d.test \in BOOLEAN /\ d.loop \in BOOLEAN
  BY <1>1 DEF ContextT
<1>8. r.noErr = d.test
  <2>1. CASE f.at = "stmt" \/ f.at = "cond" \/ f.at = "whileCond" \/ f.at = "left"
    BY <1>1, <1>4, <2>1 DEF Closes, FrameFits
  <2>2. CASE ~(f.at = "stmt" \/ f.at = "cond" \/ f.at = "whileCond" \/ f.at = "left")
    <3>1. ~Tests(f)
      BY <2>2 DEF Tests, Conditions
    <3> QED
      BY <1>2, <1>4, <1>6, <1>7, <2>2, <3>1 DEF Closes
  <2> QED
    BY <2>1, <2>2
<1>9. r.inLoop = d.loop
  <2>1. CASE f.at \in {"for", "while"} /\ r.inLoop = f.saved
    BY <1>1, <2>1 DEF FrameFits
  <2>2. CASE (f.at \in {"for", "while"} => f.ending) /\ r.inLoop = o.inLoop
    <3>1. ~InRound(f)
      BY <2>2 DEF InRound
    <3> QED
      BY <1>2, <1>6, <1>7, <2>2, <3>1
  <2> QED
    BY <1>4, <2>1, <2>2 DEF Closes
<1>10. r.level = d.level /\ d.level <= o.level /\ (f.at = "func" => d.level < o.level)
  <2>1. r.level = IF f.at = "func" THEN o.level - 1 ELSE o.level
    BY <1>4 DEF Closes
  <2>2. o.level = d.level + (IF f.at = "func" THEN 1 ELSE 0)
    BY <1>2, <1>6
  <2> QED
    BY <1>7, <2>1, <2>2
<1> QED
  BY <1>1, <1>6, <1>8, <1>9, <1>10 DEF Flagged, o, f, d

\* A construct ends and puts its flags back: the stack without its frame is right.
LEMMA Close ==
    ASSUME NEW x, NEW m, NEW ss, NEW ks, Ok(x, m, ss, ks), NEW r \in RunnerT,
           Plain(Last(ks)), Closes(Last(ks), Last(ss), r), Carries(x, Last(ss), r, Len(ss))
    PROVE  Ok(x, m, Append(Front(ss), r), Front(ks))
<1>1. /\ Flagged(r, Context(ks, Len(ks) - 1))
      /\ Context(ks, Len(ks) - 1).level <= Last(ss).level
      /\ Context(ks, Len(ks) - 1).shell = Len(ss)
      /\ Context(ks, Len(ks) - 1) \in ContextT
  BY Closed
<1>2. Last(ks).at # "top"
  BY DEF Plain
<1>3. Follows(x, Last(ss), r, Context(ks, Len(ks) - 1))
  BY <1>1, <1>2, Carried
<1> QED
  BY <1>3, Drop

-----------------------------------------------------------------------------
\* The frames of lists and the marks that change nothing around them.
LEMMA Marked ==
    ASSUME NEW f \in FrameT, f.at # "stmt", NEW b \in BOOLEAN
    PROVE  /\ [f EXCEPT !.ran = b] \in FrameT /\ [f EXCEPT !.hit = b] \in FrameT
           /\ [f EXCEPT !.ending = b] \in FrameT /\ [f EXCEPT !.single = b] \in FrameT
           /\ f.ran \in BOOLEAN /\ f.ending \in BOOLEAN /\ f.single \in BOOLEAN
           /\ Alike([f EXCEPT !.ran = b], f) /\ Alike([f EXCEPT !.hit = b], f)
<1>1. PICK A, B : f \in ListT(A, B) /\ (\A g \in ListT(A, B) : g \in FrameT)
  BY DEF FrameT, StmtT
<1>2. /\ [f EXCEPT !.ran = b] \in ListT(A, B) /\ [f EXCEPT !.hit = b] \in ListT(A, B)
      /\ [f EXCEPT !.ending = b] \in ListT(A, B) /\ [f EXCEPT !.single = b] \in ListT(A, B)
      /\ f.ran \in BOOLEAN /\ f.ending \in BOOLEAN /\ f.single \in BOOLEAN
  BY <1>1 DEF ListT
<1>3. /\ \A g \in {[f EXCEPT !.ran = b], [f EXCEPT !.hit = b]} :
            g.at = f.at /\ g.saved = f.saved /\ g.ending = f.ending /\ g.single = f.single
  BY <1>1 DEF ListT
<1>4. Alike([f EXCEPT !.ran = b], f) /\ Alike([f EXCEPT !.hit = b], f)
  BY <1>3 DEF Alike
<1> QED
  BY <1>1, <1>2, <1>4

\* The mark at the top of the stack.
LEMMA Mark ==
    ASSUME NEW ks \in Seq(FrameT), Len(ks) > 0, NEW g \in FrameT, Alike(g, ks[Len(ks)])
    PROVE  /\ [ks EXCEPT ![Len(ks)] = g] \in Seq(FrameT)
           /\ Len([ks EXCEPT ![Len(ks)] = g]) = Len(ks)
           /\ \A i \in 1..Len(ks) : Alike([ks EXCEPT ![Len(ks)] = g][i], ks[i])
<1>1. \A i \in 1..Len(ks) :
         [ks EXCEPT ![Len(ks)] = g][i] = IF i = Len(ks) THEN g ELSE ks[i]
  OBVIOUS
<1>2. /\ [ks EXCEPT ![Len(ks)] = g] \in Seq(FrameT)
      /\ Len([ks EXCEPT ![Len(ks)] = g]) = Len(ks)
  OBVIOUS
<1> QED
  BY <1>1, <1>2, AlikeSelf

\* To mark the frame at the top as begun leaves it alike.
LEMMA Heres ==
    ASSUME NEW x, NEW m, Ok(x, m, shells, stack), Top.at # "stmt"
    PROVE  /\ Here \in Seq(FrameT) /\ Len(Here) = Len(stack)
           /\ \A i \in 1..Len(stack) : Alike(Here[i], stack[i])
<1>1. stack \in Seq(FrameT) /\ Len(stack) > 0 /\ Top = stack[Len(stack)] /\ Top \in FrameT
  BY Place DEF Top
<1>2. Here = [stack EXCEPT ![Len(stack)] = [Top EXCEPT !.ran = TRUE]]
  BY <1>1 DEF Here
<1>3. [Top EXCEPT !.ran = TRUE] \in FrameT /\ Alike([Top EXCEPT !.ran = TRUE], stack[Len(stack)])
  BY <1>1, Marked
<1> HIDE DEF Top
<1> QED
  BY <1>1, <1>2, <1>3, Mark

\* A statement begins: with the flags of the last one reset, its frame on the stack and
\* its negation in noErr, everything is right (the head of stmtSync).
LEMMA Begins ==
    ASSUME NEW x, NEW m, Ok(x, m, shells, stack), AtStmt, ~Stop(Me),
           NEW kl \in Seq(FrameT), Len(kl) = Len(stack),
           \A i \in 1..Len(stack) : Alike(kl[i], stack[i]),
           NEW neg \in BOOLEAN, NEW sf \in StmtT, sf.neg = neg, sf.noErr = Me.noErr,
           NEW r \in RunnerT, r.noErr = (Me.noErr \/ neg), r.inLoop = Me.inLoop,
           r.level = Me.level, r.running = Me.running, r.fired = Me.fired, r.exits = Me.exits,
           r.last = Me.last, r.exit.erred = {}, ByOwn(r.exit, Len(shells)),
           r.asked => Me.asked \/ ("exit" \in r.exit.flow /\ Me.running = {})
    PROVE  Ok(x, m, Append(Others, r), Append(kl, sf))
<1> DEFINE c == Context(stack, Len(stack))
<1>1. /\ c \in ContextT /\ ShellOK(x, m, Me, c, stack[1], Len(stack))
      /\ c.shell = Len(shells) /\ Me \in RunnerT
  BY Place DEF Me
<1>2. /\ Me.noErr = c.test /\ Me.inLoop = c.loop /\ Me.level = c.level
      /\ (c.shell = 1 => ByOwn(Me.last, 1))
  BY <1>1 DEF ShellOK, ShellFits
<1>3. /\ sf.at = "stmt" /\ sf \in FrameT /\ Plain(sf)
      /\ FrameFits(sf, c)
  <2>1. sf.at = "stmt" /\ sf \in FrameT
    BY DEF StmtT, FrameT
  <2> QED
    BY <1>2, <2>1 DEF Plain, FrameFits, Shells
<1>4. /\ After(c, sf).shell = c.shell /\ After(c, sf).level = c.level
      /\ After(c, sf).test = (neg \/ c.test) /\ After(c, sf).loop = c.loop
  <2>1. sf.at \notin Shells /\ sf.at \notin Deeper /\ sf.at \notin Conditions
        /\ sf.at \notin {"for", "while"}
    BY <1>3 DEF Shells, Deeper, Conditions
  <2>2. Tests(sf) <=> neg
    BY <1>3, <2>1 DEF Tests
  <2>3. ~InRound(sf)
    BY <2>1 DEF InRound
  <2> QED
    BY <1>1, <2>1, <2>2, <2>3 DEF After, ContextT
<1>5. Follows(x, Me, r, After(c, sf))
  <2>1. r.noErr = After(c, sf).test
    BY <1>1, <1>2, <1>4 DEF RunnerT
  <2>2. "exit" \notin Me.exit.flow
    BY DEF Stop
  <2> QED
    BY <1>1, <1>2, <1>4, <2>1, <2>2 DEF Follows, From
<1>6. Top.at = "top" => ~Top.ending
  BY DEF AtStmt
<1>7. Top.at # "stmt"
  BY DEF AtStmt
<1> HIDE DEF c
<1>8. sf.at # "whileCond"
  BY <1>3
<1> QED
  BY <1>1, <1>3, <1>5, <1>6, <1>8, Enter DEF c, Me, Top, Others

\* The statuses that commands leave.
LEMMA Recoded ==
    ASSUME NEW e \in Status
    PROVE  /\ \A k \in 0..255, b \in BOOLEAN : [e EXCEPT !.code = k, !.tested = b] \in Status
           /\ \A k \in 0..255, F \in SUBSET Flows, i \in 0..MaxDepth :
                 [e EXCEPT !.code = k, !.flow = F, !.by = i] \in Status
           /\ \A F \in SUBSET Flows : [e EXCEPT !.flow = F] \in Status
           /\ \A F \in SUBSET Flows, b \in BOOLEAN : [e EXCEPT !.flow = F, !.tested = b] \in Status
           /\ \A b \in BOOLEAN : [e EXCEPT !.tested = b] \in Status
           /\ \A F \in SUBSET Flows, i \in 0..MaxDepth : [e EXCEPT !.flow = F, !.by = i] \in Status
           /\ \A l \in 0..MaxDepth : [e EXCEPT !.erred = @ \cup {l}] \in Status
<1>1. \A k \in 0..255, b \in BOOLEAN : [e EXCEPT !.code = k, !.tested = b] \in Status
  BY DEF Status
<1>2. \A k \in 0..255, F \in SUBSET Flows, i \in 0..MaxDepth :
         [e EXCEPT !.code = k, !.flow = F, !.by = i] \in Status
  BY DEF Status
<1>3. \A F \in SUBSET Flows : [e EXCEPT !.flow = F] \in Status
  BY DEF Status
<1>4. \A F \in SUBSET Flows, b \in BOOLEAN : [e EXCEPT !.flow = F, !.tested = b] \in Status
  BY DEF Status
<1>5. \A b \in BOOLEAN : [e EXCEPT !.tested = b] \in Status
  BY DEF Status
<1>6. \A F \in SUBSET Flows, i \in 0..MaxDepth : [e EXCEPT !.flow = F, !.by = i] \in Status
  BY DEF Status
<1>7. \A l \in 0..MaxDepth : [e EXCEPT !.erred = @ \cup {l}] \in Status
  BY DEF Status
<1> QED
  BY <1>1, <1>2, <1>3, <1>4, <1>5, <1>6, <1>7

\* A status of shell i for which no ERR trap has run.
Fresh(e, i) == e \in Status /\ e.erred = {} /\ ByOwn(e, i)

\* The zero status is that of any shell, and no ERR trap has run for it.
LEMMA ZeroFresh ==
    ASSUME NEW i PROVE Fresh(Zero, i) /\ Zero \in Status
<1>1. Zero.flow = {} /\ Zero.erred = {}
  BY DEF Zero
<1>2. MaxDepth \in Nat
  BY ScenariosAssumption
<1>3. Zero \in Status
  BY <1>2 DEF Zero, Status
<1>4. Zero.flow \cap {"exit", "abort"} = {}
  BY <1>1
<1> QED
  BY <1>1, <1>3, <1>4 DEF Fresh, ByOwn

\* A fatal error is the shell's own, takes no flag away and leaves the ERR traps' history.
LEMMA Fatals ==
    ASSUME NEW e \in Status, NEW i \in 0..MaxDepth
    PROVE  /\ Fatal(e, i) \in Status /\ Fatal(e, i).erred = e.erred
           /\ e.flow \subseteq Fatal(e, i).flow
           /\ ByOwn(e, i) => ByOwn(Fatal(e, i), i)
<1>1. CASE e.fatal
  BY <1>1 DEF Fatal
<1>2. CASE ~e.fatal
  <2> DEFINE k == IF e.code = 0 THEN 1 ELSE e.code
  <2> DEFINE d == [e EXCEPT !.flow = @ \cup {"exit"}, !.fatal = TRUE, !.by = i, !.code = k]
  <2>1. Fatal(e, i) = d
    BY <1>2 DEF Fatal, Status
  <2>2. k \in 0..255 /\ e.flow \cup {"exit"} \in SUBSET Flows
    BY DEF Status, Flows
  <2> HIDE DEF k
  <2>3. d \in Status
    BY <2>2 DEF Status
  <2>4. d.erred = e.erred /\ d.flow = e.flow \cup {"exit"} /\ d.by = i
    BY DEF Status
  <2> HIDE DEF d
  <2> QED
    BY <2>1, <2>3, <2>4 DEF ByOwn
<1> QED
  BY <1>1, <1>2

Raised == {Raise(f, k) : f \in Flows, k \in 0..255}

\* The statuses that simple commands leave are of the current shell and fresh.
LEMMA Statuses ==
    ASSUME NEW x, NEW m, Ok(x, m, shells, stack)
    PROVE  /\ Fresh(Zero, Len(shells))
           /\ \A e \in Raised : Fresh(e, Len(shells))
           /\ Fresh(Raise("abort", 1), Len(shells))
           /\ Fresh(Fatal(Zero, Len(shells)), Len(shells))
           /\ \A b \in BOOLEAN : Fresh([Zero EXCEPT !.code = 1, !.tested = b], Len(shells))
<1>1. Len(shells) \in 0..MaxDepth
  <2>1. MaxDepth \in Nat /\ Len(shells) \in Nat /\ Len(shells) <= MaxDepth
    BY Place, ScenariosAssumption
  <2> QED
    BY <2>1
<1>3. Zero \in Status
  BY ZeroFresh
<1>4. ASSUME NEW f \in Flows, NEW k \in 0..255
      PROVE  Fresh(Raise(f, k), Len(shells))
  <2>1. PICK i \in 0..MaxDepth : i = Len(shells)
    BY <1>1
  <2>2. {f} \in SUBSET Flows
    OBVIOUS
  <2> DEFINE e == [Zero EXCEPT !.code = k, !.flow = {f}, !.by = i]
  <2>3. Raise(f, k) = e
    BY <2>1 DEF Raise
  <2>4. e \in Status
    BY <1>3, <2>2, Recoded
  <2>5. e.by = i /\ e.erred = Zero.erred
    BY <1>3 DEF Status
  <2>6. Zero.erred = {}
    BY DEF Zero
  <2> HIDE DEF e
  <2> QED
    BY <2>1, <2>3, <2>4, <2>5, <2>6 DEF Fresh, ByOwn
<1>5. ASSUME NEW b \in BOOLEAN
      PROVE  Fresh([Zero EXCEPT !.code = 1, !.tested = b], Len(shells))
  <2> DEFINE e == [Zero EXCEPT !.code = 1, !.tested = b]
  <2>1. e \in Status
    <3>1. 1 \in 0..255
      OBVIOUS
    <3> QED
      BY <1>3, <3>1, Recoded
  <2>2. e.erred = Zero.erred /\ e.flow = Zero.flow
    BY <1>3 DEF Status
  <2>3. Fresh(Zero, Len(shells))
    BY ZeroFresh
  <2> HIDE DEF e
  <2>4. e.erred = {}
    BY <2>2, <2>3 DEF Fresh
  <2>5. ByOwn(e, Len(shells))
    <3>1. Zero.flow = {}
      BY DEF Zero
    <3> QED
      BY <2>2, <3>1 DEF ByOwn
  <2> QED
    BY <2>1, <2>4, <2>5 DEF Fresh, e
<1>6. "abort" \in Flows /\ 1 \in 0..255
  BY DEF Flows
<1>7. Fresh(Zero, Len(shells))
  BY ZeroFresh
<1>8. ASSUME NEW e \in Raised PROVE Fresh(e, Len(shells))
  <2>1. PICK f \in Flows, k \in 0..255 : e = Raise(f, k)
    BY DEF Raised
  <2>2. Fresh(Raise(f, k), Len(shells))
    BY <1>4
  <2> QED
    BY <2>1, <2>2
<1>9. Fresh(Fatal(Zero, Len(shells)), Len(shells))
  BY <1>1, <1>3, <1>7, Fatals DEF Fresh
<1> QED
  BY <1>4, <1>5, <1>6, <1>7, <1>8, <1>9

\* A shell whose flags of the last statement are reset, and a simple command's.
LEMMA Beginning ==
    ASSUME NEW x, NEW m, Ok(x, m, shells, stack), NEW neg \in BOOLEAN
    PROVE  /\ Begun \in RunnerT /\ Me \in RunnerT /\ Begun.exit = Zero
           /\ [Begun EXCEPT !.noErr = @ \/ neg] \in RunnerT
           /\ LET r == [Begun EXCEPT !.noErr = @ \/ neg]
              IN  /\ r.exit = Zero /\ r.noErr = (Me.noErr \/ neg) /\ r.inLoop = Me.inLoop
                  /\ r.level = Me.level /\ r.running = Me.running /\ r.fired = Me.fired
                  /\ r.exits = Me.exits /\ r.last = Me.last /\ r.asked = Me.asked
                  /\ r.inFunc = Me.inFunc /\ r.errFired = FALSE
<1>1. Me \in RunnerT /\ Zero \in Status
  BY Place, ZeroFresh DEF Me
<1>2. Begun \in RunnerT /\ Begun.exit = Zero
  BY <1>1 DEF Begun, RunnerT
<1>3. [Begun EXCEPT !.noErr = @ \/ neg] \in RunnerT
  BY <1>1, <1>2 DEF RunnerT
<1> DEFINE r == [Begun EXCEPT !.noErr = @ \/ neg]
<1>4. /\ r.exit = Zero /\ r.noErr = (Me.noErr \/ neg) /\ r.inLoop = Me.inLoop
      /\ r.level = Me.level /\ r.running = Me.running /\ r.fired = Me.fired
      /\ r.exits = Me.exits /\ r.last = Me.last /\ r.asked = Me.asked
      /\ r.inFunc = Me.inFunc /\ r.errFired = FALSE
  BY <1>1 DEF Begun, RunnerT
<1> QED
  BY <1>1, <1>2, <1>3, <1>4

\* true, false, exit, return, a fatal error and trap.
LEMMA SimpleKept ==
    ASSUME NEW x, NEW m, Ok(x, m, shells, stack), NEW st, NEW neg \in BOOLEAN, Simple(st, neg)
    PROVE  Ok(x, m, shells', stack')
<1> DEFINE sf == StmtFrame(neg, FALSE, Me.noErr)
<1> DEFINE r == [Begun EXCEPT !.noErr = @ \/ neg]
<1> DEFINE failed == [Zero EXCEPT !.code = 1, !.tested = Tested(Append(Here, sf))]
<1>1. AtStmt /\ ~Stop(Me) /\ Top.at # "stmt"
  BY DEF Simple, Begin, AtStmt
<1>2. /\ Here \in Seq(FrameT) /\ Len(Here) = Len(stack)
      /\ \A i \in 1..Len(stack) : Alike(Here[i], stack[i])
  BY <1>1, Heres
<1>3. /\ Me \in RunnerT /\ r \in RunnerT
      /\ r.exit = Zero /\ r.noErr = (Me.noErr \/ neg) /\ r.inLoop = Me.inLoop
      /\ r.level = Me.level /\ r.running = Me.running /\ r.fired = Me.fired
      /\ r.exits = Me.exits /\ r.last = Me.last /\ r.asked = Me.asked
  BY Beginning
<1>4. sf \in StmtT /\ sf.neg = neg /\ sf.noErr = Me.noErr
  BY <1>3 DEF StmtFrame, StmtT, RunnerT
<1>5. Len(shells) \in Nat
  BY Place
<1> HIDE DEF r
<1>6. ASSUME NEW e, Fresh(e, Len(shells)), Goto(Asks(r, e), Append(Here, sf))
      PROVE  Ok(x, m, shells', stack')
  <2>0. e \in Status /\ e.erred = {} /\ ByOwn(e, Len(shells))
    BY <1>6 DEF Fresh
  <2>1. /\ Asks(r, e) \in RunnerT /\ Asks(r, e).exit = e
        /\ Asks(r, e).noErr = (Me.noErr \/ neg) /\ Asks(r, e).inLoop = Me.inLoop
        /\ Asks(r, e).level = Me.level /\ Asks(r, e).running = Me.running
        /\ Asks(r, e).fired = Me.fired /\ Asks(r, e).exits = Me.exits
        /\ Asks(r, e).last = Me.last
        /\ Asks(r, e).asked = (Me.asked \/ ("exit" \in e.flow /\ Me.running = {}))
    <3>1. Asks(r, e) \in RunnerT
      BY <1>3, <2>0 DEF Asks, RunnerT
    <3>2. /\ Asks(r, e).exit = e /\ Asks(r, e).noErr = r.noErr /\ Asks(r, e).inLoop = r.inLoop
          /\ Asks(r, e).level = r.level /\ Asks(r, e).running = r.running
          /\ Asks(r, e).fired = r.fired /\ Asks(r, e).exits = r.exits
          /\ Asks(r, e).last = r.last
          /\ Asks(r, e).asked = (r.asked \/ ("exit" \in e.flow /\ r.running = {}))
      BY <1>3 DEF Asks, RunnerT
    <3> QED
      BY <1>3, <3>1, <3>2
  <2> DEFINE q == Asks(r, e)
  <2> HIDE DEF q
  <2>2. Ok(x, m, Append(Others, q), Append(Here, sf))
    BY <1>1, <1>2, <1>4, <2>0, <2>1, Begins DEF q
  <2> QED
    BY <1>6, <2>2 DEF Goto, q
<1>7. ASSUME NEW q \in RunnerT, q.exit = r.exit, q.noErr = r.noErr, q.inLoop = r.inLoop,
             q.level = r.level, q.running = r.running, q.fired = r.fired, q.exits = r.exits,
             q.last = r.last, q.asked = r.asked, Goto(q, Append(Here, sf))
      PROVE  Ok(x, m, shells', stack')
  <2>1. /\ q.noErr = (Me.noErr \/ neg) /\ q.inLoop = Me.inLoop /\ q.level = Me.level
        /\ q.running = Me.running /\ q.fired = Me.fired /\ q.exits = Me.exits
        /\ q.last = Me.last /\ q.asked = Me.asked /\ q.exit = Zero
    BY <1>3, <1>7 DEF RunnerT
  <2>2. q.exit.erred = {} /\ ByOwn(q.exit, Len(shells))
    BY <2>1, ZeroFresh DEF Fresh
  <2>3. Ok(x, m, Append(Others, q), Append(Here, sf))
    BY <1>1, <1>2, <1>4, <2>1, <2>2, Begins
  <2> QED
    BY <1>7, <2>3 DEF Goto
<1>8. Fresh(failed, Len(shells))
  <2>1. Tested(Append(Here, sf)) \in BOOLEAN
    BY DEF Tested
  <2> QED
    BY <2>1, Statuses
<1>9. Fresh(Zero, Len(shells)) /\ Fresh(Raise("abort", 1), Len(shells))
      /\ Fresh(Fatal(Zero, Len(shells)), Len(shells))
  BY Statuses
<1>17. \A e \in Raised : Fresh(e, Len(shells))
  BY Statuses
<1>18. \A f \in Flows, n \in {1, 256} : Raise(f, Byte(n)) \in Raised
  <2>1. \A n \in {1, 256} : Byte(n) \in 0..255
    BY DEF Byte
  <2> QED
    BY <2>1 DEF Raised
<1>10. \/ Goto(Asks(r, Zero), Append(Here, sf))
       \/ Goto(Asks(r, failed), Append(Here, sf))
       \/ \E e \in Raised : Goto(Asks(r, e), Append(Here, sf))
       \/ Goto(Asks(r, Raise("abort", 1)), Append(Here, sf))
       \/ Goto(Asks(r, Fatal(Zero, Len(shells))), Append(Here, sf))
       \/ Goto([r EXCEPT !.errTrap = TRUE], Append(Here, sf))
       \/ Goto([r EXCEPT !.exitTrap = TRUE], Append(Here, sf))
  <2>1. \A n \in {1, 256} : Raise("exit", Byte(n)) \in Raised /\ Raise("return", Byte(n)) \in Raised
    BY <1>18 DEF Flows
  <2>3. \/ Goto(Asks(r, Zero), Append(Here, sf))
        \/ Goto(Asks(r, failed), Append(Here, sf))
        \/ \E n \in {1, 256} : Goto(Asks(r, Raise("exit", Byte(n))), Append(Here, sf))
        \/ \E n \in {1, 256} : Goto(Asks(r, Raise("return", Byte(n))), Append(Here, sf))
        \/ Goto(Asks(r, Raise("abort", 1)), Append(Here, sf))
        \/ Goto(Asks(r, Fatal(Zero, Len(shells))), Append(Here, sf))
        \/ Goto([r EXCEPT !.errTrap = TRUE], Append(Here, sf))
        \/ Goto([r EXCEPT !.exitTrap = TRUE], Append(Here, sf))
    BY ZenonT(30) DEF Simple, r
  <2>4. ASSUME NEW f, NEW n, Raise(f, Byte(n)) \in Raised,
               Goto(Asks(r, Raise(f, Byte(n))), Append(Here, sf))
        PROVE  \E e \in Raised : Goto(Asks(r, e), Append(Here, sf))
    BY <2>4, Zenon
  <2>5. CASE \E n \in {1, 256} : Goto(Asks(r, Raise("exit", Byte(n))), Append(Here, sf))
    <3>1. PICK n \in {1, 256} : Goto(Asks(r, Raise("exit", Byte(n))), Append(Here, sf))
      BY <2>5, Zenon
    <3>2. \E e \in Raised : Goto(Asks(r, e), Append(Here, sf))
      BY <2>1, <2>4, <3>1, ZenonT(30)
    <3> QED
      BY <3>2
  <2>6. CASE \E n \in {1, 256} : Goto(Asks(r, Raise("return", Byte(n))), Append(Here, sf))
    <3>1. PICK n \in {1, 256} : Goto(Asks(r, Raise("return", Byte(n))), Append(Here, sf))
      BY <2>6, Zenon
    <3>2. \E e \in Raised : Goto(Asks(r, e), Append(Here, sf))
      BY <2>1, <2>4, <3>1, ZenonT(30)
    <3> QED
      BY <3>2
  <2> QED
    BY <2>3, <2>5, <2>6, Zenon
<1> HIDE DEF failed, sf
<1>11. CASE Goto(Asks(r, Zero), Append(Here, sf))
  BY <1>6, <1>9, <1>11
<1>12. CASE Goto(Asks(r, failed), Append(Here, sf))
  BY <1>6, <1>8, <1>12
<1>13. CASE \E e \in Raised : Goto(Asks(r, e), Append(Here, sf))
  BY <1>6, <1>13, <1>17
<1>14. CASE Goto(Asks(r, Raise("abort", 1)), Append(Here, sf))
  BY <1>6, <1>9, <1>14
<1>19. CASE Goto(Asks(r, Fatal(Zero, Len(shells))), Append(Here, sf))
  BY <1>6, <1>9, <1>19
<1>15. CASE Goto([r EXCEPT !.errTrap = TRUE], Append(Here, sf))
  <2> DEFINE q == [r EXCEPT !.errTrap = TRUE]
  <2>0. r \in RunnerT
    BY <1>3
  <2>1. /\ q \in RunnerT /\ q.exit = r.exit /\ q.noErr = r.noErr /\ q.inLoop = r.inLoop
        /\ q.level = r.level /\ q.running = r.running /\ q.fired = r.fired /\ q.exits = r.exits
        /\ q.last = r.last /\ q.asked = r.asked
    BY <2>0 DEF RunnerT
  <2> HIDE DEF q
  <2> QED
    BY <1>7, <1>15, <2>1 DEF q
<1>16. CASE Goto([r EXCEPT !.exitTrap = TRUE], Append(Here, sf))
  <2> DEFINE q == [r EXCEPT !.exitTrap = TRUE]
  <2>0. r \in RunnerT
    BY <1>3
  <2>1. /\ q \in RunnerT /\ q.exit = r.exit /\ q.noErr = r.noErr /\ q.inLoop = r.inLoop
        /\ q.level = r.level /\ q.running = r.running /\ q.fired = r.fired /\ q.exits = r.exits
        /\ q.last = r.last /\ q.asked = r.asked
    BY <2>0 DEF RunnerT
  <2> HIDE DEF q
  <2> QED
    BY <1>7, <1>16, <2>1 DEF q
<1> QED
  BY <1>10, <1>11, <1>12, <1>13, <1>14, <1>15, <1>16, <1>19

\* break and continue.
LEMMA BreaksKept ==
    ASSUME NEW x, NEW m, Ok(x, m, shells, stack), NEW st, NEW n \in 1..2, Breaks(st, n)
    PROVE  Ok(x, m, shells', stack')
<1> DEFINE r == IF ~Me.inLoop THEN Begun
                ELSE [Begun EXCEPT ![IF st = "break" THEN "brk" ELSE "cnt"] = n]
<1> DEFINE out == IF ~Me.inLoop THEN {}
                  ELSE IF st = "break" THEN Named(n) ELSE Named(n - 1)
<1> DEFINE kl == [i \in 1..Len(stack) |->
                     IF i \in out THEN [Here[i] EXCEPT !.hit = TRUE] ELSE Here[i]]
<1> DEFINE sf == StmtFrame(FALSE, FALSE, Me.noErr)
<1>1. AtStmt /\ ~Stop(Me) /\ Top.at # "stmt" /\ shells' = Append(Others, r) /\ stack' = Append(kl, sf)
  BY DEF Breaks, Begin, AtStmt, Goto
<1>2. /\ Here \in Seq(FrameT) /\ Len(Here) = Len(stack) /\ Len(stack) \in Nat
      /\ \A i \in 1..Len(stack) : Alike(Here[i], stack[i])
  BY <1>1, Heres, Place
<1>3. Me \in RunnerT /\ Begun \in RunnerT /\ Begun.exit = Zero
  BY Beginning
<1>4. /\ r \in RunnerT /\ r.exit = Zero /\ r.noErr = Me.noErr /\ r.inLoop = Me.inLoop
      /\ r.level = Me.level /\ r.running = Me.running /\ r.fired = Me.fired
      /\ r.exits = Me.exits /\ r.last = Me.last /\ r.asked = Me.asked
  <2>1. \A k \in {"brk", "cnt"} :
           LET q == [Begun EXCEPT ![k] = n]
           IN  /\ q \in RunnerT /\ q.exit = Begun.exit /\ q.noErr = Begun.noErr
               /\ q.inLoop = Begun.inLoop /\ q.level = Begun.level /\ q.running = Begun.running
               /\ q.fired = Begun.fired /\ q.exits = Begun.exits /\ q.last = Begun.last
               /\ q.asked = Begun.asked
    BY <1>3 DEF RunnerT
  <2>2. /\ Begun.noErr = Me.noErr /\ Begun.inLoop = Me.inLoop /\ Begun.level = Me.level
        /\ Begun.running = Me.running /\ Begun.fired = Me.fired /\ Begun.exits = Me.exits
        /\ Begun.last = Me.last /\ Begun.asked = Me.asked
    BY <1>3 DEF Begun, RunnerT
  <2>3. CASE ~Me.inLoop
    BY <1>3, <2>2, <2>3
  <2>4. CASE Me.inLoop
    BY <1>3, <2>1, <2>2, <2>4
  <2> QED
    BY <2>3, <2>4
<1>5. kl \in Seq(FrameT) /\ Len(kl) = Len(stack) /\ \A i \in 1..Len(stack) : Alike(kl[i], stack[i])
  <2>1. ASSUME NEW i \in 1..Len(stack)
        PROVE  kl[i] \in FrameT /\ Alike(kl[i], stack[i])
    <3>1. Here[i] \in FrameT /\ Alike(Here[i], stack[i]) /\ stack[i] \in FrameT
      BY <1>2, Place
    <3>2. CASE i \in out
      <4>1. stack[i].at # "stmt"
        BY <3>2 DEF Named, Loops
      <4>2. Here[i].at # "stmt"
        BY <3>1, <4>1 DEF Alike
      <4>3. /\ [Here[i] EXCEPT !.hit = TRUE] \in FrameT
            /\ Alike([Here[i] EXCEPT !.hit = TRUE], Here[i])
        BY <3>1, <4>2, Marked
      <4>4. Alike([Here[i] EXCEPT !.hit = TRUE], stack[i])
        BY <3>1, <4>3 DEF Alike
      <4> QED
        BY <3>2, <4>3, <4>4
    <3>3. CASE i \notin out
      BY <3>1, <3>3
    <3> QED
      BY <3>2, <3>3
  <2>2. kl \in [1..Len(stack) -> FrameT]
    BY <2>1
  <2>3. kl \in Seq(FrameT) /\ Len(kl) = Len(stack)
    BY <1>2, <2>2
  <2> QED
    BY <2>1, <2>3
<1>6. sf \in StmtT /\ sf.neg = FALSE /\ sf.noErr = Me.noErr
  BY <1>3 DEF StmtFrame, StmtT, RunnerT
<1>7. r.exit.erred = {} /\ ByOwn(r.exit, Len(shells))
  BY <1>4, ZeroFresh DEF Fresh
<1>8. r.noErr = (Me.noErr \/ FALSE)
  BY <1>3, <1>4 DEF RunnerT
<1> HIDE DEF r, kl, sf
<1>9. Ok(x, m, Append(Others, r), Append(kl, sf))
  BY <1>1, <1>4, <1>5, <1>6, <1>7, <1>8, Begins
<1> QED
  BY <1>1, <1>9

\* The frames as they are made.
LEMMA Framed ==
    ASSUME NEW at, NEW b \in BOOLEAN, NEW v
    PROVE  /\ Frame(at, b, v).at = at /\ Frame(at, b, v).saved = v /\ ~Frame(at, b, v).ending
           /\ Frame(at, b, v).single = b
           /\ [Frame(at, b, v) EXCEPT !.ending = TRUE].at = at
           /\ [Frame(at, b, v) EXCEPT !.ending = TRUE].saved = v
           /\ [Frame(at, b, v) EXCEPT !.ending = TRUE].ending
           /\ [Frame(at, b, v) EXCEPT !.ran = TRUE].at = at
           /\ [Frame(at, b, v) EXCEPT !.ran = TRUE].saved = v
           /\ ~[Frame(at, b, v) EXCEPT !.ran = TRUE].ending
  BY DEF Frame

\* The frame of a list has its type, marked or not.
LEMMA FrameTyped ==
    ASSUME NEW A, NEW at \in A, NEW S, NEW b \in BOOLEAN, NEW v \in S
    PROVE  /\ Frame(at, b, v) \in ListT(A, S)
           /\ [Frame(at, b, v) EXCEPT !.ending = TRUE] \in ListT(A, S)
           /\ [Frame(at, b, v) EXCEPT !.ran = TRUE] \in ListT(A, S)
  BY DEF Frame, ListT

\* The frames that the actions push have the types of frames.
LEMMA Lists ==
    ASSUME NEW b \in BOOLEAN
    PROVE  /\ \A at \in {"top", "block", "right", "sub", "bg", "stageL"} : Frame(at, b, 0) \in FrameT
           /\ \A at \in {"cond", "whileCond", "for", "while"}, v \in BOOLEAN :
                 /\ Frame(at, b, v) \in FrameT
                 /\ [Frame(at, b, v) EXCEPT !.ending = TRUE] \in FrameT
           /\ \A v \in [noErr: BOOLEAN, op: {"and", "or"}] : Frame("left", b, v) \in FrameT
           /\ \A v \in [inFunc: BOOLEAN, errFired: BOOLEAN] :
                 [Frame("func", b, v) EXCEPT !.ran = TRUE] \in FrameT
           /\ \A v \in ActionSaved : Frame("action", b, v) \in FrameT
           /\ \A at \in {"stageR", "lastStage"}, v \in Status : Frame(at, b, v) \in FrameT
<1>1. 0 \in {0}
  OBVIOUS
<1>2. \A at \in {"top", "block", "right", "sub", "bg", "stageL"} : Frame(at, b, 0) \in FrameT
  <2>1. \A at \in {"top", "block", "right", "sub", "bg", "stageL"} :
           Frame(at, b, 0) \in ListT({"top", "block", "right", "sub", "bg", "stageL"}, {0})
    BY <1>1, FrameTyped
  <2> QED
    BY <2>1, Zenon DEF FrameT
<1>3. \A at \in {"cond", "whileCond", "for", "while"}, v \in BOOLEAN :
         /\ Frame(at, b, v) \in FrameT
         /\ [Frame(at, b, v) EXCEPT !.ending = TRUE] \in FrameT
  <2>1. \A at \in {"cond", "whileCond", "for", "while"}, v \in BOOLEAN :
           /\ Frame(at, b, v) \in ListT({"cond", "whileCond", "for", "while"}, BOOLEAN)
           /\ [Frame(at, b, v) EXCEPT !.ending = TRUE]
                 \in ListT({"cond", "whileCond", "for", "while"}, BOOLEAN)
    BY FrameTyped
  <2> QED
    BY <2>1, Zenon DEF FrameT
<1>4. \A v \in [noErr: BOOLEAN, op: {"and", "or"}] : Frame("left", b, v) \in FrameT
  <2>1. \A v \in [noErr: BOOLEAN, op: {"and", "or"}] :
           Frame("left", b, v) \in ListT({"left"}, [noErr: BOOLEAN, op: {"and", "or"}])
    BY FrameTyped
  <2> QED
    BY <2>1, Zenon DEF FrameT
<1>5. \A v \in [inFunc: BOOLEAN, errFired: BOOLEAN] :
         [Frame("func", b, v) EXCEPT !.ran = TRUE] \in FrameT
  <2>1. \A v \in [inFunc: BOOLEAN, errFired: BOOLEAN] :
           [Frame("func", b, v) EXCEPT !.ran = TRUE]
              \in ListT({"func"}, [inFunc: BOOLEAN, errFired: BOOLEAN])
    BY FrameTyped
  <2> QED
    BY <2>1, Zenon DEF FrameT
<1>6. \A v \in ActionSaved : Frame("action", b, v) \in FrameT
  <2>1. \A v \in ActionSaved : Frame("action", b, v) \in ListT({"action"}, ActionSaved)
    BY FrameTyped
  <2> QED
    BY <2>1, Zenon DEF FrameT
<1>7. \A at \in {"stageR", "lastStage"}, v \in Status : Frame(at, b, v) \in FrameT
  <2>1. \A at \in {"stageR", "lastStage"}, v \in Status :
           Frame(at, b, v) \in ListT({"stageR", "lastStage"}, Status)
    BY FrameTyped
  <2> QED
    BY <2>1, Zenon DEF FrameT
<1> QED
  BY <1>2, <1>3, <1>4, <1>5, <1>6, <1>7

\* A shell whose flags of the run are the same carries on.
Goes(o, r) ==
    /\ r.running = o.running /\ r.fired = o.fired /\ r.exits = o.exits
    /\ r.exit = o.exit /\ r.last = o.last /\ r.asked = o.asked

\* A shell that goes on carries everything, if the ERR trap stays fired for its level.
LEMMA Carrying ==
    ASSUME NEW x, NEW m, NEW ss, NEW ks, Ok(x, m, ss, ks), NEW r, Goes(Last(ss), r),
           r.level = Last(ss).level /\ Last(ss).errFired => r.errFired \/ r.exit.erred = {}
    PROVE  Carries(x, Last(ss), r, Len(ss))
<1>1. /\ ShellOK(x, m, Last(ss), Context(ks, Len(ks)), ks[1], Len(ks))
      /\ Context(ks, Len(ks)).shell = Len(ss)
  BY Place
<1>2. ByOwn(Last(ss).exit, Len(ss)) /\ (Len(ss) = 1 => ByOwn(Last(ss).last, 1))
  BY <1>1 DEF ShellOK, ShellFits
<1> QED
  BY <1>2 DEF Carries, Goes

\* A frame begins on top of a stack whose top is known.
LEMMA OpenOn ==
    ASSUME NEW x, NEW m, NEW so \in Seq(RunnerT), NEW o \in RunnerT, NEW kb \in Seq(FrameT),
           NEW g \in FrameT, Ok(x, m, Append(so, o), Append(kb, g)), g.at # "top",
           NEW r \in RunnerT, NEW f \in FrameT, Plain(f), Saves(f, o),
           f.at = "whileCond" => g.at = "while" /\ g.ending,
           Opens(f, o, r), Goes(o, r), f.at = "func" => r.exit.erred = {},
           r.level = o.level /\ o.errFired => r.errFired \/ r.exit.erred = {}
    PROVE  Ok(x, m, Append(so, r), Append(Append(kb, g), f))
<1> DEFINE ss == Append(so, o)
<1> DEFINE ks == Append(kb, g)
<1>1. Front(ss) = so /\ Last(ss) = o /\ Last(ks) = g
  BY FrontLast
<1>2. Ok(x, m, ss, ks)
  OBVIOUS
<1> HIDE DEF ss, ks
<1>3. Carries(x, Last(ss), r, Len(ss))
  BY <1>1, <1>2, Carrying
<1>4. Ok(x, m, Append(Front(ss), r), Append(ks, f))
  BY <1>1, <1>2, <1>3, Open
<1> QED
  BY <1>1, <1>4 DEF ks

-----------------------------------------------------------------------------
\* A compound command's own frame, on which its parts run.
LEMMA Inside ==
    ASSUME NEW x, NEW m, Ok(x, m, shells, stack), AtStmt, ~Stop(Me),
           NEW neg \in BOOLEAN, NEW ao \in BOOLEAN,
           NEW r, r = [Begun EXCEPT !.noErr = @ \/ neg], NEW sf, sf = StmtFrame(neg, ao, Me.noErr)
    PROVE  /\ Ok(x, m, Append(Others, r), Append(Here, sf))
           /\ Others \in Seq(RunnerT) /\ r \in RunnerT /\ Here \in Seq(FrameT) /\ sf \in FrameT
           /\ sf.at = "stmt" /\ r.exit = Zero /\ r.errFired = FALSE /\ r.level = Me.level
           /\ Len(Here) = Len(stack)
<1>1. AtStmt /\ ~Stop(Me) /\ Top.at # "stmt"
  BY DEF AtStmt
<1>2. /\ Here \in Seq(FrameT) /\ Len(Here) = Len(stack)
      /\ \A i \in 1..Len(stack) : Alike(Here[i], stack[i])
  BY <1>1, Heres
<1>3. /\ Me \in RunnerT /\ r \in RunnerT
      /\ r.exit = Zero /\ r.noErr = (Me.noErr \/ neg) /\ r.inLoop = Me.inLoop
      /\ r.level = Me.level /\ r.running = Me.running /\ r.fired = Me.fired
      /\ r.exits = Me.exits /\ r.last = Me.last /\ r.asked = Me.asked /\ r.errFired = FALSE
  BY Beginning
<1>4. sf \in StmtT /\ sf.neg = neg /\ sf.noErr = Me.noErr /\ sf.at = "stmt"
  BY <1>3 DEF StmtFrame, StmtT, RunnerT
<1>5. r.exit.erred = {} /\ ByOwn(r.exit, Len(shells))
  BY <1>3, ZeroFresh DEF Fresh
<1>6. Ok(x, m, Append(Others, r), Append(Here, sf))
  BY <1>1, <1>2, <1>3, <1>4, <1>5, Begins
<1>7. sf \in FrameT
  BY <1>4 DEF FrameT
<1>8. Others \in Seq(RunnerT)
  BY Place DEF Others
<1> QED
  BY <1>2, <1>3, <1>4, <1>6, <1>7, <1>8

\* A block's list, a condition, a left operand and a loop, in the shell it begins in.
LEMMA BlockBegins ==
    ASSUME NEW x, NEW m, NEW so \in Seq(RunnerT), NEW o \in RunnerT, NEW kb \in Seq(FrameT),
           NEW g \in FrameT, Ok(x, m, Append(so, o), Append(kb, g)), g.at # "top",
           NEW at \in {"block", "right"}, NEW b \in BOOLEAN
    PROVE  Ok(x, m, Append(so, o), Append(Append(kb, g), Frame(at, b, 0)))
<1> DEFINE f == Frame(at, b, 0)
<1>1. f.at = at /\ f \in FrameT
  BY Framed, Lists
<1> HIDE DEF f
<1>2. Plain(f) /\ Saves(f, o) /\ f.at # "whileCond" /\ f.at # "func" /\ ~Tests(f) /\ ~InRound(f)
  BY <1>1 DEF Plain, Shells, Saves, Tests, InRound, Conditions
<1>3. o.noErr \in BOOLEAN /\ o.inLoop \in BOOLEAN /\ o.level \in Nat
  BY DEF RunnerT
<1>4. Opens(f, o, o)
  BY <1>2, <1>3 DEF Opens
<1>5. Goes(o, o)
  BY DEF Goes
<1>6. Ok(x, m, Append(so, o), Append(Append(kb, g), f))
  BY <1>1, <1>2, <1>4, <1>5, OpenOn
<1> QED
  BY <1>6 DEF f

\* To set noErr changes nothing else of a shell.
LEMMA Noting ==
    ASSUME NEW o \in RunnerT, NEW b \in BOOLEAN
    PROVE  /\ [o EXCEPT !.noErr = b] \in RunnerT /\ Goes(o, [o EXCEPT !.noErr = b])
           /\ [o EXCEPT !.noErr = b].noErr = b /\ [o EXCEPT !.noErr = b].inLoop = o.inLoop
           /\ [o EXCEPT !.noErr = b].level = o.level
           /\ [o EXCEPT !.noErr = b].errFired = o.errFired
           /\ o.inLoop \in BOOLEAN /\ o.noErr \in BOOLEAN /\ o.level \in Nat
<1>1. o.inLoop \in BOOLEAN /\ o.noErr \in BOOLEAN /\ o.level \in Nat
  BY DEF RunnerT
<1>2. [o EXCEPT !.noErr = b] \in RunnerT
  BY DEF RunnerT
<1>3. /\ Goes(o, [o EXCEPT !.noErr = b])
      /\ [o EXCEPT !.noErr = b].inLoop = o.inLoop /\ [o EXCEPT !.noErr = b].level = o.level
      /\ [o EXCEPT !.noErr = b].errFired = o.errFired
  BY DEF RunnerT, Goes
<1>4. [o EXCEPT !.noErr = b].noErr = b
  BY DEF RunnerT
<1> QED
  BY <1>1, <1>2, <1>3, <1>4

\* A condition or a left operand begins on any frame: noErr is saved and set
\* (ifClause, whileClause, binaryCmd).
LEMMA TestBegins ==
    ASSUME NEW x, NEW m, NEW so \in Seq(RunnerT), NEW o \in RunnerT, NEW kb \in Seq(FrameT),
           NEW g \in FrameT, Ok(x, m, Append(so, o), Append(kb, g)), g.at # "top",
           NEW f \in FrameT, f.at \in Conditions,
           f.at \in {"cond", "whileCond"} => f.saved = o.noErr,
           f.at = "left" => f.saved.noErr = o.noErr,
           f.at = "whileCond" => g.at = "while" /\ g.ending
    PROVE  Ok(x, m, Append(so, [o EXCEPT !.noErr = TRUE]), Append(Append(kb, g), f))
<1> DEFINE r == [o EXCEPT !.noErr = TRUE]
<1>0. /\ o.inLoop \in BOOLEAN /\ o.noErr \in BOOLEAN /\ o.level \in Nat /\ r \in RunnerT
      /\ Goes(o, r) /\ r.noErr = TRUE /\ r.inLoop = o.inLoop
      /\ r.level = o.level /\ r.errFired = o.errFired
  BY Noting
<1> HIDE DEF r
<1>2. Plain(f) /\ Saves(f, o) /\ f.at # "func" /\ Tests(f) /\ ~InRound(f)
  BY DEF Plain, Shells, Saves, Tests, InRound, Conditions
<1>5. /\ (o.noErr \/ Tests(f)) = TRUE /\ (o.inLoop \/ InRound(f)) = o.inLoop
      /\ o.level + (IF f.at = "func" THEN 1 ELSE 0) = o.level
  BY <1>0, <1>2
<1>3. Opens(f, o, r)
  BY <1>0, <1>5 DEF Opens
<1>6. Ok(x, m, Append(so, r), Append(Append(kb, g), f))
  BY <1>0, <1>2, <1>3, OpenOn
<1> QED
  BY <1>6 DEF r

\* A loop begins on any frame, or goes on in a round: inLoop is saved and set.
LEMMA LoopBegins ==
    ASSUME NEW x, NEW m, NEW so \in Seq(RunnerT), NEW o \in RunnerT, NEW kb \in Seq(FrameT),
           NEW g \in FrameT, Ok(x, m, Append(so, o), Append(kb, g)), g.at # "top",
           NEW f \in FrameT, f.at \in {"for", "while"}, f.saved = o.inLoop,
           NEW r \in RunnerT, Goes(o, r), r.noErr = o.noErr, r.level = o.level,
           r.errFired = o.errFired, r.inLoop = (o.inLoop \/ ~f.ending)
    PROVE  Ok(x, m, Append(so, r), Append(Append(kb, g), f))
<1>1. o.noErr \in BOOLEAN /\ o.level \in Nat
  BY DEF RunnerT
<1>2. Plain(f) /\ Saves(f, o) /\ f.at # "whileCond" /\ f.at # "func" /\ ~Tests(f)
  BY DEF Plain, Shells, Saves, Tests, Conditions
<1>3. InRound(f) = ~f.ending
  BY DEF InRound
<1>5. r.noErr = (o.noErr \/ Tests(f))
  BY <1>1, <1>2
<1>6. r.inLoop = (o.inLoop \/ InRound(f))
  BY <1>3
<1>7. r.level = o.level + (IF f.at = "func" THEN 1 ELSE 0)
  BY <1>1, <1>2
<1>4. Opens(f, o, r)
  BY <1>5, <1>6, <1>7 DEF Opens
<1> QED
  BY <1>2, <1>4, OpenOn

\* A call: the function's frame, and the body that is its only statement.
LEMMA CallBegins ==
    ASSUME NEW x, NEW m, NEW so \in Seq(RunnerT), NEW o \in RunnerT, NEW kb \in Seq(FrameT),
           NEW g \in FrameT, Ok(x, m, Append(so, o), Append(kb, g)), g.at # "top",
           o.exit = Zero, o.level + 1 \in 0..MaxDepth
    PROVE  LET r == [o EXCEPT !.inFunc = TRUE, !.errFired = FALSE, !.level = @ + 1]
               f == Frame("func", TRUE, [inFunc |-> o.inFunc, errFired |-> o.errFired])
           IN  Ok(x, m, Append(so, r),
                  Append(Append(Append(Append(kb, g), [f EXCEPT !.ran = TRUE]),
                                StmtFrame(FALSE, FALSE, o.noErr)), Frame("block", FALSE, 0)))
<1> DEFINE r == [o EXCEPT !.inFunc = TRUE, !.errFired = FALSE, !.level = @ + 1]
<1> DEFINE s == [inFunc |-> o.inFunc, errFired |-> o.errFired]
<1> DEFINE f == [Frame("func", TRUE, s) EXCEPT !.ran = TRUE]
<1> DEFINE sf == StmtFrame(FALSE, FALSE, o.noErr)
<1>1. o.noErr \in BOOLEAN /\ o.inLoop \in BOOLEAN /\ o.level \in Nat
  BY DEF RunnerT
<1>2. r \in RunnerT
  BY DEF RunnerT
<1>3. /\ Goes(o, r) /\ r.noErr = o.noErr /\ r.inLoop = o.inLoop /\ r.level = o.level + 1
  BY <1>1 DEF RunnerT, Goes
<1>4. r.exit.erred = {}
  <2>1. r.exit = Zero
    BY <1>3 DEF Goes
  <2> HIDE DEF r
  <2> QED
    BY <2>1, ZeroFresh DEF Fresh
<1>5. s \in [inFunc: BOOLEAN, errFired: BOOLEAN]
  BY DEF RunnerT
<1> HIDE DEF s, r
<1>6. f \in FrameT /\ f.at = "func"
  <2>1. TRUE \in BOOLEAN
    OBVIOUS
  <2>2. f \in FrameT
    BY <1>5, <2>1, Lists
  <2>3. f.at = "func"
    BY DEF Frame
  <2> QED
    BY <2>2, <2>3
<1>7. sf \in FrameT /\ sf.at = "stmt" /\ sf.neg = FALSE /\ sf.noErr = o.noErr
  <2>1. sf \in StmtT /\ sf.at = "stmt" /\ sf.neg = FALSE /\ sf.noErr = o.noErr
    BY <1>1 DEF StmtFrame, StmtT
  <2> QED
    BY <2>1 DEF FrameT
<1> HIDE DEF f, sf
<1>8. Ok(x, m, Append(so, r), Append(Append(kb, g), f))
  <2>1. Plain(f) /\ Saves(f, o) /\ f.at # "whileCond" /\ ~Tests(f) /\ ~InRound(f)
    BY <1>6 DEF Plain, Shells, Saves, Tests, InRound, Conditions
  <2>2. Opens(f, o, r)
    BY <1>1, <1>3, <1>6, <2>1 DEF Opens
  <2> QED
    BY <1>2, <1>3, <1>4, <1>6, <2>1, <2>2, OpenOn
<1>9. Append(kb, g) \in Seq(FrameT) /\ f.at # "top"
  BY <1>6
<1>10. Ok(x, m, Append(so, r), Append(Append(Append(kb, g), f), sf))
  <2>1. Plain(sf) /\ sf.at # "whileCond" /\ sf.at # "func" /\ ~Tests(sf) /\ ~InRound(sf)
    BY <1>7 DEF Plain, Shells, Tests, InRound, Conditions
  <2>2. Saves(sf, r)
    BY <1>3, <1>7 DEF Saves
  <2>3. r.noErr \in BOOLEAN /\ r.inLoop \in BOOLEAN /\ r.level \in Nat
    BY <1>2 DEF RunnerT
  <2>4. Opens(sf, r, r)
    BY <2>1, <2>3 DEF Opens
  <2>5. Goes(r, r)
    BY DEF Goes
  <2> QED
    BY <1>2, <1>4, <1>6, <1>7, <1>8, <1>9, <2>1, <2>2, <2>4, <2>5, OpenOn
<1>11. Append(Append(kb, g), f) \in Seq(FrameT) /\ sf.at # "top"
  BY <1>6, <1>7, <1>9
<1>12. Ok(x, m, Append(so, r),
          Append(Append(Append(Append(kb, g), f), sf), Frame("block", FALSE, 0)))
  BY <1>2, <1>7, <1>10, <1>11, BlockBegins
<1> QED
  BY <1>12 DEF r, f, s, sf

\* A fork: the subshell begins with the status of the shell around it.
LEMMA ForkBegins ==
    ASSUME NEW x, NEW m, NEW so \in Seq(RunnerT), NEW o \in RunnerT, NEW kb \in Seq(FrameT),
           NEW g \in FrameT, Ok(x, m, Append(so, o), Append(kb, g)), g.at # "top",
           NEW f \in FrameT, f.at \in Shells, ~f.ending,
           f.at = "stageR" => f.saved.flow = {} /\ From(o.level + 1, f.saved),
           o.exit.flow = {}, o.exit.erred = {}, o.level + 1 \in 0..MaxDepth,
           Len(so) + 2 <= MaxDepth
    PROVE  Ok(x, m, Append(Append(so, o), Subshell(o)), Append(Append(kb, g), f))
<1> DEFINE ss == Append(so, o)
<1> DEFINE ks == Append(kb, g)
<1> DEFINE sub == Subshell(o)
<1> DEFINE c == Context(ks, Len(ks))
<1> DEFINE d == After(c, f)
<1>1. Front(ss) = so /\ Last(ss) = o /\ Last(ks) = g
  BY FrontLast
<1>2. Ok(x, m, ss, ks)
  OBVIOUS
<1>3. Len(Append(Append(so, o), sub)) <= MaxDepth
  <2>1. Append(so, o) \in Seq(RunnerT) /\ Len(Append(so, o)) = Len(so) + 1
    BY Appended
  <2>2. Len(Append(Append(so, o), sub)) = Len(so) + 2
    BY <2>1
  <2> QED
    BY <2>2
<1>4. ks \in Seq(FrameT)
  OBVIOUS
<1>5. /\ sub.exit = o.exit /\ sub.noErr = FALSE /\ sub.inLoop = FALSE /\ sub.fired = FALSE
      /\ sub.level = o.level + 1 /\ sub.running = o.running /\ sub.exits = 0
      /\ sub.asked = FALSE /\ sub \in RunnerT
  <2>1. Zero \in Status
    BY ZeroFresh
  <2>2. Runner \in RunnerT
    BY <2>1, ScenariosAssumption DEF Runner, RunnerT
  <2>3. (o.errTrap /\ "errtrace" \in opts) \in BOOLEAN
    OBVIOUS
  <2>4. sub \in RunnerT
    BY <2>2, <2>3 DEF Subshell, RunnerT
  <2>5. /\ sub.exit = o.exit /\ sub.noErr = FALSE /\ sub.inLoop = FALSE /\ sub.fired = FALSE
        /\ sub.level = o.level + 1 /\ sub.running = o.running /\ sub.exits = 0
        /\ sub.asked = FALSE
    BY DEF Subshell, Runner
  <2> QED
    BY <2>4, <2>5
<1> HIDE DEF sub, ss, ks
<1>6. /\ c \in ContextT /\ ShellOK(x, m, o, c, ks[1], Len(ks))
      /\ Len(ks) \in Nat /\ Len(ks) > 0
  BY <1>1, <1>2, Place
<1>7. o.noErr = c.test /\ o.inLoop = c.loop /\ o.level = c.level /\ o.running = c.kinds
  BY <1>6 DEF ShellOK, ShellFits
<1>8. FrameFits(f, c)
  <2>1. /\ f.at # "top" /\ f.at # "stmt" /\ f.at # "cond" /\ f.at # "whileCond" /\ f.at # "left"
        /\ f.at # "for" /\ f.at # "while" /\ f.at # "action" /\ f.at # "lastStage"
    BY DEF Shells
  <2>2. f.at = "stageR" => f.saved.flow = {} /\ From(c.level + 1, f.saved)
    BY <1>7
  <2> HIDE DEF c
  <2> QED
    BY <2>1, <2>2 DEF FrameFits
<1>9. ForkOK(f, sub)
  BY DEF ForkOK
<1>10. /\ d.shell > 1 /\ d.level = o.level + 1 /\ d.test = FALSE /\ d.loop = FALSE
       /\ d.kinds = o.running
  <2>1. f.at \in Deeper /\ ~Tests(f) /\ ~InRound(f) /\ f.at # "action"
    BY DEF Deeper, Shells, Tests, InRound, Conditions
  <2>2. /\ d.shell = c.shell + 1 /\ d.level = c.level + 1 /\ d.test = FALSE /\ d.loop = FALSE
        /\ d.kinds = c.kinds
    BY <1>6, <2>1 DEF After, ContextT
  <2>3. c.shell \in Nat \ {0}
    BY <1>6 DEF ContextT
  <2> HIDE DEF c, d
  <2>4. d.shell > 1
    BY <2>2, <2>3
  <2> QED
    BY <1>7, <2>2, <2>4
<1> HIDE DEF c, d
<1>11. ShellOK(x, m, sub, d, ks[1], Len(ks) + 1)
  <2>1. ShellFits(sub, d)
    <3>1. sub.exit.flow = {} /\ sub.exit.erred = {}
      BY <1>5
    <3>2. ByOwn(sub.exit, d.shell) /\ From(d.level, sub.exit)
      BY <3>1 DEF ByOwn, From
    <3>3. d.shell # 1
      BY <1>10
    <3> QED
      BY <1>5, <1>10, <3>2, <3>3 DEF ShellFits
  <2>2. ShellKeeps(x, m, sub, d, ks[1], Len(ks) + 1)
    BY <1>5 DEF ShellKeeps
  <2>3. ShellLeaves(x, m, sub, d, ks[1], Len(ks) + 1)
    BY <1>5 DEF ShellLeaves, Bound
  <2>4. ShellTraps(x, m, sub, d, ks[1], Len(ks) + 1)
    BY <1>5, <1>10 DEF ShellTraps
  <2> QED
    BY <2>1, <2>2, <2>3, <2>4 DEF ShellOK
<1>12. Heeds(x, m, Last(ss), o, c)
  BY <1>1, HeedsSelf
<1>13. \A i \in 1..Len(ks) : Alike(ks[i], ks[i])
  BY AlikeSelf
<1>14. Len(Append(Append(Front(ss), o), sub)) <= MaxDepth
  BY <1>1, <1>3
<1>15. Ok(x, m, Append(Append(Front(ss), o), sub), Append(ks, f))
  BY <1>1, <1>2, <1>4, <1>5, <1>6, <1>8, <1>9, <1>11, <1>12, <1>13, <1>14, Fork DEF c, d
<1> QED
  BY <1>1, <1>15 DEF ks, sub

\* To change the last element of a sequence to which one was appended.
LEMMA LastChanged ==
    ASSUME NEW S, NEW s \in Seq(S), NEW g \in S, NEW h \in S
    PROVE  /\ [Append(s, g) EXCEPT ![Len(s) + 1] = h] = Append(s, h)
           /\ Append(s, g)[Len(s) + 1] = g
<1>1. /\ Append(s, g) \in Seq(S) /\ Len(Append(s, g)) = Len(s) + 1 /\ Len(Append(s, g)) > 0
      /\ Append(s, g)[Len(s) + 1] = g
  BY Appended
<1>2. Front(Append(s, g)) = s
  BY FrontLast
<1>3. [Append(s, g) EXCEPT ![Len(Append(s, g))] = h] = Append(Front(Append(s, g)), h)
  BY <1>1, Replaced, ZenonT(30)
<1> QED
  BY <1>1, <1>2, <1>3

\* Every compound command, call, subshell, pipeline and background job begins right.
LEMMA CompoundKept ==
    ASSUME NEW x, NEW m, Ok(x, m, shells, stack), NEW st, NEW neg \in BOOLEAN, Compound(st, neg)
    PROVE  Ok(x, m, shells', stack')
<1> DEFINE r == [Begun EXCEPT !.noErr = @ \/ neg]
<1> DEFINE ao == st \in {"and", "or"}
<1> DEFINE sf == StmtFrame(neg, ao, Me.noErr)
<1> DEFINE inside == Append(Here, sf)
<1> DEFINE list(at, single, saved) == Append(inside, Frame(at, single, saved))
<1> DEFINE forked(at, single) == /\ shells' = Others \o <<r, Subshell(r)>>
                                 /\ stack' = list(at, single, 0)
<1> DEFINE call == [list("func", TRUE, [inFunc |-> r.inFunc, errFired |-> r.errFired])
                       EXCEPT ![Len(stack) + 2].ran = TRUE]
                   \o <<StmtFrame(FALSE, FALSE, r.noErr), Frame("block", FALSE, 0)>>
<1>1. AtStmt /\ ~Stop(Me) /\ Len(stack) < MaxDepth
  BY DEF Compound, Begin
<1>2. ao \in BOOLEAN
  OBVIOUS
<1>3. \/ Goto(r, list("block", FALSE, 0))
      \/ Goto([r EXCEPT !.noErr = TRUE], list("cond", FALSE, r.noErr))
      \/ /\ st \in {"and", "or"}
         /\ Goto([r EXCEPT !.noErr = TRUE], list("left", TRUE, [noErr |-> r.noErr, op |-> st]))
      \/ /\ st \in {"for", "while"}
         /\ Goto(r, Append(inside, [Frame(st, FALSE, r.inLoop) EXCEPT !.ending = TRUE]))
      \/ forked("sub", FALSE) \/ forked("stageL", TRUE) \/ forked("bg", TRUE)
      \/ Goto([r EXCEPT !.inFunc = TRUE, !.errFired = FALSE, !.level = @ + 1], call)
  BY DEF Compound
<1>21. r = [Begun EXCEPT !.noErr = @ \/ neg] /\ sf = StmtFrame(neg, ao, Me.noErr)
  OBVIOUS
<1> HIDE DEF r, sf, ao
<1>4. /\ Ok(x, m, Append(Others, r), inside)
      /\ Others \in Seq(RunnerT) /\ r \in RunnerT /\ Here \in Seq(FrameT) /\ sf \in FrameT
      /\ sf.at = "stmt" /\ sf.at # "top" /\ r.exit = Zero /\ r.errFired = FALSE /\ r.level = Me.level
      /\ Len(Here) = Len(stack)
  BY <1>1, <1>2, <1>21, Inside, ZenonT(30)
<1>5. r.noErr \in BOOLEAN /\ r.inLoop \in BOOLEAN /\ r.inFunc \in BOOLEAN /\ r.level \in Nat
  BY <1>4 DEF RunnerT
<1>6. r.level + 1 \in 0..MaxDepth /\ Len(Others) + 2 <= MaxDepth
  <2>1. /\ ShellOK(x, m, Me, Context(stack, Len(stack)), stack[1], Len(stack))
        /\ Len(stack) \in Nat /\ Len(shells) \in Nat /\ Len(shells) <= Len(stack)
        /\ Len(Others) = Len(shells) - 1
    BY Place DEF Me, Others
  <2>2. Me.level = Level(stack, Len(stack))
    BY <2>1 DEF ShellOK, ShellFits, Context
  <2>3. Level(stack, Len(stack)) \in Nat /\ Level(stack, Len(stack)) <= Len(stack)
    BY <2>1, LevelStep
  <2>4. MaxDepth \in Nat
    BY ScenariosAssumption
  <2> QED
    BY <1>1, <1>4, <2>1, <2>2, <2>3, <2>4
<1>7. r.exit.flow = {} /\ r.exit.erred = {}
  BY <1>4 DEF Zero
<1>20. FALSE \in BOOLEAN /\ TRUE \in BOOLEAN
  OBVIOUS
<1> HIDE DEF inside
<1>8. CASE Goto(r, list("block", FALSE, 0))
  <2>1. Ok(x, m, Append(Others, r), Append(Append(Here, sf), Frame("block", FALSE, 0)))
    BY <1>4, <1>20, BlockBegins DEF inside
  <2> QED
    BY <1>8, <2>1 DEF Goto, inside
<1>9. CASE Goto([r EXCEPT !.noErr = TRUE], list("cond", FALSE, r.noErr))
  <2>1. Frame("cond", FALSE, r.noErr) \in FrameT
    BY <1>5, <1>20, Lists
  <2>2. Frame("cond", FALSE, r.noErr).at = "cond" /\ Frame("cond", FALSE, r.noErr).saved = r.noErr
    BY DEF Frame
  <2> DEFINE f == Frame("cond", FALSE, r.noErr)
  <2> HIDE DEF f
  <2>3. Ok(x, m, Append(Others, [r EXCEPT !.noErr = TRUE]), Append(Append(Here, sf), f))
    BY <1>4, <2>1, <2>2, TestBegins DEF inside, Conditions, f
  <2> QED
    BY <1>9, <2>3 DEF Goto, inside, f
<1>10. CASE /\ st \in {"and", "or"}
            /\ Goto([r EXCEPT !.noErr = TRUE], list("left", TRUE, [noErr |-> r.noErr, op |-> st]))
  <2> DEFINE v == [noErr |-> r.noErr, op |-> st]
  <2>0. v \in [noErr: BOOLEAN, op: {"and", "or"}] /\ v.noErr = r.noErr
    BY <1>5, <1>10
  <2> HIDE DEF v
  <2> DEFINE f == Frame("left", TRUE, v)
  <2>1. f \in FrameT
    BY <2>0, <1>20, Lists
  <2>2. f.at = "left" /\ f.saved.noErr = r.noErr
    BY <2>0 DEF Frame
  <2> HIDE DEF f
  <2>3. Ok(x, m, Append(Others, [r EXCEPT !.noErr = TRUE]), Append(Append(Here, sf), f))
    BY <1>4, <2>1, <2>2, TestBegins DEF inside, Conditions
  <2> QED
    BY <1>10, <2>3 DEF Goto, inside, f, v
<1>11. CASE /\ st \in {"for", "while"}
            /\ Goto(r, Append(inside, [Frame(st, FALSE, r.inLoop) EXCEPT !.ending = TRUE]))
  <2> DEFINE f == [Frame(st, FALSE, r.inLoop) EXCEPT !.ending = TRUE]
  <2>1. f \in FrameT
    BY <1>5, <1>11, <1>20, Lists
  <2>2. f.at = st /\ f.saved = r.inLoop /\ f.ending = TRUE
    BY DEF Frame
  <2> HIDE DEF f
  <2>3. Goes(r, r)
    BY DEF Goes
  <2>4. r.inLoop = (r.inLoop \/ ~f.ending)
    BY <1>5, <2>2
  <2>5. Ok(x, m, Append(Others, r), Append(Append(Here, sf), f))
    BY <1>4, <1>11, <2>1, <2>2, <2>3, <2>4, LoopBegins DEF inside
  <2> QED
    BY <1>11, <2>5 DEF Goto, inside, f
<1>12. ASSUME NEW at \in {"sub", "stageL", "bg"}, NEW b \in BOOLEAN, forked(at, b)
       PROVE  Ok(x, m, shells', stack')
  <2> DEFINE f == Frame(at, b, 0)
  <2>1. f \in FrameT
    BY Lists
  <2>2. f.at = at /\ ~f.ending
    BY DEF Frame
  <2>3. f.at \in Shells /\ f.at # "stageR"
    BY <2>2 DEF Shells
  <2> HIDE DEF f
  <2>4. Ok(x, m, Append(Append(Others, r), Subshell(r)), Append(Append(Here, sf), f))
    BY <1>4, <1>6, <1>7, <2>1, <2>2, <2>3, ForkBegins DEF inside
  <2>5. Others \o <<r, Subshell(r)>> = Append(Append(Others, r), Subshell(r))
    BY <1>4
  <2> QED
    BY <1>12, <2>4, <2>5 DEF inside, f
<1>13. CASE Goto([r EXCEPT !.inFunc = TRUE, !.errFired = FALSE, !.level = @ + 1], call)
  <2> DEFINE q == [r EXCEPT !.inFunc = TRUE, !.errFired = FALSE, !.level = @ + 1]
  <2> DEFINE g == Frame("func", TRUE, [inFunc |-> r.inFunc, errFired |-> r.errFired])
  <2> DEFINE a == StmtFrame(FALSE, FALSE, r.noErr)
  <2> DEFINE b == Frame("block", FALSE, 0)
  <2>1. Ok(x, m, Append(Others, q),
           Append(Append(Append(Append(Here, sf), [g EXCEPT !.ran = TRUE]), a), b))
    BY <1>4, <1>6, CallBegins DEF inside
  <2>2. inside \in Seq(FrameT) /\ Len(inside) = Len(stack) + 1
    BY <1>4 DEF inside
  <2>7. g \in FrameT /\ [g EXCEPT !.ran = TRUE] \in FrameT
    <3>1. [inFunc |-> r.inFunc, errFired |-> r.errFired] \in [inFunc: BOOLEAN, errFired: BOOLEAN]
      BY <1>4 DEF RunnerT
    <3>2. g \in ListT({"func"}, [inFunc: BOOLEAN, errFired: BOOLEAN])
          /\ [g EXCEPT !.ran = TRUE] \in ListT({"func"}, [inFunc: BOOLEAN, errFired: BOOLEAN])
      BY <1>20, <3>1, FrameTyped
    <3> QED
      BY <3>2, Zenon DEF FrameT
  <2> HIDE DEF q, g, a, b
  <2>6. Len(inside) \in Nat /\ Len(stack) + 2 = Len(inside) + 1
    <3>1. Len(stack) \in Nat
      BY Place
    <3> QED
      BY <2>2, <3>1
  <2>3. [Append(inside, g) EXCEPT ![Len(stack) + 2].ran = TRUE]
           = Append(inside, [g EXCEPT !.ran = TRUE])
    <3>1. g \in FrameT /\ [g EXCEPT !.ran = TRUE] \in FrameT
      BY <2>7
    <3> DEFINE h == [g EXCEPT !.ran = TRUE]
    <3>4. g \in FrameT /\ h \in FrameT
      BY <3>1
    <3> HIDE DEF h
    <3>5. /\ [Append(inside, g) EXCEPT ![Len(inside) + 1] = h] = Append(inside, h)
          /\ Append(inside, g)[Len(inside) + 1] = g
      BY <2>2, <3>4, LastChanged
    <3>2. /\ [Append(inside, g) EXCEPT ![Len(inside) + 1] = [g EXCEPT !.ran = TRUE]]
                = Append(inside, [g EXCEPT !.ran = TRUE])
          /\ Append(inside, g)[Len(inside) + 1] = g
      BY <3>5 DEF h
    <3>3. [Append(inside, g) EXCEPT ![Len(inside) + 1].ran = TRUE]
             = Append(inside, [g EXCEPT !.ran = TRUE])
      BY <3>2
    <3> QED
      BY <2>6, <3>3
  <2>4. call = Append(inside, [g EXCEPT !.ran = TRUE]) \o <<a, b>>
    BY <2>3 DEF g, a, b
  <2>5. Append(inside, [g EXCEPT !.ran = TRUE]) \o <<a, b>>
           = Append(Append(Append(inside, [g EXCEPT !.ran = TRUE]), a), b)
    BY <2>2
  <2> QED
    BY <1>13, <2>1, <2>4, <2>5 DEF Goto, inside, q
<1> QED
  BY <1>3, <1>8, <1>9, <1>10, <1>11, <1>12, <1>13, <1>20

-----------------------------------------------------------------------------
\* The top frame ends, in the shell that it began in.
LEMMA Whole ==
    ASSUME NEW S, NEW s \in Seq(S), Len(s) > 0
    PROVE  s = Append(Front(s), Last(s)) /\ Front(s) \in Seq(S) /\ Last(s) \in S
<1>1. Last(s) = s[Len(s)] /\ Last(s) \in S /\ Front(s) \in Seq(S)
  BY Ends
<1>2. [s EXCEPT ![Len(s)] = Last(s)] = Append(Front(s), Last(s))
  BY <1>1, Replaced
<1>3. [s EXCEPT ![Len(s)] = s[Len(s)]] = s
  OBVIOUS
<1> QED
  BY <1>1, <1>2, <1>3

\* A stack is its front with its top appended.
LEMMA Tall ==
    ASSUME NEW x, NEW m, NEW ss, NEW ks, Ok(x, m, ss, ks)
    PROVE  /\ ks = Append(Front(ks), Last(ks)) /\ Front(ks) \in Seq(FrameT) /\ Last(ks) \in FrameT
           /\ Last(ks).at # "top" /\ Last(ks).at # "stmt" /\ Last(ks).at # "action" =>
                 Last(Front(ks)).at # "top"
<1>1. ks \in Seq(FrameT) /\ Len(ks) > 0
  BY DEF Ok
<1> QED
  BY <1>1, Whole, Place

\* Close, for a current shell that the action names.
LEMMA CloseOn ==
    ASSUME NEW x, NEW m, NEW so \in Seq(RunnerT), NEW o \in RunnerT, NEW ks,
           Ok(x, m, Append(so, o), ks), Plain(Last(ks)),
           NEW r \in RunnerT, Closes(Last(ks), o, r), Carries(x, o, r, Len(Append(so, o)))
    PROVE  Ok(x, m, Append(so, r), Front(ks))
<1> DEFINE ss == Append(so, o)
<1>1. Front(ss) = so /\ Last(ss) = o
  BY FrontLast
<1>2. Ok(x, m, ss, ks)
  OBVIOUS
<1>3. Carries(x, o, r, Len(ss))
  OBVIOUS
<1> HIDE DEF ss
<1>4. Ok(x, m, Append(Front(ss), r), Front(ks))
  BY <1>1, <1>2, <1>3, Close
<1> QED
  BY <1>1, <1>4

\* Carrying, for a current shell that the action names.
LEMMA CarryingOn ==
    ASSUME NEW x, NEW m, NEW so \in Seq(RunnerT), NEW o \in RunnerT, NEW ks,
           Ok(x, m, Append(so, o), ks), NEW r, Goes(o, r),
           r.level = o.level /\ o.errFired => r.errFired \/ r.exit.erred = {}
    PROVE  Carries(x, o, r, Len(Append(so, o)))
<1>1. Last(Append(so, o)) = o
  BY FrontLast
<1> QED
  BY <1>1, Carrying

\* The current state in the form that the lemmas above take.
LEMMA Now ==
    ASSUME NEW x, NEW m, Ok(x, m, shells, stack)
    PROVE  /\ shells = Append(Others, Me) /\ Others \in Seq(RunnerT) /\ Me \in RunnerT
           /\ stack = Append(Below, Top) /\ Below \in Seq(FrameT) /\ Top \in FrameT
           /\ Ok(x, m, Append(Others, Me), stack)
           /\ Top = Last(stack) /\ Below = Front(stack)
<1>1. shells \in Seq(RunnerT) /\ Len(shells) > 0 /\ stack \in Seq(FrameT) /\ Len(stack) > 0
  BY DEF Ok
<1>2. shells = Append(Others, Me) /\ Others \in Seq(RunnerT) /\ Me \in RunnerT
  BY <1>1, Whole DEF Others, Me
<1>3. stack = Append(Below, Top) /\ Below \in Seq(FrameT) /\ Top \in FrameT
  BY <1>1, Whole DEF Below, Top
<1> QED
  BY <1>2, <1>3 DEF Top, Below

\* A frame that saves nothing ends.
LEMMA CloseSame ==
    ASSUME NEW x, NEW m, NEW so \in Seq(RunnerT), NEW o \in RunnerT, NEW ks,
           Ok(x, m, Append(so, o), ks),
           Last(ks).at \in {"block", "right", "lastStage"}
           \/ (Last(ks).at \in {"for", "while"} /\ Last(ks).ending)
    PROVE  Ok(x, m, Append(so, o), Front(ks)) /\ Last(Front(ks)).at # "top"
<1>1. Goes(o, o)
  BY DEF Goes
<1>2. Carries(x, o, o, Len(Append(so, o)))
  BY <1>1, CarryingOn
<1>3. Plain(Last(ks)) /\ Last(ks).at # "stmt" /\ Last(ks).at # "top" /\ Last(ks).at # "action"
  BY DEF Plain, Shells
<1>4. Closes(Last(ks), o, o)
  <2> DEFINE f == Last(ks)
  <2>1. /\ f.at # "stmt" /\ f.at # "cond" /\ f.at # "whileCond" /\ f.at # "left" /\ f.at # "func"
        /\ (f.at \in {"for", "while"} => f.ending)
    OBVIOUS
  <2> HIDE DEF f
  <2>2. Closes(f, o, o)
    BY <2>1 DEF Closes
  <2> QED
    BY <2>2 DEF f
<1>5. Ok(x, m, Append(so, o), Front(ks))
  BY <1>2, <1>3, <1>4, CloseOn
<1>6. Last(Front(ks)).at # "top"
  BY <1>3, Tall
<1> QED
  BY <1>5, <1>6

\* The end of a block, of a right operand and of a branch.
LEMMA EndBlockKept ==
    ASSUME NEW x, NEW m, Ok(x, m, shells, stack), EndBlock
    PROVE  Ok(x, m, shells', stack')
<1>1. /\ Others \in Seq(RunnerT) /\ Me \in RunnerT /\ Ok(x, m, Append(Others, Me), stack)
      /\ Top = Last(stack) /\ Below = Front(stack)
  BY Now
<1>2. Last(stack).at \in {"block", "right"}
  BY <1>1 DEF EndBlock
<1>3. Ok(x, m, Append(Others, Me), Below)
  BY <1>1, <1>2, CloseSame
<1>4. shells' = Append(Others, Me) /\ stack' = Below
  BY DEF EndBlock, Leave, Goto
<1> QED
  BY <1>3, <1>4

\* The end of a loop whose items have run out, or whose shell is to stop.
LEMMA EndLoopKept ==
    ASSUME NEW x, NEW m, Ok(x, m, shells, stack), EndLoop
    PROVE  Ok(x, m, shells', stack')
<1>1. /\ Others \in Seq(RunnerT) /\ Me \in RunnerT /\ Ok(x, m, Append(Others, Me), stack)
      /\ Top = Last(stack) /\ Below = Front(stack)
  BY Now
<1>2. Last(stack).at \in {"for", "while"} /\ Last(stack).ending
  BY <1>1 DEF EndLoop
<1>3. Ok(x, m, Append(Others, Me), Below)
  BY <1>1, <1>2, CloseSame
<1>4. shells' = Append(Others, Me) /\ stack' = Below
  BY DEF EndLoop, Leave, Goto
<1> QED
  BY <1>3, <1>4

\* A status that control flow outlives.
LEMMA Cleared ==
    ASSUME NEW e \in Status
    PROVE  /\ Clear(e) \in Status /\ Clear(e).erred \subseteq e.erred /\ Clear(e).flow = e.flow
           /\ \A i : ByOwn(e, i) => ByOwn(Clear(e), i)
<1>1. CASE e.flow = {} /\ ~e.fatal
  <2>1. Clear(e) = Zero
    BY <1>1 DEF Clear
  <2>2. Zero \in Status /\ Zero.erred = {} /\ Zero.flow = {}
    BY ZeroFresh DEF Fresh, Zero
  <2> QED
    BY <1>1, <2>1, <2>2 DEF ByOwn
<1>2. CASE ~(e.flow = {} /\ ~e.fatal)
  BY <1>2 DEF Clear
<1> QED
  BY <1>1, <1>2

\* What a condition leaves of the shell: its status, or that cleared.
Outcomes(o, v) == {Conditional(o, v), [Conditional(o, v) EXCEPT !.exit = Clear(@)]}

\* A condition or a left operand ends; of a condition that failed, the status is cleared.
LEMMA CloseTest ==
    ASSUME NEW x, NEW m, NEW so \in Seq(RunnerT), NEW o \in RunnerT, NEW ks,
           Ok(x, m, Append(so, o), ks), NEW v \in BOOLEAN,
           \/ Last(ks).at \in {"cond", "whileCond"} /\ v = Last(ks).saved
           \/ Last(ks).at = "left" /\ v = Last(ks).saved.noErr,
           NEW r \in Outcomes(o, v)
    PROVE  Ok(x, m, Append(so, r), Front(ks)) /\ Last(Front(ks)).at # "top" /\ r \in RunnerT
<1>1. /\ Conditional(o, v) \in RunnerT /\ Goes(o, Conditional(o, v)) /\ Conditional(o, v).noErr = v
      /\ Conditional(o, v).inLoop = o.inLoop /\ Conditional(o, v).level = o.level
      /\ Conditional(o, v).errFired = o.errFired
  BY Noting DEF Conditional
<1>2. Carries(x, o, Conditional(o, v), Len(Append(so, o)))
  BY <1>1, CarryingOn
<1> DEFINE q == Conditional(o, v)
<1> HIDE DEF q
<1>3. q.exit \in Status
  BY <1>1 DEF RunnerT, q
<1>4. Clear(q.exit) \in Status /\ Clear(q.exit).erred \subseteq q.exit.erred
      /\ Clear(q.exit).flow = q.exit.flow
      /\ \A i : ByOwn(q.exit, i) => ByOwn(Clear(q.exit), i)
  BY <1>3, Cleared
<1>5. \A p \in {q, [q EXCEPT !.exit = Clear(@)]} :
         /\ p \in RunnerT /\ p.noErr = v /\ p.inLoop = o.inLoop /\ p.level = o.level
         /\ Carries(x, o, p, Len(Append(so, o)))
  <2>1. /\ q \in RunnerT /\ q.noErr = v /\ q.inLoop = o.inLoop /\ q.level = o.level
        /\ Carries(x, o, q, Len(Append(so, o)))
    BY <1>1, <1>2 DEF q
  <2> DEFINE p == [q EXCEPT !.exit = Clear(@)]
  <2>2. p \in RunnerT
    BY <2>1, <1>4 DEF RunnerT
  <2>3. /\ p.exit = Clear(q.exit) /\ p.noErr = q.noErr /\ p.inLoop = q.inLoop /\ p.level = q.level
        /\ p.running = q.running /\ p.fired = q.fired /\ p.exits = q.exits /\ p.last = q.last
        /\ p.asked = q.asked /\ p.errFired = q.errFired
    BY <2>1 DEF RunnerT
  <2> HIDE DEF p
  <2>4. p.exit.erred = {} \/ p.exit.erred \subseteq q.exit.erred
    BY <1>4, <2>3
  <2>5. Carries(x, o, p, Len(Append(so, o)))
    <3>1. p.exit.flow = q.exit.flow /\ p.exit.erred \subseteq q.exit.erred
          /\ \A i : ByOwn(q.exit, i) => ByOwn(p.exit, i)
      BY <1>4, <2>3
    <3>2. o.errFired = q.errFired
      BY <1>1 DEF q
    <3> QED
      BY <2>1, <2>3, <3>1, <3>2 DEF Carries
  <2> QED
    BY <2>1, <2>2, <2>3, <2>5 DEF p
<1>6. Plain(Last(ks)) /\ Last(ks).at # "stmt" /\ Last(ks).at # "top" /\ Last(ks).at # "action"
  BY DEF Plain, Shells
<1>7. r \in RunnerT /\ Carries(x, o, r, Len(Append(so, o)))
      /\ r.noErr = v /\ r.inLoop = o.inLoop /\ r.level = o.level
  BY <1>5 DEF q, Outcomes
<1>8. Closes(Last(ks), o, r)
  <2> DEFINE f == Last(ks)
  <2>1. \/ (f.at = "cond" \/ f.at = "whileCond") /\ v = f.saved
        \/ f.at = "left" /\ v = f.saved.noErr
    OBVIOUS
  <2> HIDE DEF f
  <2>2. f.at # "stmt" /\ f.at # "func" /\ f.at \notin {"for", "while"}
    BY <2>1
  <2>3. r.noErr = IF f.at = "stmt" THEN f.noErr
                 ELSE IF f.at = "cond" \/ f.at = "whileCond" THEN f.saved
                 ELSE IF f.at = "left" THEN f.saved.noErr ELSE o.noErr
    BY <1>7, <2>1
  <2>4. r.level = IF f.at = "func" THEN o.level - 1 ELSE o.level
    BY <1>7, <2>2
  <2>5. Closes(f, o, r)
    BY <1>7, <2>2, <2>3, <2>4 DEF Closes
  <2> QED
    BY <2>5 DEF f
<1>9. Ok(x, m, Append(so, r), Front(ks))
  BY <1>6, <1>7, <1>8, CloseOn
<1>10. Last(Front(ks)).at # "top"
  BY <1>6, Tall
<1> QED
  BY <1>7, <1>9, <1>10

\* The end of the condition of an if, with a branch or without.
LEMMA EndCondKept ==
    ASSUME NEW x, NEW m, Ok(x, m, shells, stack), EndCond
    PROVE  Ok(x, m, shells', stack')
<1>1. /\ Others \in Seq(RunnerT) /\ Me \in RunnerT /\ Ok(x, m, Append(Others, Me), stack)
      /\ Top = Last(stack) /\ Below = Front(stack) /\ Top \in FrameT
  BY Now
<1> DEFINE v == Top.saved
<1> DEFINE r == Conditional(Me, v)
<1> DEFINE q == [r EXCEPT !.exit = Clear(@)]
<1>2. Last(stack).at = "cond" /\ v = Last(stack).saved /\ v \in BOOLEAN
  <2>1. Top.at = "cond"
    BY DEF EndCond
  <2>2. \A f \in FrameT : f.at = "cond" => f.saved \in BOOLEAN
    BY DEF FrameT, StmtT, ListT
  <2> QED
    BY <1>1, <2>1, <2>2
<1>3. \E p \in Outcomes(Me, v) : shells' = Append(Others, p)
  <2>1. \/ shells' = Append(Others, r) \/ shells' = Append(Others, q)
    BY DEF EndCond, Leave, Goto
  <2>2. r \in Outcomes(Me, v) /\ q \in Outcomes(Me, v)
    BY DEF Outcomes
  <2> HIDE DEF r, q
  <2> QED
    BY <2>1, <2>2
<1>4. \/ stack' = Below \/ stack' = Append(Below, Frame("block", FALSE, 0))
  BY DEF EndCond, Leave, Goto
<1> HIDE DEF v, r, q
<1>5. ASSUME NEW p \in Outcomes(Me, v)
      PROVE  /\ Ok(x, m, Append(Others, p), Below)
             /\ Ok(x, m, Append(Others, p), Append(Below, Frame("block", FALSE, 0)))
  <2>1. Ok(x, m, Append(Others, p), Front(stack)) /\ Last(Front(stack)).at # "top" /\ p \in RunnerT
    BY <1>1, <1>2, CloseTest
  <2>2. /\ Below = Append(Front(Below), Last(Below)) /\ Front(Below) \in Seq(FrameT)
        /\ Last(Below) \in FrameT
    BY <1>1, <2>1, Tall
  <2>3. Ok(x, m, Append(Others, p), Append(Front(Below), Last(Below))) /\ Last(Below).at # "top"
    BY <1>1, <2>1, <2>2
  <2>4. FALSE \in BOOLEAN /\ "block" \in {"block", "right"}
    OBVIOUS
  <2>5. Ok(x, m, Append(Others, p),
           Append(Append(Front(Below), Last(Below)), Frame("block", FALSE, 0)))
    BY <1>1, <2>1, <2>2, <2>3, <2>4, BlockBegins
  <2> QED
    BY <1>1, <2>1, <2>2, <2>5
<1> QED
  BY <1>3, <1>4, <1>5

\* The end of the left operand of && or ||, with its right one or without.
LEMMA EndLeftKept ==
    ASSUME NEW x, NEW m, Ok(x, m, shells, stack), EndLeft
    PROVE  Ok(x, m, shells', stack')
<1>1. /\ Others \in Seq(RunnerT) /\ Me \in RunnerT /\ Ok(x, m, Append(Others, Me), stack)
      /\ Top = Last(stack) /\ Below = Front(stack) /\ Top \in FrameT
  BY Now
<1> DEFINE v == Top.saved.noErr
<1> DEFINE r == Conditional(Me, v)
<1>2. Last(stack).at = "left" /\ v = Last(stack).saved.noErr /\ v \in BOOLEAN
  <2>1. Top.at = "left"
    BY DEF EndLeft
  <2>2. \A f \in FrameT : f.at = "left" => f.saved.noErr \in BOOLEAN
    BY DEF FrameT, StmtT, ListT
  <2> QED
    BY <1>1, <2>1, <2>2
<1>3. shells' = Append(Others, r)
  BY DEF EndLeft, Leave, Goto
<1>4. \/ stack' = Below \/ stack' = Append(Below, Frame("right", TRUE, 0))
  BY DEF EndLeft, Leave, Goto
<1> HIDE DEF v
<1>5. Ok(x, m, Append(Others, r), Front(stack)) /\ Last(Front(stack)).at # "top" /\ r \in RunnerT
  <2>1. r \in Outcomes(Me, v)
    BY DEF Outcomes
  <2> QED
    BY <1>1, <1>2, <2>1, CloseTest
<1> HIDE DEF r
<1>6. /\ Below = Append(Front(Below), Last(Below)) /\ Front(Below) \in Seq(FrameT)
      /\ Last(Below) \in FrameT
  BY <1>1, <1>5, Tall
<1>7. Ok(x, m, Append(Others, r), Append(Front(Below), Last(Below))) /\ Last(Below).at # "top"
  BY <1>1, <1>5, <1>6
<1>8. TRUE \in BOOLEAN /\ "right" \in {"block", "right"}
  OBVIOUS
<1>9. Ok(x, m, Append(Others, r), Append(Append(Front(Below), Last(Below)), Frame("right", TRUE, 0)))
  BY <1>1, <1>5, <1>6, <1>7, <1>8, BlockBegins
<1> QED
  BY <1>1, <1>3, <1>4, <1>5, <1>6, <1>9

-----------------------------------------------------------------------------
\* The rounds of a loop.
LEMMA LoopSaved ==
    ASSUME NEW x, NEW m, NEW ss, NEW ks, Ok(x, m, ss, ks), Last(ks).at \in {"for", "while"},
           Last(ks).ending
    PROVE  Last(ks).saved = Last(ss).inLoop
<1> DEFINE f == Last(ks)
<1> DEFINE c == Context(ks, Len(ks))
<1> DEFINE d == Context(ks, Len(ks) - 1)
<1>1. /\ c = After(d, f) /\ c \in ContextT /\ d \in ContextT /\ FrameFits(f, d)
      /\ ShellOK(x, m, Last(ss), c, ks[1], Len(ks)) /\ f.at \in {"for", "while"} /\ f.ending
  BY Place
<1> HIDE DEF f, c, d
<1>2. f.saved = d.loop
  BY <1>1 DEF FrameFits
<1>3. Last(ss).inLoop = c.loop
  BY <1>1 DEF ShellOK, ShellFits
<1>4. ~InRound(f) /\ f.at \notin Shells
  BY <1>1 DEF InRound, Shells
<1>5. c.loop = d.loop
  BY <1>1, <1>4 DEF After, ContextT
<1> QED
  BY <1>2, <1>3, <1>5 DEF f

\* What a loop and a condition save is a flag.
LEMMA LoopTyped ==
    ASSUME NEW f \in FrameT, f.at \in {"for", "while", "cond", "whileCond"}
    PROVE  /\ f \in ListT({"cond", "whileCond", "for", "while"}, BOOLEAN)
           /\ f.saved \in BOOLEAN /\ f.rounds \in Nat
<1>1. f \in ListT({"cond", "whileCond", "for", "while"}, BOOLEAN)
  BY DEF FrameT, StmtT, ListT
<1> QED
  BY <1>1 DEF ListT

\* The loop's frame in another round, or when the round is over.
Rounds(f, b) == {[f EXCEPT !.ending = b, !.ran = FALSE, !.rounds = @ + 1], [f EXCEPT !.ending = b]}

\* A loop's frame in another round saves what it saved.
LEMMA RoundTyped ==
    ASSUME NEW f \in FrameT, f.at \in {"for", "while"}, NEW b \in BOOLEAN, NEW g \in Rounds(f, b)
    PROVE  g \in FrameT /\ g.at = f.at /\ g.saved = f.saved /\ g.ending = b
<1>1. f \in ListT({"cond", "whileCond", "for", "while"}, BOOLEAN)
  BY LoopTyped
<1>2. /\ g \in ListT({"cond", "whileCond", "for", "while"}, BOOLEAN)
      /\ g.at = f.at /\ g.saved = f.saved /\ g.ending = b
  <2>1. CASE g = [f EXCEPT !.ending = b, !.ran = FALSE, !.rounds = @ + 1]
    <3>1. f.rounds + 1 \in Nat
      BY LoopTyped
    <3> QED
      BY <1>1, <2>1, <3>1 DEF ListT
  <2>2. CASE g = [f EXCEPT !.ending = b]
    BY <1>1, <2>2 DEF ListT
  <2> QED
    BY <2>1, <2>2 DEF Rounds
<1> QED
  BY <1>2 DEF FrameT

\* A loop between two rounds begins one.
LEMMA Again ==
    ASSUME NEW x, NEW m, NEW so \in Seq(RunnerT), NEW o \in RunnerT, NEW ks,
           Ok(x, m, Append(so, o), ks), Last(ks).at \in {"for", "while"}, Last(ks).ending,
           NEW g \in Rounds(Last(ks), FALSE)
    PROVE  Ok(x, m, Append(so, [o EXCEPT !.inLoop = TRUE]), Append(Front(ks), g))
<1>1. Last(Append(so, o)) = o
  BY FrontLast
<1>2. Last(ks).saved = o.inLoop
  BY <1>1, LoopSaved
<1>3. Ok(x, m, Append(so, o), Front(ks)) /\ Last(Front(ks)).at # "top"
  BY CloseSame
<1>4. /\ Front(ks) = Append(Front(Front(ks)), Last(Front(ks))) /\ Front(Front(ks)) \in Seq(FrameT)
      /\ Last(Front(ks)) \in FrameT /\ Last(ks) \in FrameT
  BY <1>3, Tall
<1>5. g \in FrameT /\ g.at = Last(ks).at /\ g.saved = Last(ks).saved /\ g.ending = FALSE
  BY <1>4, RoundTyped
<1> DEFINE r == [o EXCEPT !.inLoop = TRUE]
<1>6. /\ r \in RunnerT /\ Goes(o, r) /\ r.noErr = o.noErr /\ r.level = o.level
      /\ r.errFired = o.errFired /\ r.inLoop = TRUE
  <2>1. r \in RunnerT
    BY DEF RunnerT
  <2>2. /\ Goes(o, r) /\ r.noErr = o.noErr /\ r.level = o.level /\ r.errFired = o.errFired
    BY DEF RunnerT, Goes
  <2>3. r.inLoop = TRUE
    BY DEF RunnerT
  <2> QED
    BY <2>1, <2>2, <2>3
<1> HIDE DEF r
<1>7. r.inLoop = (o.inLoop \/ ~g.ending)
  BY <1>5, <1>6
<1>8. g.at \in {"for", "while"} /\ g.saved = o.inLoop
  BY <1>2, <1>5
<1>9. Ok(x, m, Append(so, o), Append(Front(Front(ks)), Last(Front(ks))))
  BY <1>3, <1>4
<1>10. Ok(x, m, Append(so, r), Append(Append(Front(Front(ks)), Last(Front(ks))), g))
  BY <1>3, <1>4, <1>5, <1>6, <1>7, <1>8, <1>9, LoopBegins
<1> QED
  BY <1>4, <1>10 DEF r

\* The next round of a loop, or the condition of while.
LEMMA RoundKept ==
    ASSUME NEW x, NEW m, Ok(x, m, shells, stack), Round
    PROVE  Ok(x, m, shells', stack')
<1>1. /\ Others \in Seq(RunnerT) /\ Me \in RunnerT /\ Ok(x, m, Append(Others, Me), stack)
      /\ Top = Last(stack) /\ Below = Front(stack) /\ Top \in FrameT /\ Below \in Seq(FrameT)
      /\ stack = Append(Below, Top)
  BY Now
<1>2. Top.at \in {"for", "while"} /\ Top.ending
  BY DEF Round
<1>3. CASE Top.at = "for"
  <2> DEFINE g == [Top EXCEPT !.ending = FALSE, !.ran = FALSE, !.rounds = @ + 1]
  <2>1. shells' = Append(Others, [Me EXCEPT !.inLoop = TRUE]) /\ stack' = Append(Below, g)
    BY <1>3 DEF Round, Goto
  <2>2. g \in Rounds(Top, FALSE)
    BY DEF Rounds
  <2> HIDE DEF g
  <2>3. Ok(x, m, Append(Others, [Me EXCEPT !.inLoop = TRUE]), Append(Below, g))
    BY <1>1, <1>2, <2>2, Again
  <2> QED
    BY <2>1, <2>3
<1>4. CASE Top.at = "while"
  <2> DEFINE f == Frame("whileCond", FALSE, Me.noErr)
  <2>1. shells' = Append(Others, [Me EXCEPT !.noErr = TRUE]) /\ stack' = Append(stack, f)
    BY <1>4 DEF Round, Goto
  <2>2. Me.noErr \in BOOLEAN /\ FALSE \in BOOLEAN
    BY <1>1 DEF RunnerT
  <2>3. f \in FrameT
    BY <2>2, Lists
  <2>4. f.at = "whileCond" /\ f.saved = Me.noErr
    BY DEF Frame
  <2> HIDE DEF f
  <2>5. f.at \in Conditions
    BY <2>4 DEF Conditions
  <2>6. Ok(x, m, Append(Others, Me), Append(Below, Top))
    BY <1>1
  <2>7. Top.at # "top"
    BY <1>4
  <2>8. Ok(x, m, Append(Others, [Me EXCEPT !.noErr = TRUE]), Append(Append(Below, Top), f))
    BY <1>1, <1>2, <1>4, <2>3, <2>4, <2>5, <2>6, <2>7, TestBegins
  <2> QED
    BY <1>1, <2>1, <2>8
<1> QED
  BY <1>2, <1>3, <1>4

\* The condition of while stands on the frame of its loop, between two rounds.
LEMMA WhileBelow ==
    ASSUME NEW x, NEW m, NEW ss, NEW ks, Ok(x, m, ss, ks), Last(ks).at = "whileCond"
    PROVE  Last(Front(ks)).at = "while" /\ Last(Front(ks)).ending
<1>1. PICK n \in Nat : n = Len(ks) /\ n > 0
  BY Place
<1>2. /\ Last(ks) = ks[n] /\ Front(ks) \in Seq(FrameT) /\ Len(Front(ks)) = n - 1
      /\ \A i \in 1..(n - 1) : Front(ks)[i] = ks[i]
  BY <1>1, Place
<1>3. n # 1
  <2>1. Last(ks).at = "top" <=> Len(ks) = 1
    BY Place
  <2> QED
    BY <1>1, <2>1
<1>4. ks[n - 1].at = "while" /\ ks[n - 1].ending
  <2>1. FrameOK(x, m, ss, ks, n)
    BY <1>1 DEF Ok
  <2> QED
    BY <1>2, <2>1 DEF FrameOK
<1>5. Last(Front(ks)) = Front(ks)[n - 1]
  BY <1>2 DEF Last
<1>6. n - 1 \in 1..(n - 1)
  BY <1>1, <1>3
<1> QED
  BY <1>2, <1>4, <1>5, <1>6

\* The top of a stack as the model changes it.
LEMMA Restarted ==
    ASSUME NEW ks \in Seq(FrameT), Len(ks) > 0
    PROVE  /\ [ks EXCEPT ![Len(ks)].ending = FALSE, ![Len(ks)].ran = FALSE,
                         ![Len(ks)].rounds = @ + 1]
                 = Append(Front(ks), [Last(ks) EXCEPT !.ending = FALSE, !.ran = FALSE,
                                                      !.rounds = @ + 1])
           /\ [ks EXCEPT ![Len(ks)].ending = TRUE]
                 = Append(Front(ks), [Last(ks) EXCEPT !.ending = TRUE])
<1>1. Last(ks) = ks[Len(ks)] /\ Last(ks) \in FrameT
  BY Ends
<1> DEFINE g == [Last(ks) EXCEPT !.ending = FALSE, !.ran = FALSE, !.rounds = @ + 1]
<1> DEFINE h == [Last(ks) EXCEPT !.ending = TRUE]
<1>3. ks \in Seq(FrameT \cup {g, h})
  OBVIOUS
<1>4. [ks EXCEPT ![Len(ks)].ending = FALSE, ![Len(ks)].ran = FALSE, ![Len(ks)].rounds = @ + 1]
         = [ks EXCEPT ![Len(ks)] = g]
  BY <1>1
<1>5. [ks EXCEPT ![Len(ks)].ending = TRUE] = [ks EXCEPT ![Len(ks)] = h]
  BY <1>1
<1> DEFINE T == FrameT \cup {g, h}
<1> HIDE DEF g, h
<1>6. ks \in Seq(T) /\ g \in T /\ h \in T
  BY <1>3
<1> HIDE DEF T
<1>7. [ks EXCEPT ![Len(ks)] = g] = Append(Front(ks), g)
  BY <1>6, Replaced
<1>8. [ks EXCEPT ![Len(ks)] = h] = Append(Front(ks), h)
  BY <1>6, Replaced
<1> QED
  BY <1>4, <1>5, <1>7, <1>8 DEF g, h

\* The end of the condition of while: a round, or the end of the loop.
LEMMA EndWhileCondKept ==
    ASSUME NEW x, NEW m, Ok(x, m, shells, stack), EndWhileCond
    PROVE  Ok(x, m, shells', stack')
<1>1. /\ Others \in Seq(RunnerT) /\ Me \in RunnerT /\ Ok(x, m, Append(Others, Me), stack)
      /\ Top = Last(stack) /\ Below = Front(stack) /\ Top \in FrameT
  BY Now
<1> DEFINE v == Top.saved
<1> DEFINE r == [Conditional(Me, v) EXCEPT !.exit = Clear(@)]
<1>2. Last(stack).at = "whileCond" /\ v = Last(stack).saved /\ v \in BOOLEAN
  <2>1. Top.at = "whileCond"
    BY DEF EndWhileCond
  <2>2. Top.saved \in BOOLEAN
    BY <1>1, <2>1, LoopTyped
  <2> QED
    BY <1>1, <2>1, <2>2
<1> DEFINE g == [Last(Below) EXCEPT !.ending = FALSE, !.ran = FALSE, !.rounds = @ + 1]
<1>3. r \in Outcomes(Me, v)
  BY DEF Outcomes
<1>4. \/ shells' = Append(Others, r) /\ stack' = Front(Below)
      \/ /\ shells' = Append(Others, [r EXCEPT !.inLoop = TRUE])
         /\ stack' = [Below EXCEPT ![Len(Below)].ending = FALSE, ![Len(Below)].ran = FALSE,
                                   ![Len(Below)].rounds = @ + 1]
  BY DEF EndWhileCond, Goto
<1> HIDE DEF v, r, g
<1>5. Ok(x, m, Append(Others, r), Front(stack)) /\ r \in RunnerT
  BY <1>1, <1>2, <1>3, CloseTest
<1>6. Last(Front(stack)).at = "while" /\ Last(Front(stack)).ending
  BY <1>2, WhileBelow
<1>7. Ok(x, m, Append(Others, r), Below) /\ Last(Below).at = "while" /\ Last(Below).ending
  BY <1>1, <1>5, <1>6
<1>8. Below \in Seq(FrameT) /\ Len(Below) > 0
  BY <1>7 DEF Ok
<1>9. Ok(x, m, Append(Others, r), Front(Below))
  BY <1>1, <1>5, <1>7, CloseSame
<1>10. g \in Rounds(Last(Below), FALSE)
  BY DEF Rounds, g
<1>11. Last(Below).at \in {"for", "while"}
  BY <1>7
<1>12. Ok(x, m, Append(Others, [r EXCEPT !.inLoop = TRUE]), Append(Front(Below), g))
  BY <1>1, <1>5, <1>7, <1>10, <1>11, Again
<1>13. [Below EXCEPT ![Len(Below)].ending = FALSE, ![Len(Below)].ran = FALSE,
                     ![Len(Below)].rounds = @ + 1] = Append(Front(Below), g)
  BY <1>8, Restarted DEF g
<1> QED
  BY <1>4, <1>9, <1>12, <1>13

\* The shell with a counter of its loops set.
Broken(o, v) == {[o EXCEPT !.brk = n, !.inLoop = v] : n \in 0..2}
                \cup {[o EXCEPT !.cnt = n, !.inLoop = v] : n \in 0..2}

\* A break or a continue leaves a round, and the loop when the round is not to be the last.
LEMMA LeaveRound ==
    ASSUME NEW x, NEW m, NEW so \in Seq(RunnerT), NEW o \in RunnerT, NEW ks,
           Ok(x, m, Append(so, o), ks), Last(ks).at \in {"for", "while"},
           NEW r \in Broken(o, Last(ks).saved)
    PROVE  /\ Ok(x, m, Append(so, r), Front(ks)) /\ Last(Front(ks)).at # "top" /\ r \in RunnerT
           /\ r.inLoop = Last(ks).saved
<1>1. Last(ks) \in FrameT
  BY Place
<1>2. Last(ks).saved \in BOOLEAN
  BY <1>1, LoopTyped
<1> DEFINE v == Last(ks).saved
<1>3. r \in RunnerT /\ r.inLoop = v /\ r.noErr = o.noErr /\ r.level = o.level
      /\ r.errFired = o.errFired /\ Goes(o, r)
  <2>1. r \in Broken(o, v) /\ v \in BOOLEAN
    BY <1>2
  <2> HIDE DEF v
  <2>2. ASSUME NEW n \in 0..2, r = [o EXCEPT !.brk = n, !.inLoop = v]
        PROVE  r \in RunnerT /\ r.inLoop = v /\ r.noErr = o.noErr /\ r.level = o.level
               /\ r.errFired = o.errFired /\ Goes(o, r)
    BY <2>1, <2>2 DEF RunnerT, Goes
  <2>3. ASSUME NEW n \in 0..2, r = [o EXCEPT !.cnt = n, !.inLoop = v]
        PROVE  r \in RunnerT /\ r.inLoop = v /\ r.noErr = o.noErr /\ r.level = o.level
               /\ r.errFired = o.errFired /\ Goes(o, r)
    BY <2>1, <2>3 DEF RunnerT, Goes
  <2> QED
    BY <2>1, <2>2, <2>3 DEF Broken
<1>4. Closes(Last(ks), o, r)
  <2> DEFINE f == Last(ks)
  <2>1. f.at \in {"for", "while"} /\ r.inLoop = f.saved
    BY <1>3
  <2> HIDE DEF f
  <2>2. /\ f.at # "stmt" /\ f.at # "cond" /\ f.at # "whileCond" /\ f.at # "left" /\ f.at # "func"
    BY <2>1
  <2>3. Closes(f, o, r)
    BY <1>3, <2>1, <2>2 DEF Closes
  <2> QED
    BY <2>3 DEF f
<1>5. Plain(Last(ks)) /\ Last(ks).at # "stmt" /\ Last(ks).at # "top" /\ Last(ks).at # "action"
  BY DEF Plain, Shells
<1>6. Carries(x, o, r, Len(Append(so, o)))
  BY <1>3, CarryingOn
<1>7. Ok(x, m, Append(so, r), Front(ks))
  BY <1>3, <1>4, <1>5, <1>6, CloseOn
<1>8. Last(Front(ks)).at # "top"
  BY <1>5, Tall
<1> QED
  BY <1>3, <1>7, <1>8

\* A round is over: inLoop has the value it had outside the loop.
LEMMA NextRoundKept ==
    ASSUME NEW x, NEW m, NEW so \in Seq(RunnerT), NEW o \in RunnerT, NEW ks,
           Ok(x, m, Append(so, o), ks), Last(ks).at \in {"for", "while"}
    PROVE  Ok(x, m, Append(so, NextRound(o, ks).shell), NextRound(o, ks).stack)
<1> DEFINE r == [o EXCEPT !.cnt = 0, !.inLoop = Last(ks).saved]
<1> DEFINE g == [Last(ks) EXCEPT !.ending = TRUE]
<1>1. r \in Broken(o, Last(ks).saved)
  <2>1. 0 \in 0..2
    OBVIOUS
  <2> QED
    BY <2>1 DEF Broken
<1>2. NextRound(o, ks).shell = r /\ NextRound(o, ks).stack = [ks EXCEPT ![Len(ks)].ending = TRUE]
  BY DEF NextRound
<1> HIDE DEF r, g
<1>3. /\ Ok(x, m, Append(so, r), Front(ks)) /\ Last(Front(ks)).at # "top" /\ r \in RunnerT
      /\ r.inLoop = Last(ks).saved
  BY <1>1, LeaveRound
<1>4. ks \in Seq(FrameT) /\ Len(ks) > 0 /\ Last(ks) \in FrameT
  BY Place
<1>5. [ks EXCEPT ![Len(ks)].ending = TRUE] = Append(Front(ks), g)
  BY <1>4, Restarted DEF g
<1>6. /\ Front(ks) = Append(Front(Front(ks)), Last(Front(ks))) /\ Front(Front(ks)) \in Seq(FrameT)
      /\ Last(Front(ks)) \in FrameT
  BY <1>3, Tall
<1>7. g \in FrameT /\ g.at = Last(ks).at /\ g.saved = Last(ks).saved /\ g.ending = TRUE
  <2>1. g \in Rounds(Last(ks), TRUE) /\ TRUE \in BOOLEAN
    BY DEF Rounds, g
  <2> QED
    BY <1>4, <2>1, RoundTyped
<1>8. r.inLoop = (r.inLoop \/ ~g.ending) /\ Goes(r, r)
  <2>1. r.inLoop \in BOOLEAN
    BY <1>3 DEF RunnerT
  <2> QED
    BY <1>7, <2>1 DEF Goes
<1>9. g.at \in {"for", "while"} /\ g.saved = r.inLoop
  BY <1>3, <1>7
<1>10. Ok(x, m, Append(so, r), Append(Front(Front(ks)), Last(Front(ks))))
  BY <1>3, <1>6
<1>11. Ok(x, m, Append(so, r), Append(Append(Front(Front(ks)), Last(Front(ks))), g))
  BY <1>3, <1>6, <1>7, <1>8, <1>9, <1>10, LoopBegins
<1> QED
  BY <1>2, <1>5, <1>6, <1>11

\* The end of a loop's body.
LEMMA EndBodyKept ==
    ASSUME NEW x, NEW m, Ok(x, m, shells, stack), EndBody
    PROVE  Ok(x, m, shells', stack')
<1>1. /\ Others \in Seq(RunnerT) /\ Me \in RunnerT /\ Ok(x, m, Append(Others, Me), stack)
      /\ Top = Last(stack)
  BY Now
<1>2. Last(stack).at \in {"for", "while"}
  BY <1>1 DEF EndBody
<1>3. Ok(x, m, Append(Others, NextRound(Me, stack).shell), NextRound(Me, stack).stack)
  BY <1>1, <1>2, NextRoundKept
<1> QED
  BY <1>3 DEF EndBody, Leave, Goto

\* Between two statements: the loop looks at the counters, the top drops a fatal error.
LEMMA Dropped ==
    ASSUME NEW x, NEW m, NEW so \in Seq(RunnerT), NEW o \in RunnerT, NEW ks,
           Ok(x, m, Append(so, o), ks)
    PROVE  Ok(x, m, Append(so, [o EXCEPT !.exit.flow = @ \ {"abort"}]), ks)
<1> DEFINE r == [o EXCEPT !.exit.flow = @ \ {"abort"}]
<1> DEFINE ss == Append(so, o)
<1> DEFINE c == Context(ks, Len(ks))
<1> DEFINE e == [o.exit EXCEPT !.flow = @ \ {"abort"}]
<1>1. Front(ss) = so /\ Last(ss) = o
  BY FrontLast
<1>2. Ok(x, m, ss, ks)
  OBVIOUS
<1> HIDE DEF ss
<1>3. /\ ks \in Seq(FrameT) /\ ShellOK(x, m, o, c, ks[1], Len(ks))
  BY <1>1, <1>2, Place
<1>4. o.exit \in Status
  BY DEF RunnerT
<1>5. e \in Status
  <2>1. o.exit.flow \ {"abort"} \in SUBSET Flows
    BY <1>4 DEF Status
  <2> QED
    BY <1>4, <2>1, Recoded
<1>6. r = [o EXCEPT !.exit = e]
  OBVIOUS
<1>7. e.flow = o.exit.flow \ {"abort"} /\ e.erred = o.exit.erred /\ e.by = o.exit.by
  BY <1>4 DEF Status
<1> HIDE DEF e, r
<1>8. /\ r \in RunnerT /\ r.exit = e /\ r.last = o.last /\ r.noErr = o.noErr
      /\ r.inLoop = o.inLoop /\ r.level = o.level /\ r.running = o.running
      /\ r.fired = o.fired /\ r.exits = o.exits /\ r.asked = o.asked
      /\ r.errFired = o.errFired /\ r.exitTrap = o.exitTrap
  BY <1>5, <1>6 DEF RunnerT
<1>9. "exit" \in e.flow <=> "exit" \in o.exit.flow
  BY <1>7
<1> HIDE DEF c
<1>10. Heeds(x, m, o, r, c)
  BY <1>8 DEF Heeds, Bound
<1>11. ShellOK(x, m, r, c, ks[1], Len(ks))
  <2>1. ShellFits(r, c)
    <3>1. ByOwn(o.exit, c.shell) => ByOwn(e, c.shell)
      BY <1>7 DEF ByOwn
    <3>2. From(c.level, o.exit) => From(c.level, e)
      BY <1>7 DEF From
    <3> QED
      BY <1>3, <1>8, <3>1, <3>2 DEF ShellOK, ShellFits
  <2>2. ShellKeeps(x, m, r, c, ks[1], Len(ks))
    BY <1>3, <1>7, <1>8 DEF ShellOK, ShellKeeps
  <2>3. ShellLeaves(x, m, r, c, ks[1], Len(ks))
    BY <1>3, <1>8, <1>9 DEF ShellOK, ShellLeaves, Bound, Leaves
  <2>4. ShellTraps(x, m, r, c, ks[1], Len(ks))
    BY <1>3, <1>8, <1>9 DEF ShellOK, ShellTraps
  <2> QED
    BY <2>1, <2>2, <2>3, <2>4 DEF ShellOK
<1>12. \A i \in 1..Len(ks) : Alike(ks[i], ks[i])
  BY AlikeSelf
<1>13. Ok(x, m, Append(Front(ss), r), ks)
  BY <1>1, <1>2, <1>3, <1>8, <1>10, <1>11, <1>12, Touch DEF c
<1> QED
  BY <1>1, <1>13 DEF r

\* Whatever break, continue or a fatal error asks for between two statements is done
\* right: the loop is left with inLoop put back.
LEMMA ResumeKept ==
    ASSUME NEW x, NEW m, NEW so \in Seq(RunnerT), NEW o \in RunnerT, NEW ks,
           Ok(x, m, Append(so, o), ks)
    PROVE  Ok(x, m, Append(so, Resume(o, ks).shell), Resume(o, ks).stack)
<1> DEFINE next == Resume(o, ks)
<1> DEFINE looping == Last(ks).at \in {"for", "while"}
<1> DEFINE v == Last(ks).saved
<1>1. o.brk \in 0..2 /\ o.cnt \in 0..2
  BY DEF RunnerT
<1>2. \/ looping /\ o.cnt > 1 /\ next = LeaveLoop(o, ks, o.cnt - 1, "cnt")
      \/ looping /\ next = NextRound(o, ks)
      \/ looping /\ o.brk > 0 /\ next = LeaveLoop(o, ks, o.brk - 1, "brk")
      \/ next.stack = ks /\ next.shell \in {o, [o EXCEPT !.exit.flow = @ \ {"abort"}]}
  BY DEF Resume
<1> HIDE DEF next
<1>3. CASE looping /\ o.cnt > 1 /\ next = LeaveLoop(o, ks, o.cnt - 1, "cnt")
  <2> DEFINE n == o.cnt - 1
  <2>1. n \in 0..2
    BY <1>1, <1>3
  <2> HIDE DEF n
  <2>2. next.shell = [o EXCEPT !.cnt = n, !.inLoop = v] /\ next.stack = Front(ks)
    BY <1>3 DEF LeaveLoop, n
  <2>3. next.shell \in Broken(o, v)
    BY <2>1, <2>2 DEF Broken
  <2>4. Ok(x, m, Append(so, next.shell), Front(ks))
    BY <1>3, <2>3, LeaveRound
  <2> QED
    BY <2>2, <2>4 DEF next
<1>4. CASE looping /\ o.brk > 0 /\ next = LeaveLoop(o, ks, o.brk - 1, "brk")
  <2> DEFINE n == o.brk - 1
  <2>1. n \in 0..2
    BY <1>1, <1>4
  <2> HIDE DEF n
  <2>2. next.shell = [o EXCEPT !.brk = n, !.inLoop = v] /\ next.stack = Front(ks)
    BY <1>4 DEF LeaveLoop, n
  <2>3. next.shell \in Broken(o, v)
    BY <2>1, <2>2 DEF Broken
  <2>4. Ok(x, m, Append(so, next.shell), Front(ks))
    BY <1>4, <2>3, LeaveRound
  <2> QED
    BY <2>2, <2>4 DEF next
<1>5. CASE looping /\ next = NextRound(o, ks)
  BY <1>5, NextRoundKept DEF next
<1>6. CASE next.stack = ks /\ next.shell \in {o, [o EXCEPT !.exit.flow = @ \ {"abort"}]}
  <2>1. Ok(x, m, Append(so, [o EXCEPT !.exit.flow = @ \ {"abort"}]), ks)
    BY Dropped
  <2> QED
    BY <1>6, <2>1 DEF next
<1> QED
  BY <1>2, <1>3, <1>4, <1>5, <1>6

\* The status of a statement as errexit and a negation leave it.
LEMMA StatusLeft ==
    ASSUME NEW e \in Status, NEW i \in 0..MaxDepth, ByOwn(e, i),
           NEW f, \/ f = [e EXCEPT !.code = 1, !.tested = TRUE]
                  \/ f = Clear(e)
                  \/ f = [e EXCEPT !.flow = @ \cup {"exit"}, !.by = i]
                  \/ f = e
    PROVE  /\ f \in Status /\ ByOwn(f, i) /\ f.erred \subseteq e.erred
           /\ "exit" \in e.flow => "exit" \in f.flow
<1>1. CASE f = [e EXCEPT !.code = 1, !.tested = TRUE]
  <2>1. 1 \in 0..255 /\ TRUE \in BOOLEAN
    OBVIOUS
  <2>2. f \in Status
    BY <1>1, <2>1, Recoded
  <2>3. f.flow = e.flow /\ f.by = e.by /\ f.erred = e.erred
    BY <1>1 DEF Status
  <2> QED
    BY <2>2, <2>3 DEF ByOwn
<1>2. CASE f = Clear(e)
  BY <1>2, Cleared
<1>3. CASE f = [e EXCEPT !.flow = @ \cup {"exit"}, !.by = i]
  <2>1. e.flow \cup {"exit"} \in SUBSET Flows
    BY DEF Status, Flows
  <2>2. f \in Status
    BY <1>3, <2>1, Recoded
  <2>3. f.flow = e.flow \cup {"exit"} /\ f.by = i /\ f.erred = e.erred
    BY <1>3 DEF Status
  <2> QED
    BY <2>2, <2>3 DEF ByOwn
<1>4. CASE f = e
  BY <1>4
<1> QED
  BY <1>1, <1>2, <1>3, <1>4

\* The end of a statement: errexit, the negation, noErr put back, and whatever Resume
\* does to the list around it.
LEMMA EndStmtKept ==
    ASSUME NEW x, NEW m, Ok(x, m, shells, stack), EndStmt
    PROVE  Ok(x, m, shells', stack')
<1>1. /\ Others \in Seq(RunnerT) /\ Me \in RunnerT /\ Ok(x, m, Append(Others, Me), stack)
      /\ Top = Last(stack) /\ Below = Front(stack) /\ Top \in FrameT
      /\ shells = Append(Others, Me)
  BY Now
<1> DEFINE exits == Fails /\ "errexit" \in opts
<1> DEFINE e == IF Top.neg
                THEN IF Me.exit.code = 0 THEN [Me.exit EXCEPT !.code = 1, !.tested = TRUE]
                     ELSE Clear(Me.exit)
                ELSE IF exits THEN ErrExit(Me.exit) ELSE Me.exit
<1> DEFINE r == [Asks(Me, e) EXCEPT !.last = e, !.noErr = Top.noErr, !.errFired = @ \/ FiresErr]
<1>2. shells' = Append(Others, Resume(r, Below).shell) /\ stack' = Resume(r, Below).stack
  BY DEF EndStmt, Goto
<1>3. Top.at = "stmt" /\ Top.noErr \in BOOLEAN
  <2>1. Top.at = "stmt"
    BY DEF EndStmt
  <2>2. Top \in StmtT
    BY <1>1, <2>1 DEF FrameT, ListT
  <2> QED
    BY <2>1, <2>2 DEF StmtT
<1>4. PICK i \in 0..MaxDepth : i = Len(shells)
  <2>1. Len(shells) \in Nat /\ Len(shells) <= MaxDepth /\ MaxDepth \in Nat
    BY Place, ScenariosAssumption
  <2> QED
    BY <2>1
<1>5. Me.exit \in Status /\ ByOwn(Me.exit, i)
  <2>1. Me.exit \in Status
    BY <1>1 DEF RunnerT
  <2>2. /\ ShellOK(x, m, Me, Context(stack, Len(stack)), stack[1], Len(stack))
        /\ Context(stack, Len(stack)).shell = Len(shells)
    BY Place DEF Me
  <2> QED
    BY <1>4, <2>1, <2>2 DEF ShellOK, ShellFits
<1>6. /\ e \in Status /\ ByOwn(e, i) /\ e.erred \subseteq Me.exit.erred
      /\ "exit" \in Me.exit.flow => "exit" \in e.flow
  <2>1. \/ e = [Me.exit EXCEPT !.code = 1, !.tested = TRUE]
        \/ e = Clear(Me.exit)
        \/ e = [Me.exit EXCEPT !.flow = @ \cup {"exit"}, !.by = i]
        \/ e = Me.exit
    BY <1>4 DEF ErrExit
  <2> HIDE DEF e
  <2> QED
    BY <1>5, <2>1, StatusLeft
<1>7. FiresErr \in BOOLEAN
  BY DEF FiresErr
<1> DEFINE w == Top.noErr
<1> DEFINE b == FiresErr
<1> HIDE DEF e, b, w
<1>8. r = [Asks(Me, e) EXCEPT !.last = e, !.noErr = w, !.errFired = @ \/ b]
      /\ w \in BOOLEAN /\ b \in BOOLEAN
  BY <1>3, <1>7 DEF b, w
<1> HIDE DEF r
<1>9. /\ Asks(Me, e) \in RunnerT /\ Asks(Me, e).exit = e /\ Asks(Me, e).inLoop = Me.inLoop
      /\ Asks(Me, e).level = Me.level /\ Asks(Me, e).running = Me.running
      /\ Asks(Me, e).fired = Me.fired /\ Asks(Me, e).exits = Me.exits
      /\ Asks(Me, e).errFired = Me.errFired
      /\ Asks(Me, e).asked = (Me.asked \/ ("exit" \in e.flow /\ Me.running = {}))
  <2>1. Asks(Me, e) \in RunnerT
    BY <1>1, <1>6 DEF Asks, RunnerT
  <2>2. /\ Asks(Me, e).exit = e /\ Asks(Me, e).inLoop = Me.inLoop
        /\ Asks(Me, e).level = Me.level /\ Asks(Me, e).running = Me.running
        /\ Asks(Me, e).fired = Me.fired /\ Asks(Me, e).exits = Me.exits
        /\ Asks(Me, e).errFired = Me.errFired
        /\ Asks(Me, e).asked = (Me.asked \/ ("exit" \in e.flow /\ Me.running = {}))
    BY <1>1 DEF Asks, RunnerT
  <2> QED
    BY <2>1, <2>2
<1>10. /\ r \in RunnerT /\ r.exit = e /\ r.last = e /\ r.noErr = w /\ r.inLoop = Me.inLoop
       /\ r.level = Me.level /\ r.running = Me.running /\ r.fired = Me.fired
       /\ r.exits = Me.exits /\ (Me.errFired => r.errFired)
       /\ r.asked = (Me.asked \/ ("exit" \in e.flow /\ Me.running = {}))
  <2> DEFINE q == Asks(Me, e)
  <2>0. q \in RunnerT /\ r = [q EXCEPT !.last = e, !.noErr = w, !.errFired = @ \/ b]
    BY <1>8, <1>9
  <2> HIDE DEF q
  <2>1. r \in RunnerT
    BY <1>6, <1>8, <2>0 DEF RunnerT
  <2>2. /\ r.exit = q.exit /\ r.last = e /\ r.noErr = w /\ r.inLoop = q.inLoop
        /\ r.level = q.level /\ r.running = q.running /\ r.fired = q.fired
        /\ r.exits = q.exits /\ r.errFired = (q.errFired \/ b) /\ r.asked = q.asked
    BY <2>0 DEF RunnerT
  <2> QED
    BY <1>9, <2>1, <2>2 DEF q
<1>11. Carries(x, Me, r, Len(Append(Others, Me)))
  <2>1. Len(Append(Others, Me)) = i
    BY <1>1, <1>4
  <2>2. Carries(x, Me, r, i)
    BY <1>6, <1>10 DEF Carries
  <2> QED
    BY <2>1, <2>2
<1>12. Plain(Last(stack))
  BY <1>1, <1>3 DEF Plain, Shells
<1>13. Closes(Last(stack), Me, r)
  <2>1. Closes(Top, Me, r)
    <3>1. r.noErr = Top.noErr /\ r.inLoop = Me.inLoop /\ r.level = Me.level
      BY <1>10 DEF w
    <3>2. Top.at \notin {"for", "while"} /\ Top.at # "func" /\ Top.at = "stmt"
      BY <1>3
    <3> QED
      BY <3>1, <3>2 DEF Closes
  <2> QED
    BY <1>1, <2>1
<1>14. Ok(x, m, Append(Others, r), Front(stack))
  BY <1>1, <1>10, <1>11, <1>12, <1>13, CloseOn
<1>15. Ok(x, m, Append(Others, Resume(r, Below).shell), Resume(r, Below).stack)
  BY <1>1, <1>10, <1>14, ResumeKept
<1> QED
  BY <1>2, <1>15

-----------------------------------------------------------------------------
\* Traps.  The shell runs the action of a trap.
Acts(o, r, kind, e) ==
    /\ r.running = o.running \cup {kind} /\ r.exit = Zero /\ r.last = e /\ r.noErr = o.noErr
    /\ r.inLoop = o.inLoop /\ r.level = o.level /\ r.fired = o.fired /\ r.exits = o.exits
    /\ r.asked = o.asked

\* A trap's action begins on a frame of its own.
LEMMA ActionMade ==
    ASSUME NEW o \in RunnerT, NEW kind \in Trap, NEW keep \in BOOLEAN
    PROVE  /\ Action(o, kind, keep) \in FrameT /\ Action(o, kind, keep).at = "action"
           /\ Action(o, kind, keep).saved.kind = kind /\ Action(o, kind, keep).saved.exit = o.exit
           /\ Action(o, kind, keep).saved.last = o.last
           /\ Action(o, kind, keep).saved.errFired = o.errFired
           /\ InTrap(o, kind) \in RunnerT
           /\ Acts(o, InTrap(o, kind), kind, o.exit)
<1> DEFINE s == [exit |-> o.exit, last |-> o.last, errFired |-> o.errFired, kind |-> kind,
                 keep |-> keep]
<1>1. s \in ActionSaved
  BY DEF ActionSaved, RunnerT
<1>2. /\ s.kind = kind /\ s.exit = o.exit /\ s.last = o.last /\ s.errFired = o.errFired
      /\ Action(o, kind, keep) = Frame("action", FALSE, s)
  BY DEF Action
<1> HIDE DEF s
<1>3. FALSE \in BOOLEAN
  OBVIOUS
<1>4. Action(o, kind, keep) \in FrameT
  BY <1>1, <1>2, <1>3, Lists
<1>5. Action(o, kind, keep).at = "action" /\ Action(o, kind, keep).saved = s
  BY <1>2 DEF Frame
<1>6. Zero \in Status
  BY ZeroFresh
<1>7. o.exit \in Status /\ o.running \cup {kind} \in SUBSET Trap
  BY DEF RunnerT
<1>8. InTrap(o, kind) \in RunnerT
  BY <1>6, <1>7 DEF InTrap, RunnerT
<1>9. Acts(o, InTrap(o, kind), kind, o.exit)
  BY DEF InTrap, RunnerT, Acts
<1> QED
  BY <1>2, <1>4, <1>5, <1>8, <1>9

\* What the EXIT trap has to do with the frame at the bottom is settled above the top.
Settled(x, m, o, t, n) ==
    x # "none" \/ m = "lines" \/ o.exits = 1 \/ (n = 1 => ~t.ending /\ ~t.single)

\* What is said of the EXIT trap stays true when a trap's action begins on the frame.
LEMMA TrapsOn ==
    ASSUME NEW x, NEW m, NEW o, NEW c, NEW t, NEW n \in Nat \ {0}, ShellTraps(x, m, o, c, t, n),
           Settled(x, m, o, t, n), NEW r, r.fired = o.fired, r.exits = o.exits,
           NEW d, d.shell = c.shell, c.kinds \subseteq d.kinds
    PROVE  ShellTraps(x, m, r, d, t, n + 1)
<1> SUFFICES ASSUME x = "none", m # "lines"
             PROVE  ShellTraps(x, m, r, d, t, n + 1)
  BY DEF ShellTraps
<1>1. o.exits \in {0, 1} /\ (o.exits = 1 => o.fired)
  BY DEF ShellTraps
<1>2. c.shell > 1 /\ o.fired => o.exits = 1 \/ "exit" \in d.kinds
  BY DEF ShellTraps
<1>3. c.shell = 1 /\ o.fired => o.exits = 1
  BY <1>1 DEF ShellTraps, Settled
<1>4. c.shell = 1 /\ t.ending => o.fired
  <2>1. CASE o.exits = 1
    BY <1>1, <2>1
  <2>2. CASE n = 1 => ~t.ending /\ ~t.single
    BY <2>2 DEF ShellTraps
  <2> QED
    BY <2>1, <2>2 DEF Settled
<1>5. c.shell = 1 /\ t.single => t.ending /\ o.fired
  <2>1. c.shell = 1 /\ t.single => t.ending
    BY DEF ShellTraps
  <2> QED
    BY <1>4, <2>1
<1> QED
  BY <1>1, <1>2, <1>3, <1>4, <1>5 DEF ShellTraps

\* A trap's action begins: the frame keeps the status for which it runs, the shell has
\* a clean one, and everything below is right.
LEMMA PushAction ==
    ASSUME NEW x, NEW m, NEW ss, NEW ks, Ok(x, m, ss, ks),
           NEW kl \in Seq(FrameT), Len(kl) = Len(ks), \A i \in 1..Len(ks) : Alike(kl[i], ks[i]),
           NEW f \in FrameT, f.at = "action", f.saved.kind \notin Last(ss).running,
           NEW r \in RunnerT, NEW e, Acts(Last(ss), r, f.saved.kind, e), f.saved.exit = e,
           ByOwn(e, Len(ss)), Len(ss) = 1 => ByOwn(f.saved.last, 1), From(Last(ss).level, e),
           \/ x = "overruled" \/ (Len(ks) = 1 /\ ks[1].ending)
           \/ Last(ss).level \in e.erred => f.saved.errFired,
           "exit" \in Last(ss).exit.flow => "exit" \in e.flow,
           x # "none" \/ m = "lines" \/ (f.saved.kind = "exit" => Last(ss).exits = 1),
           Settled(x, m, Last(ss), ks[1], Len(ks))
    PROVE  Ok(x, m, Append(Front(ss), r), Append(kl, f))
<1> DEFINE o == Last(ss)
<1> DEFINE c == Context(ks, Len(ks))
<1> DEFINE d == After(c, f)
<1>1. /\ c \in ContextT /\ ShellOK(x, m, o, c, ks[1], Len(ks)) /\ o \in RunnerT
      /\ c.shell = Len(ss) /\ Len(ks) \in Nat \ {0}
  BY Place, SMTT(30)
<1>2. o.noErr = c.test /\ o.inLoop = c.loop /\ o.level = c.level /\ o.running = c.kinds
  BY <1>1 DEF ShellOK, ShellFits
<1>3. FrameFits(f, c)
  <2>1. /\ f.at # "top" /\ f.at # "stmt" /\ f.at # "cond" /\ f.at # "whileCond" /\ f.at # "left"
        /\ f.at # "for" /\ f.at # "while" /\ f.at # "stageR" /\ f.at # "lastStage"
    OBVIOUS
  <2>2. /\ f.saved.kind \notin c.kinds /\ ByOwn(f.saved.exit, c.shell)
        /\ (c.shell = 1 => ByOwn(f.saved.last, 1)) /\ From(c.level, f.saved.exit)
    BY <1>1, <1>2
  <2> HIDE DEF c
  <2> QED
    BY <2>1, <2>2 DEF FrameFits
<1>4. /\ d.shell = c.shell /\ d.level = c.level /\ d.test = c.test /\ d.loop = c.loop
      /\ d.kinds = c.kinds \cup {f.saved.kind}
  <2>1. f.at \notin Shells /\ f.at \notin Deeper /\ ~Tests(f) /\ ~InRound(f)
    BY DEF Shells, Deeper, Tests, InRound, Conditions
  <2> QED
    BY <1>1, <2>1 DEF After, ContextT
<1>5. /\ r.running = d.kinds /\ r.exit = Zero /\ r.last = e /\ r.noErr = d.test
      /\ r.inLoop = d.loop /\ r.level = d.level /\ r.fired = o.fired /\ r.exits = o.exits
      /\ r.asked = o.asked
  BY <1>2, <1>4 DEF Acts
<1> HIDE DEF c, d
<1>6. Heeds(x, m, o, r, c)
  BY <1>5 DEF Heeds, Bound
<1>7. ActionOK(x, m, f, r, c, ks[1], Len(ks))
  <2>1. x = "overruled" \/ (c.level \in e.erred => f.saved.errFired \/ (Len(ks) = 1 /\ ks[1].ending))
    BY <1>2
  <2>2. x # "none" \/ (Bound(m, r, c) /\ c.kinds = {} => Leaves(m, e, ks[1], Len(ks)))
    BY <1>1, <1>5 DEF ShellOK, ShellLeaves, Bound, Leaves
  <2>3. x # "none" \/ m = "lines" \/ (f.saved.kind = "exit" => r.exits = 1)
    BY <1>5
  <2> QED
    BY <2>1, <2>2, <2>3 DEF ActionOK
<1>8. ShellOK(x, m, r, d, ks[1], Len(ks) + 1)
  <2>1. ShellFits(r, d)
    <3>1. ByOwn(r.exit, d.shell) /\ From(d.level, r.exit)
      <4>1. ByOwn(Zero, d.shell) /\ Zero.erred = {}
        BY ZeroFresh DEF Fresh
      <4> QED
        BY <1>5, <4>1 DEF From
    <3>2. d.shell = 1 => ByOwn(r.last, 1)
      BY <1>1, <1>4, <1>5
    <3> QED
      BY <1>5, <3>1, <3>2 DEF ShellFits
  <2>2. ShellKeeps(x, m, r, d, ks[1], Len(ks) + 1)
    <3>1. Zero.erred = {}
      BY DEF Zero
    <3> QED
      BY <1>5, <3>1 DEF ShellKeeps
  <2>3. ShellLeaves(x, m, r, d, ks[1], Len(ks) + 1)
    <3>1. d.kinds # {}
      BY <1>4
    <3> QED
      BY <3>1 DEF ShellLeaves
  <2>4. ShellTraps(x, m, r, d, ks[1], Len(ks) + 1)
    <3>1. ShellTraps(x, m, o, c, ks[1], Len(ks)) /\ c.kinds \subseteq d.kinds
      BY <1>1, <1>4 DEF ShellOK
    <3> QED
      BY <1>1, <1>4, <1>5, <3>1, TrapsOn
  <2> QED
    BY <2>1, <2>2, <2>3, <2>4 DEF ShellOK
<1>9. f.at \notin Shells /\ f.at # "top" /\ f.at # "whileCond"
  BY DEF Shells
<1> QED
  BY <1>3, <1>6, <1>7, <1>8, <1>9, Push DEF c, d

\* What a place says of the shell, without the frames.
LEMMA Standing ==
    ASSUME NEW x, NEW m, NEW ss, NEW ks, Ok(x, m, ss, ks)
    PROVE  /\ ByOwn(Last(ss).exit, Len(ss)) /\ From(Last(ss).level, Last(ss).exit)
           /\ Len(ss) = 1 => ByOwn(Last(ss).last, 1)
           /\ \/ x = "overruled" \/ (Len(ks) = 1 /\ ks[1].ending)
              \/ Last(ss).level \in Last(ss).exit.erred => Last(ss).errFired
           /\ Last(ss).running = Context(ks, Len(ks)).kinds
           /\ Last(ss).level = Level(ks, Len(ks))
           /\ Last(ss).noErr = Context(ks, Len(ks)).test
           /\ Last(ss).level \in 0..MaxDepth /\ Last(ss).exit \in Status
<1>1. /\ ShellOK(x, m, Last(ss), Context(ks, Len(ks)), ks[1], Len(ks))
      /\ Context(ks, Len(ks)).shell = Len(ss) /\ Last(ss) \in RunnerT
  BY Place
<1>2. Context(ks, Len(ks)).level = Level(ks, Len(ks))
  BY DEF Context
<1>3. Last(ss).level \in 0..MaxDepth /\ Last(ss).exit \in Status
  BY <1>1 DEF RunnerT
<1>4. ShellFits(Last(ss), Context(ks, Len(ks))) /\ ShellKeeps(x, m, Last(ss), Context(ks, Len(ks)), ks[1], Len(ks))
  BY <1>1 DEF ShellOK
<1>5. \/ x = "overruled" \/ (Len(ks) = 1 /\ ks[1].ending)
      \/ Last(ss).level \in Last(ss).exit.erred => Last(ss).errFired
  BY <1>4 DEF ShellKeeps
<1>6. /\ ByOwn(Last(ss).exit, Len(ss)) /\ From(Last(ss).level, Last(ss).exit)
      /\ Len(ss) = 1 => ByOwn(Last(ss).last, 1)
      /\ Last(ss).running = Context(ks, Len(ks)).kinds
      /\ Last(ss).level = Level(ks, Len(ks))
      /\ Last(ss).noErr = Context(ks, Len(ks)).test
  BY <1>1, <1>2, <1>4 DEF ShellFits
<1> QED
  BY <1>3, <1>5, <1>6

\* A signal trap, between two statements of the main shell or at the end of a run.
LEMMA SignalKept ==
    ASSUME NEW x, NEW m, Ok(x, m, shells, stack), Signal
    PROVE  Ok(x, m, shells', stack')
<1>1. /\ Me = Last(shells) /\ Others = Front(shells) /\ Top = Last(stack) /\ Me \in RunnerT
      /\ stack \in Seq(FrameT) /\ Len(stack) \in Nat /\ Len(stack) > 0
      /\ (Top.at = "top" <=> Len(stack) = 1) /\ Top = stack[Len(stack)] /\ Top \in FrameT
      /\ FrameFits(Top, Context(stack, Len(stack) - 1))
  BY Place DEF Me, Others, Top
<1>2. AtStmt /\ Me.running = {} /\ Top.at # "stmt" /\ ~Top.ending
  BY DEF Signal, AtStmt
<1> DEFINE r == InTrap(Me, "signal")
<1> DEFINE f == Action(Me, "signal", TRUE)
<1>3. shells' = Append(Others, r) /\ stack' = Append(Awaited, f)
  BY DEF Signal, Goto
<1>4. "signal" \in Trap /\ TRUE \in BOOLEAN
  BY DEF Trap
<1>5. /\ f \in FrameT /\ f.at = "action" /\ f.saved.kind = "signal" /\ f.saved.exit = Me.exit
      /\ f.saved.last = Me.last /\ f.saved.errFired = Me.errFired
      /\ r \in RunnerT /\ Acts(Me, r, "signal", Me.exit)
  BY <1>1, <1>4, ActionMade, ZenonT(30)
<1> HIDE DEF r, f
<1>6. /\ Awaited \in Seq(FrameT) /\ Len(Awaited) = Len(stack)
      /\ \A i \in 1..Len(stack) : Alike(Awaited[i], stack[i])
  <2>1. CASE Top.at = "top"
    BY <1>1, <2>1, AlikeSelf DEF Awaited
  <2>2. CASE Top.at # "top"
    <3> DEFINE g == [Top EXCEPT !.ran = FALSE]
    <3>1. Awaited = [stack EXCEPT ![Len(stack)] = g]
      BY <1>1, <2>2 DEF Awaited
    <3>2. g \in FrameT /\ Alike(g, stack[Len(stack)])
      BY <1>1, <1>2, Marked
    <3> HIDE DEF g
    <3> QED
      BY <1>1, <3>1, <3>2, Mark
  <2> QED
    BY <2>1, <2>2
<1>7. Settled(x, m, Me, stack[1], Len(stack))
  <2>1. Len(stack) = 1 => ~stack[1].ending /\ ~stack[1].single
    <3>1. Top.at = "top" /\ Top.single => Top.ending
      BY <1>1 DEF FrameFits
    <3>2. Len(stack) = 1 => Top = stack[1]
      BY <1>1
    <3> QED
      BY <1>1, <1>2, <3>1, <3>2
  <2> QED
    BY <2>1 DEF Settled
<1>8. /\ ByOwn(Me.exit, Len(shells)) /\ From(Me.level, Me.exit)
      /\ Len(shells) = 1 => ByOwn(Me.last, 1)
      /\ \/ x = "overruled" \/ (Len(stack) = 1 /\ stack[1].ending)
         \/ Me.level \in Me.exit.erred => Me.errFired
  BY Standing DEF Me
<1>9. f.saved.kind \notin Me.running /\ f.saved.kind # "exit" /\ Acts(Me, r, f.saved.kind, Me.exit)
  BY <1>2, <1>5
<1>10. \/ x = "overruled" \/ (Len(stack) = 1 /\ stack[1].ending)
       \/ Me.level \in Me.exit.erred => f.saved.errFired
  BY <1>5, <1>8
<1>11. Len(shells) = 1 => ByOwn(f.saved.last, 1)
  BY <1>5, <1>8
<1>12. Ok(x, m, Append(Front(shells), r), Append(Awaited, f))
  BY <1>1, <1>5, <1>6, <1>7, <1>8, <1>9, <1>10, <1>11, PushAction
<1> QED
  BY <1>1, <1>3, <1>12

\* The ERR trap after a statement that failed.
LEMMA ErrTrapKept ==
    ASSUME NEW x, NEW m, Ok(x, m, shells, stack), ErrTrap
    PROVE  Ok(x, m, shells', stack')
<1>1. /\ Me = Last(shells) /\ Others = Front(shells) /\ Top = Last(stack) /\ Me \in RunnerT
      /\ stack \in Seq(FrameT) /\ Len(stack) \in Nat /\ Len(stack) > 0
      /\ (Top.at = "top" <=> Len(stack) = 1) /\ Top = stack[Len(stack)] /\ Top \in FrameT
      /\ FrameFits(Top, Context(stack, Len(stack) - 1))
      /\ Context(stack, Len(stack)) = After(Context(stack, Len(stack) - 1), Top)
      /\ Context(stack, Len(stack) - 1) \in ContextT
  BY Place DEF Me, Others, Top
<1>2. Top.at = "stmt" /\ ~Top.neg /\ "error" \notin Me.running
  BY DEF ErrTrap, FiresErr, Fails
<1> DEFINE e == [Me.exit EXCEPT !.erred = @ \cup {Me.level}]
<1> DEFINE q == [Me EXCEPT !.errFired = TRUE, !.exit.erred = @ \cup {Me.level}, !.noErr = Top.noErr]
<1> DEFINE r == InTrap(q, "error")
<1> DEFINE f == Action(q, "error", FALSE)
<1> DEFINE kl == [stack EXCEPT ![Len(stack)].trapped = TRUE]
<1>3. shells' = Append(Others, r) /\ stack' = Append(kl, f)
  BY DEF ErrTrap, Goto
<1>4. /\ ByOwn(Me.exit, Len(shells)) /\ From(Me.level, Me.exit)
      /\ Len(shells) = 1 => ByOwn(Me.last, 1)
      /\ Me.level \in 0..MaxDepth /\ Me.exit \in Status
      /\ Me.noErr = Context(stack, Len(stack)).test
  BY Standing DEF Me
<1>5. Top.noErr = Me.noErr
  <2>1. ~Tests(Top) /\ Top.at \notin Shells
    BY <1>2 DEF Tests, Conditions, Shells
  <2>2. Context(stack, Len(stack)).test = Context(stack, Len(stack) - 1).test
    BY <1>1, <2>1 DEF After, ContextT
  <2>3. Top.noErr = Context(stack, Len(stack) - 1).test
    BY <1>1, <1>2 DEF FrameFits
  <2> QED
    BY <1>4, <2>2, <2>3
<1>6. e \in Status /\ e.flow = Me.exit.flow /\ e.by = Me.exit.by /\ e.erred = Me.exit.erred \cup {Me.level}
  <2>1. e \in Status
    BY <1>4, Recoded
  <2> QED
    BY <1>4, <2>1 DEF Status
<1>7. q = [Me EXCEPT !.errFired = TRUE, !.exit = e, !.noErr = Top.noErr]
  BY <1>1 DEF RunnerT
<1> HIDE DEF e, q
<1>8. /\ q \in RunnerT /\ q.exit = e /\ q.last = Me.last /\ q.errFired = TRUE /\ q.noErr = Me.noErr
      /\ q.inLoop = Me.inLoop /\ q.level = Me.level /\ q.running = Me.running
      /\ q.fired = Me.fired /\ q.exits = Me.exits /\ q.asked = Me.asked
  <2>1. Me.noErr \in BOOLEAN
    BY <1>1 DEF RunnerT
  <2>2. q = [Me EXCEPT !.errFired = TRUE, !.exit = e, !.noErr = Me.noErr]
    BY <1>5, <1>7
  <2>3. q \in RunnerT
    BY <1>1, <1>6, <2>1, <2>2 DEF RunnerT
  <2> QED
    BY <1>1, <2>2, <2>3 DEF RunnerT
<1>9. "error" \in Trap /\ FALSE \in BOOLEAN
  BY DEF Trap
<1>10. /\ f \in FrameT /\ f.at = "action" /\ f.saved.kind = "error" /\ f.saved.exit = q.exit
       /\ f.saved.last = q.last /\ f.saved.errFired = q.errFired
       /\ r \in RunnerT /\ Acts(q, r, "error", q.exit)
  BY <1>8, <1>9, ActionMade, Zenon
<1> HIDE DEF r, f
<1>11. Acts(Me, r, f.saved.kind, e) /\ f.saved.exit = e /\ f.saved.last = Me.last /\ f.saved.errFired
  BY <1>8, <1>10 DEF Acts
<1>12. /\ kl \in Seq(FrameT) /\ Len(kl) = Len(stack)
       /\ \A i \in 1..Len(stack) : Alike(kl[i], stack[i])
  <2> DEFINE g == [Top EXCEPT !.trapped = TRUE]
  <2>1. kl = [stack EXCEPT ![Len(stack)] = g]
    BY <1>1
  <2>2. Top \in StmtT
    BY <1>1, <1>2 DEF FrameT, ListT
  <2>3. g \in StmtT /\ g.at = Top.at /\ g.neg = Top.neg /\ g.noErr = Top.noErr
    BY <2>2 DEF StmtT
  <2> HIDE DEF g, kl
  <2>4. g \in FrameT
    BY <2>3 DEF FrameT
  <2>5. Alike(g, stack[Len(stack)])
    <3>1. g.at = "stmt" /\ Top.at = "stmt"
      BY <1>2, <2>3
    <3> QED
      BY <1>1, <2>3, <3>1 DEF Alike, Shells
  <2> QED
    BY <1>1, <2>1, <2>4, <2>5, Mark
<1>13. Settled(x, m, Me, stack[1], Len(stack))
  BY <1>1, <1>2 DEF Settled
<1>14. ByOwn(e, Len(shells)) /\ From(Me.level, e)
  <2>1. ByOwn(e, Len(shells))
    BY <1>4, <1>6 DEF ByOwn
  <2>2. \A l \in e.erred : l >= Me.level
    BY <1>4, <1>6 DEF From
  <2> QED
    BY <2>1, <2>2 DEF From
<1>15. f.saved.kind \notin Me.running /\ f.saved.kind # "exit"
  BY <1>2, <1>10
<1>16. Len(shells) = 1 => ByOwn(f.saved.last, 1)
  BY <1>4, <1>11
<1> HIDE DEF kl
<1>17. Ok(x, m, Append(Front(shells), r), Append(kl, f))
  BY <1>1, <1>6, <1>10, <1>11, <1>12, <1>13, <1>14, <1>15, <1>16, PushAction
<1> QED
  BY <1>1, <1>3, <1>17

\* The EXIT trap: the shell marks it as run, then the action begins.
Armed(me) == [me EXCEPT !.fired = TRUE, !.exits = @ + 1]
Exiting(me) == [me EXCEPT !.fired = TRUE]
AsArmed(me, r) ==
    /\ r.fired /\ r.exits = me.exits + 1
    /\ r.exit = me.exit /\ r.last = me.last /\ r.noErr = me.noErr /\ r.inLoop = me.inLoop
    /\ r.level = me.level /\ r.running = me.running /\ r.asked = me.asked
    /\ r.errFired = me.errFired /\ r.exitTrap = me.exitTrap

\* A shell that is armed is a shell, and all else of it is as it was.
LEMMA ArmedTyped ==
    ASSUME NEW me \in RunnerT
    PROVE  Armed(me) \in RunnerT /\ AsArmed(me, Armed(me))
<1>1. me.exits + 1 \in Nat
  BY DEF RunnerT
<1>2. Armed(me) \in RunnerT
  BY <1>1 DEF Armed, RunnerT
<1>3. AsArmed(me, Armed(me))
  BY DEF Armed, AsArmed, RunnerT
<1> QED
  BY <1>2, <1>3

\* The action of the EXIT trap on its frame, and the shell that runs it.
LEMMA ExitActs ==
    ASSUME NEW me \in RunnerT
    PROVE  LET p == Exiting(me)
               f == Action(p, "exit", TRUE)
               r == [InTrap(p, "exit") EXCEPT !.exits = @ + 1]
           IN  /\ f \in FrameT /\ f.at = "action" /\ f.saved.kind = "exit"
               /\ f.saved.exit = me.exit /\ f.saved.last = me.last
               /\ f.saved.errFired = me.errFired
               /\ r \in RunnerT /\ Acts(Armed(me), r, "exit", me.exit)
<1> DEFINE p == Exiting(me)
<1> DEFINE f == Action(p, "exit", TRUE)
<1> DEFINE q == InTrap(p, "exit")
<1> DEFINE r == [q EXCEPT !.exits = @ + 1]
<1>1. /\ p \in RunnerT /\ p.exit = me.exit /\ p.last = me.last /\ p.errFired = me.errFired
      /\ p.running = me.running /\ p.noErr = me.noErr /\ p.inLoop = me.inLoop
      /\ p.level = me.level /\ p.fired = TRUE /\ p.exits = me.exits /\ p.asked = me.asked
  <2>1. p \in RunnerT
    BY DEF Exiting, RunnerT
  <2> QED
    BY <2>1 DEF Exiting, RunnerT
<1> HIDE DEF p
<1>2. "exit" \in Trap /\ TRUE \in BOOLEAN
  BY DEF Trap
<1>3. /\ f \in FrameT /\ f.at = "action" /\ f.saved.kind = "exit" /\ f.saved.exit = p.exit
      /\ f.saved.last = p.last /\ f.saved.errFired = p.errFired
      /\ q \in RunnerT /\ Acts(p, q, "exit", p.exit)
  BY <1>1, <1>2, ActionMade, Zenon
<1> HIDE DEF f, q
<1>4. r \in RunnerT
  <2>1. q.exits + 1 \in Nat
    BY <1>3 DEF RunnerT
  <2> QED
    BY <1>3, <2>1 DEF RunnerT
<1>5. /\ r.running = q.running /\ r.exit = q.exit /\ r.last = q.last /\ r.noErr = q.noErr
      /\ r.inLoop = q.inLoop /\ r.level = q.level /\ r.fired = q.fired
      /\ r.exits = q.exits + 1 /\ r.asked = q.asked
  BY <1>3 DEF RunnerT
<1>6. AsArmed(me, Armed(me))
  BY ArmedTyped
<1> HIDE DEF r
<1>7. Acts(Armed(me), r, "exit", me.exit)
  <2>1. /\ q.running = me.running \cup {"exit"} /\ q.exit = Zero /\ q.last = me.exit
        /\ q.noErr = me.noErr /\ q.inLoop = me.inLoop /\ q.level = me.level
        /\ q.fired = TRUE /\ q.exits = me.exits /\ q.asked = me.asked
    BY <1>1, <1>3 DEF Acts
  <2>2. Armed(me).fired = TRUE /\ Armed(me).exits = me.exits + 1
    BY DEF Armed, RunnerT
  <2> QED
    BY <1>5, <1>6, <2>1, <2>2 DEF Acts, AsArmed
<1> QED
  BY <1>1, <1>3, <1>4, <1>7 DEF f, p, q, r

\* The EXIT trap runs in a shell that has not run it, if it does not run already.
LEMMA ExitActionKept ==
    ASSUME NEW x, NEW m, NEW so \in Seq(RunnerT), NEW me \in RunnerT, NEW ks,
           Ok(x, m, Append(so, Armed(me)), ks), "exit" \notin me.running,
           x # "none" \/ m = "lines" \/ me.exits = 0
    PROVE  Ok(x, m, Append(so, [InTrap(Exiting(me), "exit") EXCEPT !.exits = @ + 1]),
              Append(ks, Action(Exiting(me), "exit", TRUE)))
<1> DEFINE o == Armed(me)
<1> DEFINE ss == Append(so, o)
<1> DEFINE f == Action(Exiting(me), "exit", TRUE)
<1> DEFINE r == [InTrap(Exiting(me), "exit") EXCEPT !.exits = @ + 1]
<1>1. /\ f \in FrameT /\ f.at = "action" /\ f.saved.kind = "exit"
      /\ f.saved.exit = me.exit /\ f.saved.last = me.last /\ f.saved.errFired = me.errFired
      /\ r \in RunnerT /\ Acts(o, r, "exit", me.exit)
  BY ExitActs
<1> HIDE DEF f, r
<1>2. o \in RunnerT /\ AsArmed(me, o)
  BY ArmedTyped
<1> HIDE DEF o
<1>3. Front(ss) = so /\ Last(ss) = o
  BY <1>2, FrontLast
<1>4. Ok(x, m, ss, ks)
  BY DEF o
<1> HIDE DEF ss
<1>5. /\ ByOwn(o.exit, Len(ss)) /\ From(o.level, o.exit) /\ (Len(ss) = 1 => ByOwn(o.last, 1))
      /\ \/ x = "overruled" \/ (Len(ks) = 1 /\ ks[1].ending)
         \/ o.level \in o.exit.erred => o.errFired
  BY <1>3, <1>4, Standing
<1>6. o.exit = me.exit /\ o.last = me.last /\ o.errFired = me.errFired /\ o.running = me.running
  BY <1>2 DEF AsArmed
<1>7. x # "none" \/ m = "lines" \/ o.exits = 1
  BY <1>2 DEF AsArmed
<1>8. Settled(x, m, o, ks[1], Len(ks))
  BY <1>7 DEF Settled
<1>9. ks \in Seq(FrameT) /\ \A i \in 1..Len(ks) : Alike(ks[i], ks[i])
  BY <1>4, Place, AlikeSelf
<1>10. f.saved.kind \notin o.running /\ Acts(o, r, f.saved.kind, me.exit)
  BY <1>1, <1>6
<1>11. \/ x = "overruled" \/ (Len(ks) = 1 /\ ks[1].ending)
       \/ o.level \in me.exit.erred => f.saved.errFired
  BY <1>1, <1>5, <1>6
<1>12. ByOwn(me.exit, Len(ss)) /\ From(o.level, me.exit) /\ (Len(ss) = 1 => ByOwn(f.saved.last, 1))
  BY <1>1, <1>5, <1>6
<1>13. "exit" \in o.exit.flow => "exit" \in me.exit.flow
  BY <1>6
<1>14. x # "none" \/ m = "lines" \/ (f.saved.kind = "exit" => o.exits = 1)
  BY <1>7
<1>15. Ok(x, m, Append(Front(ss), r), Append(ks, f))
  BY <1>1, <1>3, <1>4, <1>8, <1>9, <1>10, <1>11, <1>12, <1>13, <1>14, PushAction
<1> QED
  BY <1>3, <1>15 DEF f, r

\* An EXIT trap that is run where an exit leaves, or where a subshell ends.
LEMMA Arming ==
    ASSUME NEW x, NEW m, NEW me \in RunnerT, NEW c \in ContextT, NEW t, NEW n \in Nat \ {0},
           ShellOK(x, m, me, c, t, n), ~me.fired,
           c.shell > 1 \/ "exit" \in me.exit.flow
    PROVE  /\ ShellOK(x, m, Armed(me), c, t, n)
           /\ x # "none" \/ m = "lines" \/ me.exits = 0
           /\ c.kinds = {} \/ c.shell > 1 => Heeds(x, m, me, Armed(me), c)
<1> DEFINE r == Armed(me)
<1>1. AsArmed(me, r)
  BY ArmedTyped
<1> HIDE DEF r
<1>2. x # "none" \/ m = "lines" \/ me.exits = 0
  BY DEF ShellOK, ShellTraps
<1>3. ShellFits(r, c)
  BY <1>1 DEF ShellOK, ShellFits, AsArmed
<1>4. ShellKeeps(x, m, r, c, t, n)
  BY <1>1 DEF ShellOK, ShellKeeps, AsArmed
<1>5. ShellLeaves(x, m, r, c, t, n)
  <2>1. CASE "exit" \in me.exit.flow
    BY <1>1, <2>1 DEF ShellLeaves, Leaves, AsArmed
  <2>2. CASE c.shell > 1
    <3>1. c.shell # 1
      BY <2>2 DEF ContextT
    <3> QED
      BY <1>1, <3>1 DEF ShellOK, ShellLeaves, Bound, Leaves, AsArmed
  <2> QED
    BY <2>1, <2>2
<1>6. ShellTraps(x, m, r, c, t, n)
  <2> SUFFICES ASSUME x = "none", m # "lines" PROVE ShellTraps(x, m, r, c, t, n)
    BY DEF ShellTraps
  <2>1. r.exits = 1 /\ r.fired /\ me.exits = 0
    BY <1>1, <1>2 DEF AsArmed
  <2>2. c.shell = 1 /\ t.single => t.ending
    BY DEF ShellOK, ShellTraps
  <2> QED
    BY <2>1, <2>2 DEF ShellTraps
<1>7. ASSUME c.kinds = {} \/ c.shell > 1 PROVE Heeds(x, m, me, r, c)
  <2>1. c.kinds = {} \/ c.shell # 1
    BY <1>7 DEF ContextT
  <2>2. x # "none" \/ c.kinds = {} \/ (Bound(m, r, c) => Bound(m, me, c))
    BY <1>1, <2>1 DEF Bound, AsArmed
  <2>3. x # "none" \/ m = "lines" \/ ~(me.exits = 1)
    BY <1>2
  <2> QED
    BY <2>2, <2>3 DEF Heeds
<1> QED
  BY <1>2, <1>3, <1>4, <1>5, <1>6, <1>7 DEF ShellOK, r

\* A frame marked as ending.
LEMMA EndingAlike ==
    ASSUME NEW ks \in Seq(FrameT), Len(ks) > 0, Last(ks).at \in {"func"}
    PROVE  /\ [ks EXCEPT ![Len(ks)].ending = TRUE] \in Seq(FrameT)
           /\ Len([ks EXCEPT ![Len(ks)].ending = TRUE]) = Len(ks)
           /\ \A i \in 1..Len(ks) : Alike([ks EXCEPT ![Len(ks)].ending = TRUE][i], ks[i])
<1> DEFINE g == [ks[Len(ks)] EXCEPT !.ending = TRUE]
<1>1. ks[Len(ks)] \in FrameT /\ ks[Len(ks)].at = "func"
  BY DEF Last
<1>2. g \in FrameT
  BY <1>1, Marked
<1>3. /\ g.at = ks[Len(ks)].at /\ g.saved = ks[Len(ks)].saved
  BY <1>1 DEF FrameT, ListT
<1> HIDE DEF g
<1>4. Alike(g, ks[Len(ks)])
  BY <1>1, <1>3 DEF Alike, Shells
<1>5. /\ [ks EXCEPT ![Len(ks)] = g] \in Seq(FrameT)
      /\ Len([ks EXCEPT ![Len(ks)] = g]) = Len(ks)
      /\ \A i \in 1..Len(ks) : Alike([ks EXCEPT ![Len(ks)] = g][i], ks[i])
  BY <1>2, <1>4, Mark
<1> QED
  BY <1>5 DEF g

\* The EXIT trap of an exit that leaves a function.
LEMMA FuncExitTrapKept ==
    ASSUME NEW x, NEW m, Ok(x, m, shells, stack), FuncExitTrap
    PROVE  Ok(x, m, shells', stack')
<1> DEFINE kl == [stack EXCEPT ![Len(stack)].ending = TRUE]
<1>1. Top.at = "func" /\ "exit" \in Me.exit.flow /\ ~Me.fired /\ Me.running = {}
  BY DEF FuncExitTrap, FiresExit
<1>2. Goto([InTrap(Exiting(Me), "exit") EXCEPT !.exits = @ + 1],
           Append(kl, Action(Exiting(Me), "exit", TRUE)))
  BY <1>1 DEF FuncExitTrap, ExitAction, Exiting, Ending
<1>3. /\ Me \in RunnerT /\ Others \in Seq(RunnerT) /\ stack \in Seq(FrameT) /\ Len(stack) > 0
      /\ Me = Last(shells) /\ Others = Front(shells) /\ Top = Last(stack)
  BY Now, Place DEF Me, Others, Top
<1>4. kl \in Seq(FrameT) /\ Len(kl) = Len(stack) /\ \A i \in 1..Len(stack) : Alike(kl[i], stack[i])
  BY <1>1, <1>3, EndingAlike
<1> DEFINE c == Context(stack, Len(stack))
<1>5. c \in ContextT /\ ShellOK(x, m, Me, c, stack[1], Len(stack)) /\ Len(stack) \in Nat \ {0}
  BY <1>3, Place
<1>6. c.kinds = {}
  BY <1>1, <1>3, Standing
<1> HIDE DEF c, kl
<1>7. /\ ShellOK(x, m, Armed(Me), c, stack[1], Len(stack)) /\ Heeds(x, m, Me, Armed(Me), c)
      /\ x # "none" \/ m = "lines" \/ Me.exits = 0
  <2>1. /\ c.shell > 1 \/ "exit" \in Me.exit.flow
        /\ c.kinds = {} \/ c.shell > 1
    BY <1>1, <1>6
  <2>2. Me \in RunnerT /\ ~Me.fired /\ ShellOK(x, m, Me, c, stack[1], Len(stack))
        /\ c \in ContextT /\ Len(stack) \in Nat \ {0}
    BY <1>1, <1>3, <1>5
  <2> QED
    BY <2>1, <2>2, Arming, Zenon
<1>8. Armed(Me) \in RunnerT
  BY <1>3, ArmedTyped
<1>9. Ok(x, m, Append(Others, Armed(Me)), kl)
  BY <1>3, <1>4, <1>7, <1>8, Touch DEF c
<1>10. "exit" \notin Me.running
  BY <1>1
<1>11. Ok(x, m, Append(Others, [InTrap(Exiting(Me), "exit") EXCEPT !.exits = @ + 1]),
          Append(kl, Action(Exiting(Me), "exit", TRUE)))
  BY <1>3, <1>7, <1>9, <1>10, ExitActionKept
<1> QED
  BY <1>2, <1>11 DEF Goto

\* The EXIT trap at the end of a subshell.
LEMMA SubEnding ==
    ASSUME NEW f \in FrameT, f.at \in Shells, NEW c \in ContextT, FrameFits(f, c)
    PROVE  LET g == [f EXCEPT !.ending = TRUE]
           IN  g \in FrameT /\ g.at = f.at /\ g.ending /\ FrameFits(g, c)
<1> DEFINE g == [f EXCEPT !.ending = TRUE]
<1>0. f.at # "stmt"
  BY DEF Shells
<1>1. g \in FrameT
  BY <1>0, Marked
<1>2. /\ g.at = f.at /\ g.ending /\ g.saved = f.saved
  BY <1>0 DEF FrameT, ListT, StmtT
<1> HIDE DEF g
<1>3. FrameFits(g, c)
  BY <1>2 DEF FrameFits, Shells, Conditions
<1> QED
  BY <1>1, <1>2, <1>3 DEF g

\* runSubshellExitTrap: the EXIT trap of a shell that ends.
LEMMA SubExitTrapKept ==
    ASSUME NEW x, NEW m, Ok(x, m, shells, stack), SubExitTrap
    PROVE  Ok(x, m, shells', stack')
<1> DEFINE f == [Top EXCEPT !.ending = TRUE]
<1>1. Top.at \in Shells /\ ~Me.fired /\ ExitAction(Me, Ending)
  BY DEF SubExitTrap, FiresExit
<1>3. /\ Me \in RunnerT /\ Others \in Seq(RunnerT) /\ stack \in Seq(FrameT) /\ Len(stack) > 0
      /\ Me = Last(shells) /\ Others = Front(shells) /\ Top = Last(stack) /\ Below = Front(stack)
      /\ Top \in FrameT
  BY Now, Place DEF Me, Others, Top, Below
<1>4. Ending = Append(Below, f)
  BY <1>3, Restarted DEF Ending
<1> DEFINE c == Context(stack, Len(stack))
<1> DEFINE b == Context(stack, Len(stack) - 1)
<1>5. /\ c \in ContextT /\ ShellOK(x, m, Me, c, stack[1], Len(stack)) /\ Len(stack) \in Nat \ {0}
      /\ b \in ContextT /\ FrameFits(Top, b) /\ c.shell = Len(shells)
  BY <1>3, Place
<1>6. Len(shells) > 1
  BY <1>1, <1>3, Around
<1>7. c.kinds = Me.running
  BY <1>3, Standing
<1> HIDE DEF c, b
<1>8. f \in FrameT /\ f.at = Top.at /\ f.ending /\ FrameFits(f, b)
  BY <1>1, <1>3, <1>5, SubEnding
<1> HIDE DEF f
<1>9. Len(shells) \in Nat
  BY Place
<1>10. CASE "exit" \in Me.running
  <2>1. shells' = Append(Others, Exiting(Me)) /\ stack' = Append(Below, f)
    BY <1>1, <1>4, <1>10 DEF ExitAction, Goto, Exiting
  <2> DEFINE r == Exiting(Me)
  <2>2. r \in RunnerT
    BY <1>3 DEF Exiting, RunnerT
  <2>3. /\ r.fired /\ r.exits = Me.exits /\ r.exit = Me.exit /\ r.last = Me.last
        /\ r.noErr = Me.noErr /\ r.inLoop = Me.inLoop /\ r.level = Me.level
        /\ r.running = Me.running /\ r.asked = Me.asked /\ r.errFired = Me.errFired
        /\ r.exitTrap = Me.exitTrap
    BY <1>3 DEF Exiting, RunnerT
  <2> HIDE DEF r
  <2>4. c.shell # 1 /\ c.shell > 1 /\ "exit" \in c.kinds
    <3>0. c.shell = Len(shells)
      BY <1>5
    <3> DEFINE k == c.shell
    <3>3. k = Len(shells)
      BY <3>0
    <3> HIDE DEF k
    <3>4. k # 1 /\ k > 1
      BY <3>3, <1>6, <1>9
    <3>1. c.shell # 1 /\ c.shell > 1
      BY <3>4 DEF k
    <3>2. "exit" \in c.kinds
      BY <1>7, <1>10
    <3> QED
      BY <3>1, <3>2
  <2>5. ShellFits(r, c) /\ ShellKeeps(x, m, r, c, stack[1], Len(stack))
    BY <1>5, <2>3 DEF ShellOK, ShellFits, ShellKeeps
  <2>6. ShellLeaves(x, m, r, c, stack[1], Len(stack))
    BY <2>4 DEF ShellLeaves
  <2>7. ShellTraps(x, m, r, c, stack[1], Len(stack))
    BY <1>5, <2>3, <2>4 DEF ShellOK, ShellTraps
  <2>8. ForkOK(f, r)
    BY <2>3 DEF ForkOK
  <2>9. Ok(x, m, Append(Others, r), Append(Below, f))
    BY <1>1, <1>3, <1>8, <2>2, <2>5, <2>6, <2>7, <2>8, Closing DEF ShellOK, c, b
  <2> QED
    BY <2>1, <2>9 DEF r
<1>11. CASE "exit" \notin Me.running
  <2>1. /\ shells' = Append(Others, [InTrap(Exiting(Me), "exit") EXCEPT !.exits = @ + 1])
        /\ stack' = Append(Append(Below, f), Action(Exiting(Me), "exit", TRUE))
    BY <1>1, <1>4, <1>11 DEF ExitAction, Goto, Exiting
  <2>2. c.shell > 1
    BY <1>5, <1>6
  <2>3. /\ ShellOK(x, m, Armed(Me), c, stack[1], Len(stack))
        /\ x # "none" \/ m = "lines" \/ Me.exits = 0
    BY <1>1, <1>3, <1>5, <2>2, Arming
  <2>4. Armed(Me) \in RunnerT /\ Armed(Me).fired
    BY <1>3, ArmedTyped DEF AsArmed
  <2>5. ForkOK(f, Armed(Me))
    BY <2>4 DEF ForkOK
  <2>6. Ok(x, m, Append(Others, Armed(Me)), Append(Below, f))
    BY <1>1, <1>3, <1>8, <2>3, <2>4, <2>5, Closing DEF c, b
  <2>7. Ok(x, m, Append(Others, [InTrap(Exiting(Me), "exit") EXCEPT !.exits = @ + 1]),
           Append(Append(Below, f), Action(Exiting(Me), "exit", TRUE)))
    BY <1>3, <1>11, <2>3, <2>6, ExitActionKept
  <2> QED
    BY <2>1, <2>7
<1> QED
  BY <1>10, <1>11

\* The frame of a trap's action at the top of the stack.
LEMMA ActionPlace ==
    ASSUME NEW x, NEW m, NEW ss, NEW ks, Ok(x, m, ss, ks), Last(ks).at = "action"
    PROVE  /\ ActionOK(x, m, Last(ks), Last(ss), Context(ks, Len(ks) - 1), ks[1], Len(ks) - 1)
           /\ Len(ks) - 1 \in Nat \ {0}
<1>1. /\ Len(ks) \in Nat /\ Len(ks) > 0 /\ Last(ks) = ks[Len(ks)] /\ Last(ss) = ss[Len(ss)]
      /\ Len(ss) = Shell(ks, Len(ks)) /\ (Last(ks).at = "top" <=> Len(ks) = 1)
  BY Place
<1>2. Len(ks) # 1
  BY <1>1
<1>3. Len(ks) - 1 \in Nat \ {0} /\ Len(ks) \in 1..Len(ks)
  BY <1>1, <1>2
<1>4. FrameOK(x, m, ss, ks, Len(ks))
  BY <1>3 DEF Ok
<1>5. ActionOK(x, m, ks[Len(ks)], ss[Shell(ks, Len(ks))], Context(ks, Len(ks) - 1), ks[1],
               Len(ks) - 1)
  BY <1>1, <1>4 DEF FrameOK
<1> QED
  BY <1>1, <1>3, <1>5

\* What a trap's action says of the context around it.
LEMMA ActionAfter ==
    ASSUME NEW b \in ContextT, NEW f, f.at = "action", NEW c, c = After(b, f)
    PROVE  /\ c.shell = b.shell /\ c.level = b.level /\ (c.test <=> b.test)
           /\ (c.loop <=> b.loop) /\ c.kinds = b.kinds \cup {f.saved.kind}
           /\ c.test \in BOOLEAN /\ c.loop \in BOOLEAN
<1>1. f.at \notin Shells /\ f.at \notin Deeper /\ ~Tests(f) /\ ~InRound(f)
  BY DEF Shells, Deeper, Tests, InRound, Conditions
<1>2. /\ b.test \in BOOLEAN /\ b.loop \in BOOLEAN /\ b.shell + 0 = b.shell /\ b.level + 0 = b.level
  BY DEF ContextT
<1> QED
  BY <1>1, <1>2 DEF After

\* The shell when a trap's action is over: what was saved, or what the action asked for.
Returns(x, f, o, r) ==
    /\ r.noErr = o.noErr /\ r.inLoop = o.inLoop /\ r.level = o.level
    /\ r.running = o.running \ {f.saved.kind}
    /\ r.fired = o.fired /\ r.exits = o.exits /\ r.asked = o.asked
    /\ \/ /\ r.exit = f.saved.exit /\ r.last = f.saved.last /\ r.errFired = f.saved.errFired
       \/ x = "overruled" /\ r.exit = o.exit /\ r.last = o.last

\* The shell that a trap's action gives back is right in the place where the action
\* began, and what is said of it further down stays true.
LEMMA Returned ==
    ASSUME NEW x, NEW m, NEW o, NEW r \in RunnerT, NEW f, f.at = "action", Returns(x, f, o, r),
           o \in RunnerT, NEW b \in ContextT, NEW t, NEW n \in Nat \ {0, 1},
           FrameFits(f, b), ActionOK(x, m, f, o, b, t, n - 1), ShellOK(x, m, o, After(b, f), t, n)
    PROVE  ShellOK(x, m, r, b, t, n - 1) /\ Heeds(x, m, o, r, b)
<1> DEFINE c == After(b, f)
<1>1. /\ c.shell = b.shell /\ c.level = b.level /\ (c.test <=> b.test)
      /\ (c.loop <=> b.loop) /\ c.kinds = b.kinds \cup {f.saved.kind}
      /\ c.test \in BOOLEAN /\ c.loop \in BOOLEAN
  BY ActionAfter
<1>2. ShellOK(x, m, o, c, t, n)
  OBVIOUS
<1> HIDE DEF c
<1>3. b.test \in BOOLEAN /\ b.loop \in BOOLEAN /\ o.noErr \in BOOLEAN /\ o.inLoop \in BOOLEAN
  BY DEF ContextT, RunnerT
<1>4. /\ f.saved.kind \notin b.kinds
      /\ ByOwn(f.saved.exit, b.shell) /\ (b.shell = 1 => ByOwn(f.saved.last, 1))
      /\ From(b.level, f.saved.exit)
  BY DEF FrameFits
<1>5. ShellFits(o, c)
  BY <1>2 DEF ShellOK
<1>6. ShellFits(r, b)
  <2>1. r.noErr = b.test /\ r.inLoop = b.loop /\ r.level = b.level
    BY <1>1, <1>3, <1>5 DEF ShellFits, Returns
  <2>2. r.running = b.kinds
    BY <1>1, <1>4, <1>5 DEF ShellFits, Returns
  <2>3. /\ ByOwn(r.exit, b.shell) /\ (b.shell = 1 => ByOwn(r.last, 1))
        /\ From(b.level, r.exit)
    BY <1>1, <1>4, <1>5 DEF ShellFits, Returns
  <2> QED
    BY <2>1, <2>2, <2>3 DEF ShellFits
<1>7. ShellKeeps(x, m, r, b, t, n - 1)
  <2>1. r.level = b.level
    BY <1>6 DEF ShellFits
  <2> QED
    BY <2>1 DEF ShellKeeps, ActionOK, Returns
<1>8. Bound(m, r, b) <=> Bound(m, o, b)
  BY DEF Bound, Returns
<1>9. ShellLeaves(x, m, r, b, t, n - 1)
  <2> SUFFICES ASSUME x = "none", Bound(m, r, b), b.kinds = {} PROVE Leaves(m, r.exit, t, n - 1)
    BY DEF ShellLeaves
  <2>1. Leaves(m, f.saved.exit, t, n - 1)
    BY <1>8 DEF ActionOK
  <2>2. r.exit = f.saved.exit
    BY DEF Returns
  <2> QED
    BY <2>1, <2>2
<1>10. ShellTraps(x, m, r, b, t, n - 1)
  <2> SUFFICES ASSUME x = "none", m # "lines" PROVE ShellTraps(x, m, r, b, t, n - 1)
    BY DEF ShellTraps
  <2>1. ShellTraps(x, m, o, c, t, n)
    BY <1>2 DEF ShellOK
  <2>2. /\ o.exits \in {0, 1} /\ (o.exits = 1 => o.fired)
        /\ c.shell > 1 /\ o.fired => o.exits = 1 \/ "exit" \in c.kinds
        /\ c.shell = 1 /\ o.fired => o.exits # 0
        /\ c.shell = 1 => (t.ending => o.fired) /\ (t.single => t.ending)
    BY <2>1 DEF ShellTraps
  <2>3. f.saved.kind = "exit" => o.exits = 1
    BY DEF ActionOK
  <2>4. r.fired = o.fired /\ r.exits = o.exits
    BY DEF Returns
  <2>5. b.shell > 1 /\ r.fired => r.exits = 1 \/ "exit" \in b.kinds
    BY <1>1, <2>2, <2>3, <2>4
  <2> QED
    BY <1>1, <2>2, <2>4, <2>5 DEF ShellTraps
<1>11. Heeds(x, m, o, r, b)
  BY <1>8 DEF Heeds, Returns
<1> QED
  BY <1>6, <1>7, <1>9, <1>10, <1>11 DEF ShellOK

\* A trap's action is over: the stack without its frame is right.
LEMMA ActionOver ==
    ASSUME NEW x, NEW m, NEW ss, NEW ks, Ok(x, m, ss, ks), Last(ks).at = "action",
           NEW r \in RunnerT, Returns(x, Last(ks), Last(ss), r)
    PROVE  Ok(x, m, Append(Front(ss), r), Front(ks))
<1> DEFINE f == Last(ks)
<1> DEFINE o == Last(ss)
<1> DEFINE b == Context(ks, Len(ks) - 1)
<1>1. /\ ActionOK(x, m, f, o, b, ks[1], Len(ks) - 1) /\ Len(ks) - 1 \in Nat \ {0}
  BY ActionPlace
<1>2. /\ o \in RunnerT /\ b \in ContextT /\ FrameFits(f, b) /\ Len(ks) \in Nat
      /\ ShellOK(x, m, o, Context(ks, Len(ks)), ks[1], Len(ks))
      /\ Context(ks, Len(ks)) = After(b, f)
  BY Place
<1>3. Len(ks) \in Nat \ {0, 1}
  BY <1>1, <1>2
<1> HIDE DEF f, o, b
<1>4. ShellOK(x, m, r, b, ks[1], Len(ks) - 1) /\ Heeds(x, m, o, r, b)
  <2>1. ShellOK(x, m, o, After(b, f), ks[1], Len(ks))
    BY <1>2
  <2>2. f.at = "action" /\ Returns(x, f, o, r)
    BY DEF f, o
  <2> QED
    BY <1>1, <1>2, <1>3, <2>1, <2>2, Returned
<1>5. Last(ks).at \notin Shells /\ Last(ks).at # "top"
  BY DEF Shells
<1> QED
  BY <1>4, <1>5, Pop DEF f, o, b

\* The end of a trap's action.
LEMMA EndActionKept ==
    ASSUME NEW x, NEW m, Ok(x, m, shells, stack), EndAction,
           NEW y, y = IF Top.saved.keep /\ Stop(Me) THEN "overruled" ELSE x
    PROVE  Ok(y, m, shells', stack')
<1> DEFINE s == Top.saved
<1> DEFINE r == [Restored(Me, s) EXCEPT !.running = @ \ {s.kind}]
<1> DEFINE q == IF s.keep /\ Stop(Me) THEN r ELSE [r EXCEPT !.exit = s.exit, !.last = s.last]
<1>1. Top.at = "action" /\ Goto(q, Below)
  BY DEF EndAction
<1>2. /\ Me \in RunnerT /\ Others \in Seq(RunnerT) /\ Top \in FrameT
      /\ Me = Last(shells) /\ Others = Front(shells) /\ Top = Last(stack) /\ Below = Front(stack)
  BY Now, Place DEF Me, Others, Top, Below
<1>3. Ok(y, m, shells, stack)
  BY Excused
<1>4. s \in ActionSaved
  <2>1. Top \in ListT({"action"}, ActionSaved)
    BY <1>1, <1>2 DEF FrameT, ListT, StmtT
  <2> QED
    BY <2>1 DEF ListT
<1>5. s.exit \in Status /\ s.last \in Status /\ s.errFired \in BOOLEAN
  BY <1>4 DEF ActionSaved
<1>6. r \in RunnerT /\ [r EXCEPT !.exit = s.exit, !.last = s.last] \in RunnerT
  <2> HIDE DEF s
  <2>1. (Me.running \ {s.kind}) \in SUBSET Trap
    BY <1>2 DEF RunnerT
  <2>2. r \in RunnerT
    BY <1>2, <1>5, <2>1 DEF RunnerT, Restored
  <2> HIDE DEF r
  <2>3. [r EXCEPT !.exit = s.exit, !.last = s.last] \in RunnerT
    BY <1>5, <2>2 DEF RunnerT
  <2> QED
    BY <2>2, <2>3
<1>7. /\ r.noErr = Me.noErr /\ r.inLoop = Me.inLoop /\ r.level = Me.level
      /\ r.running = Me.running \ {s.kind} /\ r.errFired = s.errFired
      /\ r.fired = Me.fired /\ r.exits = Me.exits /\ r.asked = Me.asked
      /\ r.exit = Me.exit /\ r.last = Me.last
  BY <1>2 DEF RunnerT, Restored
<1> HIDE DEF r
<1>8. q \in RunnerT
  BY <1>6
<1>9. Returns(y, Top, Me, q)
  <2>1. CASE s.keep /\ Stop(Me)
    <3>1. q = r /\ y = "overruled"
      BY <2>1
    <3> QED
      BY <1>7, <3>1 DEF Returns
  <2>2. CASE ~(s.keep /\ Stop(Me))
    <3>1. q = [r EXCEPT !.exit = s.exit, !.last = s.last]
      BY <2>2
    <3>2. /\ q.noErr = r.noErr /\ q.inLoop = r.inLoop /\ q.level = r.level
          /\ q.running = r.running /\ q.errFired = r.errFired
          /\ q.fired = r.fired /\ q.exits = r.exits /\ q.asked = r.asked
          /\ q.exit = s.exit /\ q.last = s.last
      BY <1>6, <3>1 DEF RunnerT
    <3> HIDE DEF q
    <3> QED
      BY <1>7, <3>2 DEF Returns
  <2> QED
    BY <2>1, <2>2
<1> HIDE DEF q
<1>10. Ok(y, m, Append(Others, q), Below)
  BY <1>1, <1>2, <1>3, <1>8, <1>9, ActionOver
<1> QED
  BY <1>1, <1>10 DEF Goto

\* A function returns: its caller has the rest of what is on its way.
OutOfCall(e, b) == [e EXCEPT !.flow = @ \ {"return"}, !.tested = b]

\* To take the return off a status leaves its exit, its shell and its ERR traps.
LEMMA Returning ==
    ASSUME NEW e \in Status, NEW b \in BOOLEAN
    PROVE  /\ OutOfCall(e, b) \in Status /\ OutOfCall(e, b).erred = e.erred
           /\ "exit" \in e.flow => "exit" \in OutOfCall(e, b).flow
           /\ \A i : ByOwn(e, i) => ByOwn(OutOfCall(e, b), i)
<1> DEFINE f == OutOfCall(e, b)
<1>1. e.flow \ {"return"} \in SUBSET Flows
  BY DEF Status
<1>2. f \in Status
  BY <1>1, Recoded DEF OutOfCall
<1>3. f.erred = e.erred /\ f.flow = e.flow \ {"return"} /\ f.by = e.by
  BY DEF Status, OutOfCall
<1> HIDE DEF f
<1>4. \A i : ByOwn(e, i) => ByOwn(f, i)
  BY <1>3 DEF ByOwn
<1>5. f \in Status /\ f.erred = e.erred /\ ("exit" \in e.flow => "exit" \in f.flow)
  BY <1>2, <1>3
<1> QED
  BY <1>4, <1>5 DEF f

\* The end of a call: inFunc and errTrapFired are put back, one level less, and a
\* return ends here.
LEMMA EndFuncKept ==
    ASSUME NEW x, NEW m, Ok(x, m, shells, stack), EndFunc
    PROVE  Ok(x, m, shells', stack')
<1> DEFINE e == OutOfCall(Me.exit, Tested(Below))
<1> DEFINE r == [Me EXCEPT !.inFunc = Top.saved.inFunc, !.errFired = Top.saved.errFired,
                           !.level = @ - 1, !.exit = e]
<1>1. Top.at = "func" /\ Goto([Me EXCEPT !.inFunc = Top.saved.inFunc, !.errFired = Top.saved.errFired,
                        !.level = @ - 1, !.exit.flow = @ \ {"return"}, !.exit.tested = Tested(Below)], Below)
  BY DEF EndFunc, Leave
<1>2. /\ Me \in RunnerT /\ Others \in Seq(RunnerT) /\ Top \in FrameT
      /\ Me = Last(shells) /\ Others = Front(shells) /\ Top = Last(stack) /\ Below = Front(stack)
  BY Now, Place DEF Me, Others, Top, Below
<1>3. Goto(r, Below)
  <2>1. [Me EXCEPT !.inFunc = Top.saved.inFunc, !.errFired = Top.saved.errFired,
                   !.level = @ - 1, !.exit.flow = @ \ {"return"}, !.exit.tested = Tested(Below)] = r
    BY <1>2, ZenonT(30) DEF RunnerT, Status, OutOfCall
  <2> QED
    BY <1>1, <2>1
<1>4. Top.saved.inFunc \in BOOLEAN /\ Top.saved.errFired \in BOOLEAN
  <2>1. Top \in ListT({"func"}, [inFunc: BOOLEAN, errFired: BOOLEAN])
    BY <1>1, <1>2 DEF FrameT, ListT, StmtT
  <2> QED
    BY <2>1 DEF ListT
<1>5. /\ e \in Status /\ e.erred = Me.exit.erred
      /\ "exit" \in Me.exit.flow => "exit" \in e.flow
      /\ \A i : ByOwn(Me.exit, i) => ByOwn(e, i)
  <2>1. Me.exit \in Status /\ Tested(Below) \in BOOLEAN
    BY <1>2 DEF RunnerT, Tested
  <2> QED
    BY <2>1, Returning
<1> HIDE DEF e
<1>6. /\ r.noErr = Me.noErr /\ r.inLoop = Me.inLoop /\ r.level = Me.level - 1
      /\ r.running = Me.running /\ r.fired = Me.fired /\ r.exits = Me.exits
      /\ r.exit = e /\ r.last = Me.last /\ r.asked = Me.asked
  BY <1>2 DEF RunnerT
<1>7. Plain(Top) /\ Closes(Top, Me, r)
  <2>1. Plain(Top)
    BY <1>1 DEF Plain, Shells
  <2>2. r.noErr = Me.noErr /\ r.inLoop = Me.inLoop /\ r.level = Me.level - 1
    BY <1>6
  <2> HIDE DEF r
  <2> QED
    BY <1>1, <2>1, <2>2 DEF Closes
<1>8. Context(stack, Len(stack) - 1).level < Me.level /\ Context(stack, Len(stack) - 1) \in ContextT
  BY <1>1, <1>2, <1>7, Closed
<1>9. Me.level - 1 \in 0..MaxDepth /\ Me.level \in Nat /\ Me.level - 1 # Me.level
  <2>1. Me.level \in 0..MaxDepth
    BY <1>2 DEF RunnerT
  <2> DEFINE l == Context(stack, Len(stack) - 1).level
  <2>2. l \in Nat /\ l < Me.level
    BY <1>8 DEF ContextT
  <2> HIDE DEF l
  <2>3. MaxDepth \in Nat
    BY ScenariosAssumption
  <2> QED
    BY <2>1, <2>2, <2>3
<1>10. r \in RunnerT
  BY <1>2, <1>4, <1>5, <1>9 DEF RunnerT
<1> HIDE DEF r
<1>11. ByOwn(Me.exit, Len(shells)) /\ (Len(shells) = 1 => ByOwn(Me.last, 1))
  BY <1>2, Standing
<1>12. Carries(x, Me, r, Len(shells))
  <2>1. ~(r.level = Me.level)
    BY <1>6, <1>9
  <2> QED
    BY <1>5, <1>6, <1>11, <2>1 DEF Carries
<1>13. Ok(x, m, Append(Others, r), Below)
  BY <1>2, <1>7, <1>10, <1>12, Close
<1> QED
  BY <1>3, <1>13 DEF Goto

\* A subshell, a background job and a stage end: the shell around goes on.
Above(e, l) == \A k \in e.erred : k > l
JoinsWith(p, r, i) ==
    /\ r.noErr = p.noErr /\ r.inLoop = p.inLoop /\ r.level = p.level /\ r.running = p.running
    /\ r.fired = p.fired /\ r.exits = p.exits /\ r.asked = p.asked /\ r.last = p.last
    /\ r.exitTrap = p.exitTrap
    /\ ByOwn(r.exit, i)
    /\ Above(r.exit, p.level)

\* The shell around, with a status whose flags are its own and for which no ERR trap has
\* run at its level, is right where it forked, above the frame at the bottom.
LEMMA Joined ==
    ASSUME NEW x, NEW m, NEW p \in RunnerT, NEW r \in RunnerT, NEW c, c.level \in Nat, NEW t, NEW n,
           ShellOK(x, m, p, c, t, n), n # 1, p.exit.flow = {}, JoinsWith(p, r, c.shell)
    PROVE  ShellOK(x, m, r, c, t, n) /\ Heeds(x, m, p, r, c)
<1>0. ShellFits(p, c) /\ p.level = c.level /\ p.level \in Nat
  BY DEF ShellOK, ShellFits
<1>1. r.level \notin r.exit.erred /\ From(c.level, r.exit)
  <2>1. \A l \in r.exit.erred : l > p.level /\ l \in Nat
    BY DEF JoinsWith, RunnerT, Status, Above
  <2>2. r.level = p.level
    BY DEF JoinsWith
  <2>3. p.level \notin r.exit.erred /\ \A l \in r.exit.erred : l >= p.level
    BY <1>0, <2>1
  <2> QED
    BY <1>0, <2>2, <2>3 DEF From
<1>2. ShellFits(r, c)
  BY <1>0, <1>1 DEF ShellFits, JoinsWith, ByOwn
<1>3. ShellKeeps(x, m, r, c, t, n)
  BY <1>1 DEF ShellKeeps
<1>4. Bound(m, r, c) <=> Bound(m, p, c)
  BY DEF Bound, JoinsWith
<1>5. ShellLeaves(x, m, r, c, t, n)
  <2>1. "exit" \notin p.exit.flow
    OBVIOUS
  <2> QED
    BY <1>4, <2>1 DEF ShellOK, ShellLeaves, Leaves
<1>6. ShellTraps(x, m, r, c, t, n)
  <2>1. ShellTraps(x, m, p, c, t, n) /\ n # 1
    BY DEF ShellOK
  <2>2. r.fired = p.fired /\ r.exits = p.exits /\ r.exitTrap = p.exitTrap
    BY DEF JoinsWith
  <2> QED
    BY <2>1, <2>2 DEF ShellTraps
<1>7. Heeds(x, m, p, r, c)
  BY <1>4 DEF Heeds, JoinsWith
<1> QED
  BY <1>2, <1>3, <1>5, <1>6, <1>7 DEF ShellOK

\* A subshell ends: the stack without its frame and its shell is right.
LEMMA JoinBack ==
    ASSUME NEW x, NEW m, NEW ss, NEW ks, Ok(x, m, ss, ks), Last(ks).at \in Shells,
           NEW r \in RunnerT, JoinsWith(Last(Front(ss)), r, Len(ss) - 1)
    PROVE  Ok(x, m, Append(Front(Front(ss)), r), Front(ks))
<1> DEFINE p == Last(Front(ss))
<1> DEFINE b == Context(ks, Len(ks) - 1)
<1>1. /\ p \in RunnerT /\ ShellOK(x, m, p, b, ks[1], Len(ks) - 1) /\ p.exit.flow = {}
      /\ b.shell = Len(ss) - 1 /\ Len(ks) > 1
  BY Around
<1>2. b \in ContextT /\ b.level \in Nat
  BY Place DEF ContextT
<1>3. JoinsWith(p, r, b.shell)
  BY <1>1
<1>5. Len(ks) - 1 # 1
  <2>1. Last(ks).at # "top" /\ Last(ks).at # "stmt" /\ Last(ks).at # "action"
    BY DEF Shells
  <2>2. Last(Front(ks)).at # "top"
    BY <2>1, Tall
  <2>3. /\ Front(ks) \in Seq(FrameT) /\ Len(Front(ks)) = Len(ks) - 1 /\ Len(ks) \in Nat
        /\ \A i \in 1..(Len(ks) - 1) : Front(ks)[i] = ks[i]
        /\ ks[1].at = "top"
    BY Place
  <2>4. Len(Front(ks)) > 0
    BY <1>1, <2>3
  <2>5. Last(Front(ks)) = Front(ks)[Len(Front(ks))]
    BY <2>3, <2>4, Ends
  <2>6. SUFFICES ASSUME Len(ks) - 1 = 1 PROVE FALSE
    OBVIOUS
  <2>7. 1 \in 1..(Len(ks) - 1)
    <3>1. 1 \in 1..1
      OBVIOUS
    <3> QED
      BY <2>6, <3>1, Zenon
  <2>8. Front(ks)[1] = ks[1] /\ Len(Front(ks)) = 1
    BY <2>3, <2>6, <2>7
  <2> QED
    BY <2>2, <2>3, <2>5, <2>8
<1> HIDE DEF p, b
<1>4. ShellOK(x, m, r, b, ks[1], Len(ks) - 1) /\ Heeds(x, m, p, r, b)
  BY <1>1, <1>2, <1>3, <1>5, Joined
<1> QED
  BY <1>4, Join DEF p, b

\* A status of a subshell that reaches the shell around it, at level l.
Behind(e, l) ==
    e \in Status /\ e.flow \cap {"exit", "abort"} = {} /\ Above(e, l)

\* What the top says of a subshell and of the shell that forked it.
LEMMA Child ==
    ASSUME NEW x, NEW m, NEW ss, NEW ks, Ok(x, m, ss, ks), Last(ks).at \in Shells
    PROVE  /\ Last(Front(ss)) \in RunnerT /\ Last(ss) \in RunnerT
           /\ Last(Front(ss)).level \in Nat
           /\ Last(Front(ss)).level + 1 \in 0..MaxDepth
           /\ Above(Last(ss).exit, Last(Front(ss)).level)
           /\ Last(ss).exit \in Status
           /\ Last(ks).at = "stageR" => Behind(Last(ks).saved, Last(Front(ss)).level)
<1> DEFINE p == Last(Front(ss))
<1> DEFINE o == Last(ss)
<1> DEFINE f == Last(ks)
<1> DEFINE b == Context(ks, Len(ks) - 1)
<1>1. /\ p \in RunnerT /\ ShellOK(x, m, p, b, ks[1], Len(ks) - 1)
  BY Around
<1>2. /\ o \in RunnerT /\ f \in FrameT /\ b \in ContextT /\ FrameFits(f, b)
      /\ Context(ks, Len(ks)) = After(b, f)
  BY Place
<1>3. o.level = Level(ks, Len(ks)) /\ From(o.level, o.exit) /\ o.level \in 0..MaxDepth
      /\ o.exit \in Status
  BY Standing
<1>4. Level(ks, Len(ks)) = Context(ks, Len(ks)).level
  BY DEF Context
<1>5. f.at \in Shells
  OBVIOUS
<1> HIDE DEF p, o, f, b
<1>6. o.level = b.level + 1
  BY <1>2, <1>3, <1>4, <1>5 DEF After, Deeper
<1>7. p.level = b.level
  BY <1>1 DEF ShellOK, ShellFits
<1>8. b.level \in Nat
  BY <1>2 DEF ContextT
<1>9. Above(o.exit, p.level)
  <2>1. \A k \in o.exit.erred : k \in Nat /\ k >= o.level
    BY <1>3 DEF From, Status
  <2>2. \A k \in o.exit.erred : k > p.level
    BY <2>1, <1>6, <1>7, <1>8
  <2> QED
    BY <2>2 DEF Above
<1>10. ASSUME f.at = "stageR" PROVE Behind(f.saved, p.level)
  <2>1. f.saved \in Status
    BY <1>2, <1>10 DEF FrameT, ListT, StmtT
  <2>2. f.saved.flow = {} /\ From(b.level + 1, f.saved)
    BY <1>2, <1>10 DEF FrameFits
  <2>3. \A k \in f.saved.erred : k \in Nat /\ k >= b.level + 1
    BY <2>1, <2>2 DEF From, Status
  <2>4. \A k \in f.saved.erred : k > p.level
    BY <2>3, <1>7, <1>8
  <2> QED
    BY <2>1, <2>2, <2>4 DEF Behind, Above
<1> QED
  BY <1>1, <1>2, <1>3, <1>6, <1>7, <1>8, <1>9, <1>10 DEF p, o, f

\* What a subshell leaves carries no exit and no abort (runnerSubshell, stages).
LEMMA Containing ==
    ASSUME NEW l, NEW e \in Status, Above(e, l)
    PROVE  Behind(Contained(e), l) /\ Behind(ContainedStage(e), l)
<1>1. Contained(e) \in Status /\ Contained(e).flow = {} /\ Contained(e).erred = e.erred
  BY DEF Contained, Status
<1>2. /\ ContainedStage(e) \in Status /\ ContainedStage(e).flow = e.flow \ {"exit", "abort"}
      /\ ContainedStage(e).erred = e.erred
  BY DEF ContainedStage, Status
<1> QED
  BY <1>1, <1>2 DEF Behind, Above

\* To note where a status came about changes nothing else of it.
LEMMA OfCommands ==
    ASSUME NEW l, NEW e, Behind(e, l)
    PROVE  Behind(OfCommand(e), l)
<1>1. Tested(Below) \in BOOLEAN
  BY DEF Tested
<1>2. /\ OfCommand(e) \in Status /\ OfCommand(e).flow = e.flow /\ OfCommand(e).erred = e.erred
  BY <1>1 DEF OfCommand, Status, Behind
<1> QED
  BY <1>2 DEF Behind, Above

\* The shell around i with a status of its own for its subshell's joins with itself.
LEMMA Handed ==
    ASSUME NEW p \in RunnerT, NEW i, NEW e \in Status, ByOwn(e, i), Above(e, p.level)
    PROVE  [p EXCEPT !.exit = e] \in RunnerT /\ JoinsWith(p, [p EXCEPT !.exit = e], i)
<1> DEFINE r == [p EXCEPT !.exit = e]
<1>1. r \in RunnerT
  BY DEF RunnerT
<1>2. /\ r.noErr = p.noErr /\ r.inLoop = p.inLoop /\ r.level = p.level /\ r.running = p.running
      /\ r.fired = p.fired /\ r.exits = p.exits /\ r.asked = p.asked /\ r.last = p.last
      /\ r.exitTrap = p.exitTrap /\ r.exit = e
  BY DEF RunnerT
<1> HIDE DEF r
<1>3. JoinsWith(p, r, i)
  BY <1>2 DEF JoinsWith, Above
<1> QED
  BY <1>1, <1>3 DEF r

\* What the stack says of the shell around, when the frame of a subshell is at the top.
LEMMA ParentThere ==
    ASSUME NEW x, NEW m, Ok(x, m, shells, stack), Top.at \in Shells
    PROVE  /\ Parent \in RunnerT /\ Me.exit \in Status /\ Parent.level \in Nat
           /\ Above(Me.exit, Parent.level)
           /\ Top.at = "stageR" => Behind(Top.saved, Parent.level)
           /\ \A r \in RunnerT : JoinsWith(Parent, r, Len(Others))
                                   => Ok(x, m, Append(Front(Others), r), Below)
           /\ Parent.level + 1 \in 0..MaxDepth /\ Len(Others) \in 0..MaxDepth
<1>1. Len(Others) = Len(shells) - 1 /\ Len(shells) \in Nat /\ Len(shells) > 0
      /\ Len(shells) <= MaxDepth
  BY Place DEF Others
<1>2. Len(Others) \in 0..MaxDepth
  BY <1>1, ScenariosAssumption
<1> QED
  BY <1>1, <1>2, Child, JoinBack DEF Parent, Others, Me, Top, Below

\* The end of a subshell.
LEMMA EndSubKept ==
    ASSUME NEW x, NEW m, Ok(x, m, shells, stack), EndSub
    PROVE  Ok(x, m, shells', stack')
<1> DEFINE e == OfCommand(Contained(Me.exit))
<1>1. /\ shells' = Append(Front(Others), [Parent EXCEPT !.exit = e]) /\ stack' = Below
      /\ Top.at = "sub"
  BY DEF EndSub, WithParent, ShellOver
<1>2. Top.at \in Shells
  BY <1>1 DEF Shells
<1>3. Behind(e, Parent.level)
  BY <1>2, ParentThere, Containing, OfCommands
<1> HIDE DEF e
<1>4. e \in Status /\ ByOwn(e, Len(Others)) /\ Above(e, Parent.level)
  BY <1>3 DEF Behind, ByOwn
<1> QED
  BY <1>1, <1>2, <1>4, ParentThere, Handed

\* The end of the last stage of a pipeline, in a subshell of its own.
LEMMA EndStageRKept ==
    ASSUME NEW x, NEW m, Ok(x, m, shells, stack), EndStageR
    PROVE  Ok(x, m, shells', stack')
<1> DEFINE c == PipeFail(ContainedStage(Me.exit), Top.saved)
<1> DEFINE d == OfPipe(ContainedStage(Me.exit), Top.saved, Len(Others))
<1> DEFINE e == OfCommand(d)
<1>1. /\ shells' = Append(Front(Others), [Parent EXCEPT !.exit = e]) /\ stack' = Below
      /\ Top.at = "stageR"
  BY DEF EndStageR, WithParent, ShellOver
<1>2. Top.at \in Shells
  BY <1>1 DEF Shells
<1>3. Behind(ContainedStage(Me.exit), Parent.level) /\ Behind(Top.saved, Parent.level)
  BY <1>1, <1>2, ParentThere, Containing
<1>4. d = c \/ d = Fatal(c, Len(Others))
  BY DEF OfPipe
<1>5. Behind(c, Parent.level)
  BY <1>3 DEF PipeFail
<1> HIDE DEF c, d
<1>6. c \in Status /\ ByOwn(c, Len(Others)) /\ Above(c, Parent.level)
  BY <1>5 DEF Behind, ByOwn
<1>7. Len(Others) \in 0..MaxDepth
  BY <1>2, ParentThere
<1>8. d \in Status /\ ByOwn(d, Len(Others)) /\ Above(d, Parent.level)
  BY <1>4, <1>6, <1>7, Fatals DEF Above
<1>9. e \in Status /\ e.flow = d.flow /\ e.erred = d.erred /\ e.by = d.by
  <2>1. Tested(Below) \in BOOLEAN
    BY DEF Tested
  <2> QED
    BY <1>8, <2>1 DEF OfCommand, Status
<1> HIDE DEF e
<1>10. ByOwn(e, Len(Others)) /\ Above(e, Parent.level)
  BY <1>8, <1>9 DEF ByOwn, Above
<1> QED
  BY <1>1, <1>2, <1>9, <1>10, ParentThere, Handed

\* A shell whose child leaves it nothing joins with itself.
LEMMA Alone ==
    ASSUME NEW x, NEW m, Ok(x, m, shells, stack), Top.at \in Shells
    PROVE  JoinsWith(Parent, Parent, Len(Others)) /\ Ok(x, m, Append(Front(Others), Parent), Below)
<1>1. Parent.exit.flow = {} /\ Parent.exit.erred = {}
  BY Around DEF Top, Parent, Others
<1>2. JoinsWith(Parent, Parent, Len(Others))
  BY <1>1 DEF JoinsWith, Above, ByOwn
<1> QED
  BY <1>2, ParentThere

\* The end of a background job.
LEMMA EndBgKept ==
    ASSUME NEW x, NEW m, Ok(x, m, shells, stack), EndBg
    PROVE  Ok(x, m, shells', stack')
<1>1. shells' = Append(Front(Others), Parent) /\ stack' = Below /\ Top.at = "bg"
  BY DEF EndBg, WithParent, ShellOver
<1>2. Top.at \in Shells
  BY <1>1 DEF Shells
<1> QED
  BY <1>1, <1>2, Alone

\* The end of a first stage: the last one begins, in a subshell or with lastpipe here.
LEMMA EndStageLKept ==
    ASSUME NEW x, NEW m, Ok(x, m, shells, stack), EndStageL
    PROVE  Ok(x, m, shells', stack')
<1> DEFINE e == Contained(Me.exit)
<1> DEFINE so == Front(Others)
<1> DEFINE kb == Front(Below)
<1> DEFINE g == Last(Below)
<1>1. /\ Top.at = "stageL"
      /\ IF "lastpipe" \in opts
         THEN /\ shells' = Append(so, Parent)
              /\ stack' = Append(Below, Frame("lastStage", TRUE, e))
         ELSE /\ shells' = Append(Others, Subshell(Parent))
              /\ stack' = Append(Below, Frame("stageR", TRUE, e))
  BY DEF EndStageL, ShellOver, WithParent
<1>2. Top.at \in Shells
  BY <1>1 DEF Shells
<1>3. Ok(x, m, Append(so, Parent), Below)
  BY <1>2, Alone
<1>4. /\ Parent \in RunnerT /\ Behind(e, Parent.level) /\ Parent.level \in Nat
      /\ Parent.level + 1 \in 0..MaxDepth /\ Me.exit \in Status
  BY <1>2, ParentThere, Containing
<1>5. e \in Status /\ e.flow = {} /\ From(Parent.level + 1, e)
  <2>1. e.flow = {}
    BY <1>4 DEF Contained, Status
  <2> HIDE DEF e
  <2>2. e \in Status /\ Above(e, Parent.level)
    BY <1>4 DEF Behind, Above
  <2>3. \A k \in e.erred : k \in Nat /\ k > Parent.level
    BY <2>2 DEF Above, Status
  <2>4. \A k \in e.erred : k >= Parent.level + 1
    BY <1>4, <2>3
  <2> QED
    BY <2>1, <2>2, <2>4 DEF From
<1>6. /\ Below = Append(kb, g) /\ kb \in Seq(FrameT) /\ g \in FrameT
  BY <1>3, Tall
<1>7. g.at # "top"
  <2>1. Top.at # "top" /\ Top.at # "stmt" /\ Top.at # "action"
    BY <1>1
  <2> QED
    BY <2>1, Tall DEF Top, Below
<1>8. /\ Len(shells) > 1 /\ so \in Seq(RunnerT) /\ Len(so) = Len(shells) - 2
      /\ Parent.exit.flow = {} /\ Parent.exit.erred = {}
  BY <1>2, Around DEF Parent, Others, Top
<1>9. Len(so) + 2 <= MaxDepth
  <2>1. Len(shells) \in Nat /\ Len(shells) <= MaxDepth
    BY Place
  <2> QED
    BY <1>8, <2>1
<1> HIDE DEF e, kb, g
<1>10. Ok(x, m, Append(so, Parent), Append(kb, g))
  BY <1>3, <1>6
<1>11. CASE "lastpipe" \in opts
  <2> DEFINE f == Frame("lastStage", TRUE, e)
  <2>1. f \in FrameT /\ f.at = "lastStage" /\ f.saved = e
    <3>1. "lastStage" \in {"stageR", "lastStage"} /\ TRUE \in BOOLEAN
      OBVIOUS
    <3>2. \A at \in {"stageR", "lastStage"}, v \in Status : Frame(at, TRUE, v) \in FrameT
      BY <3>1, Lists, Zenon
    <3>3. f \in FrameT
      BY <1>5, <3>1, <3>2
    <3> QED
      BY <3>3 DEF Frame
  <2> HIDE DEF f
  <2>2. Plain(f) /\ Saves(f, Parent)
    BY <1>5, <2>1 DEF Plain, Saves, Shells
  <2>3. Parent.noErr \in BOOLEAN /\ Parent.inLoop \in BOOLEAN
    BY <1>4 DEF RunnerT
  <2>4. ~Tests(f) /\ ~InRound(f) /\ f.at # "func" /\ f.at # "whileCond"
    BY <2>1 DEF Tests, InRound, Conditions
  <2>5. Opens(f, Parent, Parent) /\ Goes(Parent, Parent)
    BY <1>4, <2>3, <2>4 DEF Opens, Goes
  <2>6. Ok(x, m, Append(so, Parent), Append(Append(kb, g), f))
    BY <1>4, <1>6, <1>7, <1>8, <1>10, <2>1, <2>2, <2>4, <2>5, OpenOn
  <2> QED
    BY <1>1, <1>6, <1>11, <2>6 DEF f
<1>12. CASE "lastpipe" \notin opts
  <2> DEFINE f == Frame("stageR", TRUE, e)
  <2>1. f \in FrameT /\ f.at = "stageR" /\ f.saved = e /\ ~f.ending
    <3>1. "stageR" \in {"stageR", "lastStage"} /\ TRUE \in BOOLEAN
      OBVIOUS
    <3>2. \A at \in {"stageR", "lastStage"}, v \in Status : Frame(at, TRUE, v) \in FrameT
      BY <3>1, Lists, Zenon
    <3>3. f \in FrameT
      BY <1>5, <3>1, <3>2
    <3> QED
      BY <3>3 DEF Frame
  <2> HIDE DEF f
  <2>2. f.at \in Shells /\ f.saved.flow = {} /\ From(Parent.level + 1, f.saved)
    BY <1>5, <2>1 DEF Shells
  <2>3. Others = Append(so, Parent)
    <3>1. Others \in Seq(RunnerT) /\ Len(Others) > 0
      <4>1. Len(Others) = Len(shells) - 1 /\ Others \in Seq(RunnerT) /\ Len(shells) \in Nat
        BY Place DEF Others
      <4> QED
        BY <1>8, <4>1
    <3> QED
      BY <3>1, Whole DEF Parent
  <2>4. Ok(x, m, Append(Append(so, Parent), Subshell(Parent)), Append(Append(kb, g), f))
    BY <1>4, <1>6, <1>7, <1>8, <1>9, <1>10, <2>1, <2>2, ForkBegins
  <2> QED
    BY <1>1, <1>6, <1>12, <2>3, <2>4 DEF f
<1> QED
  BY <1>11, <1>12

\* The last stage of a pipeline, in the current shell.
LEMMA EndLastStageKept ==
    ASSUME NEW x, NEW m, Ok(x, m, shells, stack), EndLastStage,
           NEW y, y = IF x = "none" /\ Stop(Me)
                         /\ OfPipe(Me.exit, Top.saved, Len(shells)).flow = {}
                      THEN "dropped" ELSE x
    PROVE  Ok(y, m, shells', stack')
<1> DEFINE d == PipeFail(Me.exit, Top.saved)
<1> DEFINE e == OfPipe(Me.exit, Top.saved, Len(shells))
<1> DEFINE r == [Me EXCEPT !.exit = e]
<1>1. Top.at = "lastStage" /\ shells' = Append(Others, r) /\ stack' = Below
  BY DEF EndLastStage, Goto
<1>2. Ok(y, m, shells, stack)
  BY Excused
<1>3. /\ Me \in RunnerT /\ Others \in Seq(RunnerT) /\ Top \in FrameT
      /\ Me = Last(shells) /\ Others = Front(shells) /\ Top = Last(stack) /\ Below = Front(stack)
      /\ Ok(y, m, Append(Others, Me), stack)
  BY <1>2, Now, Place DEF Me, Others, Top, Below
<1>4. (d = Me.exit \/ d = Top.saved) /\ (e = d \/ e = Fatal(d, Len(shells)))
  BY DEF OfPipe, PipeFail
<1>5. y = "none" /\ Stop(Me) => e.flow # {}
  OBVIOUS
<1> HIDE DEF d, e
<1>8. Len(shells) \in 0..MaxDepth
  BY Place, ScenariosAssumption
<1>9. Me.exit \in Status /\ ByOwn(Me.exit, Len(shells)) /\ (Len(shells) = 1 => ByOwn(Me.last, 1))
  BY <1>3, Standing
<1>10. Plain(Top)
  BY <1>1 DEF Plain, Shells
<1>6. CASE d = Me.exit
  <2>1. /\ e \in Status /\ e.erred = Me.exit.erred /\ Me.exit.flow \subseteq e.flow
        /\ ByOwn(e, Len(shells))
    BY <1>4, <1>6, <1>8, <1>9, Fatals
  <2>2. r \in RunnerT
    BY <1>3, <2>1 DEF RunnerT
  <2>3. /\ r.noErr = Me.noErr /\ r.inLoop = Me.inLoop /\ r.level = Me.level
        /\ r.running = Me.running /\ r.fired = Me.fired /\ r.exits = Me.exits
        /\ r.exit = e /\ r.last = Me.last /\ r.asked = Me.asked /\ r.errFired = Me.errFired
    BY <1>3 DEF RunnerT
  <2> HIDE DEF r
  <2>4. Closes(Top, Me, r)
    BY <1>1, <1>10, <2>3 DEF Plain, Closes, Shells
  <2>5. Carries(y, Me, r, Len(shells))
    BY <1>9, <2>1, <2>3 DEF Carries
  <2> QED
    BY <1>1, <1>2, <1>3, <1>10, <2>2, <2>4, <2>5, Close DEF r
<1>7. CASE d = Top.saved
  <2> DEFINE b == Context(stack, Len(stack) - 1)
  <2>0. d \in Status
    BY <1>1, <1>3, <1>7 DEF FrameT, ListT, StmtT
  <2>14. d.flow = {} /\ From(b.level + 1, d)
    <3>1. FrameFits(Top, b)
      BY <1>3, Place
    <3> HIDE DEF b
    <3> QED
      BY <1>1, <1>7, <3>1 DEF FrameFits
  <2>1. e \in Status /\ e.erred = d.erred /\ ByOwn(e, Len(shells))
    <3>1. ByOwn(d, Len(shells))
      BY <2>14 DEF ByOwn
    <3> QED
      BY <1>4, <1>8, <2>0, <3>1, Fatals
  <2>2. From(b.level + 1, e)
    BY <2>1, <2>14 DEF From
  <2>13. e.flow # {} => "exit" \in e.flow
    <3>1. CASE e = d
      BY <3>1, <2>14
    <3>2. CASE e = Fatal(d, Len(shells)) /\ d.fatal
      BY <3>2, <2>14 DEF Fatal
    <3>3. CASE e = Fatal(d, Len(shells)) /\ ~d.fatal
      BY <3>3, <2>0 DEF Fatal, Status
    <3> QED
      BY <1>4, <3>1, <3>2, <3>3
  <2>3. r \in RunnerT
    BY <1>3, <2>1 DEF RunnerT
  <2>4. /\ r.noErr = Me.noErr /\ r.inLoop = Me.inLoop /\ r.level = Me.level
        /\ r.running = Me.running /\ r.fired = Me.fired /\ r.exits = Me.exits
        /\ r.exit = e /\ r.last = Me.last /\ r.asked = Me.asked
    BY <1>3 DEF RunnerT
  <2> HIDE DEF r
  <2>5. Closes(Top, Me, r)
    BY <1>1, <1>10, <2>4 DEF Plain, Closes, Shells
  <2>6. Flagged(r, b) /\ b.shell = Len(shells) /\ b \in ContextT
    BY <1>2, <1>3, <1>10, <2>5, Closed
  <2> HIDE DEF b
  <2>8. r.level \notin e.erred /\ From(b.level, e)
    <3>1. b.level \in Nat /\ r.level = b.level
      BY <2>6 DEF ContextT, Flagged
    <3>2. \A k \in e.erred : k \in Nat /\ k >= b.level + 1
      BY <2>1, <2>2 DEF From, Status
    <3>3. b.level \notin e.erred /\ \A k \in e.erred : k >= b.level
      BY <3>1, <3>2
    <3> QED
      BY <3>1, <3>3 DEF From
  <2>9. ByOwn(e, b.shell) /\ (b.shell = 1 => ByOwn(r.last, 1))
    BY <1>9, <2>1, <2>4, <2>6
  <2>10. y # "none" \/ ("exit" \in Me.exit.flow => "exit" \in r.exit.flow)
    BY <1>5, <2>4, <2>13 DEF Stop
  <2>11. Follows(y, Me, r, b)
    BY <2>4, <2>6, <2>8, <2>9, <2>10 DEF Follows, Flagged
  <2>12. Ok(y, m, Append(Others, r), Below)
    BY <1>2, <1>3, <1>10, <2>3, <2>11, Drop DEF b
  <2> QED
    BY <1>1, <2>12 DEF r
<1> QED
  BY <1>4, <1>6, <1>7

-----------------------------------------------------------------------------
\* The bottom of the stack: the main shell, outside everything.
Ground == [shell |-> 1, level |-> 0, test |-> FALSE, loop |-> FALSE, kinds |-> {}]

\* The context below the frame at the bottom.
LEMMA Grounded ==
    ASSUME NEW ks PROVE Context(ks, 0) = Ground
<1>1. Shell(ks, 0) = 1 /\ Level(ks, 0) = 0
  BY ShellStep, LevelStep
<1>2. InTest(ks, 0) = FALSE /\ InLoop(ks, 0) = FALSE
  BY DEF InTest, InLoop
<1>3. Kinds(ks, 0) = {}
  BY DEF Kinds
<1> QED
  BY <1>1, <1>2, <1>3 DEF Context, Ground

\* The frame of a run adds nothing to it.
LEMMA AfterTop ==
    ASSUME NEW f, f.at = "top" PROVE After(Ground, f) = Ground
<1>1. f.at \notin Shells /\ f.at \notin Deeper /\ ~Tests(f) /\ ~InRound(f)
  BY DEF Shells, Deeper, Tests, InRound, Conditions
<1>2. 1 + 0 = 1 /\ 0 + 0 = 0
  OBVIOUS
<1> QED
  BY <1>1, <1>2 DEF After, Ground

\* The main shell at the end of a run.
LEMMA TopPlace ==
    ASSUME NEW x, NEW m, Ok(x, m, shells, stack), Top.at = "top"
    PROVE  /\ Len(stack) = 1 /\ Len(shells) = 1 /\ stack[1] = Top /\ Below = <<>>
           /\ Me \in RunnerT /\ Top \in FrameT /\ Others \in Seq(RunnerT)
           /\ ShellOK(x, m, Me, Ground, Top, 1) /\ (Top.single => Top.ending)
           /\ Me.running = {}
<1>1. /\ Len(stack) = 1 /\ Top = stack[Len(stack)] /\ Top \in FrameT /\ Me \in RunnerT
      /\ Len(shells) \in Nat /\ Len(shells) > 0 /\ Others \in Seq(RunnerT)
      /\ Len(shells) <= Len(stack)
      /\ ShellOK(x, m, Me, Context(stack, Len(stack)), stack[1], Len(stack))
      /\ FrameFits(Top, Context(stack, Len(stack) - 1))
      /\ Context(stack, Len(stack)) = After(Context(stack, Len(stack) - 1), Top)
      /\ Below \in Seq(FrameT) /\ Len(Below) = Len(stack) - 1
  BY Place DEF Top, Me, Others, Below
<1>2. Context(stack, Len(stack) - 1) = Ground
  <2>1. Len(stack) - 1 = 0
    BY <1>1
  <2> QED
    BY <2>1, Grounded
<1>3. Context(stack, Len(stack)) = Ground
  BY <1>1, <1>2, AfterTop
<1>4. ShellOK(x, m, Me, Ground, Top, 1)
  BY <1>1, <1>3
<1>5. Top.single => Top.ending
  BY <1>1 DEF FrameFits
<1>6. Me.running = {}
  BY <1>4 DEF ShellOK, ShellFits, Ground
<1>7. Len(shells) = 1
  <2> DEFINE n == Len(shells)
  <2>1. n \in Nat /\ n > 0 /\ n <= 1
    BY <1>1
  <2> HIDE DEF n
  <2>2. n = 1
    BY <2>1
  <2> QED
    BY <2>2 DEF n
<1>8. Below = <<>>
  BY <1>1
<1> QED
  BY <1>1, <1>4, <1>5, <1>6, <1>7, <1>8

\* The frame of a run becomes another, with a shell that is right at the bottom.
LEMMA RetopRun ==
    ASSUME NEW x, NEW m, Ok(x, m, shells, stack), Top.at = "top", NEW r \in RunnerT,
           NEW f \in FrameT, f.at = "top", f.single => f.ending, ShellOK(x, m, r, Ground, f, 1)
    PROVE  Ok(x, m, Append(Others, r), <<f>>)
<1>1. /\ Len(stack) = 1 /\ Below = <<>>
  BY TopPlace
<1>2. Context(stack, Len(stack) - 1) = Ground
  <2>1. Len(stack) - 1 = 0
    BY <1>1
  <2> QED
    BY <2>1, Grounded
<1>3. After(Context(stack, Len(stack) - 1), f) = Ground
  BY <1>2, AfterTop
<1>4. Bottom(stack, f) = f
  BY <1>1 DEF Bottom
<1>5. FrameFits(f, Context(stack, Len(stack) - 1))
  BY DEF FrameFits, Conditions
<1>6. ShellOK(x, m, r, After(Context(stack, Len(stack) - 1), f), Bottom(stack, f), Len(stack))
  BY <1>1, <1>3, <1>4
<1>7. Last(stack).at = "top"
  BY DEF Top
<1>8. /\ Last(stack).at \notin Shells /\ f.at \notin Shells /\ f.at \notin {"action", "whileCond"}
      /\ Last(stack).at # "stmt" /\ Last(stack).at # "action"
  BY <1>7 DEF Shells
<1>9. /\ f.at = "top" <=> Len(stack) = 1
      /\ ~(Len(stack) > 1)
  BY <1>1
<1>10. Ok(x, m, Append(Front(shells), r), Append(Front(stack), f))
  BY <1>5, <1>6, <1>8, <1>9, Retop
<1> QED
  BY <1>1, <1>10 DEF Others, Below

\* The frame at the bottom, as the end of a run and the end of the input mark it.
LEMMA TopMarked ==
    ASSUME NEW t \in FrameT, t.at = "top"
    PROVE  /\ [t EXCEPT !.ending = TRUE] \in FrameT
           /\ [t EXCEPT !.ending = TRUE, !.single = TRUE] \in FrameT
           /\ [t EXCEPT !.ending = TRUE].at = "top" /\ [t EXCEPT !.ending = TRUE].ending
           /\ [t EXCEPT !.ending = TRUE].single = t.single
           /\ [t EXCEPT !.ending = TRUE, !.single = TRUE].at = "top"
           /\ [t EXCEPT !.ending = TRUE, !.single = TRUE].ending
           /\ [t EXCEPT !.ending = TRUE, !.single = TRUE].single
<1>1. t \in ListT({"top", "block", "right", "sub", "bg", "stageL"}, {0})
  BY DEF FrameT, ListT, StmtT
<1>2. [t EXCEPT !.ending = TRUE] \in FrameT
  BY Marked
<1>3. [t EXCEPT !.ending = TRUE, !.single = TRUE] \in FrameT
  BY <1>1 DEF FrameT, ListT
<1>4. /\ [t EXCEPT !.ending = TRUE].at = "top" /\ [t EXCEPT !.ending = TRUE].ending
      /\ [t EXCEPT !.ending = TRUE].single = t.single
      /\ [t EXCEPT !.ending = TRUE, !.single = TRUE].at = "top"
      /\ [t EXCEPT !.ending = TRUE, !.single = TRUE].ending
      /\ [t EXCEPT !.ending = TRUE, !.single = TRUE].single
  BY <1>1 DEF ListT
<1> QED
  BY <1>2, <1>3, <1>4

\* The frame of a run, marked as ending and as the last.
LEMMA EndingTop ==
    ASSUME NEW x, NEW m, Ok(x, m, shells, stack), Top.at = "top"
    PROVE  /\ Ending = <<[Top EXCEPT !.ending = TRUE]>>
           /\ [Ending EXCEPT ![1].single = TRUE] = <<[Top EXCEPT !.ending = TRUE, !.single = TRUE]>>
<1>1. Len(stack) = 1 /\ stack[1] = Top /\ stack \in Seq(FrameT) /\ Top \in FrameT /\ Below = <<>>
  BY TopPlace, Place
<1>2. Ending = <<[Top EXCEPT !.ending = TRUE]>>
  <2>1. Ending = Append(Below, [Top EXCEPT !.ending = TRUE])
    <3>1. stack \in Seq(FrameT) /\ Len(stack) > 0
      BY <1>1
    <3>2. [stack EXCEPT ![Len(stack)].ending = TRUE]
            = Append(Front(stack), [Last(stack) EXCEPT !.ending = TRUE])
      BY <3>1, Restarted
    <3> QED
      BY <3>2 DEF Ending, Below, Top
  <2> QED
    BY <1>1, <2>1
<1>3. [<<[Top EXCEPT !.ending = TRUE]>> EXCEPT ![1].single = TRUE]
        = <<[Top EXCEPT !.ending = TRUE, !.single = TRUE]>>
  OBVIOUS
<1> QED
  BY <1>2, <1>3

\* A run ends: the EXIT trap is asked for, or is none, or the shell goes on.
LastKept(r, e) == [r EXCEPT !.last = e]

\* A shell that is to leave leaves at the end of its run, or an exit is on its way.
LEMMA RunLeaves ==
    ASSUME NEW x, NEW m, NEW me, ShellOK(x, m, me, Ground, Top, 1), ~Top.ending, ~Top.single,
           NEW f, f.ending, m \in {"whole", "stream", "lines"},
           NEW r, r.exit = me.exit, r.asked = me.asked,
           r.fired => me.fired \/ m # "stream" \/ "exit" \in me.exit.flow
    PROVE  ShellLeaves(x, m, r, Ground, f, 1)
<1> SUFFICES ASSUME x = "none", Bound(m, r, Ground) PROVE Leaves(m, r.exit, f, 1)
  BY DEF ShellLeaves
<1>1. Bound(m, me, Ground) => "exit" \in me.exit.flow
  BY DEF ShellOK, ShellLeaves, Leaves, Done, Ground
<1>2. m = "whole" => Done(m, f, 1)
  BY DEF Done
<1> QED
  BY <1>1, <1>2 DEF Bound, Leaves, Ground

\* The status and the last status may change places at the end of a run.
LEMMA RunFits ==
    ASSUME NEW x, NEW m, NEW me, NEW t, ShellOK(x, m, me, Ground, t, 1), NEW r,
           r.noErr = me.noErr, r.inLoop = me.inLoop, r.level = me.level, r.running = me.running,
           r.exit \in {Zero, me.exit, me.last}, r.last \in {me.exit, me.last}, r.exit \in Status
    PROVE  ShellFits(r, Ground)
<1>1. ShellFits(me, Ground)
  BY DEF ShellOK
<1>2. /\ r.noErr = Ground.test /\ r.inLoop = Ground.loop /\ r.level = Ground.level
      /\ r.running = Ground.kinds
  BY <1>1 DEF ShellFits
<1>3. ByOwn(me.exit, 1) /\ ByOwn(me.last, 1) /\ ByOwn(Zero, 1)
  BY <1>1 DEF ShellFits, Ground, ByOwn, Zero
<1>4. ByOwn(r.exit, Ground.shell) /\ (Ground.shell = 1 => ByOwn(r.last, 1))
  BY <1>3 DEF Ground
<1>5. From(Ground.level, r.exit)
  <2>1. \A l \in r.exit.erred : l \in Nat
    BY DEF Status
  <2>2. \A l \in r.exit.erred : l >= 0
    BY <2>1
  <2>3. Ground.level = 0
    BY DEF Ground
  <2> QED
    BY <2>2, <2>3 DEF From
<1> QED
  BY <1>2, <1>4, <1>5 DEF ShellFits

\* The EXIT trap at the end of a run: it runs.
LEMMA RunTraps ==
    ASSUME NEW x, NEW m, Ok(x, m, shells, stack), Top.at = "top", NEW me \in RunnerT,
           ~me.fired, me.exits = Me.exits, ~Me.fired, me.running = {},
           NEW f \in FrameT, f.at = "top", f.ending, NEW e, e = <<f>>,
           ShellFits(Armed(me), Ground), ShellLeaves(x, m, Armed(me), Ground, f, 1),
           ExitAction(me, e)
    PROVE  Ok(x, m, shells', stack')
<1> DEFINE q == Armed(me)
<1>1. q \in RunnerT /\ AsArmed(me, q)
  BY ArmedTyped
<1>2. ShellFits(q, Ground) /\ ShellLeaves(x, m, q, Ground, f, 1)
  OBVIOUS
<1> HIDE DEF q
<1>3. x # "none" \/ m = "lines" \/ me.exits = 0
  BY TopPlace DEF ShellOK, ShellTraps
<1>4. ShellTraps(x, m, q, Ground, f, 1)
  <2> SUFFICES ASSUME x = "none", m # "lines" PROVE ShellTraps(x, m, q, Ground, f, 1)
    BY DEF ShellTraps
  <2>1. q.exits = 1 /\ q.fired
    BY <1>1, <1>3 DEF AsArmed
  <2> QED
    BY <2>1 DEF ShellTraps
<1>5. ShellKeeps(x, m, q, Ground, f, 1)
  BY DEF ShellKeeps
<1>6. ShellOK(x, m, q, Ground, f, 1)
  BY <1>2, <1>4, <1>5 DEF ShellOK
<1>7. Ok(x, m, Append(Others, q), e)
  BY <1>1, <1>6, RetopRun
<1>8. Goto([InTrap(Exiting(me), "exit") EXCEPT !.exits = @ + 1],
           Append(e, Action(Exiting(me), "exit", TRUE)))
  BY DEF ExitAction, Exiting
<1>9. Others \in Seq(RunnerT) /\ "exit" \notin me.running
  BY TopPlace
<1>10. Ok(x, m, Append(Others, [InTrap(Exiting(me), "exit") EXCEPT !.exits = @ + 1]),
           Append(e, Action(Exiting(me), "exit", TRUE)))
  <2>1. Ok(x, m, Append(Others, Armed(me)), e)
    BY <1>7 DEF q
  <2> QED
    BY <1>3, <1>9, <2>1, ExitActionKept
<1> QED
  BY <1>8, <1>10 DEF Goto

\* runEpilogue: the end of a run, with its EXIT trap or without.
LEMMA EndRunKept ==
    ASSUME NEW x, Ok(x, mode, shells, stack), mode \in {"whole", "stream", "lines"}, EndRun
    PROVE  Ok(x, mode, shells', stack')
<1> DEFINE exits == mode # "stream" \/ "exit" \in Me.exit.flow
<1> DEFINE r == LastKept(Me, Me.exit)
<1> DEFINE f == [Top EXCEPT !.ending = TRUE]
<1>1. Top.at = "top" /\ ~Top.ending
  BY DEF EndRun, ListDone
<1>2. IF exits /\ FiresExit(r) THEN ExitAction(r, Ending)
      ELSE Goto([r EXCEPT !.fired = @ \/ exits], Ending)
  BY DEF EndRun, RunEnds, LastKept
<1>3. Ending = <<f>>
  BY <1>1, EndingTop
<1>4. /\ Me \in RunnerT /\ Top \in FrameT /\ Others \in Seq(RunnerT)
      /\ ShellOK(x, mode, Me, Ground, Top, 1) /\ ~Top.single /\ Me.running = {}
  BY <1>1, TopPlace
<1>5. f \in FrameT /\ f.at = "top" /\ f.ending /\ ~f.single
  BY <1>1, <1>4, TopMarked
<1>6. /\ r \in RunnerT /\ r.exit = Me.exit /\ r.last = Me.exit /\ r.noErr = Me.noErr
      /\ r.inLoop = Me.inLoop /\ r.level = Me.level /\ r.running = Me.running
      /\ r.fired = Me.fired /\ r.exits = Me.exits /\ r.asked = Me.asked
      /\ r.exitTrap = Me.exitTrap /\ Me.exit \in Status
  BY <1>4 DEF LastKept, RunnerT
<1> HIDE DEF r, f
<1>7. CASE exits /\ FiresExit(r)
  <2>1. Armed(r) \in RunnerT /\ AsArmed(r, Armed(r))
    BY <1>6, ArmedTyped
  <2>2. ~r.fired /\ ~Me.fired
    BY <1>6, <1>7 DEF FiresExit
  <2> DEFINE q == Armed(r)
  <2>3. /\ q.exit = Me.exit /\ q.last = Me.exit /\ q.noErr = Me.noErr
        /\ q.inLoop = Me.inLoop /\ q.level = Me.level /\ q.running = Me.running
        /\ q.asked = Me.asked
    BY <1>6, <2>1 DEF AsArmed
  <2> HIDE DEF q
  <2>4. ShellFits(q, Ground)
    BY <1>4, <1>6, <2>3, RunFits
  <2>5. mode # "stream" \/ "exit" \in Me.exit.flow
    BY <1>7
  <2>6. ShellLeaves(x, mode, q, Ground, f, 1)
    BY <1>1, <1>4, <1>5, <2>3, <2>5, RunLeaves
  <2>7. ExitAction(r, Ending)
    BY <1>2, <1>7
  <2>8. r.running = {} /\ r.exits = Me.exits /\ r \in RunnerT
    BY <1>4, <1>6
  <2>9. ShellFits(Armed(r), Ground) /\ ShellLeaves(x, mode, Armed(r), Ground, f, 1)
    BY <2>4, <2>6 DEF q
  <2> QED
    BY <1>1, <1>3, <1>5, <2>2, <2>7, <2>8, <2>9, RunTraps
<1>8. CASE ~(exits /\ FiresExit(r))
  <2> DEFINE q == [r EXCEPT !.fired = @ \/ exits]
  <2>1. shells' = Append(Others, q) /\ stack' = <<f>>
    BY <1>2, <1>3, <1>8 DEF Goto
  <2>2. q \in RunnerT
    BY <1>6 DEF RunnerT
  <2>3. /\ q.exit = Me.exit /\ q.last = Me.exit /\ q.noErr = Me.noErr
        /\ q.inLoop = Me.inLoop /\ q.level = Me.level /\ q.running = Me.running
        /\ q.asked = Me.asked /\ q.exits = Me.exits /\ q.exitTrap = Me.exitTrap
        /\ q.fired = (Me.fired \/ exits)
    BY <1>6 DEF RunnerT
  <2> HIDE DEF q
  <2>4. ShellFits(q, Ground)
    BY <1>4, <1>6, <2>3, RunFits
  <2>5. q.fired => Me.fired \/ mode # "stream" \/ "exit" \in Me.exit.flow
    BY <2>3
  <2>6. ShellLeaves(x, mode, q, Ground, f, 1)
    BY <1>1, <1>4, <1>5, <2>3, <2>5, RunLeaves
  <2>7. ShellTraps(x, mode, q, Ground, f, 1)
    <3> SUFFICES ASSUME x = "none", mode # "lines" PROVE ShellTraps(x, mode, q, Ground, f, 1)
      BY DEF ShellTraps
    <3>1. ShellTraps(x, mode, Me, Ground, Top, 1)
      BY <1>4 DEF ShellOK
    <3>2. /\ Me.exits \in {0, 1} /\ (Me.exits = 1 => Me.fired) /\ (Me.fired => Me.exits # 0)
      BY <1>1, <3>1 DEF ShellTraps, Ground
    <3>3. q.fired /\ q.exits = 0 => ~q.exitTrap
      BY <1>6, <1>8, <2>3, <3>2 DEF FiresExit
    <3>4. mode # "stream" \/ "exit" \in q.exit.flow => q.fired
      BY <2>3
    <3>5. q.exits \in {0, 1} /\ (q.exits = 1 => q.fired)
      BY <2>3, <3>2
    <3>6. ~(1 > 1) /\ Ground.shell = 1
      BY DEF Ground
    <3> QED
      BY <1>5, <3>3, <3>4, <3>5, <3>6 DEF ShellTraps
  <2>8. ShellKeeps(x, mode, q, Ground, f, 1)
    BY <1>5 DEF ShellKeeps
  <2>9. ShellOK(x, mode, q, Ground, f, 1)
    BY <2>4, <2>6, <2>7, <2>8 DEF ShellOK
  <2> QED
    BY <1>1, <1>5, <2>1, <2>2, <2>9, RetopRun
<1> QED
  BY <1>7, <1>8

\* The input ends, in a script that was read as it ran.
LEMMA FinishKept ==
    ASSUME NEW x, Ok(x, mode, shells, stack), Finish
    PROVE  Ok(x, mode, shells', stack')
<1> DEFINE r == [Me EXCEPT !.exit = Me.last]
<1> DEFINE f == [Top EXCEPT !.ending = TRUE, !.single = TRUE]
<1> DEFINE e == [Ending EXCEPT ![1].single = TRUE]
<1>1. Top.at = "top" /\ Top.ending /\ mode = "stream"
  BY DEF Finish
<1>2. IF FiresExit(r) THEN ExitAction(r, e) ELSE Goto(r, e)
  BY DEF Finish
<1>3. e = <<f>>
  BY <1>1, EndingTop
<1>4. /\ Me \in RunnerT /\ Top \in FrameT /\ Others \in Seq(RunnerT)
      /\ ShellOK(x, mode, Me, Ground, Top, 1) /\ Me.running = {}
  BY <1>1, TopPlace
<1>5. f \in FrameT /\ f.at = "top" /\ f.ending /\ f.single
  BY <1>1, <1>4, TopMarked
<1>6. /\ r \in RunnerT /\ r.exit = Me.last /\ r.last = Me.last /\ r.noErr = Me.noErr
      /\ r.inLoop = Me.inLoop /\ r.level = Me.level /\ r.running = Me.running
      /\ r.fired = Me.fired /\ r.exits = Me.exits /\ r.asked = Me.asked
      /\ r.exitTrap = Me.exitTrap /\ Me.last \in Status
  BY <1>4 DEF RunnerT
<1> HIDE DEF r, f, e
<1>7. \A q : ShellLeaves(x, mode, q, Ground, f, 1) /\ ShellKeeps(x, mode, q, Ground, f, 1)
  BY <1>5 DEF ShellLeaves, ShellKeeps, Leaves, Done
<1>8. CASE FiresExit(r)
  <2>1. Armed(r) \in RunnerT /\ AsArmed(r, Armed(r))
    BY <1>6, ArmedTyped
  <2>2. ~r.fired /\ ~Me.fired
    BY <1>6, <1>8 DEF FiresExit
  <2> DEFINE q == Armed(r)
  <2>3. /\ q.exit = Me.last /\ q.last = Me.last /\ q.noErr = Me.noErr
        /\ q.inLoop = Me.inLoop /\ q.level = Me.level /\ q.running = Me.running
    BY <1>6, <2>1 DEF AsArmed
  <2> HIDE DEF q
  <2>4. ShellFits(q, Ground)
    BY <1>4, <1>6, <2>3, RunFits
  <2>7. ExitAction(r, e)
    BY <1>2, <1>8
  <2>8. r.running = {} /\ r.exits = Me.exits /\ r \in RunnerT
    BY <1>4, <1>6
  <2>9. ShellFits(Armed(r), Ground) /\ ShellLeaves(x, mode, Armed(r), Ground, f, 1)
    BY <1>7, <2>4 DEF q
  <2> QED
    BY <1>1, <1>3, <1>5, <2>2, <2>7, <2>8, <2>9, RunTraps
<1>9. CASE ~FiresExit(r)
  <2>1. shells' = Append(Others, r) /\ stack' = <<f>>
    BY <1>2, <1>3, <1>9 DEF Goto
  <2>2. ShellFits(r, Ground)
    BY <1>4, <1>6, RunFits
  <2>3. ShellTraps(x, mode, r, Ground, f, 1)
    <3> SUFFICES ASSUME x = "none" PROVE ShellTraps(x, mode, r, Ground, f, 1)
      BY DEF ShellTraps
    <3>1. ShellTraps(x, mode, Me, Ground, Top, 1)
      BY <1>4 DEF ShellOK
    <3>2. /\ Me.exits \in {0, 1} /\ (Me.exits = 1 => Me.fired)
          /\ Me.fired /\ Me.exits = 0 => ~Me.exitTrap
      BY <1>1, <3>1 DEF ShellTraps, Ground
    <3>3. r.fired \/ ~r.exitTrap
      BY <1>9 DEF FiresExit
    <3>4. r.exits \in {0, 1} /\ (r.exits = 1 => r.fired) /\ (r.fired /\ r.exits = 0 => ~r.exitTrap)
      BY <1>6, <3>2
    <3>5. ~(1 > 1) /\ Ground.shell = 1
      BY DEF Ground
    <3> QED
      BY <1>1, <1>5, <3>3, <3>4, <3>5 DEF ShellTraps
  <2>4. ShellOK(x, mode, r, Ground, f, 1)
    BY <1>7, <2>2, <2>3 DEF ShellOK
  <2> QED
    BY <1>1, <1>5, <1>6, <2>1, <2>4, RetopRun
<1> QED
  BY <1>8, <1>9

\* The next line, or the next statement of a script that is read as it runs.
LEMMA NextLineKept ==
    ASSUME NEW x, Ok(x, mode, shells, stack), mode \in {"whole", "stream", "lines"}, NextLine
    PROVE  Ok(x, mode, shells', stack')
<1> DEFINE r == [Me EXCEPT !.exit = Zero, !.fired = FALSE]
<1> DEFINE f == Frame("top", FALSE, 0)
<1>1. /\ Top.at = "top" /\ Top.ending /\ mode # "whole" /\ ~Top.single
      /\ "exit" \notin Me.exit.flow /\ shells' = Append(Others, r) /\ stack' = <<f>>
  BY DEF NextLine, Leave, Goto
<1>2. /\ Me \in RunnerT /\ Top \in FrameT /\ Others \in Seq(RunnerT)
      /\ ShellOK(x, mode, Me, Ground, Top, 1) /\ Me.running = {}
  BY <1>1, TopPlace
<1>3. f \in FrameT
  <2>1. FALSE \in BOOLEAN /\ "top" \in {"top", "block", "right", "sub", "bg", "stageL"}
    OBVIOUS
  <2>2. \A at \in {"top", "block", "right", "sub", "bg", "stageL"} : Frame(at, FALSE, 0) \in FrameT
    BY <2>1, Lists, Zenon
  <2> QED
    BY <2>1, <2>2
<1>4. f.at = "top" /\ ~f.ending /\ ~f.single
  BY DEF Frame
<1>5. /\ r \in RunnerT /\ r.exit = Zero /\ r.last = Me.last /\ r.noErr = Me.noErr
      /\ r.inLoop = Me.inLoop /\ r.level = Me.level /\ r.running = Me.running
      /\ ~r.fired /\ r.exits = Me.exits /\ r.asked = Me.asked
  <2>1. Zero \in Status
    BY ZeroFresh
  <2> QED
    BY <1>2, <2>1 DEF RunnerT
<1> HIDE DEF r, f
<1>6. \/ x # "none"
      \/ ~Bound(mode, Me, Ground)
  BY <1>1, <1>2 DEF ShellOK, ShellLeaves, Leaves, Done, Ground
<1>7. ShellFits(r, Ground)
  <2>1. ShellFits(Me, Ground)
    BY <1>2 DEF ShellOK
  <2>2. ByOwn(Zero, 1) /\ From(0, Zero)
    BY DEF ByOwn, From, Zero
  <2> QED
    BY <1>5, <2>1, <2>2 DEF ShellFits, Ground
<1>8. ShellKeeps(x, mode, r, Ground, f, 1)
  BY <1>5 DEF ShellKeeps, Zero
<1>9. ShellLeaves(x, mode, r, Ground, f, 1)
  BY <1>5, <1>6 DEF ShellLeaves, Bound
<1>10. ShellTraps(x, mode, r, Ground, f, 1)
  <2> SUFFICES ASSUME x = "none", mode # "lines" PROVE ShellTraps(x, mode, r, Ground, f, 1)
    BY DEF ShellTraps
  <2>1. Me.exits \in {0, 1} /\ (Me.exits = 1 => Me.fired)
    BY <1>2 DEF ShellOK, ShellTraps
  <2>2. ~Me.fired
    BY <1>6 DEF Bound, Ground
  <2>3. r.exits = 0
    BY <1>5, <2>1, <2>2
  <2> QED
    BY <1>4, <1>5, <2>3 DEF ShellTraps
<1>11. ShellOK(x, mode, r, Ground, f, 1)
  BY <1>7, <1>8, <1>9, <1>10 DEF ShellOK
<1> QED
  BY <1>1, <1>3, <1>4, <1>5, <1>11, RetopRun

\* The beginning: one shell and one frame.
LEMMA FirstState ==
    ASSUME NEW x, NEW m
    PROVE  Ok(x, m, <<Runner>>, <<Frame("top", FALSE, 0)>>)
<1> DEFINE f == Frame("top", FALSE, 0)
<1> DEFINE ss == <<Runner>>
<1> DEFINE ks == <<f>>
<1>1. Zero \in Status
  BY ZeroFresh
<1>2. Runner \in RunnerT
  <2>1. 0 \in 0..MaxDepth
    BY ScenariosAssumption
  <2> QED
    BY <1>1, <2>1 DEF Runner, RunnerT
<1>3. f \in FrameT
  <2>1. FALSE \in BOOLEAN /\ "top" \in {"top", "block", "right", "sub", "bg", "stageL"}
    OBVIOUS
  <2>2. \A at \in {"top", "block", "right", "sub", "bg", "stageL"} : Frame(at, FALSE, 0) \in FrameT
    BY <2>1, Lists, Zenon
  <2> QED
    BY <2>1, <2>2
<1>4. f.at = "top" /\ ~f.ending /\ ~f.single
  BY DEF Frame
<1> HIDE DEF f
<1>5. /\ ss \in Seq(RunnerT) /\ ks \in Seq(FrameT) /\ Len(ss) = 1 /\ Len(ks) = 1
      /\ ss[1] = Runner /\ ks[1] = f /\ Len(ss) > 0 /\ Len(ks) > 0
  BY <1>2, <1>3
<1> HIDE DEF ss, ks
<1>6. Context(ks, 0) = Ground /\ Context(ks, 1) = Ground
  <2>1. Context(ks, 1) = After(Context(ks, 1 - 1), ks[1])
    BY ContextAfter
  <2>2. Context(ks, 0) = Ground
    BY Grounded
  <2>3. 1 - 1 = 0
    OBVIOUS
  <2> QED
    BY <1>4, <1>5, <2>1, <2>2, <2>3, AfterTop
<1>7. Shell(ks, 1) = 1
  <2>1. Context(ks, 1).shell = Shell(ks, 1)
    BY DEF Context
  <2> QED
    BY <1>6, <2>1 DEF Ground
<1>8. ShellOK(x, m, Runner, Ground, f, 1)
  <2>1. ShellFits(Runner, Ground)
    BY DEF ShellFits, Ground, Runner, Zero, ByOwn, From
  <2>2. ShellKeeps(x, m, Runner, Ground, f, 1)
    BY DEF ShellKeeps, Runner, Zero
  <2>3. ShellLeaves(x, m, Runner, Ground, f, 1)
    BY DEF ShellLeaves, Bound, Runner
  <2>4. ShellTraps(x, m, Runner, Ground, f, 1)
    BY <1>4 DEF ShellTraps, Runner
  <2> QED
    BY <2>1, <2>2, <2>3, <2>4 DEF ShellOK
<1>9. FrameOK(x, m, ss, ks, 1)
  <2>1. FrameFits(f, Ground)
    BY <1>4 DEF FrameFits, Conditions
  <2>2. 1 - 1 = 0 /\ ~(1 = 2)
    OBVIOUS
  <2>3. ks[1].at = "top" /\ ks[1].at \notin Shells
    BY <1>4, <1>5 DEF Shells
  <2> QED
    BY <1>5, <1>6, <2>1, <2>2, <2>3 DEF FrameOK
<1>10. \A n \in 1..Len(ks) : n = 1
  BY <1>5
<1>11. \A i \in 2..Len(ss) : FALSE
  BY <1>5
<1>12. Len(ss) = Shell(ks, Len(ks)) /\ Len(ss) <= MaxDepth
  BY <1>5, <1>7, ScenariosAssumption
<1>13. ShellOK(x, m, ss[Len(ss)], Context(ks, Len(ks)), ks[1], Len(ks))
  BY <1>5, <1>6, <1>8
<1>14. Ok(x, m, ss, ks)
  BY <1>5, <1>9, <1>10, <1>11, <1>12, <1>13 DEF Ok
<1> QED
  BY <1>14 DEF ss, ks, f

-----------------------------------------------------------------------------
\* What the history records: nothing is taken back, and what is new is excused or right.
EndsRight(sn, e) ==
    ~sn.overruled /\ ~sn.dropped /\ mode # "lines" => (e.trap /\ ~e.nested => e.exits = 1)
Records(s, t) ==
    /\ t \in SeenT /\ (s.overruled => t.overruled) /\ (s.dropped => t.dropped)
    /\ t.errTwice => s.errTwice \/ t.overruled
    /\ t.after => s.after \/ t.overruled \/ t.dropped
    /\ \A e \in t.ended : e \in s.ended \/ EndsRight(t, e)
Quiet(s, t) == t.overruled = s.overruled /\ t.dropped = s.dropped

\* A step that is quiet excuses what was excused.
LEMMA Excuses ==
    ASSUME NEW s \in SeenT, NEW t, Quiet(s, t) PROVE Excuse(t) = Excuse(s)
  BY DEF Quiet, Excuse

\* The history that has not changed is right and quiet.
LEMMA SameRecord ==
    ASSUME NEW s \in SeenT PROVE Records(s, s) /\ Quiet(s, s)
  BY DEF Records, Quiet

\* No statement begins in a shell that is to leave.
LEMMA NotAfter ==
    ASSUME seen \in SeenT, NEW m, Ok(Excuse(seen), m, shells, stack), AtStmt, ~Stop(Me),
           Me.asked, Me.running = {}
    PROVE  seen.overruled \/ seen.dropped
<1> DEFINE x == Excuse(seen)
<1> SUFFICES ASSUME x = "none" PROVE FALSE
  BY DEF Excuse
<1> DEFINE c == Context(stack, Len(stack))
<1>1. /\ ShellOK(x, m, Me, c, stack[1], Len(stack))
      /\ FrameFits(Top, Context(stack, Len(stack) - 1))
      /\ Top = stack[Len(stack)] /\ (Top.at = "top" <=> Len(stack) = 1)
  BY Place DEF Me, Top
<1>2. c.kinds = {}
  BY Standing DEF Me
<1> HIDE DEF c, x
<1>3. Leaves(m, Me.exit, stack[1], Len(stack))
  BY <1>1, <1>2 DEF ShellOK, ShellLeaves, Bound
<1>4. "exit" \notin Me.exit.flow
  BY DEF Stop
<1>5. Done(m, stack[1], Len(stack))
  BY <1>3, <1>4 DEF Leaves
<1>6. Len(stack) = 1 /\ (stack[1].single \/ stack[1].ending)
  BY <1>5 DEF Done
<1>7. Top.at = "top" /\ stack[1] = Top
  BY <1>1, <1>6
<1>8. Top.ending
  BY <1>1, <1>6, <1>7 DEF FrameFits
<1> QED
  BY <1>8 DEF AtStmt

\* A statement begins: if it does after an exit was asked for, a redirection or a
\* failed earlier stage is the excuse (ExitSticks).
LEMMA BeginRecords ==
    ASSUME seen \in SeenT, left \in Nat, NEW m, Ok(Excuse(seen), m, shells, stack),
           NEW st, NEW cost \in {0, 1}, Begin(st, cost)
    PROVE  Records(seen, seen') /\ Quiet(seen, seen') /\ left' \in Nat
<1> DEFINE a == Me.brk > 0 \/ Me.cnt > 0
<1> DEFINE b == Me.asked /\ Me.running = {}
<1>1. seen' = [seen EXCEPT !.late = @ \/ Me.brk > 0 \/ Me.cnt > 0, !.after = @ \/ b]
  BY DEF Begin
<1>2. seen' = [seen EXCEPT !.late = @ \/ a, !.after = @ \/ b]
  BY <1>1
<1>3. b => seen.overruled \/ seen.dropped
  BY NotAfter DEF Begin
<1>4. left' \in Nat
  BY DEF Begin
<1>5. a \in BOOLEAN /\ b \in BOOLEAN
  OBVIOUS
<1> HIDE DEF a, b
<1>6. /\ seen' \in SeenT /\ seen'.overruled = seen.overruled /\ seen'.dropped = seen.dropped
      /\ seen'.errTwice = seen.errTwice /\ seen'.after = (seen.after \/ b)
      /\ seen'.ended = seen.ended
  BY <1>2, <1>5 DEF SeenT
<1> QED
  BY <1>3, <1>4, <1>6 DEF Records, Quiet

\* The history that the theorems are not about.
LEMMA Miscut ==
    ASSUME seen \in SeenT, NEW b \in BOOLEAN, NEW c \in BOOLEAN, NEW t,
           t = [seen EXCEPT !.miscut = @ \/ b] \/ t = [seen EXCEPT !.unjust = @ \/ c, !.miscut = @ \/ b]
    PROVE  Records(seen, t) /\ Quiet(seen, t)
<1>1. /\ t \in SeenT /\ t.overruled = seen.overruled /\ t.dropped = seen.dropped
      /\ t.errTwice = seen.errTwice /\ t.after = seen.after /\ t.ended = seen.ended
  BY DEF SeenT
<1> QED
  BY <1>1 DEF Records, Quiet

\* The ERR trap runs twice for one failure at one level only after a trap's action has
\* put another status in its place (ErrTrapOncePerLevel).
LEMMA ErrTrapRecords ==
    ASSUME seen \in SeenT, NEW m, Ok(Excuse(seen), m, shells, stack), ErrTrap
    PROVE  Records(seen, seen') /\ Quiet(seen, seen')
<1> DEFINE b == Me.level \in Me.exit.erred
<1>1. seen' = [seen EXCEPT !.errTwice = @ \/ b] /\ Top.at = "stmt" /\ ~Me.errFired
  BY DEF ErrTrap, FiresErr
<1>2. b => seen.overruled
  <2>1. Len(stack) # 1
    BY <1>1, Place DEF Top
  <2>2. Excuse(seen) = "overruled" \/ ~b
    BY <1>1, <2>1, Standing DEF Me
  <2> QED
    BY <2>2 DEF Excuse
<1>3. b \in BOOLEAN
  OBVIOUS
<1> HIDE DEF b
<1>4. /\ seen' \in SeenT /\ seen'.overruled = seen.overruled /\ seen'.dropped = seen.dropped
      /\ seen'.errTwice = (seen.errTwice \/ b) /\ seen'.after = seen.after
      /\ seen'.ended = seen.ended
  BY <1>1, <1>3 DEF SeenT
<1> QED
  BY <1>2, <1>4 DEF Records, Quiet

\* What a redirection and a dropped exit record, and what they excuse.
LEMMA Overrules ==
    ASSUME seen \in SeenT, NEW b \in BOOLEAN, NEW t,
           t = [seen EXCEPT !.overruled = @ \/ b] \/ t = [seen EXCEPT !.dropped = @ \/ b]
    PROVE  /\ Records(seen, t)
           /\ t = [seen EXCEPT !.overruled = @ \/ b] =>
                 Excuse(t) = IF b THEN "overruled" ELSE Excuse(seen)
           /\ t = [seen EXCEPT !.dropped = @ \/ b] =>
                 Excuse(t) = IF Excuse(seen) = "none" /\ b THEN "dropped" ELSE Excuse(seen)
<1>1. /\ t \in SeenT /\ (seen.overruled => t.overruled) /\ (seen.dropped => t.dropped)
      /\ t.errTwice = seen.errTwice /\ t.after = seen.after /\ t.ended = seen.ended
  BY DEF SeenT
<1>2. ASSUME t = [seen EXCEPT !.overruled = @ \/ b]
      PROVE  Excuse(t) = IF b THEN "overruled" ELSE Excuse(seen)
  <2>1. t.overruled = (seen.overruled \/ b) /\ t.dropped = seen.dropped
    BY <1>2 DEF SeenT
  <2> QED
    BY <2>1 DEF Excuse
<1>3. ASSUME t = [seen EXCEPT !.dropped = @ \/ b]
      PROVE  Excuse(t) = IF Excuse(seen) = "none" /\ b THEN "dropped" ELSE Excuse(seen)
  <2>1. t.overruled = seen.overruled /\ t.dropped = (seen.dropped \/ b)
    BY <1>3 DEF SeenT
  <2> QED
    BY <2>1 DEF Excuse
<1>4. Records(seen, t)
  BY <1>1 DEF Records
<1> QED
  BY <1>2, <1>3, <1>4

\* A shell that ends.
RunOnce == ~seen.overruled /\ ~seen.dropped /\ mode # "lines" /\ Me.exitTrap /\ "exit" \notin Me.running
             => Me.exits = 1

\* A shell that ends is recorded; if it has run its EXIT trap once it is right.
LEMMA EndedRecords ==
    ASSUME seen \in SeenT, Me \in RunnerT, Ended, RunOnce
    PROVE  Records(seen, seen') /\ Quiet(seen, seen')
<1> DEFINE e == [trap |-> Me.exitTrap, exits |-> Me.exits, nested |-> "exit" \in Me.running]
<1>1. seen' = [seen EXCEPT !.ended = @ \cup {e}]
  BY DEF Ended
<1>2. e \in [trap: BOOLEAN, exits: Nat, nested: BOOLEAN]
  BY DEF RunnerT
<1>3. e.trap = Me.exitTrap /\ e.exits = Me.exits /\ (e.nested <=> "exit" \in Me.running)
  OBVIOUS
<1> HIDE DEF e
<1>4. /\ seen' \in SeenT /\ seen'.overruled = seen.overruled /\ seen'.dropped = seen.dropped
      /\ seen'.errTwice = seen.errTwice /\ seen'.after = seen.after
      /\ seen'.ended = seen.ended \cup {e}
  BY <1>1, <1>2 DEF SeenT
<1>5. EndsRight(seen', e)
  BY <1>3, <1>4 DEF EndsRight, RunOnce
<1> QED
  BY <1>4, <1>5 DEF Records, Quiet

\* A subshell, a background job or a stage that is over has run its EXIT trap once.
LEMMA SubRunOnce ==
    ASSUME seen \in SeenT, Ok(Excuse(seen), mode, shells, stack), NEW at \in Shells, ShellOver(at)
    PROVE  RunOnce /\ Me \in RunnerT
<1> DEFINE x == Excuse(seen)
<1>1. Top.at \in Shells /\ (Top.ending \/ ~FiresExit(Me))
  BY DEF ShellOver
<1> DEFINE c == Context(stack, Len(stack))
<1>2. /\ ShellOK(x, mode, Me, c, stack[1], Len(stack)) /\ c.shell = Len(shells)
      /\ Me \in RunnerT
  BY Place DEF Me
<1>3. Len(shells) > 1 /\ ForkOK(Top, Me)
  BY <1>1, Around DEF Me, Top
<1>4. c.kinds = Me.running
  BY Standing DEF Me
<1> HIDE DEF c, x
<1>5. c.shell > 1
  <2>1. c.shell = Len(shells)
    BY <1>2
  <2> QED
    BY <1>3, <2>1
<1>6. ASSUME ~seen.overruled, ~seen.dropped, mode # "lines", Me.exitTrap, "exit" \notin Me.running
      PROVE  Me.exits = 1
  <2>1. x = "none"
    BY <1>6 DEF x, Excuse
  <2>2. Me.fired
    BY <1>1, <1>3, <1>6 DEF ForkOK, FiresExit
  <2>3. ShellTraps(x, mode, Me, c, stack[1], Len(stack))
    BY <1>2 DEF ShellOK
  <2> QED
    BY <1>4, <1>5, <1>6, <2>1, <2>2, <2>3 DEF ShellTraps
<1> QED
  BY <1>2, <1>6 DEF RunOnce

\* So has the main shell when the script is over.
LEMMA TopRunOnce ==
    ASSUME seen \in SeenT, Ok(Excuse(seen), mode, shells, stack), Over
    PROVE  RunOnce /\ Me \in RunnerT
<1> DEFINE x == Excuse(seen)
<1>1. Top.at = "top" /\ Top.ending /\ (mode = "stream" => Top.single \/ "exit" \in Me.exit.flow)
  BY DEF Over
<1>2. Me \in RunnerT /\ ShellOK(x, mode, Me, Ground, Top, 1)
  BY <1>1, TopPlace
<1> HIDE DEF x
<1>3. ASSUME ~seen.overruled, ~seen.dropped, mode # "lines", Me.exitTrap
      PROVE  Me.exits = 1
  <2>1. x = "none"
    BY <1>3 DEF x, Excuse
  <2>2. ShellTraps(x, mode, Me, Ground, Top, 1)
    BY <1>2 DEF ShellOK
  <2>3. /\ Me.exits \in {0, 1}
        /\ Me.fired /\ Me.exits = 0 => ~Me.exitTrap
        /\ mode # "stream" => Me.fired
        /\ Top.single => Me.fired \/ ~Me.exitTrap
        /\ "exit" \in Me.exit.flow => Me.fired \/ Top.single
    BY <1>1, <1>3, <2>1, <2>2 DEF ShellTraps, Ground
  <2> QED
    BY <1>1, <1>3, <2>3
<1> QED
  BY <1>2, <1>3 DEF RunOnce

-----------------------------------------------------------------------------
\* What a step does to the shells, the stack and the history.
Held ==
    /\ Ok(Excuse(seen), mode, shells, stack)
    /\ mode \in {"whole", "stream", "lines"} /\ seen \in SeenT
    /\ left \in Nat /\ signals \in Nat /\ over \in BOOLEAN
Kept ==
    /\ Ok(Excuse(seen'), mode, shells', stack') /\ mode' = mode /\ Records(seen, seen')
    /\ left' \in Nat /\ signals' \in Nat /\ over' \in BOOLEAN

\* A step that leaves the history alone.
LEMMA QuietKept ==
    ASSUME Held, Ok(Excuse(seen), mode, shells', stack'), Records(seen, seen'),
           Quiet(seen, seen'), mode' = mode, left' \in Nat, signals' \in Nat, over' \in BOOLEAN
    PROVE  Kept
<1>1. Excuse(seen') = Excuse(seen)
  BY Excuses DEF Held
<1> QED
  BY <1>1 DEF Kept

\* A step that leaves the history as it is.
LEMMA SilentKept ==
    ASSUME Held, Ok(Excuse(seen), mode, shells', stack'),
           UNCHANGED <<mode, left, over, seen>>, signals' \in Nat
    PROVE  Kept
<1>1. Records(seen, seen') /\ Quiet(seen, seen')
  BY SameRecord DEF Held
<1> QED
  BY <1>1, QuietKept DEF Held

\* Each action of the model.
LEMMA BegunKept ==
    ASSUME Held, Ok(Excuse(seen), mode, shells', stack'), NEW st, NEW cost \in {0, 1},
           Begin(st, cost)
    PROVE  Kept
<1>1. Records(seen, seen') /\ Quiet(seen, seen') /\ left' \in Nat
  BY BeginRecords DEF Held
<1>2. mode' = mode /\ signals' = signals /\ over' = over
  BY DEF Begin
<1> QED
  BY <1>1, <1>2, QuietKept DEF Held

\* The actions that record nothing.
LEMMA SilentsKept ==
    ASSUME Held,
           \/ EndBlock \/ EndCond \/ EndLeft \/ EndLoop \/ EndBody \/ Signal
           \/ FuncExitTrap \/ EndFunc \/ SubExitTrap \/ EndRun \/ NextLine \/ Finish
    PROVE  Kept
<1>1. Ok(Excuse(seen), mode, shells', stack')
  <2>1. CASE EndBlock
    BY <2>1, EndBlockKept DEF Held
  <2>2. CASE EndCond
    BY <2>2, EndCondKept DEF Held
  <2>3. CASE EndLeft
    BY <2>3, EndLeftKept DEF Held
  <2>4. CASE EndLoop
    BY <2>4, EndLoopKept DEF Held
  <2>5. CASE EndBody
    BY <2>5, EndBodyKept DEF Held
  <2>6. CASE Signal
    BY <2>6, SignalKept DEF Held
  <2>7. CASE FuncExitTrap
    BY <2>7, FuncExitTrapKept DEF Held
  <2>8. CASE EndFunc
    BY <2>8, EndFuncKept DEF Held
  <2>9. CASE SubExitTrap
    BY <2>9, SubExitTrapKept DEF Held
  <2>10. CASE EndRun
    BY <2>10, EndRunKept DEF Held
  <2>11. CASE NextLine
    BY <2>11, NextLineKept DEF Held
  <2>12. CASE Finish
    BY <2>12, FinishKept DEF Held
  <2> QED
    BY <2>1, <2>2, <2>3, <2>4, <2>5, <2>6, <2>7, <2>8, <2>9, <2>10, <2>11, <2>12
<1>2. UNCHANGED <<mode, left, over, seen>>
  <2>1. CASE EndBlock \/ EndCond \/ EndLeft \/ EndLoop \/ EndBody \/ EndFunc \/ NextLine
    BY <2>1 DEF EndBlock, EndCond, EndLeft, EndLoop, EndBody, EndFunc, NextLine, Leave
  <2>2. CASE Signal \/ FuncExitTrap \/ SubExitTrap \/ EndRun \/ Finish
    BY <2>2 DEF Signal, FuncExitTrap, SubExitTrap, EndRun, Finish
  <2> QED
    BY <2>1, <2>2
<1>3. signals' \in Nat
  <2>1. CASE Signal
    BY <2>1 DEF Signal, Held
  <2>2. CASE EndBlock \/ EndCond \/ EndLeft \/ EndLoop \/ EndBody \/ EndFunc \/ NextLine
    <3>1. signals' = signals
      BY <2>2 DEF EndBlock, EndCond, EndLeft, EndLoop, EndBody, EndFunc, NextLine, Leave
    <3> QED
      BY <3>1 DEF Held
  <2>3. CASE FuncExitTrap \/ SubExitTrap \/ EndRun \/ Finish
    <3>1. signals' = signals
      BY <2>3 DEF FuncExitTrap, SubExitTrap, EndRun, Finish
    <3> QED
      BY <3>1 DEF Held
  <2> QED
    BY <2>1, <2>2, <2>3
<1> QED
  BY <1>1, <1>2, <1>3, SilentKept

\* The actions that record what these theorems are not about, and the ERR trap.
LEMMA MarksKept ==
    ASSUME Held, Round \/ EndWhileCond \/ EndStmt \/ ErrTrap
    PROVE  Kept
<1>1. Ok(Excuse(seen), mode, shells', stack')
  BY RoundKept, EndWhileCondKept, EndStmtKept, ErrTrapKept DEF Held
<1>2. Records(seen, seen') /\ Quiet(seen, seen')
  <2>1. CASE Round
    <3> DEFINE b == Top.at = "for" /\ Top.hit
    <3>1. seen' = [seen EXCEPT !.miscut = @ \/ b]
      BY <2>1 DEF Round
    <3>2. b \in BOOLEAN /\ TRUE \in BOOLEAN
      OBVIOUS
    <3> HIDE DEF b
    <3> QED
      BY <3>1, <3>2, Miscut DEF Held
  <2>2. CASE EndWhileCond
    <3> DEFINE b == Me.exit.code = 0 /\ Last(Below).hit
    <3>1. seen' = [seen EXCEPT !.miscut = @ \/ b]
      BY <2>2 DEF EndWhileCond
    <3>2. b \in BOOLEAN /\ TRUE \in BOOLEAN
      OBVIOUS
    <3> HIDE DEF b
    <3> QED
      BY <3>1, <3>2, Miscut DEF Held
  <2>3. CASE EndStmt
    <3>1. PICK b \in BOOLEAN, c \in BOOLEAN :
             seen' = [seen EXCEPT !.unjust = @ \/ c, !.miscut = @ \/ b]
      BY <2>3 DEF EndStmt
    <3> QED
      BY <3>1, Miscut DEF Held
  <2>4. CASE ErrTrap
    BY <2>4, ErrTrapRecords DEF Held
  <2> QED
    BY <2>1, <2>2, <2>3, <2>4
<1>3. UNCHANGED <<mode, left, signals, over>>
  BY DEF Round, EndWhileCond, EndStmt, ErrTrap
<1> QED
  BY <1>1, <1>2, <1>3, QuietKept DEF Held

\* The actions at the end of a shell.
LEMMA ShellsKept ==
    ASSUME Held, EndSub \/ EndBg \/ EndStageL \/ EndStageR \/ Over
    PROVE  Kept
<1>1. Ok(Excuse(seen), mode, shells', stack')
  <2>1. CASE Over
    <3>1. shells' = shells /\ stack' = stack
      BY <2>1 DEF Over
    <3> QED
      BY <3>1 DEF Held
  <2>2. CASE EndSub \/ EndBg \/ EndStageL \/ EndStageR
    BY <2>2, EndSubKept, EndBgKept, EndStageLKept, EndStageRKept DEF Held
  <2> QED
    BY <2>1, <2>2
<1>2. Ended /\ RunOnce /\ Me \in RunnerT
  <2>1. CASE Over
    BY <2>1, TopRunOnce DEF Over, Held
  <2>2. CASE EndSub \/ EndBg \/ EndStageL \/ EndStageR
    <3>1. PICK at \in Shells : ShellOver(at)
      BY <2>2 DEF EndSub, EndBg, EndStageL, EndStageR, Shells
    <3>2. Ended
      BY <2>2 DEF EndSub, EndBg, EndStageL, EndStageR
    <3> QED
      BY <3>1, <3>2, SubRunOnce DEF Held
  <2> QED
    BY <2>1, <2>2
<1>3. Records(seen, seen') /\ Quiet(seen, seen')
  BY <1>2, EndedRecords DEF Held
<1>4. mode' = mode /\ left' = left /\ signals' = signals /\ over' \in BOOLEAN
  <2>1. CASE Over
    BY <2>1 DEF Over
  <2>2. CASE EndSub \/ EndBg \/ EndStageL \/ EndStageR
    BY <2>2 DEF EndSub, EndBg, EndStageL, EndStageR, Held
  <2> QED
    BY <2>1, <2>2
<1> QED
  BY <1>1, <1>3, <1>4, QuietKept DEF Held

\* The actions after which an exit may have given way: the excuses begin here.
LEMMA RedirectsKept ==
    ASSUME Held, EndAction \/ EndLastStage
    PROVE  Kept
<1>1. mode' = mode /\ left' = left /\ signals' = signals /\ over' = over
  BY DEF EndAction, EndLastStage
<1>2. CASE EndAction
  <2> DEFINE b == Top.saved.keep /\ Stop(Me)
  <2>1. seen' = [seen EXCEPT !.overruled = @ \/ b]
    BY <1>2 DEF EndAction
  <2>2. b \in BOOLEAN
    OBVIOUS
  <2>3. Ok(IF b THEN "overruled" ELSE Excuse(seen), mode, shells', stack')
    BY <1>2, EndActionKept DEF Held
  <2> HIDE DEF b
  <2>4. Records(seen, seen') /\ Excuse(seen') = IF b THEN "overruled" ELSE Excuse(seen)
    BY <2>1, <2>2, Overrules DEF Held
  <2> QED
    BY <1>1, <2>3, <2>4 DEF Held, Kept
<1>3. CASE EndLastStage
  <2> DEFINE b == Stop(Me) /\ OfPipe(Me.exit, Top.saved, Len(shells)).flow = {}
  <2>1. seen' = [seen EXCEPT !.dropped = @ \/ b]
    BY <1>3 DEF EndLastStage
  <2>2. b \in BOOLEAN
    OBVIOUS
  <2>3. Ok(IF Excuse(seen) = "none" /\ b THEN "dropped" ELSE Excuse(seen), mode, shells', stack')
    <3> DEFINE x == Excuse(seen)
    <3> DEFINE y == IF x = "none" /\ Stop(Me)
                       /\ OfPipe(Me.exit, Top.saved, Len(shells)).flow = {}
                    THEN "dropped" ELSE x
    <3>1. Ok(x, mode, shells, stack)
      BY DEF Held
    <3>2. y = IF x = "none" /\ Stop(Me)
                 /\ OfPipe(Me.exit, Top.saved, Len(shells)).flow = {}
              THEN "dropped" ELSE x
      OBVIOUS
    <3> HIDE DEF x, y
    <3>3. Ok(y, mode, shells', stack')
      BY <1>3, <3>1, <3>2, EndLastStageKept
    <3> QED
      BY <3>3 DEF y, x
  <2> HIDE DEF b
  <2>4. Records(seen, seen')
        /\ Excuse(seen') = IF Excuse(seen) = "none" /\ b THEN "dropped" ELSE Excuse(seen)
    BY <2>1, <2>2, Overrules DEF Held
  <2> QED
    BY <1>1, <2>3, <2>4 DEF Held, Kept
<1> QED
  BY <1>2, <1>3

\* Every action of the model keeps the stack, the shells and the history right.
LEMMA NextKept ==
    ASSUME Held, Next PROVE Kept
<1>1. ASSUME NEW st, NEW neg \in BOOLEAN, Simple(st, neg) PROVE Kept
  <2>1. PICK cost \in {0, 1} : Begin(st, cost)
    BY <1>1 DEF Simple
  <2>2. Ok(Excuse(seen), mode, shells', stack')
    BY <1>1, SimpleKept DEF Held
  <2> QED
    BY <2>1, <2>2, BegunKept
<1>2. ASSUME NEW st, NEW neg \in BOOLEAN, Compound(st, neg) PROVE Kept
  <2>1. Begin(st, 1) /\ 1 \in {0, 1}
    BY <1>2 DEF Compound
  <2>2. Ok(Excuse(seen), mode, shells', stack')
    BY <1>2, CompoundKept DEF Held
  <2> QED
    BY <2>1, <2>2, BegunKept
<1>7. ASSUME NEW st, NEW n \in 1..2, Breaks(st, n) PROVE Kept
  <2>1. Begin(st, 1) /\ 1 \in {0, 1}
    BY <1>7 DEF Breaks
  <2>2. Ok(Excuse(seen), mode, shells', stack')
    BY <1>7, BreaksKept DEF Held
  <2> QED
    BY <2>1, <2>2, BegunKept
<1>3. CASE \/ EndBlock \/ EndCond \/ EndLeft \/ EndLoop \/ EndBody \/ Signal
           \/ FuncExitTrap \/ EndFunc \/ SubExitTrap \/ EndRun \/ NextLine \/ Finish
  BY <1>3, SilentsKept
<1>4. CASE Round \/ EndWhileCond \/ EndStmt \/ ErrTrap
  BY <1>4, MarksKept
<1>5. CASE EndSub \/ EndBg \/ EndStageL \/ EndStageR \/ Over
  BY <1>5, ShellsKept
<1>6. CASE EndAction \/ EndLastStage
  BY <1>6, RedirectsKept
<1> QED
  BY <1>1, <1>2, <1>3, <1>4, <1>5, <1>6, <1>7 DEF Next

-----------------------------------------------------------------------------
\* The invariant is inductive.
IInv ==
    /\ Held
    /\ ~seen.overruled => ~seen.errTwice
    /\ ~Redirected => ~seen.after
    /\ \A e \in seen.ended : EndsRight(seen, e)

\* The invariant holds at first.
LEMMA InitIInv ==
    ASSUME Init PROVE IInv
<1>1. PICK c \in Scenarios : mode = c.mode /\ left = c.stmts /\ signals = c.signals
  BY DEF Init
<1>2. mode \in {"whole", "stream", "lines"} /\ left \in Nat /\ signals \in Nat
  BY <1>1, ScenariosAssumption
<1>3. seen = [late |-> FALSE, miscut |-> FALSE, errTwice |-> FALSE, unjust |-> FALSE,
              after |-> FALSE, overruled |-> FALSE, dropped |-> FALSE, ended |-> {}]
  BY DEF Init
<1>4. /\ seen \in SeenT /\ ~seen.errTwice /\ ~seen.after /\ seen.ended = {}
  BY <1>3 DEF SeenT
<1>5. shells = <<Runner>> /\ stack = <<Frame("top", FALSE, 0)>> /\ over \in BOOLEAN
  BY DEF Init
<1>6. Ok(Excuse(seen), mode, shells, stack)
  BY <1>5, FirstState
<1> QED
  BY <1>2, <1>4, <1>5, <1>6 DEF IInv, Held

\* Every step keeps it.
LEMMA NextIInv ==
    ASSUME IInv, [Next]_vars PROVE IInv'
<1>1. CASE UNCHANGED vars
  BY <1>1 DEF IInv, Held, vars, Redirected, EndsRight
<1>2. CASE Next
  <2>1. Kept
    BY <1>2, NextKept DEF IInv
  <2>2. Held'
    BY <2>1 DEF Kept, Held, Records, IInv
  <2>3. Records(seen, seen') /\ mode' = mode
    BY <2>1 DEF Kept
  <2>4. (~seen.overruled => ~seen.errTwice)'
    BY <2>3 DEF IInv, Records
  <2>5. (~Redirected => ~seen.after)'
    BY <2>3 DEF IInv, Records, Redirected
  <2>6. (\A e \in seen.ended : EndsRight(seen, e))'
    <3> SUFFICES ASSUME NEW e \in seen'.ended PROVE EndsRight(seen, e)'
      OBVIOUS
    <3>1. e \in seen.ended \/ EndsRight(seen', e)
      BY <2>3 DEF Records
    <3> QED
      BY <2>3, <3>1 DEF IInv, Records, EndsRight
  <2> QED
    BY <2>2, <2>4, <2>5, <2>6 DEF IInv
<1> QED
  BY <1>1, <1>2

\* IInv holds in every state the interpreter reaches.
THEOREM Inductive == Spec => []IInv
<1>1. Init => IInv
  BY InitIInv
<1>2. IInv /\ [Next]_vars => IInv'
  BY NextIInv
<1> QED
  BY <1>1, <1>2, PTL DEF Spec

\* Every shell has its place in the stack, where it has what the frames say of it.
LEMMA EveryShell ==
    ASSUME NEW x, NEW m, NEW ss, NEW ks, Ok(x, m, ss, ks), NEW i \in 1..Len(ss)
    PROVE  \E n \in 1..Len(ks) : /\ ShellOK(x, m, ss[i], Context(ks, n), ks[1], n)
                                 /\ Shell(ks, n) = i
                                 /\ \A k \in (n + 1)..Len(ks) : Shell(ks, k) # i
<1>1. /\ Len(ks) \in Nat /\ Len(ks) > 0 /\ Len(ss) \in Nat /\ Len(ss) = Shell(ks, Len(ks))
      /\ ShellOK(x, m, ss[Len(ss)], Context(ks, Len(ks)), ks[1], Len(ks))
      /\ ks[1].at = "top"
  BY Place
<1>2. CASE i = Len(ss)
  <2>1. \A k \in (Len(ks) + 1)..Len(ks) : FALSE
    BY <1>1
  <2>2. Len(ks) \in 1..Len(ks)
    BY <1>1
  <2> QED
    BY <1>1, <1>2, <2>1, <2>2
<1>3. CASE i # Len(ss)
  <2>1. i + 1 \in 2..Len(ss) /\ i \in Nat
    BY <1>1, <1>3
  <2>2. PICK p \in 1..Len(ks) : ks[p].at \in Shells /\ Shell(ks, p) = i + 1
    BY <2>1 DEF Ok
  <2>3. FrameOK(x, m, ss, ks, p)
    BY DEF Ok
  <2>4. ShellOK(x, m, ss[Shell(ks, p) - 1], Context(ks, p - 1), ks[1], p - 1)
    BY <2>2, <2>3 DEF FrameOK
  <2>5. (i + 1) - 1 = i
    BY <2>1
  <2>6. ShellOK(x, m, ss[i], Context(ks, p - 1), ks[1], p - 1)
    BY <2>2, <2>4, <2>5
  <2>7. p # 1
    BY <1>1, <2>2 DEF Shells
  <2>8. p \in Nat /\ p > 0 /\ p - 1 \in 1..Len(ks) /\ (p - 1) + 1 = p
    BY <1>1, <2>7
  <2>9. Shell(ks, p) = Shell(ks, p - 1) + 1 /\ Shell(ks, p - 1) \in Nat
    <3>1. Shell(ks, p) = Shell(ks, p - 1) + (IF ks[p].at \in Shells THEN 1 ELSE 0)
      BY <2>8, ShellStep
    <3>2. p - 1 \in Nat
      BY <2>8
    <3>3. Shell(ks, p - 1) \in Nat
      BY <3>2, ShellStep
    <3> QED
      BY <2>2, <3>1, <3>3
  <2>10. Shell(ks, p - 1) = i
    BY <2>1, <2>2, <2>9
  <2>11. \A k \in p..Len(ks) : Shell(ks, k) # i
    <3> SUFFICES ASSUME NEW k \in p..Len(ks) PROVE Shell(ks, k) # i
      OBVIOUS
    <3>1. k \in Nat /\ p \in 0..k
      BY <1>1, <2>8
    <3>2. Shell(ks, p) <= Shell(ks, k) /\ Shell(ks, k) \in Nat
      BY <3>1, ShellStep
    <3> QED
      BY <2>1, <2>2, <3>2
  <2> QED
    BY <2>6, <2>8, <2>10, <2>11
<1> QED
  BY <1>2, <1>3

\* The type invariant is part of it.
LEMMA Typed ==
    ASSUME Held PROVE TypeOK
<1>1. /\ shells \in Seq(RunnerT) /\ Len(shells) > 0 /\ Len(stack) > 0
  BY Place DEF Held
<1>2. \A i \in 1..Len(shells) : shells[i] \in RunnerT
  BY <1>1
<1>3. \A i \in 1..Len(shells) :
          /\ shells[i].exit \in Status /\ shells[i].last.code \in 0..255
          /\ shells[i].brk \in 0..2 /\ shells[i].cnt \in 0..2
          /\ shells[i].running \subseteq {"signal", "error", "exit"}
  <2> SUFFICES ASSUME NEW r \in RunnerT
               PROVE  /\ r.exit \in Status /\ r.last.code \in 0..255
                      /\ r.brk \in 0..2 /\ r.cnt \in 0..2
                      /\ r.running \subseteq {"signal", "error", "exit"}
    BY <1>2
  <2>1. r.exit \in Status /\ r.last \in Status /\ r.brk \in 0..2 /\ r.cnt \in 0..2
    BY DEF RunnerT
  <2>2. r.last.code \in 0..255
    BY <2>1 DEF Status
  <2>3. r.running \in SUBSET Trap
    BY DEF RunnerT
  <2> QED
    BY <2>1, <2>2, <2>3 DEF Trap
<1> QED
  BY <1>1, <1>3 DEF TypeOK, Held

\* So are StaysInShell and Balanced: what a place says of its shell, read for every
\* shell at the frame that forked the next one.
LEMMA Scoped ==
    ASSUME Held PROVE StaysInShell /\ Balanced
<1> DEFINE x == Excuse(seen)
<1>1. Ok(x, mode, shells, stack)
  BY DEF Held
<1>2. Len(stack) \in Nat
  BY <1>1, Place
<1> HIDE DEF x
<1>3. \A n : ShellOf(n) = Shell(stack, n)
  BY DEF ShellOf, Shell, Frames
<1>4. ASSUME NEW i \in 1..Len(shells)
      PROVE  LET mine == {n \in 1..Len(stack) : ShellOf(n) = i}
             IN  /\ shells[i].exit.flow \cap {"exit", "abort"} # {} => shells[i].exit.by = i
                 /\ shells[i].noErr <=> \E n \in mine :
                       stack[n].at \in Conditions \/ (stack[n].at = "stmt" /\ stack[n].neg)
                 /\ shells[i].inLoop <=>
                       \E n \in mine : stack[n].at \in {"for", "while"} /\ ~stack[n].ending
  <2> DEFINE mine == {n \in 1..Len(stack) : ShellOf(n) = i}
  <2>1. PICK n \in 1..Len(stack) : /\ ShellOK(x, mode, shells[i], Context(stack, n), stack[1], n)
                                   /\ Shell(stack, n) = i
                                   /\ \A k \in (n + 1)..Len(stack) : Shell(stack, k) # i
    BY <1>1, EveryShell
  <2>2. mine = {k \in 1..n : Shell(stack, k) = Shell(stack, n)}
    <3>1. \A k \in 1..Len(stack) : Shell(stack, k) = i => k \in 1..n
      BY <1>2, <2>1
    <3>2. \A k \in 1..n : k \in 1..Len(stack)
      BY <1>2
    <3> QED
      BY <1>3, <2>1, <3>1, <3>2
  <2> HIDE DEF mine
  <2>3. /\ shells[i].noErr = InTest(stack, n) /\ shells[i].inLoop = InLoop(stack, n)
        /\ ByOwn(shells[i].exit, i)
    BY <2>1 DEF ShellOK, ShellFits, Context
  <2>4. shells[i].noErr <=> \E k \in mine : Tests(stack[k])
    BY <2>2, <2>3 DEF InTest
  <2>5. shells[i].inLoop <=> \E k \in mine : InRound(stack[k])
    BY <2>2, <2>3 DEF InLoop
  <2> QED
    BY <2>3, <2>4, <2>5 DEF ByOwn, Tests, InRound, mine
<1> QED
  BY <1>4 DEF StaysInShell, Balanced

\* No exit leaks out of a subshell, and noErrExit and inLoop are on exactly inside the
\* constructs that set them, whatever left the statements in between (the saves and restores
\* of stmtSync, ifClause, whileClause, binaryCmd, loopStmtsBroken and call).
THEOREM FlagsAreScoped == Spec => []FlagsScoped
<1>1. IInv => FlagsScoped
  BY Typed, Scoped DEF IInv, FlagsScoped
<1> QED
  BY <1>1, Inductive, PTL

\* The ERR trap runs once for a failure at each level of calls and subshells
\* (errTrapFired), unless a trap's action has put another status in its place.
THEOREM ErrTrapsOncePerLevel == Spec => []ErrTrapOncePerLevel
<1>1. IInv => ErrTrapOncePerLevel
  BY DEF IInv, ErrTrapOncePerLevel
<1> QED
  BY <1>1, Inductive, PTL

\* Once a shell was asked to exit no statement of it begins (exitStatus.clear, the
\* negation and the restored statuses keep the flag), unless a trap's action or a failed
\* earlier stage of a lastpipe pipeline has overruled it.
THEOREM ExitsStick == Spec => []ExitSticks
<1>1. IInv => ExitSticks
  BY DEF IInv, ExitSticks
<1> QED
  BY <1>1, Inductive, PTL

\* No shell runs its EXIT trap twice.
LEMMA RunsOnce ==
    ASSUME Held, ~Redirected, mode # "lines", NEW i \in 1..Len(shells)
    PROVE  shells[i].exits <= 1
<1> DEFINE x == Excuse(seen)
<1>1. Ok(x, mode, shells, stack)
  BY DEF Held
<1>2. x = "none"
  BY DEF Redirected, Excuse
<1> HIDE DEF x
<1>3. PICK n \in 1..Len(stack) : ShellOK(x, mode, shells[i], Context(stack, n), stack[1], n)
  BY <1>1, EveryShell
<1>4. shells[i].exits \in {0, 1}
  BY <1>2, <1>3 DEF ShellOK, ShellTraps
<1> DEFINE k == shells[i].exits
<1>5. k \in {0, 1}
  BY <1>4
<1> HIDE DEF k
<1>6. k <= 1
  BY <1>5
<1> QED
  BY <1>6 DEF k

\* A script that set an EXIT trap runs it once in each shell, whichever way the shell
\* ends (runEpilogue, Finish, Runner.call, runSubshellExitTrap), with the same two excuses.
THEOREM ExitTrapsOnce == Spec => []ExitTrapOnce
<1>1. IInv => ExitTrapOnce
  <2> SUFFICES ASSUME IInv, ~Redirected, mode # "lines"
               PROVE  /\ \A i \in 1..Len(shells) : shells[i].exits <= 1
                      /\ \A e \in seen.ended : e.trap /\ ~e.nested => e.exits = 1
    BY DEF ExitTrapOnce
  <2>1. \A i \in 1..Len(shells) : shells[i].exits <= 1
    BY RunsOnce DEF IInv
  <2>2. \A e \in seen.ended : e.trap /\ ~e.nested => e.exits = 1
    BY DEF IInv, EndsRight, Redirected
  <2> QED
    BY <2>1, <2>2
<1> QED
  BY <1>1, Inductive, PTL
=============================================================================
