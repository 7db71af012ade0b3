-------------------------- MODULE VcsCounts_proofs --------------------------
(***************************************************************************)
(* Proofs about VcsCounts: OldCountsAreMarked holds for every TTL, every   *)
(* timeout and any number of changes and ticks.                            *)
(***************************************************************************)
EXTENDS VcsCounts, TLAPS

\* The types, and that no version is ahead of the work tree.
Typed ==
    /\ tree \in 0..MaxChanges
    /\ changedAt \in [0..MaxChanges -> Int]
    /\ counts \in -1..tree /\ read \in -1..tree
    /\ succeeded \in Int /\ fetched \in Int /\ now \in Nat /\ since \in Int
    /\ scanning \in BOOLEAN
    /\ shown \in [counts : -1..tree, marked : BOOLEAN, at : Int]

\* What was shown and what was found lie in the past.
Clocks == succeeded <= now /\ shown.at <= now

\* A scan that runs is not older than its timeout, and what it has read was true when
\* it began or later.
ScanIsYoung ==
    /\ scanning => since <= now /\ now - since <= ScanTimeout
    /\ read # Nothing => scanning
    /\ read # Nothing /\ read < tree => changedAt[read + 1] >= since

\* The counts were true at most the length of a scan before it succeeded.
CountsWereTrue ==
    counts # Nothing /\ counts < tree => changedAt[counts + 1] >= succeeded - ScanTimeout

IInv == Typed /\ Clocks /\ ScanIsYoung /\ CountsWereTrue /\ OldCountsAreMarked

\* In the initial state nothing has been scanned.
LEMMA InitIInv == Init => IInv
<1> SUFFICES ASSUME Init PROVE IInv
  OBVIOUS
<1> USE CountsAssumption
<1>1. Typed
  <2>1. StaleAfter \in Int /\ Nothing \in -1..tree
    BY DEF Init, StaleAfter, Nothing
  <2>2. succeeded \in Int /\ fetched \in Int
    BY <2>1 DEF Init
  <2>3. shown \in [counts : -1..tree, marked : BOOLEAN, at : Int]
    BY <2>1 DEF Init
  <2>4. changedAt \in [0..MaxChanges -> Int]
    BY DEF Init
  <2>5. /\ tree \in 0..MaxChanges /\ counts \in -1..tree /\ read \in -1..tree
        /\ now \in Nat /\ since \in Int
    BY <2>1 DEF Init
  <2>6. scanning \in BOOLEAN
    BY DEF Init
  <2>7. QED
    BY <2>2, <2>3, <2>4, <2>5, <2>6 DEF Typed
<1>2. Clocks
  BY DEF Init, Clocks, StaleAfter
<1>3. ScanIsYoung /\ CountsWereTrue /\ OldCountsAreMarked
  BY DEF Init, ScanIsYoung, CountsWereTrue, OldCountsAreMarked, Nothing
<1>4. QED
  BY <1>1, <1>2, <1>3 DEF IInv

\* The invariant is inductive: a change cannot make older what was true until now, and
\* a prompt passes on what the counts and their clock promise.
LEMMA NextIInv == IInv /\ [Next]_vars => IInv'
<1> SUFFICES ASSUME IInv, [Next]_vars PROVE IInv'
  OBVIOUS
<1> USE CountsAssumption DEF IInv, Nothing
<1>1. CASE Change
  <2>1. Typed'
    BY <1>1 DEF Change, Typed
  <2>2. Clocks'
    BY <1>1 DEF Change, Clocks
  <2>3. /\ tree + 1 \in 0..MaxChanges /\ changedAt'[tree + 1] = now
        /\ \A v \in 0..MaxChanges : v # tree + 1 => changedAt'[v] = changedAt[v]
    BY <1>1 DEF Change, Typed
  <2>4. ScanIsYoung'
    BY <1>1, <2>3 DEF Change, Typed, ScanIsYoung
  <2>5. CountsWereTrue'
    BY <1>1, <2>3 DEF Change, Typed, Clocks, CountsWereTrue
  <2>6. OldCountsAreMarked'
    <3> SUFFICES ASSUME shown.counts # Nothing, ~shown.marked, shown.counts < tree + 1
                 PROVE  shown.at - changedAt'[shown.counts + 1] <= StaleAfter + ScanTimeout
      BY <1>1 DEF Change, OldCountsAreMarked, StaleAfter
    <3>1. shown.counts \in 0..tree /\ shown.at \in Int
      BY DEF Typed
    <3>2. CASE shown.counts = tree
      BY <2>3, <3>1, <3>2 DEF Typed, Clocks, StaleAfter
    <3>3. CASE shown.counts < tree
      <4>1. shown.counts + 1 \in 0..MaxChanges /\ shown.counts + 1 # tree + 1
        BY <3>1, <3>3 DEF Typed
      <4>2. changedAt'[shown.counts + 1] = changedAt[shown.counts + 1]
        BY <2>3, <4>1
      <4>3. shown.at - changedAt[shown.counts + 1] <= StaleAfter + ScanTimeout
        BY <3>3 DEF OldCountsAreMarked
      <4>4. QED
        BY <4>2, <4>3
    <3>4. QED
      BY <3>1, <3>2, <3>3 DEF Typed
  <2>7. QED
    BY <2>1, <2>2, <2>4, <2>5, <2>6
<1>2. CASE Prompt
  <2>1. /\ shown'.counts = counts /\ shown'.at = now /\ shown'.marked = Marked
        /\ UNCHANGED <<tree, changedAt, counts, fetched, succeeded, read, now>>
    BY <1>2 DEF Prompt
  <2>2. Typed'
    BY <1>2 DEF Prompt, Typed, Marked
  <2>3. Clocks' /\ ScanIsYoung' /\ CountsWereTrue'
    BY <1>2, <2>1 DEF Prompt, Typed, Clocks, ScanIsYoung, CountsWereTrue
  <2>4. OldCountsAreMarked'
    <3> SUFFICES ASSUME counts # Nothing, ~Marked, counts < tree
                 PROVE  now - changedAt[counts + 1] <= StaleAfter + ScanTimeout
      BY <2>1 DEF OldCountsAreMarked, StaleAfter
    <3>1. changedAt[counts + 1] >= succeeded - ScanTimeout /\ changedAt[counts + 1] \in Int
      BY DEF CountsWereTrue, Typed
    <3>2. now - succeeded <= StaleAfter
      BY DEF Marked, Typed, StaleAfter
    <3>3. QED
      BY <3>1, <3>2 DEF Typed, StaleAfter
  <2>5. QED
    BY <2>2, <2>3, <2>4
<1>3. CASE Read
  BY <1>3 DEF Read, Typed, Clocks, ScanIsYoung, CountsWereTrue, OldCountsAreMarked, StaleAfter
<1>4. CASE Scanned
  <2>1. Typed'
    <3>1. /\ (tree \in 0..MaxChanges)' /\ (counts \in -1..tree)' /\ (read \in -1..tree)'
          /\ (succeeded \in Int /\ fetched \in Int /\ now \in Nat /\ since \in Int)'
      BY <1>4 DEF Scanned, Typed
    <3>2. /\ (changedAt \in [0..MaxChanges -> Int])'
          /\ (shown \in [counts : -1..tree, marked : BOOLEAN, at : Int])'
      BY <1>4 DEF Scanned, Typed
    <3>3. (scanning \in BOOLEAN)'
      BY <1>4 DEF Scanned
    <3>4. QED
      BY <3>1, <3>2, <3>3 DEF Typed
  <2>2. Clocks' /\ ScanIsYoung'
    BY <1>4 DEF Scanned, Typed, Clocks, ScanIsYoung
  <2>3. CountsWereTrue'
    BY <1>4 DEF Scanned, Typed, ScanIsYoung, CountsWereTrue
  <2>4. OldCountsAreMarked'
    BY <1>4 DEF Scanned, OldCountsAreMarked, StaleAfter
  <2>5. QED
    BY <2>1, <2>2, <2>3, <2>4
<1>5. CASE ScanFails
  <2>1. Typed'
    <3>1. /\ (tree \in 0..MaxChanges)' /\ (counts \in -1..tree)' /\ (read \in -1..tree)'
          /\ (succeeded \in Int /\ fetched \in Int /\ now \in Nat /\ since \in Int)'
      BY <1>5 DEF ScanFails, NotThen, Typed
    <3>2. /\ (changedAt \in [0..MaxChanges -> Int])'
          /\ (shown \in [counts : -1..tree, marked : BOOLEAN, at : Int])'
      BY <1>5 DEF ScanFails, Typed
    <3>3. (scanning \in BOOLEAN)'
      BY <1>5 DEF ScanFails
    <3>4. QED
      BY <3>1, <3>2, <3>3 DEF Typed
  <2>2. Clocks' /\ ScanIsYoung'
    BY <1>5 DEF ScanFails, NotThen, Typed, Clocks, ScanIsYoung
  <2>3. CountsWereTrue' /\ OldCountsAreMarked'
    BY <1>5 DEF ScanFails, NotThen, CountsWereTrue, OldCountsAreMarked, StaleAfter
  <2>4. QED
    BY <2>1, <2>2, <2>3
<1>6. CASE Tick
  BY <1>6 DEF Tick, Typed, Clocks, ScanIsYoung, CountsWereTrue, OldCountsAreMarked, StaleAfter
<1>7. CASE UNCHANGED vars
  BY <1>7 DEF vars, Typed, Clocks, ScanIsYoung, CountsWereTrue, OldCountsAreMarked, StaleAfter
<1>8. QED
  BY <1>1, <1>2, <1>3, <1>4, <1>5, <1>6, <1>7 DEF Next

\* Whatever the TTL and the timeout, counts that the prompt shows without a mark are not
\* older than one TTL and two scans (mergeVCSCounts, countsEntry.scan).
THEOREM CountsAreCurrentOrMarked == Spec => []OldCountsAreMarked
<1>1. IInv => OldCountsAreMarked
  BY DEF IInv
<1>2. QED
  BY InitIInv, NextIInv, <1>1, PTL DEF Spec
=============================================================================
