---------------------------- MODULE HistoryStore ----------------------------
(***************************************************************************)
(* The command history that koi sessions share through one JSONL file      *)
(* (internal/history/history.go).  Every session keeps its own copy of the *)
(* entries and the offset up to which it has ingested the file; it appends *)
(* its own commands with O_APPEND and reads the others' on every lookup.   *)
(*                                                                         *)
(* The file is a sequence of bytes: <<l, i>> is byte i of line l, and byte *)
(* Size[l.by] is its newline.  A line is its session, its number there and *)
(* its command; what else an entry records is left out.                    *)
(***************************************************************************)
EXTENDS Naturals, Sequences, FiniteSets, SequencesExt

CONSTANTS
    Session,     \* session ids; each is one process, opened once
    Command,     \* what can be typed
    Size,        \* Size[s]: the bytes of a line of session s, its newline included
    LoadMax,     \* history.go's loadMax: entries kept by Open and by a reload
    MaxAppends   \* bound: appends tried by one session

VARIABLES
    file,      \* the bytes of the history file
    stage,     \* stage[s]: "new", "opened", "ready", "writing" (mu held), "gone"
    entries,   \* Store.entries
    loaded,    \* Store.loaded
    writing,   \* writing[s]: the line between its Seek and its Write, and where Seek found the end
    tries,     \* appends tried so far; numbers the lines of a session
    overtaken  \* history variable: the lines that came between this session's Seek, which
               \* found its offset at the end, and its Write

hvars == <<file, stage, entries, loaded, writing, tries, overtaken>>

Line == [by: Session, n: 1..MaxAppends, cmd: Command]
Bytes(l) == [i \in 1..Size[l.by] |-> <<l, i>>]
IsNewline(b) == b[2] = Size[b[1].by]

-----------------------------------------------------------------------------
\* consumeLines: the bytes up to the last newline are consumed; of the lines in
\* them those that parse and are not the skipped session's are returned.
Consumed(data) == LET ends == {i \in 1..Len(data) : IsNewline(data[i])}
                  IN  CHOOSE e \in ends \cup {0} : \A i \in ends : i <= e

LinesOf(data) ==
    LET ends == SetToSortSeq({i \in 1..Len(data) : IsNewline(data[i])}, <)
        from(k) == IF k = 1 THEN 1 ELSE ends[k - 1] + 1
    IN  [k \in 1..Len(ends) |-> SubSeq(data, from(k), ends[k])]

Parses(bytes) == bytes = Bytes(bytes[1][1])

ConsumeLines(data, skip) ==
    LET kept == SelectSeq(LinesOf(data), LAMBDA b : Parses(b) /\ b[1][1].by \notin skip)
    IN  [k \in 1..Len(kept) |-> kept[k][1][1]]

Trim(es) == IF Len(es) > LoadMax THEN SubSeq(es, Len(es) - LoadMax + 1, Len(es)) ELSE es

-----------------------------------------------------------------------------
Init ==
    /\ file = <<>>
    /\ stage = [s \in Session |-> "new"]
    /\ entries = [s \in Session |-> <<>>]
    /\ loaded = [s \in Session |-> 0]
    /\ writing = [s \in Session |-> <<>>]
    /\ tries = [s \in Session |-> 0]
    /\ overtaken = [s \in Session |-> {}]

\* Open: the whole file, nothing skipped, trimmed to loadMax.
Open(s) ==
    /\ stage[s] = "new"
    /\ stage' = [stage EXCEPT ![s] = "opened"]
    /\ entries' = [entries EXCEPT ![s] = Trim(ConsumeLines(file, {}))]
    /\ loaded' = [loaded EXCEPT ![s] = Consumed(file)]
    /\ UNCHANGED <<file, writing, tries, overtaken>>

\* SetSession: from here on a reload skips what this session wrote.
SetSession(s) ==
    /\ stage[s] = "opened"
    /\ stage' = [stage EXCEPT ![s] = "ready"]
    /\ UNCHANGED <<file, entries, loaded, writing, tries, overtaken>>

Skipped(s) == {s}

\* reload, which every lookup starts with.  It is one step: the read is limited
\* to the size the stat returned, and the file only grows.
Reload(s) ==
    /\ stage[s] = "ready"
    /\ Len(file) > loaded[s]
    /\ LET data == SubSeq(file, loaded[s] + 1, Len(file))
       IN  /\ loaded' = [loaded EXCEPT ![s] = @ + Consumed(data)]
           /\ entries' = [entries EXCEPT ![s] = Trim(@ \o ConsumeLines(data, Skipped(s)))]
    /\ UNCHANGED <<file, stage, writing, tries, overtaken>>

\* Append up to its Seek: an immediate duplicate is not recorded.
AppendSeek(s, c) ==
    /\ stage[s] = "ready"
    /\ tries[s] < MaxAppends
    /\ ~(entries[s] # <<>> /\ Last(entries[s]).cmd = c)
    /\ stage' = [stage EXCEPT ![s] = "writing"]
    /\ tries' = [tries EXCEPT ![s] = @ + 1]
    /\ writing' = [writing EXCEPT ![s] =
                     <<[line |-> [by |-> s, n |-> tries[s] + 1, cmd |-> c], pre |-> Len(file)]>>]
    /\ UNCHANGED <<file, entries, loaded, overtaken>>

\* Append takes its line for an extension of what it has ingested.
ExtendsAlways(s, pre) == TRUE
Extends(s, pre) == pre = loaded[s]

\* Append's Write and its accounting: the line goes to the end of the file as it
\* is now; the offset moves when the end was the offset at the Seek.
AppendWrite(s) ==
    /\ stage[s] = "writing"
    /\ LET w == writing[s][1]
       IN  /\ file' = file \o Bytes(w.line)
           /\ loaded' = [loaded EXCEPT ![s] = IF Extends(s, w.pre) THEN @ + Size[s] ELSE @]
           /\ entries' = [entries EXCEPT ![s] = Append(@, w.line)]
           /\ overtaken' = [overtaken EXCEPT ![s] =
                  @ \cup {file[i][1] : i \in {i \in w.pre + 1..Len(file) : w.pre = loaded[s]}}]
    /\ stage' = [stage EXCEPT ![s] = "ready"]
    /\ writing' = [writing EXCEPT ![s] = <<>>]
    /\ UNCHANGED tries

\* The write fails, with part of the line on disk or none of it: Append returns
\* the error before it has touched the entries or the offset.
AppendFails(s) ==
    /\ stage[s] = "writing"
    /\ \E k \in 0..(Size[s] - 1) : file' = file \o SubSeq(Bytes(writing[s][1].line), 1, k)
    /\ stage' = [stage EXCEPT ![s] = "ready"]
    /\ writing' = [writing EXCEPT ![s] = <<>>]
    /\ UNCHANGED <<entries, loaded, tries, overtaken>>

\* The session ends: Close at exit, or the process is killed, which may cut its
\* write short.
End(s) ==
    /\ stage[s] \in {"ready", "writing"}
    /\ stage' = [stage EXCEPT ![s] = "gone"]
    /\ \/ file' = file
       \/ /\ stage[s] = "writing"
          /\ \E k \in 1..Size[s] : file' = file \o SubSeq(Bytes(writing[s][1].line), 1, k)
    /\ writing' = [writing EXCEPT ![s] = <<>>]
    /\ UNCHANGED <<entries, loaded, tries, overtaken>>

Next ==
    \E s \in Session :
        \/ Open(s) \/ SetSession(s) \/ Reload(s)
        \/ \E c \in Command : AppendSeek(s, c)
        \/ AppendWrite(s) \/ AppendFails(s) \/ End(s)

Spec == Init /\ [][Next]_hvars

-----------------------------------------------------------------------------
\* Type correctness of the store and of the file.
TypeOK ==
    /\ \A i \in 1..Len(file) : file[i][1] \in Line /\ file[i][2] \in 1..Size[file[i][1].by]
    /\ stage \in [Session -> {"new", "opened", "ready", "writing", "gone"}]
    /\ \A s \in Session : \A i \in 1..Len(entries[s]) : entries[s][i] \in Line
    /\ \A s \in Session : loaded[s] \in 0..Len(file)
    /\ \A s \in Session : writing[s] # <<>> <=> stage[s] = "writing"
    /\ tries \in [Session -> 0..MaxAppends]
    /\ overtaken \in [Session -> SUBSET Line]

Others(s, es) == SelectSeq(es, LAMBDA l : l.by # s /\ l \notin overtaken[s])

\* A session never lists one command twice: what it appended itself is in its
\* memory already, so a later reload of the same bytes must not add it again,
\* whatever the others write in between (Append, reload, consumeLines).
NothingTwice == \A s \in Session : IsInjective(entries[s])

\* The offset means what it says: of the lines below it, all that parse and are
\* another session's are in memory, in file order, but for those the trim to
\* LoadMax dropped (reload, Append's accounting, consumeLines leaving a partial
\* line for the next look).  Not so the lines that came between this session's
\* Seek and its Write when the Seek had found its offset at the end: Append takes
\* them for its own, and the offset may point into one (see NoLineSkipped); of them
\* nothing is said, of every line before and after them it is.
IngestedBelowOffset ==
    \A s \in Session :
        stage[s] \in {"ready", "writing"} =>
            LET below == Others(s, ConsumeLines(SubSeq(file, 1, loaded[s]), {}))
                held  == Others(s, entries[s])
            IN  /\ IsSuffix(held, below)
                /\ Len(entries[s]) < LoadMax => held = below

\* A session lists no command twice, and learns every line below its offset but those
\* its own append has passed over, whatever the sessions write between the steps of
\* each other, and whatever part of a line a failed write or a death leaves.
LearnedOnce == TypeOK /\ NothingTwice /\ IngestedBelowOffset

\* "No interleaved writes from other sessions: our line extends the ingested
\* region directly" (history.go:207): the offset is never past a line of another
\* session that this one has not ingested.  Violated: the Seek only compares the
\* end before the Write, and a line that comes in between is passed over.
NoLineSkipped ==
    \A s \in Session :
        stage[s] = "ready" /\ Len(entries[s]) < LoadMax =>
            \A i \in 1..loaded[s] :
                file[i][1].by # s /\ IsNewline(file[i]) /\ i >= Size[file[i][1].by]
                /\ Parses(SubSeq(file, i - Size[file[i][1].by] + 1, i))
                   => \E k \in 1..Len(entries[s]) : entries[s][k] = file[i][1]
=============================================================================
