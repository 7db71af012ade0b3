------------------------------ MODULE Capture -------------------------------
(***************************************************************************)
(* The capture of a command line's output (internal/capture, and BeginLine *)
(* and EndLine of internal/jobs): the commands of the line write to the    *)
(* slave of a pty, the pump copies its master to the terminal and then to  *)
(* the kept tail.  The end of the line closes the session: first the       *)
(* slave, then, once the pump has seen its end or a grace time has passed, *)
(* the master.                                                             *)
(*                                                                         *)
(* The line has a command in the foreground, which may be stopped and      *)
(* resumed, and one in the background.  Output is counted.                 *)
(***************************************************************************)
EXTENDS Naturals

CONSTANTS
    MaxOutput,     \* bound: pieces of output
    Limit          \* pieces kept

Command == {"foreground", "background"}

VARIABLES
    command,                   \* "running", "stopped" or "ended"
    written, lost,             \* output so far, and whether some found the pty closed
    slave, master,             \* whether Session's own descriptors are open
    pump, taken, screened,     \* the pump, what it has read, what the terminal has
    kept,                      \* how far the ring has come
    line, timedOut, result     \* EndLine; its timer; the captured output, from and to

vars == <<command, written, lost, slave, master, pump, taken, screened, kept, line, timedOut, result>>

\* BeginLine: capture.Start, and both commands spawned with the slave.
Init ==
    /\ command = [c \in Command |-> "running"]
    /\ written = 0 /\ lost = FALSE
    /\ slave = TRUE /\ master = TRUE
    /\ pump = "read" /\ taken = 0 /\ screened = 0 /\ kept = 0
    /\ line = "running" /\ timedOut = FALSE /\ result = <<0, 0>>

Oldest == IF kept > Limit THEN kept - Limit ELSE 0
-----------------------------------------------------------------------------
\* External: a command writes, stops, is resumed by fg and ends.
Write(c) ==
    /\ command[c] = "running"
    /\ IF master THEN written < MaxOutput /\ written' = written + 1 /\ UNCHANGED lost
       ELSE lost' = TRUE /\ UNCHANGED written
    /\ UNCHANGED <<command, slave, master, pump, taken, screened, kept, line, timedOut, result>>

Becomes(c, from, to) ==
    /\ command[c] = from
    /\ command' = [command EXCEPT ![c] = to]
    /\ UNCHANGED <<written, lost, slave, master, pump, taken, screened, kept, line, timedOut, result>>
Stop == line = "running" /\ Becomes("foreground", "running", "stopped")
Resume == line = "closed" /\ Becomes("foreground", "stopped", "running")
End(c) == Becomes(c, "running", "ended")
-----------------------------------------------------------------------------
\* Session.pump: the terminal first, then the ring.
AtEnd == ~slave /\ \A c \in Command : command[c] = "ended"
PumpReads ==
    /\ pump = "read" /\ master /\ taken < written
    /\ taken' = written
    /\ pump' = "screen"
    /\ UNCHANGED <<command, written, lost, slave, master, screened, kept, line, timedOut, result>>

PumpShows ==
    /\ pump = "screen"
    /\ screened' = taken
    /\ pump' = "keep"
    /\ UNCHANGED <<command, written, lost, slave, master, taken, kept, line, timedOut, result>>

PumpKeeps ==
    /\ pump = "keep"
    /\ kept' = taken
    /\ pump' = "read"
    /\ UNCHANGED <<command, written, lost, slave, master, taken, screened, line, timedOut, result>>

PumpEnds ==
    /\ pump = "read" /\ (~master \/ (AtEnd /\ taken = written))
    /\ pump' = "over"
    /\ UNCHANGED <<command, written, lost, slave, master, taken, screened, kept, line, timedOut, result>>
-----------------------------------------------------------------------------
\* EndLine, once the foreground has ended or stopped: Session.Close.
EndLine ==
    /\ line = "running" /\ command["foreground"] # "running"
    /\ slave' = FALSE /\ UNCHANGED master
    /\ line' = "draining"
    /\ UNCHANGED <<command, written, lost, pump, taken, screened, kept, timedOut, result>>

Closes(late) ==
    /\ line = "draining"
    /\ master' = FALSE
    /\ result' = <<Oldest, kept>>
    /\ line' = "closed"
    /\ timedOut' = late
    /\ UNCHANGED <<command, written, lost, slave, pump, taken, screened, kept>>
Drained == pump = "over" /\ Closes(FALSE)
GraceOverIfDrained == pump = "over" /\ Closes(TRUE)
GraceOver == Closes(TRUE)

Pump == PumpReads \/ PumpShows \/ PumpKeeps \/ PumpEnds
System == Pump \/ EndLine \/ Drained \/ GraceOver
Next == System \/ Stop \/ Resume \/ \E c \in Command : Write(c) \/ End(c)

Spec == Init /\ [][Next]_vars

\* The prompt loop and its timer go on; the commands, and a terminal that is held by
\* Ctrl-S and with it the pump, need not.
FairSpec == Spec /\ WF_vars(EndLine \/ Drained \/ GraceOver)
-----------------------------------------------------------------------------
\* The tail of the output is kept: a line whose commands have all ended, and whose pump
\* did not take longer than the grace time, has its last output in the result.
TailIsKept == line = "closed" /\ ~timedOut => result = <<Oldest, written>>

\* "Capture never delays the prompt": the end of the line is reached whatever holds the
\* slave, and whatever holds the pump, and with the tail if neither is held.
LineEndsWithTail == []TailIsKept /\ []<>(line # "draining")

\* "Ctrl-Z [...] and the foreground-group handoff all keep working because nothing about
\* them changed."  Violated: the master is closed under a command that was stopped, or
\* runs in the background, and what it writes from then on is lost.
NothingIsLost == ~lost
=============================================================================
