------------------------------ MODULE TypeAhead ------------------------------
(***************************************************************************)
(* Terminal input across prompts (internal/term/events.go).  Each prompt   *)
(* opens a decoder session on the terminal and cancels it when the line is *)
(* accepted, so that the command can own stdin; what the session has read  *)
(* by then and not delivered is stashed and replayed to the next one.      *)
(*                                                                         *)
(* The actors are the user, the reader goroutine (rpc), the decode loop    *)
(* (dpc) and the editor that consumes the events (cpc).  Input is a        *)
(* sequence of tokens; every buffer holds positions in it, so that order   *)
(* and loss show.  A token is a key, a newline, which ends the session,    *)
(* one of the two halves of an escape sequence (or, at the end of the      *)
(* input, the Esc key), or a paste marker.                                 *)
(***************************************************************************)
EXTENDS Integers, Sequences, SequencesExt

CONSTANTS
  Inputs,     \* what the user may type or paste, a set of token sequences
  ChunkSize,  \* bytes per read(2), 256 in the code
  MaxResize,  \* bound on SIGWINCH
  Slow        \* whether the terminal may leave escTimeout, 50 ms, between
              \* the two halves of an escape sequence

Token == {"key", "newline", "esc", "rest", "pasteStart", "pasteEnd"}

VARIABLES
  input, typed,         \* what the user types, and how much of it he has
  kernel,               \* typed and not read by the shell
  resized,              \* SIGWINCHs so far
  pending, pendingEv,   \* TTY: the stash
  rpc, chunk,           \* the reader, and what it has read last
  dpc, buf, queued,     \* the decode loop, its bytes, the replayed events
  pasting, paste,       \* in a bracketed paste, and its text so far
  escWaited, held,      \* the timeout's verdict, the event being emitted
  cpc, cancelled,       \* the editor, and ctx
  delivered             \* every event the editor took

userVars     == <<input, typed, resized>>
stashVars    == <<pending, pendingEv>>
readerVars   == <<rpc, chunk>>
pasteVars    == <<pasting, paste>>
decoderVars  == <<dpc, buf, queued, pasteVars, escWaited, held>>
consumerVars == <<cpc, cancelled, delivered>>
vars == <<userVars, kernel, stashVars, readerVars, decoderVars, consumerVars>>

\* Events: the kind, and the positions it stands for.
Key(s)   == [kind |-> "key", of |-> s]
Paste(s) == [kind |-> "paste", of |-> s]
Resize   == [kind |-> "resize", of |-> <<>>]
Nothing  == [kind |-> "none", of |-> <<>>]

Prefix(s, n) == SubSeq(s, 1, IF n < Len(s) THEN n ELSE Len(s))
Suffix(s, n) == SubSeq(s, n + 1, Len(s))

Tok(s) == input[s[1]]
-----------------------------------------------------------------------------
(* The user *)

Type ==
  /\ typed < Len(input)
  /\ typed' = typed + 1
  /\ kernel' = Append(kernel, typed + 1)
  /\ UNCHANGED <<input, resized, stashVars, readerVars, decoderVars,
                 consumerVars>>

-----------------------------------------------------------------------------
(* Sessions: Events, and the editor's readEvents *)

\* MUTANT: a session opens while the last one's reader is still about.
StashedEarly == dpc \in {"idle", "done"}

\* prevDone
Stashed == dpc \in {"idle", "done"} /\ rpc \in {"idle", "done"}

Events ==
  /\ cpc = "idle"
  /\ Stashed
  /\ cancelled' = FALSE
  /\ cpc' = "loop"
  /\ rpc' = "read"
  /\ dpc' = "start"
  /\ UNCHANGED <<userVars, kernel, stashVars, chunk, buf, queued, pasteVars,
                 escWaited, held, delivered>>

\* The editor handles an event; a newline accepts the line.
Take(ev) ==
  /\ cpc = "loop"
  /\ delivered' = Append(delivered, ev)
  /\ cpc' = IF ev.kind = "key" /\ Tok(ev.of) = "newline"
            THEN "accepted" ELSE "loop"
  /\ UNCHANGED cancelled

Cancel ==
  /\ cpc = "accepted"
  /\ cancelled' = TRUE
  /\ cpc' = "idle"
  /\ UNCHANGED <<userVars, kernel, stashVars, readerVars, decoderVars,
                 delivered>>

\* The event channel closed without a decision: the shell ends.
InputClosed ==
  /\ cpc = "loop"
  /\ dpc = "done"
  /\ cancelled' = TRUE
  /\ cpc' = "eof"
  /\ UNCHANGED <<userVars, kernel, stashVars, readerVars, decoderVars,
                 delivered>>

-----------------------------------------------------------------------------
(* The reader *)

Read ==
  /\ rpc = "read"
  /\ kernel # <<>>
  /\ chunk' = Prefix(kernel, ChunkSize)
  /\ kernel' = Suffix(kernel, ChunkSize)
  /\ rpc' = "hand"
  /\ UNCHANGED <<userVars, stashVars, decoderVars, consumerVars>>

\* cr.Cancel reaches the read, now or after it returned some bytes yet.
ReadCancelled ==
  /\ rpc = "read"
  /\ cancelled
  /\ rpc' = "done"
  /\ UNCHANGED <<userVars, kernel, stashVars, chunk, decoderVars,
                 consumerVars>>

\* The terminal is gone once everything was typed and read.
ReadEOF ==
  /\ rpc = "read"
  /\ typed = Len(input)
  /\ kernel = <<>>
  /\ rpc' = "done"
  /\ UNCHANGED <<userVars, kernel, stashVars, chunk, decoderVars,
                 consumerVars>>

StashBytes == pending \o chunk

HandCancelled ==
  /\ rpc = "hand"
  /\ cancelled
  /\ pending' = StashBytes
  /\ chunk' = <<>>
  /\ rpc' = "done"
  /\ UNCHANGED <<userVars, kernel, pendingEv, decoderVars, consumerVars>>

-----------------------------------------------------------------------------
(* The decode loop *)

TakeStash ==
  /\ dpc = "start"
  /\ buf' = pending
  /\ queued' = pendingEv
  /\ pending' = <<>>
  /\ pendingEv' = <<>>
  /\ pasting' = FALSE
  /\ paste' = <<>>
  /\ escWaited' = FALSE
  /\ dpc' = "replay"
  /\ UNCHANGED <<userVars, kernel, readerVars, held, consumerVars>>

Replay ==
  /\ dpc = "replay"
  /\ IF queued = <<>>
     THEN dpc' = "decode" /\ UNCHANGED <<queued, held>>
     ELSE /\ held' = Head(queued)
          /\ queued' = Tail(queued)
          /\ dpc' = "emitReplay"
  /\ UNCHANGED <<userVars, kernel, stashVars, readerVars, buf, pasteVars,
                 escWaited, consumerVars>>

Emit ==
  /\ dpc \in {"emit", "emitReplay"}
  /\ Take(held)
  /\ held' = Nothing
  /\ dpc' = IF dpc = "emit" THEN "decode" ELSE "replay"
  /\ UNCHANGED <<userVars, kernel, stashVars, readerVars, buf, queued,
                 pasteVars, escWaited>>

\* MUTANT: an event nobody took is dropped.
StashEventNot == pendingEv

StashEvent == Append(pendingEv, held)

\* What is still queued then is dropped with the loop's variables.
EmitCancelled ==
  /\ dpc \in {"emit", "emitReplay"}
  /\ cancelled
  /\ pendingEv' = StashEvent
  /\ held' = Nothing
  /\ queued' = <<>>
  /\ dpc' = "bail"
  /\ UNCHANGED <<userVars, kernel, pending, readerVars, buf, pasteVars,
                 escWaited, consumerVars>>

\* isPartialEscape
Partial == buf # <<>> /\ Tok(buf) = "esc" /\ Len(buf) = 1

Width ==
  IF Tok(buf) = "esc" /\ Len(buf) > 1 /\ input[buf[2]] = "rest" THEN 2 ELSE 1

\* MUTANT: Enter is no text, in a paste either.
FoldedNotEnter == pasting /\ Tok(buf) # "newline"

Folded == pasting

\* One turn of the inner loop: one event is decoded.
Decode ==
  LET bytes == Prefix(buf, Width) IN
  /\ dpc = "decode"
  /\ buf # <<>>
  /\ ~Partial \/ escWaited
  /\ buf' = Suffix(buf, Width)
  /\ escWaited' = FALSE
  /\ \/ /\ Tok(buf) = "pasteStart"
        /\ pasting' = TRUE
        /\ paste' = <<>>
        /\ UNCHANGED <<dpc, held>>
     \/ /\ Tok(buf) = "pasteEnd"
        /\ pasting' = FALSE
        /\ held' = Paste(paste)
        /\ paste' = <<>>
        /\ dpc' = "emit"
     \/ /\ Tok(buf) \notin {"pasteStart", "pasteEnd"}
        /\ Folded
        /\ paste' = paste \o bytes
        /\ UNCHANGED <<dpc, held, pasting>>
     \/ /\ Tok(buf) \notin {"pasteStart", "pasteEnd"}
        /\ ~Folded
        /\ held' = Key(bytes)
        /\ dpc' = "emit"
        /\ UNCHANGED pasteVars
  /\ UNCHANGED <<userVars, kernel, stashVars, readerVars, queued,
                 consumerVars>>

Undecodable == buf = <<>> \/ (Partial /\ ~escWaited)

\* The select at the end of the outer loop.
Waiting == dpc = "decode" /\ Undecodable

AppendBytes == buf \o chunk

Receive ==
  /\ Waiting
  /\ rpc = "hand"
  /\ buf' = AppendBytes
  /\ chunk' = <<>>
  /\ rpc' = "read"
  /\ escWaited' = FALSE
  /\ UNCHANGED <<userVars, kernel, stashVars, dpc, queued, pasteVars, held,
                 consumerVars>>

Drained == buf = <<>>

\* reads is closed: what remains is decoded as it is.
ReadsClosed ==
  /\ Waiting
  /\ rpc = "done"
  /\ IF Drained
     THEN dpc' = "bail" /\ UNCHANGED escWaited
     ELSE escWaited' = TRUE /\ UNCHANGED dpc
  /\ UNCHANGED <<userVars, kernel, stashVars, readerVars, buf, queued,
                 pasteVars, held, consumerVars>>

\* Unless Slow, only an Esc that is no sequence meets the timeout.
EscTimeout ==
  /\ Slow \/ buf = <<Len(input)>>
  /\ Waiting
  /\ Partial
  /\ escWaited' = TRUE
  /\ UNCHANGED <<userVars, kernel, stashVars, readerVars, dpc, buf, queued,
                 pasteVars, held, consumerVars>>

Winch ==
  /\ Waiting
  /\ resized < MaxResize
  /\ resized' = resized + 1
  /\ held' = Resize
  /\ dpc' = "emit"
  /\ UNCHANGED <<input, typed, kernel, stashVars, readerVars, buf, queued,
                 pasteVars, escWaited, consumerVars>>

WaitCancelled ==
  /\ Waiting
  /\ cancelled
  /\ dpc' = "bail"
  /\ UNCHANGED <<userVars, kernel, stashVars, readerVars, buf, queued,
                 pasteVars, escWaited, held, consumerVars>>

StashUndecoded == buf \o pending

\* The loop's variables are gone with it, `pasting' among them.
Bail ==
  /\ dpc = "bail"
  /\ pendingEv' = IF pasting /\ paste # <<>>
                  THEN Append(pendingEv, Paste(paste)) ELSE pendingEv
  /\ pending' = StashUndecoded
  /\ buf' = <<>>
  /\ pasting' = FALSE
  /\ paste' = <<>>
  /\ escWaited' = FALSE
  /\ dpc' = "done"
  /\ UNCHANGED <<userVars, kernel, readerVars, queued, held, consumerVars>>

-----------------------------------------------------------------------------
Init ==
  /\ input \in Inputs
  /\ typed = 0 /\ kernel = <<>> /\ resized = 0
  /\ pending = <<>> /\ pendingEv = <<>>
  /\ rpc = "idle" /\ chunk = <<>>
  /\ dpc = "idle" /\ buf = <<>> /\ queued = <<>>
  /\ pasting = FALSE /\ paste = <<>> /\ escWaited = FALSE /\ held = Nothing
  /\ cpc = "idle" /\ cancelled = FALSE /\ delivered = <<>>

Reader == Read \/ ReadCancelled \/ ReadEOF \/ HandCancelled
Decoder ==
  \/ TakeStash \/ Replay \/ Emit \/ EmitCancelled \/ Decode
  \/ Receive \/ ReadsClosed \/ EscTimeout \/ WaitCancelled \/ Bail
Editor == Events \/ Cancel \/ InputClosed

Next == Type \/ Winch \/ Reader \/ Decoder \/ Editor

Spec == Init /\ [][Next]_vars

(***************************************************************************)
(* The goroutines run, the escape timer fires, and after each command the  *)
(* prompt comes back.  The user need not type.  What they do is bounded by *)
(* what was typed, so that one fairness for the three is enough.           *)
(***************************************************************************)
FairSpec == Spec /\ WF_vars(Reader \/ Decoder \/ Editor)
-----------------------------------------------------------------------------
(* Properties *)

Event == [kind : {"key", "paste", "resize", "none"}, of : Seq(Nat)]

(* The type of every variable. *)
TypeOK ==
  /\ input \in Inputs
  /\ typed \in 0..Len(input)
  /\ resized \in 0..MaxResize
  /\ \A s \in {kernel, pending, chunk, buf, paste} : s \in Seq(1..typed)
  /\ \A s \in {pendingEv, queued, delivered} : s \in Seq(Event)
  /\ held \in Event
  /\ rpc \in {"idle", "read", "hand", "done"}
  /\ dpc \in {"idle", "start", "replay", "emitReplay", "decode", "emit",
              "bail", "done"}
  /\ cpc \in {"idle", "loop", "accepted", "eof"}
  /\ \A b \in {pasting, escWaited, cancelled} : b \in BOOLEAN

Positions(evs) == FlattenSeq([i \in 1..Len(evs) |-> evs[i].of])

\* Everything typed, from what the editor has to what nobody has read.
Flow ==
  Positions(delivered) \o Positions(pendingEv) \o held.of \o Positions(queued)
  \o paste \o buf \o pending \o chunk \o kernel

Text(s) == SelectSeq(s, LAMBDA i : input[i] \notin {"pasteStart", "pasteEnd"})

(* Nothing typed is lost, doubled or reordered on its way to the editor,   *)
(* whichever goroutine holds it when a session ends ("so nothing is lost", *)
(* "so the input keeps its order").                                        *)
NothingLost == Text(Flow) = Text([i \in 1..typed |-> i])

\* Position i lies between paste markers.
Pasted(i) ==
  \E b \in 1..(i - 1) :
    /\ input[b] = "pasteStart"
    /\ \A c \in b..(i - 1) : input[c] # "pasteEnd"

KeysAt(P(_)) ==
  \A n \in DOMAIN delivered :
    delivered[n].kind = "key" => \A i \in ToSet(delivered[n].of) : P(i)

(* Pasted text is never taken for keystrokes: "a pasted newline can never  *)
(* trigger accept-line" (EnterRaw).                                        *)
PasteStaysText == KeysAt(LAMBDA i : ~Pasted(i))

(* At least that is so of a paste that begins before any line has been     *)
(* accepted, however the reads cut it and whatever interrupts it.          *)
FirstPasteStaysText ==
  KeysAt(LAMBDA i :
    Pasted(i) => \E b \in 1..i : input[b] = "newline" /\ ~Pasted(b))

(* Once the input has closed, the editor has had all of it: the decode     *)
(* loop drains what remains before it gives up.                            *)
DrainedAtEOF ==
  cpc = "eof" =>
    Text(Positions(delivered)) = Text([i \in 1..typed |-> i])

(* The input is kept: to the last byte before its end, and in its order.   *)
InputKept == TypeOK /\ NothingLost /\ DrainedAtEOF

\* The last position up to which no paste is left open.
Complete == Max({0} \cup {i \in 1..typed : ~Pasted(i + 1)})

(* Whatever was typed reaches the editor, at this prompt or at a later     *)
(* one, as soon as no paste is left open behind it, and without another    *)
(* key being pressed (TestTypeAheadReachesTheNextPrompt): again and again, *)
(* nothing is on its way.                                                  *)
AllArrives ==
  []<>(\A i \in 1..Complete :
         input[i] \in {"pasteStart", "pasteEnd"} \/ i \in ToSet(Positions(delivered)))
=============================================================================
