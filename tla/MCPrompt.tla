------------------------------ MODULE MCPrompt ------------------------------
(***************************************************************************)
(* Checks what goes on beside the prompt loop: the mutexes of the job      *)
(* table (JobLocks), and the input sessions of the terminal (TypeAhead)    *)
(* with every input a terminal can send, up to a length.  The two share no *)
(* state; a behaviour exercises one of them (focus).                       *)
(***************************************************************************)
EXTENDS JobLocks, Sequences

CONSTANTS ChunkSize, MaxResize, Slow

VARIABLES
    focus,
    input, typed, kernel, resized, pending, pendingEv, rpc, chunk, dpc, buf, queued,
    pasting, paste, escWaited, held, cpc, cancelled, delivered

ivars == <<input, typed, kernel, resized, pending, pendingEv, rpc, chunk, dpc, buf, queued,
           pasting, paste, escWaited, held, cpc, cancelled, delivered>>

Token == {"key", "newline", "esc", "rest", "pasteStart", "pasteEnd"}

\* Markers come in pairs around keys and newlines; an "esc" not at the
\* end has its "rest".
WellFormed(s) ==
  LET Open(i) == Cardinality({b \in 1..i : s[b] = "pasteStart"})
                 - Cardinality({b \in 1..i : s[b] = "pasteEnd"})
  IN /\ \A i \in DOMAIN s : Open(i) \in {0, 1}
     /\ s # <<>> => Open(Len(s)) = 0
     /\ \A i \in DOMAIN s :
          /\ s[i] = "rest" <=> (i > 1 /\ s[i - 1] = "esc")
          /\ s[i] = "esc" => Open(i) = 0

Sent(n) == {s \in [1..n -> Token] : WellFormed(s)}

\* Five tokens where the first two are an accepted line, the rest typed ahead.
SentAhead == Sent(4) \cup {s \in Sent(5) : s[1] = "key" /\ s[2] = "newline"}

Input == INSTANCE TypeAhead WITH Inputs <- SentAhead

\* The one that is not exercised begins in one state.
MCInit ==
    /\ focus \in {"locks", "input"} /\ Init /\ Input!Init
    /\ focus = "locks" => input = <<"key", "newline", "key", "newline">>

Locks(action) == focus = "locks" /\ action /\ UNCHANGED <<focus, ivars>>
Typing(action) == focus = "input" /\ action /\ UNCHANGED <<focus, vars>>

MCNext == Locks(Next) \/ Typing(Input!Next)

all == <<focus, vars, ivars>>

\* The fairness of both modules.
MCSpec ==
    /\ MCInit /\ [][MCNext]_all
    /\ \A w \in Waiter : SF_all(Locks(Wait(w)))
    /\ SF_all(Locks(Loop))
    /\ WF_all(Typing(Input!Reader \/ Input!Decoder \/ Input!Editor))

InputKept == Input!InputKept
FirstPasteStaysText == Input!FirstPasteStaysText
AllArrives == Input!AllArrives
=============================================================================
