----------------------------- MODULE AgentTurns -----------------------------
(***************************************************************************)
(* What hosting an agent promises the user of `koi acp': a turn ends with  *)
(* the agent's answer, everything the agent said before the answer has     *)
(* been shown by then, in the order it was said, and a turn ends without   *)
(* an answer only when the agent or the session is over.                   *)
(***************************************************************************)
EXTENDS Naturals

VARIABLES
    turn,    \* "idle", "asked", or "answered": the agent has answered
    said,    \* the chunks the agent has said, counted
    shown,   \* how many of them the user has seen: a prefix
    due,     \* the chunks said before the answer
    over     \* the agent or the session is over

vars == <<turn, said, shown, due, over>>

Init == turn = "idle" /\ said = 0 /\ shown = 0 /\ due = 0 /\ over = FALSE

Ask == turn = "idle" /\ turn' = "asked" /\ UNCHANGED <<said, shown, due, over>>
Say == ~over /\ said' = said + 1 /\ UNCHANGED <<turn, shown, due, over>>
Show == shown < said /\ shown' = shown + 1 /\ UNCHANGED <<turn, said, due, over>>
Answer ==
    /\ turn = "asked" /\ ~over
    /\ turn' = "answered" /\ due' = said
    /\ UNCHANGED <<said, shown, over>>
Return ==
    /\ turn = "answered" /\ shown >= due
    /\ turn' = "idle"
    /\ UNCHANGED <<said, shown, due, over>>
Fail == turn # "idle" /\ over /\ turn' = "idle" /\ UNCHANGED <<said, shown, due, over>>
\* The end of the session ends a turn with it.
End == over' = TRUE /\ turn' \in {turn, "idle"} /\ UNCHANGED <<said, shown, due>>

Next == Ask \/ Say \/ Show \/ Answer \/ Return \/ Fail \/ End

Spec == Init /\ [][Next]_vars /\ WF_vars(Return \/ Fail)
=============================================================================
