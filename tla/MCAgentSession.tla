--------------------------- MODULE MCAgentSession ---------------------------
(***************************************************************************)
(* Sessions in which the agent talks, and sessions in which it runs        *)
(* commands.                                                               *)
(***************************************************************************)
EXTENDS AgentSession

Session(p, c, r, t, again) ==
    [prompts |-> p, chunks |-> c, requests |-> r, creates |-> t, repeats |-> again]
Talking == Session(2, 2, 0, 0, 1)
Working == Session(1, 0, 3, 1, 0)
Both == Session(1, 1, 1, 1, 0)
AllSessions == {Talking, Working, Both}
=============================================================================
