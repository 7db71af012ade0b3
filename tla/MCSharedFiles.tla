--------------------------- MODULE MCSharedFiles ---------------------------
(***************************************************************************)
(* Checks the stores that sessions share through files: the allow list of  *)
(* environment diffs (EnvTrust) and the history (HistoryStore).  The two   *)
(* share no state, so a behaviour exercises one of them (focus) and leaves *)
(* the other as it started.                                                *)
(***************************************************************************)
EXTENDS EnvTrust, TLC

CONSTANTS Session, Command, LoadMax, MaxAppends

VARIABLES focus, file, stage, entries, loaded, writing, tries, overtaken

hvars == <<file, stage, entries, loaded, writing, tries, overtaken>>

MCUnder == [d \in Dir |-> IF d = "sub" THEN {"proj", "sub"} ELSE {d}]
MCTouched == [h \in Hash |-> IF h = "h1" THEN {"v", "w"} ELSE {"v"}]
MCLastSet == [h \in Hash |-> IF h = "h1" THEN "w" ELSE "v"]
MCEarlier == {[plugin |-> "plugin", dir |-> "proj", hash |-> "h1"]}

History == INSTANCE HistoryStore WITH
    Size <- [s \in Session |-> IF s = "s1" THEN 2 ELSE 3]

MCInit ==
    /\ focus \in {"history", "trust"}
    /\ Init
    /\ History!Init
    /\ wants = [d \in Dir |-> CASE d = "proj" -> "h1" [] d = "sub" -> "h2" [] OTHER -> None]
    /\ cwd = [s \in Shell |-> "proj"]
    /\ disk.file = 1

MCNext ==
    \/ focus = "history" /\ History!Next /\ UNCHANGED <<focus, evars>>
    \/ focus = "trust" /\ Next /\ UNCHANGED <<focus, hvars>>

MCSpec == MCInit /\ [][MCNext]_<<focus, hvars, evars>>

Sym == Permutations(Shell)

LearnedOnce == History!LearnedOnce
=============================================================================
