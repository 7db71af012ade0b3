------------------------------ MODULE MCInterp ------------------------------
(***************************************************************************)
(* Checks the control flow of scripts (ShellFlow).                         *)
(***************************************************************************)
EXTENDS ShellFlow

Run(p, o, m, n, s) ==
    [program |-> p, opts |-> o, mode |-> m, stmts |-> n, signals |-> s]

\* errexit and the ERR trap, in lists, conditions, calls and subshells.
Failing == {"false", "block", "if", "and", "not", "call", "sub", "trapErr"}
\* Loops, and what leaves them.
Looping == {"for", "while", "break", "continue", "block", "call", "return"}
\* The ends of shells.
Leaving == {"exit", "trapExit", "call", "return", "sub", "pipe", "bg", "abort"}
\* Fatal errors, from the shells and the stages they happen in outwards.
Fatally == {"fatal", "sub", "pipe", "bg", "call", "not", "while", "trapExit"}

Covered ==
    {Run(Failing, {"errexit"}, "whole", 4, 0), Run(Failing \ {"block"}, {"errtrace"}, "whole", 4, 0),
     Run({"false", "trapErr", "block"}, {"errexit"}, "whole", 4, 1),
     Run(Looping, {}, "whole", 4, 0), Run({"for", "break", "block"}, {}, "whole", 4, 1),
     Run(Leaving, {}, "stream", 4, 1), Run({"exit", "trapExit", "sub"}, {}, "lines", 4, 1),
     Run({"exit", "return", "if", "while", "not", "call", "trapExit"}, {}, "whole", 4, 0)}
    \cup {Run({"pipe", "call", "exit", "return", "false"}, o, "whole", 3, 0) :
             o \in {{"lastpipe", "pipefail"}, {"pipefail"}}}
    \cup {Run(Fatally, o, "stream", 3, 0) :
             o \in {{}, {"lastpipe", "pipefail"}, {"lastpipe"}, {"pipefail"}}}
=============================================================================
