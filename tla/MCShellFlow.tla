---------------------------- MODULE MCShellFlow ----------------------------
(***************************************************************************)
(* The programs with which TLC refutes a comment of ShellFlow's code;      *)
(* MCInterp has those of its invariants.                                   *)
(***************************************************************************)
EXTENDS ShellFlow

Errexit ==
    {[program |-> {"false", "if", "and"}, opts |-> {"errexit"}, mode |-> "whole",
      stmts |-> 4, signals |-> 0]}
============================================================================
