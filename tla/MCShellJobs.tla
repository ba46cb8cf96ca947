---------------------------- MODULE MCShellJobs -----------------------------
(* A small number of lines and commands; the bounds are those of the cfg.   *)
EXTENDS ShellJobs
=============================================================================
