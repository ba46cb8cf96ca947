---------------------------- MODULE MCSharedStack ----------------------------
(* SharedStack with the two processes and the three slots of stack.c.       *)
EXTENDS SharedStack
=============================================================================
