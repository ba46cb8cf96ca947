------------------------------- MODULE MCMymv -------------------------------
(* Mymv for TLC: two processes, two file names in each directory.    *)
EXTENDS Mymv
=============================================================================
