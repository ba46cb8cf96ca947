----------------------------- MODULE MCShmLookup -----------------------------
(***************************************************************************)
(* ShmLookup for TLC.  The configurations give the clients and the words   *)
(* as model values, and an SEMVMX that a few lookups exhaust.              *)
(***************************************************************************)
EXTENDS ShmLookup
=============================================================================
