---------------------------- MODULE MCMsgqLookup ----------------------------
(***************************************************************************)
(* MsgqLookup for TLC.  The message sizes are those of dict.h; msg_qbytes  *)
(* (16384 by default) is scaled down to the clients that can be there at a *)
(* time: the least that keeps two of them from a deadly embrace.           *)
(***************************************************************************)
EXTENDS MsgqLookup

MCSource == <<1, 1>>

\* MCSource is a text of the listed words, as the proofs suppose.
ASSUME DictionaryText == SourceIsText
=============================================================================
