---------------------------- MODULE MCSockLookup ----------------------------
(* SockLookup for TLC: a file of one record is enough for the dialog. *)
EXTENDS SockLookup

MCSource == <<1, 1>>

ASSUME DictionaryText  == SourceIsText
ASSUME DictionaryOrder == InOrder(File)
=============================================================================
