---------------------------- MODULE MCUdpLookup ----------------------------
(***************************************************************************)
(* UdpLookup for TLC.  The text has its words in order, as lookup5.c wants *)
(* it, and the search has to go to both sides.  The server's host has two  *)
(* addresses; c1 is answered from the one it asks, c2 from the other, and  *)
(* half of each is an address of nobody's.                                 *)
(***************************************************************************)
EXTENDS UdpLookup

CONSTANTS c1, c2

MCSource == <<1, 1, 1, Blank, 3, 3, 3>>

MCHome      == {<<1, 1>>, <<2, 2>>}
MCAsked     == [c \in Client |-> <<1, 1>>]
MCAnswering == [c \in Client |-> IF c = c1 THEN <<1, 1>> ELSE <<2, 2>>]

ASSUME DictionaryText  == SourceIsText
ASSUME DictionaryOrder == InOrder(File)
=============================================================================
