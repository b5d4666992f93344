-------------------------- MODULE MCTicketedReads --------------------------
(* Instances of TicketedReads for TLC.                                      *)
EXTENDS TicketedReads, TLC

Symmetry == Permutations(Lines) \cup Permutations(Token)
=============================================================================
