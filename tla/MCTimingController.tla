------------------------- MODULE MCTimingController -------------------------
(* Instances of TimingController for TLC.                                   *)
EXTENDS TimingController, TLC

\* Packets are interchangeable.
Symmetry == Permutations(Packets)
=============================================================================
