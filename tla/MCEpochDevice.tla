--------------------------- MODULE MCEpochDevice ---------------------------
(* Instances of EpochDevice for TLC.                                        *)
EXTENDS EpochDevice, TLC

\* Lines and transactions are interchangeable.
Symmetry == Permutations(Lines) \cup Permutations(Reads)
=============================================================================
