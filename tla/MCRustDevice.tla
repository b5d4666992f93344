---------------------------- MODULE MCRustDevice ----------------------------
(* Instances of RustDevice for TLC.                                         *)
EXTENDS RustDevice, TLC

\* Lines are interchangeable.
Symmetry == Permutations(Lines)
=============================================================================
