------------------------- MODULE MCMetadataService -------------------------
(* Instances of MetadataService for TLC.                                    *)
EXTENDS MetadataService, TLC

\* Lines and tokens are interchangeable.
Symmetry == Permutations(Lines) \cup Permutations(Token)
=============================================================================
