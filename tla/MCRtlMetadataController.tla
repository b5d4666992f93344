----------------------- MODULE MCRtlMetadataController -----------------------
(* An instance of the RTL controller for TLC: two lines, two slots, epochs  *)
(* 0 to 3, counters of two bits and generations of one bit.                 *)
EXTENDS RtlMetadataController
=============================================================================
