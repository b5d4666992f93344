-------------------------- MODULE MCExperimentRunner --------------------------
(* Instances of ExperimentRunner for TLC.                                   *)
EXTENDS ExperimentRunner

\* Periods and how {period:g} prints them: two of the three look alike.
PrintedAs == [p \in Points |-> IF p = "40" THEN "40" ELSE "20"]

\* A sweep whose labels coincide, and one that shares a point and a label with it.
Sweeps == {<<"20", "20.00001">>, <<"20.00001", "40">>}
=============================================================================
