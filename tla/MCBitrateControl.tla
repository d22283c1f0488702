-------------------------- MODULE MCBitrateControl --------------------------
(* The throughputs lie on both sides of every threshold; the three periods *)
(* keep the order of the code's 3 s, 5 s and 15 s.                         *)
EXTENDS BitrateControl

MCMeasured == {0, 30, 95, 190, 400}
=============================================================================
