--------------------------- MODULE MCCloudStorage ----------------------------
(* Two lives of each camera over two intervals; one timestamp of the first *)
(* life is the start of an interval.                                       *)
EXTENDS CloudStorage

MCTimes == <<{1, 3}, {2, 4}>>
=============================================================================
