----------------------------- MODULE MCWebVideo -----------------------------
(* One camera and a session that joins, lags, leaves and joins again.      *)
EXTENDS WebVideo
=============================================================================
