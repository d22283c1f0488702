----------------------------- MODULE MCWebView ------------------------------
(* One camera with two fields: cpu, which stands for the ones that are     *)
(* always there and moves below its threshold too, and tmp, which may be   *)
(* missing.                                                                *)
EXTENDS WebView

MCValues    == [cpu |-> 0 .. 2, tmp |-> {1}]
MCThreshold == [cpu |-> 2, tmp |-> 1]
=============================================================================
