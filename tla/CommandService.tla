---------------------------- MODULE CommandService ----------------------------
(***************************************************************************)
(* What routing a command promises, without channels, ids or timers: each  *)
(* command is executed at most once, each request returns once, and a      *)
(* result is only returned after the execution.  An error promises nothing *)
(* about the execution, which may even come later.                         *)
(***************************************************************************)
EXTENDS Naturals

CONSTANT Requests

VARIABLES status,  \* "new", "asked", "result" or "error"
          runs     \* executions of each request

serviceVars == <<status, runs>>

Init ==
  /\ status = [r \in Requests |-> "new"]
  /\ runs = [r \in Requests |-> 0]

Ask(r) ==
  /\ status[r] = "new"
  /\ status' = [status EXCEPT ![r] = "asked"]
  /\ UNCHANGED runs

Execute(r) ==
  /\ status[r] # "new" /\ runs[r] = 0
  /\ runs' = [runs EXCEPT ![r] = 1]
  /\ UNCHANGED status

ReturnResult(r) ==
  /\ status[r] = "asked" /\ runs[r] = 1
  /\ status' = [status EXCEPT ![r] = "result"]
  /\ UNCHANGED runs

ReturnError(r) ==
  /\ status[r] \in {"new", "asked"}
  /\ status' = [status EXCEPT ![r] = "error"]
  /\ UNCHANGED runs

Next ==
  \E r \in Requests : Ask(r) \/ Execute(r) \/ ReturnResult(r) \/ ReturnError(r)

Spec == Init /\ [][Next]_serviceVars
===============================================================================
