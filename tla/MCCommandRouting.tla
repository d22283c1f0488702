--------------------------- MODULE MCCommandRouting ---------------------------
(* Instances of CommandRouting for TLC, and its refinement of CommandService. *)
EXTENDS CommandRouting

statusBar ==
  [r \in Requests |->
     CASE reqStage[r] = "new" -> "new"
       [] reqStage[r] = "answered" -> "result"
       [] reqStage[r] = "failed" -> "error"
       [] OTHER -> "asked"]

Service == INSTANCE CommandService WITH status <- statusBar

\* send_command and the channel tasks (router.rs:458-554) give each request one
\* return, execute it at most once, and return results of executed commands.
ImplementsService == Service!Spec
===============================================================================
