--------------------------- MODULE FirmwareUpdate ----------------------------
(***************************************************************************)
(* Over-the-air update of the camera (update.rs): download to a staging    *)
(* file, verify, make it executable, move the binary to the backup, move   *)
(* the staging file into its place, exit.  systemd starts what it finds at *)
(* the binary's path, where the unit's ExecStartPre first moves the backup *)
(* if nothing is there (pi/systemd/kodama-firmware.service).  All updates  *)
(* share these paths, and nothing keeps two from running at once           *)
(* (camera.rs:742-773).                                                    *)
(*                                                                         *)
(* A file keeps its identity when it is renamed or unlinked: who has it    *)
(* open goes on writing to it.  An image is named after the update that    *)
(* brought it; one that is not whole does not start, nor does what two     *)
(* tasks have written into.                                                *)
(***************************************************************************)
EXTENDS Naturals, FiniteSets

CONSTANTS Updates,       \* images to be installed
          Factory,       \* the image the camera came with
          MaxInFlight,   \* bound: updates running at the same time
          MaxCrashes,    \* bound: power losses and kills
          MaxFailures    \* bound: downloads and renames that fail

ASSUME UpdateAssumption ==
  /\ Factory \notin Updates /\ {MaxInFlight, MaxCrashes, MaxFailures} \subseteq Nat

VARIABLES
  file,       \* the files at kodama-firmware, at its .prev and its .new
  running,    \* the image of the live process, Down without one
  exe,        \* where the file of the process is: current_exe
  step, path, \* per update, what its task does, and its binary_path
  failures, crashes,
  owner,      \* history: whose staging file nobody else has touched since it
              \* removed what was there
  mixed       \* history, since the process started: a task installed a file
              \* without owning it, or renamed one after another had installed

historyVars == <<owner, mixed>>
vars == <<file, running, exe, step, path, failures, crashes, historyVars>>

Nothing == [image |-> Factory, content |-> "none", executable |-> FALSE]
Down    == "down"

\* What the kernel calls the process's file once it is replaced is one more path.
Paths  == {"current", "prev", "new", "deleted"}
Images == Updates \cup {Factory}
\* "partial" is being written; "broken" is not, and is not whole.
Files  == [image : Images, content : {"partial", "broken", "good"}, executable : BOOLEAN]
          \cup {Nothing}
Steps  == {"idle", "requested", "removed", "downloading", "verified", "executable",
           "backedUp", "installed"}

Starts(f) == f.content = "good" /\ f.executable

TypeOK ==
  /\ file \in [Paths -> Files]
  /\ running \in Images \cup {Down}
  /\ exe \in Paths \ {"new"} /\ path \in [Updates -> Paths \ {"new"}]
  /\ step \in [Updates -> Steps]
  /\ failures \in 0 .. MaxFailures /\ crashes \in 0 .. MaxCrashes
  /\ owner \subseteq Updates /\ mixed \in BOOLEAN
  /\ running = Down => \A u \in Updates : step[u] = "idle"

Init ==
  /\ file = [p \in Paths |->
               IF p = "current"
               THEN [image |-> Factory, content |-> "good", executable |-> TRUE]
               ELSE Nothing]
  /\ running = Factory /\ exe = "current"
  /\ step = [u \in Updates |-> "idle"] /\ path = [u \in Updates |-> "current"]
  /\ failures = 0 /\ crashes = 0
  /\ owner = {} /\ mixed = FALSE

----------------------------------------------------------------------------
GoTo(u, s) == step' = [step EXCEPT ![u] = s]

(* The task ends with an error.                                            *)
GiveUp(u) == GoTo(u, "idle")

Failing == failures < MaxFailures /\ failures' = failures + 1

\* Removing, replacing or moving what is at the staging path.
Touch(u) == owner' = owner \cap {u}

SomeOtherInstalled(u) == \E v \in Updates \ {u} : step[v] = "installed"

Moved(from, to) ==
  IF from = to THEN file
  ELSE [file EXCEPT ![to] = file[from], ![from] = Nothing]

\* The kernel follows the process's file: current_exe is where it went.
Rename(from, to) ==
  /\ file' = Moved(from, to)
  /\ exe' = IF from = to \/ exe \notin {from, to} \/ exe = "deleted" THEN exe
            ELSE IF exe = from THEN to ELSE "deleted"

(* execute_update_firmware: a task is spawned, unless the version asked    *)
(* for is known to be the one that runs.  The paths are taken from where   *)
(* the process's file is.                                                  *)
Request(u) ==
  /\ running # Down /\ step[u] = "idle"
  /\ Cardinality({v \in Updates : step[v] # "idle"}) < MaxInFlight
  /\ GoTo(u, "requested") /\ path' = [path EXCEPT ![u] = exe]
  /\ UNCHANGED <<file, running, exe, failures, crashes, historyVars>>

(* No answer that can be used, or no file can be created.                  *)
NoAnswer(u) ==
  /\ step[u] \in {"requested", "removed"} /\ Failing /\ GiveUp(u)
  /\ UNCHANGED <<file, running, exe, path, crashes, historyVars>>

(* What was left at the staging path is removed, if that works.            *)
RemoveLeftover(u) ==
  /\ step[u] = "requested" /\ GoTo(u, "removed")
  /\ \/ /\ file' = [file EXCEPT !["new"] = Nothing] /\ owner' = {u}
        /\ UNCHANGED failures
     \/ Failing /\ owner' = {} /\ UNCHANGED file
  /\ UNCHANGED <<running, exe, path, crashes, mixed>>

(* File::create takes what is at the path and empties it; a task that has  *)
(* it open goes on writing to it.                                          *)
Create(u) ==
  /\ step[u] = "removed" /\ GoTo(u, "downloading") /\ Touch(u)
  /\ file' = [file EXCEPT !["new"] =
       [image |-> u,
        content |-> IF @.content = "partial" THEN "broken" ELSE "partial",
        executable |-> @.executable]]
  /\ UNCHANGED <<running, exe, path, failures, crashes, mixed>>

\* The file a task has open, wherever it is now, once it is closed.
Closed(us, content) ==
  [p \in Paths |-> IF file[p].image \in us /\ file[p].content = "partial"
                   THEN [file[p] EXCEPT !.content = content] ELSE file[p]]

\* Mutant: an error of the stream is taken for its end.
EndOfStream(u) ==
  /\ step[u] = "downloading" /\ Failing /\ GoTo(u, "verified")
  /\ file' = Closed({u}, "broken")
  /\ UNCHANGED <<running, exe, path, crashes, historyVars>>

(* The stream ended, the file is synced and the digest of what was         *)
(* received is the one expected.                                           *)
Verify(u) ==
  /\ step[u] = "downloading" /\ GoTo(u, "verified")
  /\ file' = Closed({u}, "good")
  /\ UNCHANGED <<running, exe, path, failures, crashes, historyVars>>

(* An error leaves what was written; too many bytes or another digest      *)
(* remove whatever is at the path.                                         *)
DownloadFails(u) ==
  /\ step[u] = "downloading" /\ Failing /\ GiveUp(u)
  /\ \/ file' = Closed({u}, "broken") /\ UNCHANGED owner
     \/ file' = [Closed({u}, "broken") EXCEPT !["new"] = Nothing] /\ Touch(u)
  /\ UNCHANGED <<running, exe, path, crashes, mixed>>

SetPermissions(u) ==
  /\ step[u] = "verified"
  /\ \/ /\ file["new"] # Nothing /\ file' = [file EXCEPT !["new"].executable = TRUE]
        /\ GoTo(u, "executable") /\ UNCHANGED failures
     \/ /\ file["new"] = Nothing /\ GiveUp(u) /\ UNCHANGED <<file, failures>>
     \/ Failing /\ GiveUp(u) /\ UNCHANGED file
  /\ UNCHANGED <<running, exe, path, crashes, historyVars>>

\* Mutant: the binary is removed instead of being kept as the backup.
RemoveBinary(u) ==
  /\ step[u] = "executable" /\ GoTo(u, "backedUp")
  /\ file' = [file EXCEPT ![path[u]] = Nothing]
  /\ UNCHANGED <<running, exe, path, failures, crashes, historyVars>>

(* Nothing is moved if nothing is where the process's file was.            *)
Backup(u) ==
  /\ step[u] = "executable"
  /\ \/ /\ file[path[u]] # Nothing /\ Rename(path[u], "prev")
        /\ GoTo(u, "backedUp") /\ UNCHANGED failures
     \/ /\ file[path[u]] = Nothing /\ GoTo(u, "backedUp")
        /\ UNCHANGED <<file, exe, failures>>
     \/ file[path[u]] # Nothing /\ Failing /\ GiveUp(u) /\ UNCHANGED <<file, exe>>
  /\ mixed' = (mixed \/ SomeOtherInstalled(u))
  /\ UNCHANGED <<running, path, crashes, owner>>

Install(u) ==
  /\ step[u] = "backedUp" /\ GoTo(u, "installed")
  /\ file["new"] # Nothing /\ Rename("new", path[u])
  /\ Touch(u)
  /\ mixed' = (mixed \/ u \notin owner \/ SomeOtherInstalled(u))
  /\ UNCHANGED <<running, path, failures, crashes>>

(* The backup is moved back over the binary.                               *)
RollBack(u) ==
  IF file["prev"] # Nothing THEN Rename("prev", path[u]) ELSE UNCHANGED <<file, exe>>

(* A rollback that fails, too, is not noticed.                             *)
InstallFails(u) ==
  /\ step[u] = "backedUp" /\ GiveUp(u)
  /\ \/ file["new"] = Nothing /\ RollBack(u) /\ UNCHANGED failures
     \/ Failing /\ RollBack(u)
     \/ file["new"] = Nothing /\ Failing /\ UNCHANGED <<file, exe>>
     \/ failures + 1 < MaxFailures /\ failures' = failures + 2 /\ UNCHANGED <<file, exe>>
  /\ mixed' = (mixed \/ SomeOtherInstalled(u))
  /\ UNCHANGED <<running, path, crashes, owner>>

\* All tasks end with the process.
Stop ==
  /\ running' = Down /\ step' = [u \in Updates |-> "idle"]
  /\ file' = Closed(Updates, "broken") /\ owner' = {}
  /\ UNCHANGED <<exe, path, failures, mixed>>

(* exit(42).                                                               *)
Exit(u) == step[u] = "installed" /\ Stop /\ UNCHANGED crashes

Crash == running # Down /\ Stop /\ crashes < MaxCrashes /\ crashes' = crashes + 1

\* Mutant: without the test that nothing is there.
RestoreAlways ==
  /\ running = Down /\ file["prev"] # Nothing /\ file' = Moved("prev", "current")
  /\ UNCHANGED <<running, exe, step, path, failures, crashes, historyVars>>

(* ExecStartPre of the unit.                                               *)
RestoreBackup ==
  /\ running = Down /\ file["current"] = Nothing
  /\ file["prev"] # Nothing /\ file' = Moved("prev", "current")
  /\ UNCHANGED <<running, exe, step, path, failures, crashes, historyVars>>

(* ExecStart, which Restart=always repeats.                                *)
Boot ==
  /\ running = Down /\ Starts(file["current"])
  /\ running' = file["current"].image /\ exe' = "current" /\ mixed' = FALSE
  /\ UNCHANGED <<file, step, path, failures, crashes, owner>>

Proceed(u) ==
  \/ RemoveLeftover(u) \/ Create(u) \/ Verify(u) \/ SetPermissions(u) \/ Backup(u)
  \/ Install(u) \/ InstallFails(u) \/ Exit(u)

Next ==
  \/ \E u \in Updates : Request(u) \/ NoAnswer(u) \/ DownloadFails(u) \/ Proceed(u)
  \/ Crash \/ RestoreBackup \/ Boot

(* A task goes on until it ends, and systemd restarts the process.         *)
Fairness ==
  WF_vars(RestoreBackup) /\ WF_vars(Boot) /\ \A u \in Updates : WF_vars(Proceed(u))

Spec == Init /\ [][Next]_vars /\ Fairness

----------------------------------------------------------------------------
(* update.rs:1-10: what is in the place of the binary was downloaded to    *)
(* its end, verified and made executable.  Two updates at once break it.   *)
InstalledIsVerified == file["current"] # Nothing => Starts(file["current"])

(* Whatever other updates do at the same time: if none of them touched the *)
(* staging path from when an update removed what was there, what that      *)
(* update installs is the image it has verified, whole and executable      *)
(* (update.rs:58-80, 125-190).                                             *)
InstallsWhatItVerified ==
  [][\A u \in Updates : Install(u) /\ u \in owner =>
       file'[path[u]] = [image |-> u, content |-> "good", executable |-> TRUE]]_vars

(* What the service's next start finds at the binary's path.               *)
NextToStart == IF file["current"] # Nothing THEN file["current"] ELSE file["prev"]

(* Wherever the process is killed, between the two renames or after a      *)
(* rollback that failed, the next start finds an image that starts.        *)
StartsAgain == ~mixed => Starts(NextToStart)

(* As long as no update was installed, however many are under way and      *)
(* however they fail, the next start finds the image that runs now.        *)
NothingLost ==
  (running # Down /\ \A u \in Updates : step[u] # "installed") =>
    Starts(NextToStart) /\ NextToStart.image = running

(* Both, over state of the right types (update.rs:72-95 and                *)
(* kodama-firmware.service:14).                                            *)
NextStartWorks == TypeOK /\ StartsAgain /\ NothingLost

(* The camera comes back after every exit or kill; and an update installed *)
(* where the next start looks is what runs then, even when the process is  *)
(* killed before it exits by itself (update.rs:80-95).                     *)
ComesBack == running = Down ~> (running # Down \/ mixed)

UpdateTakesEffect ==
  /\ ComesBack
  /\ \A u \in Updates :
       (step[u] = "installed" /\ (path[u] = "current" \/ file["current"] = Nothing))
         ~> (running = u \/ mixed)

=============================================================================
