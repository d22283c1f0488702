--------------------------- MODULE FirmwareProofs ---------------------------
(***************************************************************************)
(* The programs of the camera: its update, its session with the server,    *)
(* the relay mode, the audio capture and the splitting of the video.       *)
(*                                                                         *)
(* Update.  However many updates are under way, whatever fails or crashes  *)
(* and however often: the next start finds the image that runs, or one     *)
(* that was installed since, and an update whose staging file no other     *)
(* touches installs what it has verified.                                  *)
(*                                                                         *)
(* Session.  What TLC checks of CameraSession on a small instance, for any *)
(* set of interfaces, any capacities and any number of route changes and   *)
(* faults.                                                                 *)
(*                                                                         *)
(* Relay mode.  For any finite set of peers and any ring: the gauges count *)
(* the handlers that run, and a subscriber gets the frames since its       *)
(* subscription in order, but for those it is told it missed.              *)
(*                                                                         *)
(* Audio.  For any rates, sizes of batches and of packets: the packets are *)
(* the recorded audio, each batch of it resampled, in the order it came.   *)
(*                                                                         *)
(* Video.  For any stream of NAL units and however it falls into chunks:   *)
(* the parser returns the units whole, and the chunks that show an IDR     *)
(* unit are marked, and no others.                                         *)
(***************************************************************************)
EXTENDS CameraSession, FirmwareUpdate, RelayMode, AudioCapture, NalStream,
        SumTheorems, SequenceTheorems

-----------------------------------------------------------------------------
(* The update.                                                             *)

InstalledNow == \E u \in Updates : step[u] = "installed"

(* The image that runs, as it is in one of the files.                      *)
Live(f) == Starts(f) /\ f.image = running

(* Before an update has installed its image, the file of the process is    *)
(* where current_exe says, and where the next start looks.                 *)
InPlace ==
  \/ exe = "current" /\ Live(file["current"])
  \/ exe = "prev" /\ file["current"] = Nothing /\ Live(file["prev"])

(* An old backup is gone before anything can be rolled back to it: the     *)
(* file of the process takes its place, and leaves it again.               *)
NoOldBackup ==
  (exe = "current" /\ \E u \in Updates : \/ step[u] = "backedUp"
                                         \/ step[u] # "idle" /\ path[u] = "prev")
     => file["prev"] = Nothing

PathsKnown ==
  \A u \in Updates : step[u] # "idle" => path[u] \in {"current", "prev"}

BeforeInstall == InPlace /\ NoOldBackup /\ PathsKnown

(* The staging file of an owner has got as far as its task.                *)
OwnFile(u) ==
  /\ step[u] = "removed" => file["new"] = Nothing
  /\ step[u] \in {"downloading", "verified", "executable", "backedUp"} =>
       file["new"].image = u
  /\ step[u] = "downloading" => file["new"].content = "partial"
  /\ step[u] \in {"verified", "executable", "backedUp"} => file["new"].content = "good"
  /\ step[u] \in {"executable", "backedUp"} => file["new"].executable

OwnersHaveFiles == \A u \in owner : OwnFile(u)

IInv == /\ TypeOK /\ OwnersHaveFiles /\ StartsAgain
        /\ running # Down /\ ~InstalledNow => BeforeInstall

-----------------------------------------------------------------------------
(* Files.                                                                  *)

LEMMA FileTypes ==
  /\ Nothing \in Files /\ ~Starts(Nothing) /\ Nothing.content = "none"
  /\ Nothing.executable = FALSE
  /\ \A f \in Files : f \in [image : Images, content : {"none", "partial", "broken", "good"},
                             executable : BOOLEAN]
  /\ \A f \in Files : f.content = "none" <=> f = Nothing
  /\ \A f \in Files : Starts(f) => f # Nothing
<1>1. Nothing \in [image : Images, content : {"none", "partial", "broken", "good"},
                   executable : BOOLEAN]
  BY DEF Nothing, Images
<1>2. \A f \in Files : f \in [image : Images, content : {"none", "partial", "broken", "good"},
                              executable : BOOLEAN]
  BY <1>1 DEF Files
<1>3. QED
  BY <1>2 DEF Files, Starts, Nothing

(* What is built of a file is one, but for nothing.                        *)
LEMMA MadeFile ==
  ASSUME NEW i \in Images, NEW c \in {"partial", "broken", "good"}, NEW x \in BOOLEAN
  PROVE  [image |-> i, content |-> c, executable |-> x] \in Files
  BY DEF Files

LEMMA ClosedFiles ==
  ASSUME TypeOK, NEW us, NEW c \in {"broken", "good"}
  PROVE  /\ Closed(us, c) \in [Paths -> Files]
         /\ \A p \in Paths :
              /\ Closed(us, c)[p].image = file[p].image
              /\ Closed(us, c)[p].executable = file[p].executable
              /\ ~(file[p].image \in us /\ file[p].content = "partial") =>
                   Closed(us, c)[p] = file[p]
              /\ file[p].image \in us /\ file[p].content = "partial" =>
                   Closed(us, c)[p].content = c
<1>1. ASSUME NEW p \in Paths, file[p].image \in us, file[p].content = "partial"
      PROVE  /\ [file[p] EXCEPT !.content = c] \in Files
             /\ [file[p] EXCEPT !.content = c].image = file[p].image
             /\ [file[p] EXCEPT !.content = c].executable = file[p].executable
             /\ [file[p] EXCEPT !.content = c].content = c
  <2>1. file[p] \in [image : Images, content : {"none", "partial", "broken", "good"},
                     executable : BOOLEAN]
    BY FileTypes DEF TypeOK
  <2>2. QED
    BY <2>1 DEF Files
<1>2. \A p \in Paths : file[p] \in Files
  BY DEF TypeOK
<1>3. QED
  BY <1>1, <1>2 DEF Closed

LEMMA MovedFiles ==
  ASSUME TypeOK, NEW from \in Paths, NEW to \in Paths
  PROVE  /\ Moved(from, to) \in [Paths -> Files]
         /\ from = to => Moved(from, to) = file
         /\ from # to => /\ Moved(from, to)[to] = file[from]
                         /\ Moved(from, to)[from] = Nothing
         /\ \A p \in Paths \ {from, to} : Moved(from, to)[p] = file[p]
  BY FileTypes DEF TypeOK, Moved

LEMMA Renamed ==
  ASSUME TypeOK, NEW from \in Paths, NEW to \in Paths \ {"new"}, Rename(from, to)
  PROVE  /\ file' = Moved(from, to) /\ file' \in [Paths -> Files]
         /\ exe' \in Paths \ {"new"}
<1>1. exe' \in {exe, to, "deleted"}
  BY DEF Rename
<1>2. QED
  BY <1>1, MovedFiles DEF Rename, TypeOK, Paths

-----------------------------------------------------------------------------
(* Steps that leave the binary and its backup, and the process, as they    *)
(* are: what is whole there, or is not there.                              *)

Keeps ==
  /\ running' = running /\ exe' = exe /\ mixed' = mixed
  /\ \A p \in {"current", "prev"} :
       file[p] = Nothing \/ Starts(file[p]) => file'[p] = file[p]

LEMMA KeptStarts ==
  ASSUME Keeps, StartsAgain
  PROVE  StartsAgain'
<1>1. CASE mixed
  BY <1>1 DEF StartsAgain, Keeps
<1>2. CASE ~mixed
  <2>1. Starts(NextToStart) /\ ~mixed'
    BY <1>2 DEF StartsAgain, Keeps
  <2>2. NextToStart' = NextToStart
    BY <2>1 DEF NextToStart, Keeps, Starts
  <2>3. QED
    BY <2>1, <2>2 DEF StartsAgain, Starts
<1>3. QED
  BY <1>1, <1>2

(* A task goes on towards its installation, or ends.                       *)
LEMMA StepTyped ==
  ASSUME TypeOK, NEW u \in Updates, NEW s \in Steps, GoTo(u, s)
  PROVE  /\ step' \in [Updates -> Steps] /\ step'[u] = s
         /\ \A v \in Updates \ {u} : step'[v] = step[v]
  BY DEF GoTo, TypeOK

LEMMA EarlyStep ==
  ASSUME IInv, NEW u \in Updates, step[u] # "installed",
         NEW s \in Steps \ {"backedUp", "installed"}, GoTo(u, s), Keeps,
         (path' = path /\ step[u] # "idle") \/ path' = [path EXCEPT ![u] = exe],
         TypeOK', OwnersHaveFiles'
  PROVE  IInv'
<1>1. /\ step'[u] = s /\ \A v \in Updates \ {u} : step'[v] = step[v]
      /\ s # "backedUp" /\ s # "installed"
  BY StepTyped DEF IInv
<1>2. InstalledNow' <=> InstalledNow
  BY <1>1 DEF InstalledNow
<1>3. StartsAgain'
  BY KeptStarts DEF IInv
<1>4. ASSUME running # Down, ~InstalledNow, BeforeInstall
      PROVE  BeforeInstall'
  <2>1. InPlace'
    BY <1>4 DEF BeforeInstall, InPlace, Live, Keeps, Starts
  <2>2. \A v \in Updates : \/ path'[v] = path[v] /\ (step'[v] # "idle" => step[v] # "idle")
                           \/ path'[v] = exe
    BY <1>1 DEF IInv, TypeOK
  <2>3. PathsKnown'
    BY <1>4, <2>2 DEF BeforeInstall, PathsKnown, InPlace
  <2>4. NoOldBackup'
    <3> SUFFICES ASSUME exe' = "current",
                        NEW v \in Updates, \/ step'[v] = "backedUp"
                                           \/ step'[v] # "idle" /\ path'[v] = "prev"
                 PROVE  file'["prev"] = Nothing
      BY DEF NoOldBackup
    <3>1. exe = "current"
      BY DEF Keeps
    <3>2. step[v] = "backedUp" \/ (step[v] # "idle" /\ path[v] = "prev")
      BY <1>1, <2>2, <3>1
    <3>3. file["prev"] = Nothing
      BY <1>4, <3>1, <3>2 DEF BeforeInstall, NoOldBackup
    <3>4. QED
      BY <3>3 DEF Keeps
  <2>5. QED
    BY <2>1, <2>3, <2>4 DEF BeforeInstall
<1>5. QED
  BY <1>2, <1>3, <1>4 DEF IInv, Keeps

(* Counting a failure or a crash keeps the bound.                          *)
LEMMA Bounded ==
  ASSUME TypeOK
  PROVE  /\ Failing => failures' \in 0 .. MaxFailures
         /\ failures + 1 < MaxFailures => failures + 2 \in 0 .. MaxFailures
         /\ crashes < MaxCrashes => crashes + 1 \in 0 .. MaxCrashes
<1>1. MaxFailures \in Nat /\ MaxCrashes \in Nat
  BY UpdateAssumption
<1>2. QED
  BY <1>1 DEF TypeOK, Failing

(* The types of a step of a task.                                          *)
LEMMA TaskTyped ==
  ASSUME TypeOK, NEW u \in Updates, step[u] # "idle", NEW s \in Steps, GoTo(u, s),
         file' \in [Paths -> Files], running' = running,
         exe' \in Paths \ {"new"}, path' = path,
         Failing \/ failures' = failures, crashes' = crashes,
         owner' \subseteq Updates, mixed' \in BOOLEAN
  PROVE  TypeOK'
<1>1. step' \in [Updates -> Steps]
  BY StepTyped
<1>2. running # Down
  BY DEF TypeOK
<1>3. failures' \in 0 .. MaxFailures
  BY Bounded DEF TypeOK
<1>4. QED
  BY <1>1, <1>2, <1>3 DEF TypeOK

-----------------------------------------------------------------------------
(* The steps up to the renames.                                            *)

LEMMA RequestPreserves == ASSUME IInv, NEW u \in Updates, Request(u) PROVE IInv'
<1>1. step[u] = "idle" /\ "requested" \in Steps \ {"backedUp", "installed"}
      /\ GoTo(u, "requested") /\ path' = [path EXCEPT ![u] = exe]
      /\ UNCHANGED <<file, running, exe, failures, crashes, owner, mixed>>
      /\ running # Down
  BY DEF Request, Steps, historyVars
<1>2. /\ step' \in [Updates -> Steps] /\ step'[u] = "requested"
      /\ \A v \in Updates \ {u} : step'[v] = step[v]
  BY <1>1, StepTyped DEF IInv
<1>3. TypeOK'
  BY <1>1, <1>2 DEF IInv, TypeOK
<1>4. OwnersHaveFiles'
  BY <1>1, <1>2 DEF IInv, TypeOK, OwnersHaveFiles, OwnFile
<1>5. Keeps
  BY <1>1 DEF Keeps
<1>6. QED
  BY <1>1, <1>3, <1>4, <1>5, EarlyStep

Working == {"removed", "downloading", "verified", "executable", "backedUp"}

(* The staging file of an owner at work is written by nobody else.         *)
LEMMA OwnFileIsOwn ==
  ASSUME IInv, NEW v \in owner, step[v] \in Working, NEW u, u # v
  PROVE  ~(file["new"].image = u /\ file["new"].content = "partial")
<1>1. OwnFile(v)
  BY DEF IInv, OwnersHaveFiles
<1>2. QED
  BY <1>1, FileTypes DEF OwnFile, Working

(* What another task does leaves the files of owners as they are.          *)
LEMMA OthersFiles ==
  ASSUME IInv, NEW u \in Updates, NEW s \in Steps, GoTo(u, s), owner' \subseteq owner,
         u \in owner' => OwnFile(u)',
         \A v \in owner' \ {u} : step[v] \in Working => file'["new"] = file["new"]
  PROVE  OwnersHaveFiles'
<1> SUFFICES ASSUME NEW v \in owner', v # u PROVE OwnFile(v)'
  BY DEF OwnersHaveFiles
<1>1. v \in Updates /\ OwnFile(v)
  BY DEF IInv, TypeOK, OwnersHaveFiles
<1>2. step'[v] = step[v]
  BY <1>1, StepTyped DEF IInv
<1>3. QED
  BY <1>1, <1>2 DEF OwnFile, Working

(* A task that ends without another effect than closing its file.          *)
LEMMA EndsEarly ==
  ASSUME IInv, NEW u \in Updates, step[u] \notin {"idle", "installed"}, GiveUp(u),
         file' \in [Paths -> Files], owner' \subseteq owner,
         \A v \in owner' \ {u} : step[v] \in Working => file'["new"] = file["new"],
         Failing \/ failures' = failures, Keeps, path' = path, crashes' = crashes
  PROVE  IInv'
<1>1. GoTo(u, "idle") /\ "idle" \in Steps \ {"backedUp", "installed"}
  BY DEF GiveUp, Steps
<1>2. step'[u] = "idle"
  BY <1>1, StepTyped DEF IInv
<1>3. TypeOK'
  BY <1>1, TaskTyped DEF IInv, TypeOK, Keeps
<1>4. OwnersHaveFiles'
  BY <1>1, <1>2, OthersFiles DEF OwnFile
<1>5. QED
  BY <1>1, <1>3, <1>4, EarlyStep

LEMMA NoAnswerPreserves == ASSUME IInv, NEW u \in Updates, NoAnswer(u) PROVE IInv'
<1>1. Keeps /\ file' \in [Paths -> Files]
  BY DEF NoAnswer, historyVars, Keeps, IInv, TypeOK
<1>2. QED
  BY <1>1, EndsEarly DEF NoAnswer, historyVars

(* Closing a file in whose place nobody else's is.                         *)
LEMMA ClosedOwn ==
  ASSUME IInv, NEW u \in Updates, NEW c \in {"broken", "good"}
  PROVE  /\ Closed({u}, c) \in [Paths -> Files]
         /\ \A p \in {"current", "prev"} :
              file[p] = Nothing \/ Starts(file[p]) => Closed({u}, c)[p] = file[p]
         /\ \A v \in owner \ {u} : step[v] \in Working =>
              Closed({u}, c)["new"] = file["new"]
<1> DEFINE closed == Closed({u}, c)
<1>1. /\ closed \in [Paths -> Files]
      /\ \A p \in Paths :
           ~(file[p].image = u /\ file[p].content = "partial") => closed[p] = file[p]
  BY ClosedFiles DEF IInv
<1> HIDE DEF closed
<1>2. \A p \in {"current", "prev"} :
        file[p] = Nothing \/ Starts(file[p]) => closed[p] = file[p]
  BY <1>1, FileTypes DEF Starts, Paths
<1>3. \A v \in owner \ {u} : step[v] \in Working => closed["new"] = file["new"]
  BY <1>1, OwnFileIsOwn DEF Paths
<1>4. QED
  BY <1>1, <1>2, <1>3 DEF closed

LEMMA DownloadFailsPreserves ==
  ASSUME IInv, NEW u \in Updates, DownloadFails(u)
  PROVE  IInv'
<1> DEFINE closed == Closed({u}, "broken")
<1>1. /\ closed \in [Paths -> Files]
      /\ \A p \in {"current", "prev"} :
           file[p] = Nothing \/ Starts(file[p]) => closed[p] = file[p]
      /\ \A v \in owner \ {u} : step[v] \in Working => closed["new"] = file["new"]
  BY ClosedOwn
<1> HIDE DEF closed
<1>2. CASE file' = closed /\ UNCHANGED owner
  <2>1. Keeps
    BY <1>1, <1>2 DEF DownloadFails, Keeps
  <2>2. QED
    BY <1>1, <1>2, <2>1, EndsEarly DEF DownloadFails
<1>3. CASE file' = [closed EXCEPT !["new"] = Nothing] /\ Touch(u)
  <2>1. /\ file' \in [Paths -> Files]
        /\ \A p \in {"current", "prev"} : file'[p] = closed[p]
    BY <1>1, <1>3, FileTypes DEF Paths
  <2>2. Keeps
    BY <1>1, <2>1 DEF DownloadFails, Keeps
  <2>3. owner' \subseteq owner /\ \A v \in owner' : v = u
    BY <1>3 DEF Touch
  <2>4. QED
    BY <2>1, <2>2, <2>3, EndsEarly DEF DownloadFails
<1>4. QED
  BY <1>2, <1>3 DEF DownloadFails, closed

LEMMA RemovePreserves == ASSUME IInv, NEW u \in Updates, RemoveLeftover(u) PROVE IInv'
<1>1. /\ step[u] = "requested" /\ GoTo(u, "removed")
      /\ "removed" \in Steps \ {"backedUp", "installed"}
  BY DEF RemoveLeftover, Steps
<1>2. /\ file' \in [Paths -> Files] /\ owner' \subseteq {u}
      /\ u \in owner' => file'["new"] = Nothing
      /\ \A p \in {"current", "prev"} : file'[p] = file[p]
      /\ Failing \/ failures' = failures
  BY FileTypes DEF RemoveLeftover, IInv, TypeOK, Paths
<1>3. Keeps
  BY <1>2 DEF RemoveLeftover, Keeps
<1>4. TypeOK'
  BY <1>1, <1>2, TaskTyped DEF RemoveLeftover, IInv, TypeOK
<1>5. step'[u] = "removed"
  BY <1>1, StepTyped DEF IInv
<1>6. OwnersHaveFiles'
  BY <1>2, <1>5 DEF OwnersHaveFiles, OwnFile
<1>7. QED
  BY <1>1, <1>3, <1>4, <1>6, EarlyStep DEF RemoveLeftover

LEMMA CreatePreserves == ASSUME IInv, NEW u \in Updates, Create(u) PROVE IInv'
<1> DEFINE old == file["new"]
           c == IF old.content = "partial" THEN "broken" ELSE "partial"
           f == [image |-> u, content |-> c, executable |-> old.executable]
<1>1. /\ step[u] = "removed" /\ GoTo(u, "downloading")
      /\ "downloading" \in Steps \ {"backedUp", "installed"}
  BY DEF Create, Steps
<1>2. old \in Files /\ old.executable \in BOOLEAN
  BY FileTypes DEF IInv, TypeOK, Paths
<1>3. f \in Files /\ f.image = u /\ f.content = c
  BY <1>2, MadeFile DEF Images
<1>4. file' = [file EXCEPT !["new"] = f]
  BY DEF Create
<1>5. c = IF old.content = "partial" THEN "broken" ELSE "partial"
  OBVIOUS
<1> HIDE DEF f, c
<1>6. /\ file' \in [Paths -> Files] /\ file'["new"] = f
      /\ \A p \in {"current", "prev"} : file'[p] = file[p]
  BY <1>3, <1>4 DEF IInv, TypeOK, Paths
<1>7. owner' = owner \cap {u}
  BY DEF Create, Touch
<1>8. step'[u] = "downloading"
  BY <1>1, StepTyped DEF IInv
<1>9. u \in owner' => OwnFile(u)'
  <2>1. u \in owner => old = Nothing
    BY <1>1 DEF IInv, OwnersHaveFiles, OwnFile
  <2>2. u \in owner => f.content = "partial"
    BY <1>3, <1>5, <2>1, FileTypes
  <2>3. QED
    BY <1>3, <1>6, <1>7, <1>8, <2>2 DEF OwnFile
<1>10. OwnersHaveFiles'
  BY <1>7, <1>9 DEF OwnersHaveFiles
<1>11. Keeps
  BY <1>6 DEF Create, Keeps
<1>12. TypeOK'
  BY <1>1, <1>6, <1>7, TaskTyped DEF Create, IInv, TypeOK
<1>13. QED
  BY <1>1, <1>10, <1>11, <1>12, EarlyStep DEF Create

LEMMA VerifyPreserves == ASSUME IInv, NEW u \in Updates, Verify(u) PROVE IInv'
<1>1. /\ step[u] = "downloading" /\ GoTo(u, "verified")
      /\ "verified" \in Steps \ {"backedUp", "installed"}
      /\ file' = Closed({u}, "good")
  BY DEF Verify, Steps
<1>2. /\ file' \in [Paths -> Files]
      /\ \A p \in {"current", "prev"} :
           file[p] = Nothing \/ Starts(file[p]) => file'[p] = file[p]
      /\ \A v \in owner \ {u} : step[v] \in Working => file'["new"] = file["new"]
  BY <1>1, ClosedOwn
<1>3. Keeps
  BY <1>2 DEF Verify, historyVars, Keeps
<1>4. step'[u] = "verified"
  BY <1>1, StepTyped DEF IInv
<1>5. u \in owner => OwnFile(u)'
  <2>1. u \in owner => file["new"].image = u /\ file["new"].content = "partial"
    BY <1>1 DEF IInv, OwnersHaveFiles, OwnFile
  <2>2. u \in owner => file'["new"].image = u /\ file'["new"].content = "good"
    BY <1>1, <2>1, ClosedFiles DEF IInv, Paths
  <2>3. QED
    BY <1>4, <2>2 DEF OwnFile
<1>6. owner' = owner
  BY DEF Verify, historyVars
<1>7. OwnersHaveFiles'
  BY <1>1, <1>2, <1>5, <1>6, OthersFiles
<1>8. TypeOK'
  BY <1>1, <1>2, TaskTyped DEF Verify, historyVars, IInv, TypeOK
<1>9. QED
  BY <1>1, <1>3, <1>7, <1>8, EarlyStep DEF Verify

LEMMA SetPermissionsPreserves ==
  ASSUME IInv, NEW u \in Updates, SetPermissions(u)
  PROVE  IInv'
<1>1. step[u] = "verified" /\ owner' = owner
  BY DEF SetPermissions, historyVars
<1>2. CASE file["new"] # Nothing /\ file' = [file EXCEPT !["new"].executable = TRUE]
             /\ GoTo(u, "executable") /\ UNCHANGED failures
  <2> DEFINE f == [file["new"] EXCEPT !.executable = TRUE]
  <2>1. /\ f \in Files /\ f.image = file["new"].image
        /\ f.content = file["new"].content /\ f.executable
    <3>1. file["new"] \in [image : Images, content : {"partial", "broken", "good"},
                           executable : BOOLEAN]
      BY <1>2 DEF IInv, TypeOK, Files, Paths
    <3>2. QED
      BY <3>1 DEF Files
  <2>2. file' = [file EXCEPT !["new"] = f]
    BY <1>2
  <2> HIDE DEF f
  <2>3. /\ file' \in [Paths -> Files] /\ file'["new"] = f
        /\ \A p \in {"current", "prev"} : file'[p] = file[p]
    BY <2>1, <2>2 DEF IInv, TypeOK, Paths
  <2>4. "executable" \in Steps \ {"backedUp", "installed"}
    BY DEF Steps
  <2>5. /\ step'[u] = "executable" /\ \A v \in Updates \ {u} : step'[v] = step[v]
    BY <1>2, <2>4, StepTyped DEF IInv
  <2>6. OwnersHaveFiles'
    <3> SUFFICES ASSUME NEW v \in owner PROVE OwnFile(v)'
      BY <1>1 DEF OwnersHaveFiles
    <3>1. v \in Updates /\ OwnFile(v)
      BY DEF IInv, TypeOK, OwnersHaveFiles
    <3>2. CASE v = u
      BY <1>1, <2>1, <2>3, <2>5, <3>1, <3>2 DEF OwnFile
    <3>3. CASE v # u
      <4>1. step'[v] = step[v] /\ step[v] # "removed"
        BY <1>2, <2>5, <3>1, <3>3 DEF OwnFile
      <4>2. QED
        BY <2>1, <2>3, <3>1, <4>1 DEF OwnFile
    <3>4. QED
      BY <3>2, <3>3
  <2>7. Keeps
    BY <2>3 DEF SetPermissions, historyVars, Keeps
  <2>8. TypeOK'
    BY <1>1, <1>2, <2>3, <2>4, TaskTyped DEF SetPermissions, historyVars, IInv, TypeOK
  <2>9. QED
    BY <1>1, <1>2, <2>4, <2>6, <2>7, <2>8, EarlyStep DEF SetPermissions
<1>3. CASE GiveUp(u) /\ UNCHANGED file /\ (Failing \/ failures' = failures)
  <2>1. Keeps /\ file' \in [Paths -> Files]
    BY <1>3 DEF SetPermissions, historyVars, Keeps, IInv, TypeOK
  <2>2. QED
    BY <1>1, <1>3, <2>1, EndsEarly DEF SetPermissions
<1>4. QED
  BY <1>2, <1>3 DEF SetPermissions

-----------------------------------------------------------------------------
(* The renames.  After an installation they are not looked at any more.    *)

(* The owners' files are not at a path the binary or its backup has.       *)
LEMMA RenameElsewhere ==
  ASSUME IInv, NEW u \in Updates, NEW s \in {"idle", "backedUp"}, GoTo(u, s),
         s = "backedUp" => step[u] = "executable",
         owner' = owner, file'["new"] = file["new"]
  PROVE  OwnersHaveFiles'
<1>1. s \in Steps /\ step'[u] = s
  BY StepTyped DEF IInv, Steps
<1>2. u \in owner => OwnFile(u)'
  BY <1>1 DEF IInv, OwnersHaveFiles, OwnFile
<1>3. QED
  BY <1>1, <1>2, OthersFiles

(* What is left to show of a rename, or of what fails.                     *)
LEMMA RenamePreserves ==
  ASSUME IInv, NEW u \in Updates, step[u] \in {"executable", "backedUp"},
         NEW s \in {"idle", "backedUp"}, GoTo(u, s),
         file' \in [Paths -> Files], running' = running, exe' \in Paths \ {"new"},
         path' = path, Failing \/ failures' = failures \/ failures' \in 0 .. MaxFailures,
         crashes' = crashes, owner' \subseteq Updates,
         OwnersHaveFiles', mixed' = (mixed \/ SomeOtherInstalled(u)),
         ~InstalledNow => InPlace' /\ NoOldBackup'
  PROVE  IInv'
<1>1. s \in Steps /\ running # Down /\ mixed' \in BOOLEAN
  <2>1. SomeOtherInstalled(u) \in BOOLEAN
    BY DEF SomeOtherInstalled
  <2>2. QED
    BY <2>1 DEF Steps, IInv, TypeOK
<1>2. /\ step' \in [Updates -> Steps] /\ step'[u] = s
      /\ \A v \in Updates \ {u} : step'[v] = step[v]
  BY <1>1, StepTyped DEF IInv
<1>3. failures' \in 0 .. MaxFailures
  BY Bounded DEF IInv, TypeOK
<1>4. TypeOK'
  BY <1>1, <1>2, <1>3 DEF IInv, TypeOK
<1>5. InstalledNow' <=> InstalledNow
  BY <1>2 DEF InstalledNow
<1>6. InstalledNow => mixed'
  BY DEF InstalledNow, SomeOtherInstalled
<1>7. ~InstalledNow => BeforeInstall'
  BY <1>1, <1>2 DEF IInv, BeforeInstall, PathsKnown
<1>8. ~InstalledNow => Starts(NextToStart)'
  <2>1. InPlace' => Starts(NextToStart)'
    BY FileTypes DEF InPlace, Live, NextToStart, Starts
  <2>2. QED
    BY <1>7, <2>1 DEF BeforeInstall
<1>9. StartsAgain'
  BY <1>6, <1>8 DEF StartsAgain
<1>10. QED
  BY <1>4, <1>5, <1>7, <1>9 DEF IInv

(* Nothing is renamed: the task is at another step, that is all.           *)
LEMMA NoRename ==
  ASSUME IInv, NEW u \in Updates, ~InstalledNow, running # Down,
         step[u] \in {"executable", "backedUp"},
         NEW s \in {"idle", "backedUp"}, GoTo(u, s), UNCHANGED <<file, exe, path, running>>,
         s = "backedUp" => file[path[u]] = Nothing
  PROVE  InPlace' /\ NoOldBackup'
<1>1. BeforeInstall
  BY DEF IInv
<1>2. InPlace'
  BY <1>1 DEF BeforeInstall, InPlace, Live, Starts
<1>3. /\ step'[u] = s /\ \A v \in Updates \ {u} : step'[v] = step[v]
  BY StepTyped DEF IInv, Steps
<1>4. NoOldBackup'
  <2> SUFFICES ASSUME exe = "current",
                      NEW v \in Updates, \/ step'[v] = "backedUp"
                                         \/ step'[v] # "idle" /\ path[v] = "prev"
               PROVE  file["prev"] = Nothing
    BY DEF NoOldBackup
  <2>1. CASE step[v] = "backedUp" \/ (step[v] # "idle" /\ path[v] = "prev")
    BY <1>1, <2>1 DEF BeforeInstall, NoOldBackup
  <2>2. CASE v = u /\ s = "backedUp" /\ path[u] # "prev"
    <3>1. path[u] = "current" /\ file["current"] = Nothing
      BY <1>1, <2>2 DEF BeforeInstall, PathsKnown
    <3>2. QED
      BY <1>1, <3>1, FileTypes DEF BeforeInstall, InPlace, Live
  <2>3. QED
    BY <1>3, <2>1, <2>2
<1>5. QED
  BY <1>2, <1>4

LEMMA BackupPreserves == ASSUME IInv, NEW u \in Updates, Backup(u) PROVE IInv'
<1>1. step[u] = "executable" /\ running # Down /\ path[u] \in Paths \ {"new"}
      /\ "prev" \in Paths \ {"new"}
  BY DEF Backup, IInv, TypeOK, Paths
<1>2. CASE file[path[u]] # Nothing /\ Rename(path[u], "prev") /\ GoTo(u, "backedUp")
             /\ UNCHANGED failures
  <2>1. file' = Moved(path[u], "prev") /\ file' \in [Paths -> Files]
        /\ exe' \in Paths \ {"new"}
    BY <1>1, <1>2, Renamed DEF IInv
  <2>2. file'["new"] = file["new"]
    BY <1>1, <2>1, MovedFiles DEF IInv, Paths
  <2>3. OwnersHaveFiles'
    BY <1>1, <1>2, <2>2, RenameElsewhere DEF Backup
  <2>4. ASSUME ~InstalledNow PROVE InPlace' /\ NoOldBackup'
    <3>1. BeforeInstall /\ path[u] \in {"current", "prev"}
      BY <1>1, <2>4 DEF IInv, BeforeInstall, PathsKnown
    <3>2. CASE path[u] = "current"
      <4>1. exe = "current" /\ Live(file["current"])
        BY <1>2, <3>1, <3>2 DEF BeforeInstall, InPlace
      <4>2. exe' = "prev" /\ file'["prev"] = file["current"] /\ file'["current"] = Nothing
        BY <1>1, <1>2, <2>1, <3>2, <4>1, MovedFiles DEF Rename, IInv
      <4>3. QED
        BY <4>1, <4>2 DEF Backup, InPlace, NoOldBackup, Live, Starts
    <3>3. CASE path[u] = "prev"
      <4>1. exe = "prev"
        BY <1>1, <1>2, <3>1, <3>3 DEF BeforeInstall, InPlace, NoOldBackup
      <4>2. exe' = exe /\ file' = file
        BY <1>1, <1>2, <2>1, <3>3, MovedFiles DEF Rename, IInv
      <4>3. QED
        BY <3>1, <4>1, <4>2 DEF Backup, BeforeInstall, InPlace, NoOldBackup, Live, Starts
    <3>4. QED
      BY <3>1, <3>2, <3>3
  <2>5. QED
    BY <1>1, <1>2, <2>1, <2>3, <2>4, RenamePreserves DEF Backup, IInv, TypeOK
<1>3. ASSUME NEW s \in {"idle", "backedUp"}, GoTo(u, s), UNCHANGED <<file, exe>>,
             s = "backedUp" => file[path[u]] = Nothing,
             Failing \/ failures' = failures
      PROVE  IInv'
  <2>1. OwnersHaveFiles'
    BY <1>1, <1>3, RenameElsewhere DEF Backup
  <2>2. ~InstalledNow => InPlace' /\ NoOldBackup'
    BY <1>1, <1>3, NoRename DEF Backup
  <2>3. QED
    BY <1>1, <1>3, <2>1, <2>2, RenamePreserves DEF Backup, IInv, TypeOK
<1>4. QED
  BY <1>2, <1>3 DEF Backup, GiveUp

LEMMA InstallFailsPreserves ==
  ASSUME IInv, NEW u \in Updates, InstallFails(u)
  PROVE  IInv'
<1>1. /\ step[u] = "backedUp" /\ GoTo(u, "idle") /\ running # Down
      /\ path[u] \in Paths \ {"new"} /\ "prev" \in Paths
      /\ owner' = owner /\ UNCHANGED <<running, path, crashes>>
      /\ mixed' = (mixed \/ SomeOtherInstalled(u))
  BY DEF InstallFails, GiveUp, IInv, TypeOK, Paths
<1>2. failures' \in 0 .. MaxFailures
  BY Bounded DEF InstallFails, IInv, TypeOK
<1>3. CASE UNCHANGED <<file, exe>>
  <2>1. OwnersHaveFiles'
    BY <1>1, <1>3, RenameElsewhere
  <2>2. ~InstalledNow => InPlace' /\ NoOldBackup'
    BY <1>1, <1>3, NoRename
  <2>3. QED
    BY <1>1, <1>2, <1>3, <2>1, <2>2, RenamePreserves DEF IInv, TypeOK
<1>4. CASE file["prev"] # Nothing /\ Rename("prev", path[u])
  <2>1. file' = Moved("prev", path[u]) /\ file' \in [Paths -> Files]
        /\ exe' \in Paths \ {"new"}
    BY <1>1, <1>4, Renamed DEF IInv
  <2>2. file'["new"] = file["new"]
    BY <1>1, <2>1, MovedFiles DEF IInv, Paths
  <2>3. OwnersHaveFiles'
    BY <1>1, <2>2, RenameElsewhere
  <2>4. ASSUME ~InstalledNow PROVE InPlace' /\ NoOldBackup'
    <3>1. BeforeInstall /\ path[u] \in {"current", "prev"}
      BY <1>1, <2>4 DEF IInv, BeforeInstall, PathsKnown
    <3>2. exe = "prev" /\ file["current"] = Nothing /\ Live(file["prev"])
      BY <1>1, <1>4, <3>1 DEF BeforeInstall, InPlace, NoOldBackup
    <3>3. CASE path[u] = "current"
      <4>1. exe' = "current" /\ file'["current"] = file["prev"] /\ file'["prev"] = Nothing
        BY <1>1, <1>4, <2>1, <3>2, <3>3, MovedFiles DEF Rename, IInv
      <4>2. QED
        BY <1>1, <3>2, <4>1 DEF InPlace, NoOldBackup, Live, Starts
    <3>4. CASE path[u] = "prev"
      <4>1. exe' = exe /\ file' = file
        BY <1>1, <1>4, <2>1, <3>4, MovedFiles DEF Rename, IInv
      <4>2. QED
        BY <1>1, <3>2, <4>1 DEF InPlace, NoOldBackup, Live, Starts
    <3>5. QED
      BY <3>1, <3>3, <3>4
  <2>5. QED
    BY <1>1, <1>2, <2>1, <2>3, <2>4, RenamePreserves DEF IInv, TypeOK
<1>5. QED
  BY <1>3, <1>4 DEF InstallFails, RollBack

(* An owner installs its image, whole and executable.                      *)
LEMMA OwnerInstalls ==
  ASSUME IInv, NEW u \in owner, Install(u)
  PROVE  /\ file["new"] = [image |-> u, content |-> "good", executable |-> TRUE]
         /\ file'[path[u]] = file["new"]
<1>1. u \in Updates /\ step[u] = "backedUp" /\ path[u] \in Paths \ {"new"}
      /\ "new" \in Paths
  BY DEF Install, IInv, TypeOK, Paths
<1>2. /\ file["new"].image = u /\ file["new"].content = "good" /\ file["new"].executable
  BY <1>1 DEF IInv, OwnersHaveFiles, OwnFile
<1>3. file["new"] \in [image : Images, content : {"none", "partial", "broken", "good"},
                       executable : BOOLEAN]
  BY <1>1, FileTypes DEF IInv, TypeOK
<1>4. file["new"] = [image |-> u, content |-> "good", executable |-> TRUE]
  BY <1>2, <1>3
<1>5. file' = Moved("new", path[u])
  BY DEF Install, Rename
<1>6. file'[path[u]] = file["new"]
  BY <1>1, <1>5, MovedFiles DEF IInv
<1>7. QED
  BY <1>4, <1>6

LEMMA InstallPreserves == ASSUME IInv, NEW u \in Updates, Install(u) PROVE IInv'
<1>1. /\ step[u] = "backedUp" /\ GoTo(u, "installed") /\ "installed" \in Steps
      /\ running # Down /\ path[u] \in Paths \ {"new"} /\ "new" \in Paths
      /\ Rename("new", path[u])
  BY DEF Install, IInv, TypeOK, Paths, Steps
<1>2. file' = Moved("new", path[u]) /\ file' \in [Paths -> Files] /\ exe' \in Paths \ {"new"}
  BY <1>1, Renamed DEF IInv
<1>3. step'[u] = "installed"
  BY <1>1, StepTyped DEF IInv
<1>4. mixed' = (mixed \/ u \notin owner \/ SomeOtherInstalled(u)) /\ owner' = owner \cap {u}
  BY DEF Install, Touch
<1>5. mixed' \in BOOLEAN
  <2>1. SomeOtherInstalled(u) \in BOOLEAN
    BY DEF SomeOtherInstalled
  <2>2. QED
    BY <1>4, <2>1 DEF IInv, TypeOK
<1>6. TypeOK'
  BY <1>1, <1>2, <1>4, <1>5, TaskTyped DEF Install, IInv, TypeOK
<1>7. OwnersHaveFiles'
  BY <1>3, <1>4 DEF OwnersHaveFiles, OwnFile
<1>8. StartsAgain'
  <2> SUFFICES ASSUME ~mixed' PROVE Starts(NextToStart)'
    BY DEF StartsAgain
  <2>1. u \in owner /\ ~SomeOtherInstalled(u)
    BY <1>4
  <2>2. ~InstalledNow
    BY <1>1, <2>1 DEF InstalledNow, SomeOtherInstalled
  <2>3. BeforeInstall /\ path[u] \in {"current", "prev"}
    BY <1>1, <2>2 DEF IInv, BeforeInstall, PathsKnown
  <2>4. Starts(file'[path[u]])
    <3>1. file'[path[u]] = [image |-> u, content |-> "good", executable |-> TRUE]
      BY <2>1, OwnerInstalls
    <3>2. Starts([image |-> u, content |-> "good", executable |-> TRUE])
      BY DEF Starts
    <3>3. QED
      BY <3>1, <3>2, Zenon
  <2>5. CASE path[u] = "current"
    BY <2>4, <2>5, FileTypes DEF NextToStart, Starts
  <2>6. CASE path[u] = "prev"
    <3>1. file'["current"] = file["current"]
      BY <1>1, <1>2, <2>6, MovedFiles DEF IInv, Paths
    <3>2. QED
      BY <2>3, <2>4, <2>6, <3>1, FileTypes
         DEF BeforeInstall, InPlace, Live, NextToStart, Starts
  <2>7. QED
    BY <2>3, <2>5, <2>6
<1>9. InstalledNow'
  BY <1>3 DEF InstalledNow
<1>10. QED
  BY <1>6, <1>7, <1>8, <1>9 DEF IInv

-----------------------------------------------------------------------------
(* The process and the service.                                            *)

(* All files are closed: what starts, or is not there, stays so.           *)
LEMMA StopPreserves ==
  ASSUME IInv, running # Down, Stop, crashes' \in 0 .. MaxCrashes
  PROVE  IInv'
<1>1. /\ running' = Down /\ step' = [u \in Updates |-> "idle"] /\ owner' = {}
      /\ file' = Closed(Updates, "broken")
      /\ UNCHANGED <<exe, path, failures, mixed>>
  BY DEF Stop
<1>2. /\ file' \in [Paths -> Files]
      /\ \A p \in Paths : file[p].content # "partial" => file'[p] = file[p]
  BY <1>1, ClosedFiles DEF IInv
<1>3. TypeOK'
  BY <1>1, <1>2 DEF IInv, TypeOK, Steps
<1>4. OwnersHaveFiles'
  BY <1>1 DEF OwnersHaveFiles
<1>5. StartsAgain'
  <2> SUFFICES ASSUME ~mixed PROVE Starts(NextToStart)'
    BY <1>1 DEF StartsAgain
  <2>1. Starts(NextToStart)
    BY DEF IInv, StartsAgain
  <2>2. \A p \in {"current", "prev"} :
          file[p] = Nothing \/ Starts(file[p]) => file'[p] = file[p]
    BY <1>2, FileTypes DEF Starts, Paths
  <2>3. NextToStart' = NextToStart
    BY <2>1, <2>2 DEF NextToStart
  <2>4. QED
    BY <2>1, <2>3 DEF Starts
<1>6. QED
  BY <1>1, <1>3, <1>4, <1>5 DEF IInv

LEMMA ExitPreserves == ASSUME IInv, NEW u \in Updates, Exit(u) PROVE IInv'
<1>1. running # Down
  BY DEF Exit, IInv, TypeOK
<1>2. QED
  BY <1>1, StopPreserves DEF Exit, IInv, TypeOK

LEMMA CrashPreserves == ASSUME IInv, Crash PROVE IInv'
  BY StopPreserves, Bounded DEF Crash, IInv

LEMMA RestorePreserves == ASSUME IInv, RestoreBackup PROVE IInv'
<1>1. /\ running = Down /\ file["current"] = Nothing /\ file' = Moved("prev", "current")
      /\ UNCHANGED <<running, exe, step, path, failures, crashes, owner, mixed>>
      /\ "prev" \in Paths /\ "current" \in Paths /\ "new" \in Paths
  BY DEF RestoreBackup, historyVars, Paths
<1>2. /\ file' \in [Paths -> Files] /\ file'["current"] = file["prev"]
      /\ file'["prev"] = Nothing /\ file'["new"] = file["new"]
  BY <1>1, MovedFiles DEF IInv
<1>3. TypeOK'
  BY <1>1, <1>2 DEF IInv, TypeOK
<1>4. OwnersHaveFiles'
  BY <1>1, <1>2 DEF IInv, OwnersHaveFiles, OwnFile
<1>5. StartsAgain'
  <2>1. Starts(NextToStart) => NextToStart' = NextToStart
    BY <1>1, <1>2, FileTypes DEF NextToStart
  <2>2. QED
    BY <1>1, <2>1 DEF IInv, StartsAgain, Starts
<1>6. QED
  BY <1>1, <1>3, <1>4, <1>5 DEF IInv

LEMMA BootPreserves == ASSUME IInv, Boot PROVE IInv'
<1>1. /\ Starts(file["current"]) /\ running' = file["current"].image
      /\ exe' = "current" /\ mixed' = FALSE
      /\ UNCHANGED <<file, step, path, failures, crashes, owner>>
      /\ \A u \in Updates : step[u] = "idle"
  BY DEF Boot, IInv, TypeOK
<1>2. file["current"] # Nothing /\ running' \in Images
  BY <1>1, FileTypes DEF IInv, TypeOK, Paths
<1>3. TypeOK'
  BY <1>1, <1>2 DEF IInv, TypeOK, Paths
<1>4. OwnersHaveFiles'
  BY <1>1 DEF IInv, TypeOK, OwnersHaveFiles, OwnFile
<1>5. StartsAgain'
  BY <1>1, <1>2 DEF StartsAgain, NextToStart, Starts
<1>6. BeforeInstall'
  BY <1>1 DEF BeforeInstall, InPlace, Live, NoOldBackup, PathsKnown, Starts
<1>7. QED
  BY <1>3, <1>4, <1>5, <1>6 DEF IInv

LEMMA InitEstablishes == Init => IInv
<1> SUFFICES ASSUME Init PROVE IInv
  OBVIOUS
<1> DEFINE f == [image |-> Factory, content |-> "good", executable |-> TRUE]
<1>1. f \in Files /\ Starts(f) /\ f.image = Factory
  BY MadeFile DEF Images, Starts
<1>2. /\ file = [p \in Paths |-> IF p = "current" THEN f ELSE Nothing]
      /\ running = Factory /\ exe = "current"
      /\ step = [u \in Updates |-> "idle"] /\ path = [u \in Updates |-> "current"]
      /\ failures = 0 /\ crashes = 0 /\ owner = {} /\ mixed = FALSE
  BY DEF Init
<1> HIDE DEF f
<1>3. /\ file \in [Paths -> Files] /\ file["current"] = f /\ file["prev"] = Nothing
      /\ f # Nothing
  BY <1>1, <1>2, FileTypes DEF Paths
<1>4. failures \in 0 .. MaxFailures /\ crashes \in 0 .. MaxCrashes
  <2>1. MaxFailures \in Nat /\ MaxCrashes \in Nat
    BY UpdateAssumption
  <2>2. QED
    BY <1>2, <2>1
<1>5. TypeOK
  BY <1>2, <1>3, <1>4 DEF TypeOK, Images, Steps, Paths
<1>6. OwnersHaveFiles
  BY <1>2 DEF OwnersHaveFiles
<1>7. StartsAgain
  BY <1>1, <1>3 DEF StartsAgain, NextToStart
<1>8. BeforeInstall
  BY <1>1, <1>2, <1>3 DEF BeforeInstall, InPlace, Live, NoOldBackup, PathsKnown
<1>9. QED
  BY <1>5, <1>6, <1>7, <1>8 DEF IInv

LEMMA StutterPreserves == ASSUME IInv, UNCHANGED vars PROVE IInv'
<1>1. UNCHANGED <<file, running, exe, step, path, failures, crashes, owner, mixed>>
  BY DEF vars, historyVars
<1>2. TypeOK' /\ OwnersHaveFiles' /\ StartsAgain'
  BY <1>1 DEF IInv, TypeOK, OwnersHaveFiles, OwnFile, StartsAgain, NextToStart, Starts
<1>3. (InstalledNow' <=> InstalledNow) /\ (BeforeInstall' <=> BeforeInstall)
  BY <1>1 DEF InstalledNow, BeforeInstall, InPlace, Live, NoOldBackup, PathsKnown, Starts
<1>4. QED
  BY <1>1, <1>2, <1>3 DEF IInv

LEMMA NextPreserves == IInv /\ [Next]_vars => IInv'
  BY RequestPreserves, NoAnswerPreserves, DownloadFailsPreserves, RemovePreserves,
     CreatePreserves, VerifyPreserves, SetPermissionsPreserves, BackupPreserves,
     InstallPreserves, InstallFailsPreserves, ExitPreserves, CrashPreserves,
     RestorePreserves, BootPreserves, StutterPreserves DEF Next, Proceed

LEMMA Invariant == Spec => []IInv
<1>1. Init => IInv
  BY InitEstablishes
<1>2. IInv /\ [Next]_vars => IInv'
  BY NextPreserves
<1>3. QED
  BY <1>1, <1>2, PTL DEF Spec

-----------------------------------------------------------------------------
(* However many updates are under way, an update whose staging file none   *)
(* of them has touched installs the image it has verified                  *)
(* (update.rs:58-80, 125-190).                                             *)
THEOREM OwnersInstallWhatTheyVerified == Spec => InstallsWhatItVerified
<1>1. ASSUME IInv, [Next]_vars
      PROVE  [\A u \in Updates : Install(u) /\ u \in owner =>
                file'[path[u]] = [image |-> u, content |-> "good", executable |-> TRUE]]_vars
  BY <1>1, OwnerInstalls
<1>2. QED
  BY <1>1, Invariant, PTL DEF Spec, InstallsWhatItVerified

(* However many updates are under way, and wherever they fail or the       *)
(* process is killed: the next start finds the image that runs, or, once   *)
(* updates that were not in each other's way have installed theirs, one    *)
(* that starts (update.rs:72-95, kodama-firmware.service:14).              *)
THEOREM AlwaysStartsAgain == Spec => []NextStartWorks
<1>1. IInv => NextStartWorks
  <2> SUFFICES ASSUME IInv PROVE NextStartWorks
    OBVIOUS
  <2>1. NothingLost
    <3> SUFFICES ASSUME running # Down, \A u \in Updates : step[u] # "installed"
                 PROVE  Starts(NextToStart) /\ NextToStart.image = running
      BY DEF NothingLost
    <3>1. InPlace
      BY DEF IInv, InstalledNow, BeforeInstall
    <3>2. QED
      BY <3>1, FileTypes DEF InPlace, Live, NextToStart, Starts
  <2>2. QED
    BY <2>1 DEF IInv, NextStartWorks
<1>2. QED
  BY <1>1, Invariant, PTL

-----------------------------------------------------------------------------
(* The session.                                                            *)

(* The monitor signals at most once for each change of the route: after it *)
(* has started, a route it has not signalled yet leaves room for one more. *)
SignalsFollowRoute ==
  IF monitor = "start" THEN gen = 0
  ELSE gen <= routes /\ (route # lastSignaled => gen < routes)

(* A stream is torn only between the end of a session and its clean-up.    *)
TornInPause == torn => pc = "pause"

(* A session that was opened after the monitor had caught up stays so.     *)
CalmIsQuiet == calm => gen = seen /\ monitor = "poll" /\ ~AnotherInterface

SessionInv == SessionTypeOK /\ SignalsFollowRoute /\ TornInPause /\ CalmIsQuiet

----------------------------------------------------------------------------
LEMMA ConstantTypes ==
  Cap \in Nat /\ Cap > 0 /\ Window \in Nat /\ MaxRoutes \in Nat /\ MaxFaults \in Nat
<1>1. {Cap, Window, MaxRoutes, MaxFaults} \subseteq Nat /\ Cap > 0
  BY CameraAssumption
<1>2. QED
  BY <1>1, Zenon

(* Counting up to a bound stays within it.                                 *)
LEMMA CountUp ==
  ASSUME NEW max \in Nat, NEW n \in 0 .. max, n < max
  PROVE  n + 1 \in 0 .. max
  OBVIOUS

LEMMA NoConnectionTypes ==
  ASSUME NoConnection
  PROVE  /\ iface' \in Routes /\ unacked' \in 0 .. Window
         /\ up' \in BOOLEAN /\ torn' \in BOOLEAN /\ ~torn'
<1>1. up' \in BOOLEAN /\ torn' \in BOOLEAN /\ ~torn'
  BY Zenon DEF NoConnection
<1>2. iface' \in Routes /\ unacked' \in 0 .. Window
  BY ConstantTypes DEF NoConnection, Routes
<1>3. QED
  BY <1>1, <1>2

LEMMA SessionBegins == SessionInit => SessionInv
<1> SUFFICES ASSUME SessionInit PROVE SessionInv
  OBVIOUS
<1>1. SessionTypeOK
  <2>1. torn \in BOOLEAN /\ calm \in BOOLEAN /\ up \in BOOLEAN
    BY Zenon DEF SessionInit
  <2>2. QED
    BY <2>1, ConstantTypes DEF SessionInit, SessionTypeOK, Routes
<1>2. SignalsFollowRoute /\ TornInPause /\ CalmIsQuiet
  BY DEF SessionInit, SignalsFollowRoute, TornInPause, CalmIsQuiet
<1>3. QED
  BY <1>1, <1>2 DEF SessionInv

(* The environment: a change of the route is the only step that makes a    *)
(* new signal possible, and it ends the calm.                              *)
LEMMA EnvironmentPreserves ==
  SessionInv /\ (RouteChanges \/ LinkDies \/ Acknowledge \/ Capture) => SessionInv'
<1> SUFFICES ASSUME SessionInv, RouteChanges \/ LinkDies \/ Acknowledge \/ Capture
             PROVE SessionInv'
  OBVIOUS
<1> USE ConstantTypes DEF SessionInv, network, signal, loop, link
<1>1. CASE RouteChanges
  <2>1. routes' \in 0 .. MaxRoutes /\ route' \in Routes
    BY <1>1, CountUp DEF RouteChanges, SessionTypeOK
  <2>2. SessionTypeOK'
    BY <1>1, <2>1 DEF RouteChanges, SessionTypeOK
  <2>3. SignalsFollowRoute'
    BY <1>1 DEF RouteChanges, SessionTypeOK, SignalsFollowRoute
  <2>4. TornInPause' /\ CalmIsQuiet'
    BY <1>1 DEF RouteChanges, TornInPause, CalmIsQuiet
  <2>5. QED
    BY <2>2, <2>3, <2>4
<1>2. CASE LinkDies
  <2>1. faults' \in 0 .. MaxFaults
    BY <1>2, CountUp DEF LinkDies, SessionTypeOK
  <2>2. QED
    BY <1>2, <2>1 DEF LinkDies, SessionTypeOK, SignalsFollowRoute, TornInPause,
       CalmIsQuiet, AnotherInterface
<1>3. CASE Acknowledge
  BY <1>3 DEF Acknowledge, SessionTypeOK, SignalsFollowRoute, TornInPause, CalmIsQuiet,
              AnotherInterface
<1>4. CASE Capture
  BY <1>4 DEF Capture, HasRoom, SessionTypeOK, SignalsFollowRoute, TornInPause,
              CalmIsQuiet, AnotherInterface
<1>5. QED
  BY <1>1, <1>2, <1>3, <1>4

(* The monitor: while it is calm there is nothing for it to do.            *)
LEMMA MonitorPreserves == SessionInv /\ Monitor => SessionInv'
<1> SUFFICES ASSUME SessionInv, Monitor PROVE SessionInv'
  OBVIOUS
<1> USE ConstantTypes DEF SessionInv, network, signal, loop, link
<1>1. CASE MonitorStarts
  BY <1>1 DEF MonitorStarts, SessionTypeOK, SignalsFollowRoute, TornInPause, CalmIsQuiet
<1>2. CASE MonitorPolls
  BY <1>2 DEF MonitorPolls, SessionTypeOK, SignalsFollowRoute, TornInPause, CalmIsQuiet
<1>3. CASE MonitorSettles
  <2>1. ~calm /\ gen <= routes
    BY <1>3 DEF MonitorSettles, CalmIsQuiet, SignalsFollowRoute
  <2>2. CASE AnotherInterface
    <3>1. gen < routes /\ gen' = gen + 1 /\ lastSignaled' = route
      BY <1>3, <2>2 DEF MonitorSettles, SignalsFollowRoute, AnotherInterface
    <3>2. QED
      BY <1>3, <2>1, <3>1 DEF MonitorSettles, PollAgain, SessionTypeOK,
         SignalsFollowRoute, TornInPause, CalmIsQuiet
  <2>3. CASE ~AnotherInterface
    BY <1>3, <2>1, <2>3 DEF MonitorSettles, PollAgain, SessionTypeOK,
       SignalsFollowRoute, TornInPause, CalmIsQuiet
  <2>4. QED
    BY <2>2, <2>3
<1>4. QED
  BY <1>1, <1>2, <1>3 DEF Monitor

(* The loop outside of a session.                                          *)
LEMMA ConnectingPreserves ==
  SessionInv /\ (\/ Attempt \/ WaitForRoute \/ GoOnline \/ ConnectOk \/ ConnectFails
           \/ OpenStreamFails \/ OpenStream \/ BackoffDrains \/ BackoffEnds)
    => SessionInv'
<1> SUFFICES ASSUME SessionInv,
                    \/ Attempt \/ WaitForRoute \/ GoOnline \/ ConnectOk
                    \/ ConnectFails \/ OpenStreamFails \/ OpenStream
                    \/ BackoffDrains \/ BackoffEnds
             PROVE SessionInv'
  OBVIOUS
<1> USE ConstantTypes DEF SessionInv, network, signal, loop, link, SessionTypeOK, Routes,
        SignalsFollowRoute, TornInPause, CalmIsQuiet, AnotherInterface
<1>1. CASE Attempt
  BY <1>1 DEF Attempt
<1>2. CASE WaitForRoute
  BY <1>2 DEF WaitForRoute, Drain
<1>3. CASE GoOnline
  BY <1>3 DEF GoOnline
<1>4. CASE ConnectOk
  BY <1>4 DEF ConnectOk
<1>5. CASE ConnectFails
  <2>1. faults' \in 0 .. MaxFaults
    BY <1>5, CountUp DEF ConnectFails
  <2>2. QED
    BY <1>5, <2>1 DEF ConnectFails
<1>6. CASE OpenStreamFails
  BY <1>6, NoConnectionTypes DEF OpenStreamFails
<1>7. CASE OpenStream
  BY <1>7 DEF OpenStream, MarkSeen
<1>8. CASE BackoffDrains \/ BackoffEnds
  BY <1>8 DEF BackoffDrains, BackoffEnds
<1>9. QED
  BY <1>1, <1>2, <1>3, <1>4, <1>5, <1>6, <1>7, <1>8

(* A session: whatever ends it, it leaves the stream by way of the pause.  *)
LEMMA SessionPreserves ==
  SessionInv /\ (Receive \/ SendOk \/ SendFails \/ SendTimesOut \/ NetworkChanged \/ Pause)
    => SessionInv'
<1> SUFFICES ASSUME SessionInv,
                    \/ Receive \/ SendOk \/ SendFails
                    \/ SendTimesOut \/ NetworkChanged \/ Pause
             PROVE SessionInv'
  OBVIOUS
<1> USE ConstantTypes DEF SessionInv, network, signal, loop, link, SessionTypeOK, Routes,
        SignalsFollowRoute, TornInPause, CalmIsQuiet, AnotherInterface,
        SendCancelled, LeaveSession
<1>1. CASE Receive
  BY <1>1 DEF Receive
<1>2. CASE SendOk
  BY <1>2 DEF SendOk
<1>3. CASE SendFails
  BY <1>3 DEF SendFails
<1>4. CASE SendTimesOut
  <2>1. faults' \in 0 .. MaxFaults
    BY <1>4, CountUp DEF SendTimesOut
  <2>2. QED
    BY <1>4, <2>1 DEF SendTimesOut
<1>5. CASE NetworkChanged
  BY <1>5 DEF NetworkChanged, Streaming
<1>6. CASE Pause
  BY <1>6, NoConnectionTypes DEF Pause
<1>7. QED
  BY <1>1, <1>2, <1>3, <1>4, <1>5, <1>6

LEMMA SessionStutters == SessionInv /\ UNCHANGED sessionVars => SessionInv'
  BY DEF SessionInv, sessionVars, network, signal, loop, link, SessionTypeOK, Routes,
     SignalsFollowRoute, TornInPause, CalmIsQuiet, AnotherInterface

LEMMA SessionStep == SessionInv /\ [SessionNext]_sessionVars => SessionInv'
  BY EnvironmentPreserves, MonitorPreserves, ConnectingPreserves,
     SessionPreserves, SessionStutters DEF SessionNext, Loop

LEMMA SessionInvariant == SessionSpec => []SessionInv
  BY SessionBegins, SessionStep, PTL DEF SessionSpec

----------------------------------------------------------------------------
(* A stream with half a frame at its end is never written to again, and    *)
(* all state keeps its type; in particular a signal of the monitor is one  *)
(* for each change of the route at most (camera.rs:544-567, 944-986).      *)
THEOREM StreamsSound == SessionSpec => []StreamSound
<1>1. SessionInv => StreamSound
  BY DEF SessionInv, StreamSound, TornInPause, TornStreamAbandoned, Streaming
<1>2. QED
  BY <1>1, SessionInvariant, PTL

(* A session that was opened after the monitor had caught up with the      *)
(* route is broken by a signal only after the route has changed            *)
(* (camera.rs:498-499).                                                    *)
THEOREM StaleSignalsIgnored == SessionSpec => StaleSignalIgnored
<1>1. SessionInv /\ [SessionNext]_sessionVars => [pc' = "pause" /\ seen' # seen => ~calm]_sessionVars
  <2> SUFFICES ASSUME SessionInv, SessionNext, pc' = "pause", seen' # seen PROVE ~calm
    OBVIOUS
  <2>1. NetworkChanged
    BY DEF SessionNext, Loop, Monitor, RouteChanges, LinkDies, Acknowledge, Capture,
       MonitorStarts, MonitorPolls, MonitorSettles, Attempt, WaitForRoute,
       GoOnline, ConnectOk, ConnectFails, OpenStreamFails, OpenStream, Receive,
       SendOk, SendFails, SendTimesOut, Pause, BackoffDrains, BackoffEnds, loop
  <2>2. QED
    BY <2>1 DEF NetworkChanged, SessionInv, CalmIsQuiet
<1>2. QED
  BY <1>1, SessionInvariant, PTL DEF SessionSpec, StaleSignalIgnored

-----------------------------------------------------------------------------
(* The relay mode.  The gauges and the frames counted but not yet in the   *)
(* ring are sizes of sets of peers by stage; a step moves one peer, and    *)
(* changes each size by at most one (MoveSizes).                           *)

(* What the relay is run with: finitely many peers, none of them upstream. *)
RelayOfPeers ==
  IsFiniteSet(Peers) /\ Upstream \notin Peers /\ RingCapacity \in Nat /\ MaxForwarded \in Nat

Item == [camera : Peers, place : Nat]

(* Stages before a subscriber takes its first frame.                       *)
Early == {"new", "detecting", "camera", "forwarding", "connecting", "opening"}

EdgeShape ==
  /\ stage \in [Edge!Subscribers -> Edge!Stages]
  /\ \A p \in Peers : stage[p] # "connecting"
  /\ ring \in Seq(Item)
  /\ \A i \in 1 .. Len(ring) : ring[i].place = i
  /\ cursor \in [Edge!Subscribers -> Nat]
  /\ joined \in [Edge!Subscribers -> Int]
  /\ missed \in [Edge!Subscribers -> Nat]
  /\ out \in [Edge!Subscribers -> Seq(Item)]
  /\ stats \in [cameras : Int, clients : Int, frames_forwarded : Nat]

EdgeInHand(s) == IF stage[s] = "sending" THEN 1 ELSE 0

Following(s) ==
  /\ cursor[s] \in 1 .. Len(ring) + 1
  /\ stage[s] \in Early => Len(out[s]) = 0 /\ missed[s] = 0
  /\ stage[s] = "sending" => cursor[s] >= 2
  /\ Edge!Subscribed(s) =>
       Edge!Sent - joined[s] =
         Len(out[s]) + missed[s] + (Len(ring) + 1 - cursor[s]) + EdgeInHand(s)
  /\ \A i \in 1 .. Len(out[s]) : out[s][i].place < cursor[s] - EdgeInHand(s)
  /\ \A i \in 1 .. Len(out[s]) - 1 : out[s][i].place < out[s][i + 1].place

(* The ring has no more frames than were counted.                          *)
RingBounded == Len(ring) <= Edge!Sent /\ stats.frames_forwarded <= MaxForwarded

EdgeInv ==
  /\ EdgeShape /\ Edge!RelayGaugesExact /\ RingBounded
  /\ \A s \in Edge!Subscribers : Following(s)

------------------------------------------------------------------------------
(* Sizes.                                                                  *)

(* The sizes of EdgeRelay are sizes.                                       *)
LEMMA EdgeSizes == \A S : Edge!Cardinality(S) = Cardinality(S)
  BY DEF Edge!Cardinality, Cardinality

CountIn(f, T) == Cardinality({q \in Peers : f[q] \in T})

LEMMA CountIsNat ==
  ASSUME RelayOfPeers, NEW f, NEW T
  PROVE  CountIn(f, T) \in Nat
<1>1. IsFiniteSet({q \in Peers : f[q] \in T})
  BY FS_Subset DEF RelayOfPeers
<1>2. QED
  BY <1>1, FS_CardinalityType DEF CountIn

InSet(x, T) == IF x \in T THEN 1 ELSE 0

LEMMA MoveSizes ==
  ASSUME RelayOfPeers, EdgeShape, NEW p \in Peers, NEW to,
         stage' = [stage EXCEPT ![p] = to], NEW T
  PROVE  /\ CountIn(stage', T) = CountIn(stage, T) + InSet(to, T) - InSet(stage[p], T)
         /\ CountIn(stage, T) \in Nat
<1> DEFINE F == {q \in Peers : stage[q] \in T}
           G == {q \in Peers : stage'[q] \in T}
<1>1. /\ IsFiniteSet(F) /\ IsFiniteSet(G)
      /\ Cardinality(F) \in Nat /\ Cardinality(G) \in Nat
  BY FS_Subset, FS_CardinalityType DEF RelayOfPeers
<1>2. stage'[p] = to /\ \A q \in Peers : q # p => stage'[q] = stage[q]
  BY DEF EdgeShape, Edge!Subscribers
<1>3. CountIn(stage', T) = Cardinality(G) /\ CountIn(stage, T) = Cardinality(F)
  BY DEF CountIn
<1>4. CASE stage[p] \in T /\ to \in T
  <2>1. F = G
    BY <1>2, <1>4
  <2>2. InSet(to, T) = 1 /\ InSet(stage[p], T) = 1
    BY <1>4 DEF InSet
  <2>3. CountIn(stage', T) = Cardinality(F) /\ CountIn(stage, T) = Cardinality(F)
    BY <1>3, <2>1
  <2>4. QED
    BY <1>1, <2>2, <2>3
<1>5. CASE stage[p] \in T /\ to \notin T
  <2>1. G = F \ {p} /\ p \in F
    BY <1>2, <1>5
  <2>2. Cardinality(F \ {p}) = Cardinality(F) - 1
    BY <1>1, <2>1, FS_RemoveElement
  <2>3. InSet(to, T) = 0 /\ InSet(stage[p], T) = 1
    BY <1>5 DEF InSet
  <2>4. CountIn(stage', T) = Cardinality(F) - 1 /\ CountIn(stage, T) = Cardinality(F)
    BY <1>3, <2>1, <2>2
  <2>5. QED
    BY <1>1, <2>3, <2>4
<1>6. CASE stage[p] \notin T /\ to \in T
  <2>1. G = F \cup {p} /\ p \notin F
    BY <1>2, <1>6
  <2>2. Cardinality(F \cup {p}) = Cardinality(F) + 1
    BY <1>1, <2>1, FS_AddElement
  <2>3. QED
    BY <1>1, <1>3, <1>6, <2>1, <2>2 DEF InSet
<1>7. CASE stage[p] \notin T /\ to \notin T
  <2>1. F = G
    BY <1>2, <1>7
  <2>2. InSet(to, T) = 0 /\ InSet(stage[p], T) = 0
    BY <1>7 DEF InSet
  <2>3. CountIn(stage', T) = Cardinality(F) /\ CountIn(stage, T) = Cardinality(F)
    BY <1>3, <2>1
  <2>4. QED
    BY <1>1, <2>2, <2>3
<1>8. QED
  BY <1>4, <1>5, <1>6, <1>7

(* The gauges and the number of frames sent, by sizes.                     *)
LEMMA Sizes ==
  /\ Edge!RelayGaugesExact <=>
       /\ stats.cameras = CountIn(stage, {"camera", "forwarding"})
       /\ stats.clients = CountIn(stage, {"opening", "receiving", "sending"})
  /\ Edge!Sent = stats.frames_forwarded - CountIn(stage, {"forwarding"})
<1>1. {p \in Peers : stage[p] = "forwarding"} = {p \in Peers : stage[p] \in {"forwarding"}}
  OBVIOUS
<1>2. QED
  BY <1>1, EdgeSizes DEF Edge!RelayGaugesExact, Edge!Sent, CountIn

LEMMA SizesNext ==
  /\ Edge!RelayGaugesExact' <=>
       /\ stats'.cameras = CountIn(stage', {"camera", "forwarding"})
       /\ stats'.clients = CountIn(stage', {"opening", "receiving", "sending"})
  /\ Edge!Sent' = stats'.frames_forwarded - CountIn(stage', {"forwarding"})
<1>1. {p \in Peers : stage'[p] = "forwarding"} = {p \in Peers : stage'[p] \in {"forwarding"}}
  OBVIOUS
<1>2. QED
  BY <1>1, EdgeSizes DEF Edge!RelayGaugesExact, Edge!Sent, CountIn

LEMMA SentIsInt ==
  ASSUME RelayOfPeers, EdgeShape PROVE Edge!Sent \in Int
<1>1. stats.frames_forwarded \in Nat
  BY DEF EdgeShape
<1>2. QED
  BY <1>1, Sizes, CountIsNat

------------------------------------------------------------------------------
(* Subscribers that a step leaves alone, or that are none.                 *)

SameLocals(s) ==
  /\ cursor'[s] = cursor[s] /\ joined'[s] = joined[s]
  /\ out'[s] = out[s] /\ missed'[s] = missed[s]

LEMMA FollowingStays ==
  ASSUME NEW s \in Edge!Subscribers, Following(s), SameLocals(s),
         stage'[s] = stage[s], ring' = ring, Edge!Sent' = Edge!Sent
  PROVE  Following(s)'
<1>1. Edge!Subscribed(s)' <=> Edge!Subscribed(s)
  BY DEF Edge!Subscribed
<1>2. EdgeInHand(s)' = EdgeInHand(s)
  BY DEF EdgeInHand
<1>3. QED
  BY <1>1, <1>2 DEF Following, SameLocals

LEMMA NotSubscribed ==
  ASSUME EdgeShape, NEW s \in Edge!Subscribers, Following(s), SameLocals(s),
         Len(ring') \in {Len(ring), Len(ring) + 1},
         ~Edge!Subscribed(s)', stage'[s] \in Early => stage[s] \in Early
  PROVE  Following(s)'
<1>1. stage'[s] # "sending" /\ EdgeInHand(s)' = 0 /\ EdgeInHand(s) \in {0, 1}
  BY DEF Edge!Subscribed, EdgeInHand
<1>2. cursor[s] \in Nat /\ Len(ring) \in Nat
  BY LenProperties DEF EdgeShape
<1>3. cursor'[s] \in 1 .. Len(ring') + 1
  BY <1>2 DEF Following, SameLocals
<1>4. ASSUME NEW i \in 1 .. Len(out[s]) PROVE out[s][i].place < cursor[s]
  <2>1. out[s][i].place < cursor[s] - EdgeInHand(s)
    BY DEF Following
  <2>2. out[s] \in Seq(Item) /\ out[s][i] \in Item
    BY DEF EdgeShape
  <2>3. out[s][i].place \in Nat
    BY <2>2 DEF Item
  <2>4. QED
    BY <1>1, <1>2, <2>1, <2>3
<1>5. QED
  BY <1>1, <1>2, <1>3, <1>4 DEF Following, SameLocals

------------------------------------------------------------------------------
(* The steps.                                                              *)

LEMMA Counts ==
  ASSUME EdgeShape, NEW n \in Int
  PROVE  /\ Edge!Count("cameras", n) => stats' =
              [cameras |-> stats.cameras + n, clients |-> stats.clients,
               frames_forwarded |-> stats.frames_forwarded]
         /\ Edge!Count("clients", n) => stats' =
              [cameras |-> stats.cameras, clients |-> stats.clients + n,
               frames_forwarded |-> stats.frames_forwarded]
         /\ Edge!Count("frames_forwarded", n) => stats' =
              [cameras |-> stats.cameras, clients |-> stats.clients,
               frames_forwarded |-> stats.frames_forwarded + n]
  BY DEF Edge!Count, EdgeShape

(* The statistics change as the sizes do.                                  *)
StatsFollow(from, to) ==
  stats' = [cameras |-> stats.cameras + InSet(to, {"camera", "forwarding"})
                                      - InSet(from, {"camera", "forwarding"}),
            clients |-> stats.clients + InSet(to, {"opening", "receiving", "sending"})
                                      - InSet(from, {"opening", "receiving", "sending"}),
            frames_forwarded |-> stats.frames_forwarded + InSet(to, {"forwarding"})
                                      - InSet(from, {"forwarding"})]

LEMMA GaugesFollow ==
  ASSUME RelayOfPeers, EdgeShape, Edge!RelayGaugesExact, NEW p \in Peers, NEW to,
         stage' = [stage EXCEPT ![p] = to], StatsFollow(stage[p], to)
  PROVE  Edge!RelayGaugesExact' /\ Edge!Sent' = Edge!Sent
<1> DEFINE C == {"camera", "forwarding"}
           L == {"opening", "receiving", "sending"}
           F == {"forwarding"}
<1>1. /\ stats.cameras = CountIn(stage, C) /\ stats.clients = CountIn(stage, L)
      /\ Edge!Sent = stats.frames_forwarded - CountIn(stage, F)
      /\ stats.frames_forwarded \in Nat
  BY Sizes DEF EdgeShape
<1>2. /\ CountIn(stage', C) = CountIn(stage, C) + InSet(to, C) - InSet(stage[p], C)
      /\ CountIn(stage', L) = CountIn(stage, L) + InSet(to, L) - InSet(stage[p], L)
      /\ CountIn(stage', F) = CountIn(stage, F) + InSet(to, F) - InSet(stage[p], F)
      /\ CountIn(stage, F) \in Nat
  BY MoveSizes
<1>3. InSet(to, F) \in {0, 1} /\ InSet(stage[p], F) \in {0, 1}
  BY DEF InSet
<1>4. /\ stats'.cameras = stats.cameras + InSet(to, C) - InSet(stage[p], C)
      /\ stats'.clients = stats.clients + InSet(to, L) - InSet(stage[p], L)
      /\ stats'.frames_forwarded = stats.frames_forwarded + InSet(to, F) - InSet(stage[p], F)
  BY DEF StatsFollow
<1> HIDE DEF C, L, F
<1>5. /\ stats'.cameras = CountIn(stage', C) /\ stats'.clients = CountIn(stage', L)
      /\ stats'.frames_forwarded - CountIn(stage', F) = Edge!Sent
  BY <1>1, <1>2, <1>3, <1>4
<1>6. QED
  BY <1>5, SizesNext DEF C, L, F

(* A peer that is no subscriber moves on, and a gauge with it.             *)
LEMMA PeerMovesPreserve ==
  ASSUME RelayOfPeers, EdgeInv, NEW p \in Peers,
         \/ Edge!Accept(p) \/ Edge!DetectCamera(p) \/ Edge!AcceptStreamFails(p) \/ Edge!DetectClient(p)
         \/ Edge!ReceiveFrame(p) \/ Edge!CameraLeaves(p) \/ Edge!OpenStreamFails(p) \/ Edge!SendFails(p)
  PROVE  EdgeInv'
<1> DEFINE Moves(from, to) == stage[p] = from /\ stage' = [stage EXCEPT ![p] = to]
<1>1. UNCHANGED <<ring, cursor, joined, out, missed>>
  BY DEF Edge!Accept, Edge!DetectCamera, Edge!AcceptStreamFails, Edge!DetectClient,
     Edge!ReceiveFrame,
     Edge!CameraLeaves, Edge!OpenStreamFails, Edge!SendFails, Edge!subscriptions
<1>2. EdgeShape /\ Edge!RelayGaugesExact /\ p \in Edge!Subscribers /\ p # Upstream
  BY DEF EdgeInv, Edge!Subscribers, RelayOfPeers
<1>3. \/ Moves("new", "detecting") /\ UNCHANGED stats
      \/ Moves("detecting", "gone") /\ UNCHANGED stats
      \/ Moves("detecting", "camera") /\ Edge!Count("cameras", 1)
      \/ Moves("detecting", "opening") /\ Edge!Count("clients", 1)
      \/ Moves("camera", "forwarding") /\ Edge!Count("frames_forwarded", 1)
      \/ Moves("camera", "gone") /\ Edge!Count("cameras", -1)
      \/ Moves("opening", "gone") /\ Edge!Count("clients", -1)
      \/ Moves("sending", "gone") /\ Edge!Count("clients", -1)
  BY <1>2 DEF Edge!Accept, Edge!DetectCamera, Edge!AcceptStreamFails, Edge!DetectClient,
     Edge!ReceiveFrame,
     Edge!CameraLeaves, Edge!OpenStreamFails, Edge!SendFails, Edge!Goto
<1>4. /\ stats = [cameras |-> stats.cameras, clients |-> stats.clients,
                  frames_forwarded |-> stats.frames_forwarded]
      /\ stats.cameras \in Int /\ stats.clients \in Int
      /\ stats.frames_forwarded \in Nat
  BY <1>2 DEF EdgeShape
<1>5. \E to \in Edge!Stages : stage' = [stage EXCEPT ![p] = to] /\ StatsFollow(stage[p], to)
  <2>2. CASE Moves("new", "detecting") /\ UNCHANGED stats
    BY <1>4, <2>2 DEF StatsFollow, InSet, Edge!Stages
  <2>3. CASE Moves("detecting", "gone") /\ UNCHANGED stats
    BY <1>4, <2>3 DEF StatsFollow, InSet, Edge!Stages
  <2>4. CASE Moves("detecting", "camera") /\ Edge!Count("cameras", 1)
    BY <1>2, <1>4, <2>4, Counts DEF StatsFollow, InSet, Edge!Stages
  <2>5. CASE Moves("detecting", "opening") /\ Edge!Count("clients", 1)
    BY <1>2, <1>4, <2>5, Counts DEF StatsFollow, InSet, Edge!Stages
  <2>6. CASE Moves("camera", "forwarding") /\ Edge!Count("frames_forwarded", 1)
    BY <1>2, <1>4, <2>6, Counts DEF StatsFollow, InSet, Edge!Stages
  <2>7. CASE Moves("camera", "gone") /\ Edge!Count("cameras", -1)
    BY <1>2, <1>4, <2>7, Counts DEF StatsFollow, InSet, Edge!Stages
  <2>8. CASE Moves("opening", "gone") /\ Edge!Count("clients", -1)
    BY <1>2, <1>4, <2>8, Counts DEF StatsFollow, InSet, Edge!Stages
  <2>9. CASE Moves("sending", "gone") /\ Edge!Count("clients", -1)
    BY <1>2, <1>4, <2>9, Counts DEF StatsFollow, InSet, Edge!Stages
  <2>10. QED
    BY <1>3, <2>2, <2>3, <2>4, <2>5, <2>6, <2>7, <2>8, <2>9
<1>6. PICK to \in Edge!Stages : stage' = [stage EXCEPT ![p] = to] /\ StatsFollow(stage[p], to)
  BY <1>5
<1>7. /\ stage' \in [Edge!Subscribers -> Edge!Stages] /\ stage'[p] = to
      /\ \A s \in Edge!Subscribers : s # p => stage'[s] = stage[s]
  BY <1>2, <1>6 DEF EdgeShape
<1>8. EdgeShape'
  <2>1. \A q \in Peers : stage'[q] # "connecting"
    BY <1>2, <1>3, <1>7 DEF EdgeShape, Edge!Subscribers
  <2>0. InSet(stage[p], {"forwarding"}) = 0
    BY <1>3 DEF InSet
  <2>2. stats' \in [cameras : Int, clients : Int, frames_forwarded : Nat]
    <3>1. /\ InSet(to, {"forwarding"}) \in {0, 1}
          /\ InSet(to, {"camera", "forwarding"}) \in {0, 1}
          /\ InSet(stage[p], {"camera", "forwarding"}) \in {0, 1}
          /\ InSet(to, {"opening", "receiving", "sending"}) \in {0, 1}
          /\ InSet(stage[p], {"opening", "receiving", "sending"}) \in {0, 1}
      BY DEF InSet
    <3>2. QED
      BY <1>4, <1>6, <2>0, <3>1 DEF StatsFollow
  <2>3. QED
    BY <1>1, <1>2, <1>7, <2>1, <2>2 DEF EdgeShape
<1>9. Edge!RelayGaugesExact' /\ Edge!Sent' = Edge!Sent
  BY <1>2, <1>6, GaugesFollow
<1>10. ASSUME NEW s \in Edge!Subscribers PROVE Following(s)'
  <2>1. SameLocals(s) /\ Following(s)
    BY <1>1 DEF SameLocals, EdgeInv
  <2>2. CASE s = p
    <3>1. ~Edge!Subscribed(s)' /\ (stage'[s] \in Early => stage[s] \in Early)
      BY <1>2, <1>3, <1>7, <2>2 DEF Edge!Subscribed, Early
    <3>2. QED
      BY <1>1, <1>2, <2>1, <3>1, NotSubscribed
  <2>3. CASE s # p
    BY <1>1, <1>7, <1>9, <2>1, <2>3, FollowingStays
  <2>4. QED
    BY <2>2, <2>3
<1>11. RingBounded'
  <2>1. Len(ring) <= Edge!Sent /\ stats.frames_forwarded <= MaxForwarded
    BY DEF EdgeInv, RingBounded
  <2>2. stats'.frames_forwarded <= MaxForwarded
    <3>1. CASE Edge!ReceiveFrame(p)
      <4>1. stats.frames_forwarded < MaxForwarded /\ stats' = [stats EXCEPT !.frames_forwarded = @ + 1]
        BY <3>1 DEF Edge!ReceiveFrame, Edge!Count
      <4>2. QED
        BY <1>4, <4>1 DEF RelayOfPeers
    <3>2. CASE ~Edge!ReceiveFrame(p)
      <4>1. stats'.frames_forwarded = stats.frames_forwarded
        BY <1>2, <1>4, <3>2
        DEF Edge!Accept, Edge!DetectCamera, Edge!AcceptStreamFails, Edge!DetectClient,
            Edge!CameraLeaves, Edge!OpenStreamFails, Edge!SendFails, Edge!Count
      <4>2. QED
        BY <2>1, <4>1
    <3>3. QED
      BY <3>1, <3>2
  <2>3. QED
    BY <1>1, <1>9, <2>1, <2>2 DEF RingBounded
<1>12. QED
  BY <1>8, <1>9, <1>10, <1>11 DEF EdgeInv

(* A step that moves a subscriber within its loop, or into it, changes no   *)
(* size.                                                                    *)
LEMMA SameSizes ==
  ASSUME EdgeShape, Edge!RelayGaugesExact, stats' = stats, NEW s \in Edge!Subscribers, NEW to,
         stage' = [stage EXCEPT ![s] = to],
         s \in Peers =>
           /\ stage[s] \in {"opening", "receiving", "sending"}
           /\ to \in {"opening", "receiving", "sending"}
  PROVE  Edge!RelayGaugesExact' /\ Edge!Sent' = Edge!Sent
<1>1. stage'[s] = to /\ \A q \in Edge!Subscribers : q # s => stage'[q] = stage[q]
  BY DEF EdgeShape
<1>2. \A q \in Peers : q \in Edge!Subscribers
  BY DEF Edge!Subscribers
<1>3. /\ {q \in Peers : stage'[q] \in {"camera", "forwarding"}}
           = {q \in Peers : stage[q] \in {"camera", "forwarding"}}
      /\ {q \in Peers : stage'[q] \in {"opening", "receiving", "sending"}}
           = {q \in Peers : stage[q] \in {"opening", "receiving", "sending"}}
      /\ {q \in Peers : stage'[q] = "forwarding"} = {q \in Peers : stage[q] = "forwarding"}
  BY <1>1, <1>2
<1>4. QED
  BY <1>3 DEF Edge!RelayGaugesExact, Edge!Sent

(* It therefore preserves the invariant if it keeps the subscriber's own    *)
(* account.                                                                 *)
LEMMA LoopStepPreserves ==
  ASSUME RelayOfPeers, EdgeInv, ring' = ring, stats' = stats,
         NEW s \in Edge!Subscribers, NEW to \in Edge!Stages,
         stage' = [stage EXCEPT ![s] = to],
         s \in Peers =>
           /\ stage[s] \in {"opening", "receiving", "sending"}
           /\ to \in {"opening", "receiving", "sending"},
         cursor' \in [Edge!Subscribers -> Nat], joined' \in [Edge!Subscribers -> Int],
         missed' \in [Edge!Subscribers -> Nat], out' \in [Edge!Subscribers -> Seq(Item)],
         \A t \in Edge!Subscribers : t # s => SameLocals(t),
         Edge!Sent' = Edge!Sent => Following(s)'
  PROVE  EdgeInv'
<1>1. EdgeShape /\ Edge!RelayGaugesExact
  BY DEF EdgeInv
<1>2. Edge!RelayGaugesExact' /\ Edge!Sent' = Edge!Sent
  BY <1>1, SameSizes
<1>3. /\ stage' \in [Edge!Subscribers -> Edge!Stages] /\ stage'[s] = to
      /\ \A q \in Edge!Subscribers : q # s => stage'[q] = stage[q]
  BY <1>1 DEF EdgeShape
<1>4. \A p \in Peers : stage'[p] # "connecting"
  BY <1>1, <1>3 DEF EdgeShape, Edge!Subscribers
<1>5. EdgeShape'
  BY <1>1, <1>3, <1>4 DEF EdgeShape
<1>6. ASSUME NEW t \in Edge!Subscribers PROVE Following(t)'
  <2>1. CASE t = s
    BY <1>2, <2>1
  <2>2. CASE t # s
    <3>1. Following(t) /\ SameLocals(t) /\ stage'[t] = stage[t]
      BY <1>3, <2>2 DEF EdgeInv
    <3>2. QED
      BY <1>2, <3>1, FollowingStays
  <2>3. QED
    BY <2>1, <2>2
<1>7. RingBounded'
  BY <1>2 DEF EdgeInv, RingBounded
<1>8. QED
  BY <1>2, <1>5, <1>6, <1>7 DEF EdgeInv

(* Types of a subscriber's account.                                         *)
LEMMA Locals ==
  ASSUME RelayOfPeers, EdgeShape, NEW s \in Edge!Subscribers
  PROVE  /\ cursor[s] \in Nat /\ joined[s] \in Int /\ missed[s] \in Nat
         /\ out[s] \in Seq(Item) /\ Len(out[s]) \in Nat
         /\ Len(ring) \in Nat /\ Edge!Sent \in Int
         /\ \A i \in 1 .. Len(out[s]) : out[s][i].place \in Nat
<1>1. out[s] \in Seq(Item) /\ ring \in Seq(Item)
  BY DEF EdgeShape
<1>2. ASSUME NEW i \in 1 .. Len(out[s]) PROVE out[s][i].place \in Nat
  <2>1. out[s][i] \in Item
    BY <1>1
  <2>2. QED
    BY <2>1 DEF Item
<1>3. QED
  BY <1>1, <1>2, LenProperties, SentIsInt DEF EdgeShape

LEMMA OpenStreamPreserves ==
  ASSUME RelayOfPeers, EdgeInv, NEW p \in Peers, Edge!OpenStream(p) PROVE EdgeInv'
<1>1. EdgeShape /\ p \in Edge!Subscribers
  BY DEF EdgeInv, Edge!Subscribers
<1>2. /\ stage[p] = "opening" /\ stage' = [stage EXCEPT ![p] = "receiving"]
      /\ ring' = ring /\ stats' = stats /\ out' = out /\ missed' = missed
      /\ cursor' = [cursor EXCEPT ![p] = Len(ring) + 1]
      /\ joined' = [joined EXCEPT ![p] = Edge!Sent]
  BY DEF Edge!OpenStream, Edge!Goto, Edge!Subscribe
<1>3. /\ cursor[p] \in Nat /\ Len(ring) \in Nat /\ Edge!Sent \in Int /\ out[p] \in Seq(Item)
  BY <1>1, Locals
<1>4. cursor' \in [Edge!Subscribers -> Nat] /\ joined' \in [Edge!Subscribers -> Int]
  BY <1>1, <1>2, <1>3 DEF EdgeShape
<1>5. /\ cursor'[p] = Len(ring) + 1 /\ joined'[p] = Edge!Sent /\ stage'[p] = "receiving"
      /\ out'[p] = out[p] /\ missed'[p] = missed[p]
  BY <1>1, <1>2 DEF EdgeShape
<1>6. Len(out[p]) = 0 /\ missed[p] = 0
  BY <1>1, <1>2 DEF EdgeInv, Following, Early
<1>7. Edge!Sent' = Edge!Sent => Following(p)'
  BY <1>2, <1>3, <1>5, <1>6 DEF Following, EdgeInHand, Early
<1>8. \A t \in Edge!Subscribers : t # p => SameLocals(t)
  BY <1>1, <1>2 DEF EdgeShape, SameLocals
<1>9. out' \in [Edge!Subscribers -> Seq(Item)] /\ missed' \in [Edge!Subscribers -> Nat]
  BY <1>1, <1>2 DEF EdgeShape
<1>10. QED
  BY <1>1, <1>2, <1>4, <1>7, <1>8, <1>9, LoopStepPreserves DEF Edge!Stages

(* The upstream task moves on, its account is kept.                         *)
LEMMA UpstreamPreserves ==
  ASSUME RelayOfPeers, EdgeInv, Edge!Connect \/ Edge!ConnectFails \/ Edge!SendFails(Upstream)
  PROVE  EdgeInv'
<1>1. EdgeShape /\ Upstream \in Edge!Subscribers /\ Upstream \notin Peers /\ Following(Upstream)
  BY DEF EdgeInv, Edge!Subscribers, RelayOfPeers
<1>2. /\ ring' = ring /\ cursor' = cursor /\ joined' = joined /\ stats' = stats
      /\ out' = out /\ missed' = missed
  BY DEF Edge!Connect, Edge!ConnectFails, Edge!SendFails, Edge!subscriptions
<1>3. PICK to \in {"receiving", "gone"} :
        /\ stage' = [stage EXCEPT ![Upstream] = to]
        /\ to = "receiving" => stage[Upstream] = "connecting"
  BY DEF Edge!Connect, Edge!ConnectFails, Edge!SendFails, Edge!Goto
<1>4. stage'[Upstream] = to
  BY <1>1, <1>3 DEF EdgeShape
<1>5. \A t \in Edge!Subscribers : SameLocals(t)
  BY <1>2 DEF SameLocals
<1>6. Edge!Sent' = Edge!Sent => Following(Upstream)'
  <2>1. CASE to = "gone"
    <3>1. ~Edge!Subscribed(Upstream)' /\ stage'[Upstream] \notin Early
      BY <1>4, <2>1 DEF Edge!Subscribed, Early
    <3>2. QED
      BY <1>1, <1>2, <1>5, <3>1, NotSubscribed
  <2>2. CASE to = "receiving"
    <3>1. /\ Edge!Subscribed(Upstream) /\ EdgeInHand(Upstream) = 0 /\ EdgeInHand(Upstream)' = 0
          /\ stage'[Upstream] \notin Early /\ stage'[Upstream] # "sending"
      BY <1>3, <1>4, <2>2 DEF Edge!Subscribed, EdgeInHand, Early
    <3>2. QED
      BY <1>1, <1>2, <3>1 DEF Following
  <2>3. QED
    BY <1>3, <2>1, <2>2
<1>7. /\ cursor' \in [Edge!Subscribers -> Nat] /\ joined' \in [Edge!Subscribers -> Int]
      /\ missed' \in [Edge!Subscribers -> Nat] /\ out' \in [Edge!Subscribers -> Seq(Item)]
  BY <1>1, <1>2 DEF EdgeShape
<1>8. to \in Edge!Stages
  BY <1>3 DEF Edge!Stages
<1>9. QED
  BY <1>1, <1>2, <1>3, <1>5, <1>6, <1>7, <1>8, LoopStepPreserves

LEMMA OldestInRing ==
  ASSUME RelayOfPeers, EdgeShape
  PROVE  Edge!Oldest \in Nat /\ Edge!Oldest >= 1 /\ Edge!Oldest <= Len(ring) + 1
<1>1. Len(ring) \in Nat
  BY LenProperties DEF EdgeShape
<1>2. QED
  BY <1>1 DEF Edge!Oldest, RelayOfPeers

LEMMA TakePreserves ==
  ASSUME RelayOfPeers, EdgeInv, NEW s \in Edge!Subscribers, Edge!Take(s) PROVE EdgeInv'
<1>1. EdgeShape /\ Following(s)
  BY DEF EdgeInv
<1>2. /\ stage[s] = "receiving" /\ stage' = [stage EXCEPT ![s] = "sending"]
      /\ cursor' = [cursor EXCEPT ![s] = cursor[s] + 1]
      /\ ring' = ring /\ joined' = joined /\ stats' = stats /\ out' = out /\ missed' = missed
  BY DEF Edge!Take, Edge!Goto
<1>3. /\ cursor[s] \in Nat /\ Len(ring) \in Nat /\ Len(out[s]) \in Nat
      /\ missed[s] \in Nat /\ joined[s] \in Int /\ Edge!Sent \in Int
  BY <1>1, Locals
<1>4. cursor[s] >= 1 /\ cursor[s] <= Len(ring)
  BY <1>1, <1>3, OldestInRing DEF Edge!Take
<1>5. cursor'[s] = cursor[s] + 1 /\ stage'[s] = "sending"
  BY <1>1, <1>2 DEF EdgeShape
<1>6. /\ Edge!Subscribed(s) /\ EdgeInHand(s) = 0 /\ EdgeInHand(s)' = 1
      /\ stage'[s] \notin Early
  BY <1>2, <1>5 DEF Edge!Subscribed, EdgeInHand, Early
<1>7. ASSUME Edge!Sent' = Edge!Sent PROVE Following(s)'
  <2>1. cursor'[s] \in 1 .. Len(ring') + 1 /\ cursor'[s] >= 2
    BY <1>2, <1>3, <1>4, <1>5
  <2>2. Edge!Sent' - joined'[s] =
          Len(out'[s]) + missed'[s] + (Len(ring') + 1 - cursor'[s]) + 1
    <3>1. Edge!Sent - joined[s] = Len(out[s]) + missed[s] + (Len(ring) + 1 - cursor[s]) + 0
      BY <1>1, <1>6 DEF Following
    <3>2. /\ joined'[s] = joined[s] /\ out'[s] = out[s] /\ missed'[s] = missed[s]
          /\ Len(ring') = Len(ring) /\ cursor'[s] = cursor[s] + 1
      BY <1>2, <1>5
    <3>3. Edge!Sent - joined[s] =
            Len(out[s]) + missed[s] + (Len(ring) + 1 - (cursor[s] + 1)) + 1
      <4>1. Edge!Sent - joined[s] = Len(out[s]) + missed[s] + (Len(ring) + 1 - cursor[s])
        BY <1>3, <3>1
      <4>2. Edge!Sent - joined[s] = Len(out[s]) + missed[s] + (Len(ring) - cursor[s]) + 1
        BY <1>3, <4>1
      <4>3. Len(ring) + 1 - (cursor[s] + 1) = Len(ring) - cursor[s]
        BY <1>3
      <4>4. QED
        BY <4>2, <4>3
    <3>4. QED
      BY <1>7, <3>2, <3>3
  <2>3. \A i \in 1 .. Len(out'[s]) : out'[s][i].place < cursor'[s] - 1
    <3>1. ASSUME NEW i \in 1 .. Len(out[s]) PROVE out[s][i].place < cursor[s]
      <4>1. out[s][i].place < cursor[s] - EdgeInHand(s)
        BY <1>1 DEF Following
      <4>2. out[s] \in Seq(Item) /\ out[s][i] \in Item
        BY <1>1 DEF EdgeShape
      <4>3. out[s][i].place \in Nat
        BY <4>2 DEF Item
      <4>4. QED
        BY <1>3, <1>6, <4>1, <4>3
    <3>2. cursor'[s] - 1 = cursor[s]
      BY <1>3, <1>5
    <3>3. QED
      BY <1>2, <3>1, <3>2
  <2>4. QED
    BY <1>1, <1>2, <1>5, <1>6, <2>1, <2>2, <2>3 DEF Following
<1>8. /\ cursor' \in [Edge!Subscribers -> Nat] /\ joined' \in [Edge!Subscribers -> Int]
      /\ missed' \in [Edge!Subscribers -> Nat] /\ out' \in [Edge!Subscribers -> Seq(Item)]
  BY <1>1, <1>2, <1>3 DEF EdgeShape
<1>9. \A t \in Edge!Subscribers : t # s => SameLocals(t)
  BY <1>1, <1>2 DEF EdgeShape, SameLocals
<1>10. QED
  BY <1>2, <1>7, <1>8, <1>9, LoopStepPreserves DEF Edge!Stages

LEMMA LagPreserves ==
  ASSUME RelayOfPeers, EdgeInv, NEW s \in Edge!Subscribers, Edge!Lag(s) PROVE EdgeInv'
<1>1. EdgeShape /\ Following(s)
  BY DEF EdgeInv
<1>2. /\ stage[s] = "receiving" /\ stage' = [stage EXCEPT ![s] = "receiving"]
      /\ cursor[s] < Edge!Oldest /\ cursor' = [cursor EXCEPT ![s] = Edge!Oldest]
      /\ missed' = [missed EXCEPT ![s] = missed[s] + (Edge!Oldest - cursor[s])]
      /\ ring' = ring /\ joined' = joined /\ stats' = stats /\ out' = out
  BY <1>1 DEF Edge!Lag, EdgeShape
<1>3. /\ cursor[s] \in Nat /\ Len(ring) \in Nat /\ Len(out[s]) \in Nat
      /\ missed[s] \in Nat /\ joined[s] \in Int /\ Edge!Sent \in Int
      /\ \A i \in 1 .. Len(out[s]) : out[s][i].place \in Nat
  BY <1>1, Locals
<1>4. Edge!Oldest \in Nat /\ Edge!Oldest >= 1 /\ Edge!Oldest <= Len(ring) + 1
  BY <1>1, OldestInRing
<1>5. /\ cursor'[s] = Edge!Oldest /\ stage'[s] = "receiving"
      /\ missed'[s] = missed[s] + (Edge!Oldest - cursor[s])
  BY <1>1, <1>2 DEF EdgeShape
<1>6. /\ Edge!Subscribed(s) /\ EdgeInHand(s) = 0 /\ EdgeInHand(s)' = 0
      /\ stage'[s] \notin Early
  BY <1>2, <1>5 DEF Edge!Subscribed, EdgeInHand, Early
<1>7. ASSUME Edge!Sent' = Edge!Sent PROVE Following(s)'
  <2>1. cursor'[s] \in 1 .. Len(ring') + 1
    BY <1>2, <1>3, <1>4, <1>5
  <2>2. Edge!Sent' - joined'[s] =
          Len(out'[s]) + missed'[s] + (Len(ring') + 1 - cursor'[s]) + 0
    <3>1. Edge!Sent - joined[s] = Len(out[s]) + missed[s] + (Len(ring) + 1 - cursor[s]) + 0
      BY <1>1, <1>6 DEF Following
    <3>2. QED
      BY <1>2, <1>3, <1>4, <1>5, <1>7, <3>1
  <2>3. \A i \in 1 .. Len(out'[s]) : out'[s][i].place < cursor'[s] - 0
    <3>1. ASSUME NEW i \in 1 .. Len(out[s]) PROVE out[s][i].place < cursor[s]
      <4>1. out[s][i].place < cursor[s] - EdgeInHand(s)
        BY <1>1 DEF Following
      <4>2. out[s] \in Seq(Item) /\ out[s][i] \in Item
        BY <1>1 DEF EdgeShape
      <4>3. out[s][i].place \in Nat
        BY <4>2 DEF Item
      <4>4. QED
        BY <1>3, <1>6, <4>1, <4>3
    <3>2. QED
      BY <1>2, <1>3, <1>4, <1>5, <3>1
  <2>4. QED
    BY <1>1, <1>2, <1>5, <1>6, <2>1, <2>2, <2>3 DEF Following
<1>8. /\ cursor' \in [Edge!Subscribers -> Nat] /\ joined' \in [Edge!Subscribers -> Int]
      /\ missed' \in [Edge!Subscribers -> Nat] /\ out' \in [Edge!Subscribers -> Seq(Item)]
  <2>1. missed[s] + (Edge!Oldest - cursor[s]) \in Nat
    BY <1>2, <1>3, <1>4
  <2>2. QED
    BY <1>1, <1>2, <1>4, <2>1 DEF EdgeShape
<1>9. \A t \in Edge!Subscribers : t # s => SameLocals(t)
  BY <1>1, <1>2 DEF EdgeShape, SameLocals
<1>10. s \in Peers => stage[s] \in {"opening", "receiving", "sending"}
  BY <1>2
<1>11. QED
  BY <1>2, <1>7, <1>8, <1>9, <1>10, LoopStepPreserves DEF Edge!Stages

(* A frame that is sent is out and no longer in hand.                      *)
LEMMA OneIsOut ==
  ASSUME NEW x, NEW a \in Int, NEW b \in Int, NEW d \in Int, x = a + b + d + 1
  PROVE  x = (a + 1) + b + d + 0
OBVIOUS

(* The frame sent is the one before the cursor, and its place says so.      *)
LEMMA SendPreserves ==
  ASSUME RelayOfPeers, EdgeInv, NEW s \in Edge!Subscribers, Edge!Send(s) PROVE EdgeInv'
<1> DEFINE item == ring[cursor[s] - 1]
<1>1. EdgeShape /\ Following(s)
  BY DEF EdgeInv
<1>2. /\ stage[s] = "sending" /\ stage' = [stage EXCEPT ![s] = "receiving"]
      /\ out' = [out EXCEPT ![s] = Append(out[s], item)]
      /\ cursor' = cursor /\ ring' = ring /\ joined' = joined /\ stats' = stats
      /\ missed' = missed
  BY DEF Edge!Send, Edge!Goto, Edge!subscriptions
<1>3. /\ cursor[s] \in Nat /\ Len(ring) \in Nat /\ Len(out[s]) \in Nat
      /\ missed[s] \in Nat /\ joined[s] \in Int /\ Edge!Sent \in Int
      /\ out[s] \in Seq(Item)
      /\ \A i \in 1 .. Len(out[s]) : out[s][i].place \in Nat
  BY <1>1, Locals
<1>4. /\ Edge!Subscribed(s) /\ EdgeInHand(s) = 1 /\ cursor[s] >= 2 /\ cursor[s] <= Len(ring) + 1
  BY <1>1, <1>2, <1>3 DEF Following, Edge!Subscribed, EdgeInHand
<1>5. item \in Item /\ item.place = cursor[s] - 1
  <2>1. cursor[s] - 1 \in 1 .. Len(ring)
    BY <1>3, <1>4
  <2>2. ring \in Seq(Item) /\ \A i \in 1 .. Len(ring) : ring[i].place = i
    BY <1>1 DEF EdgeShape
  <2>3. QED
    BY <2>1, <2>2, ElementOfSeq
<1> HIDE DEF item
<1>6. stage'[s] = "receiving" /\ out'[s] = Append(out[s], item)
  BY <1>1, <1>2 DEF EdgeShape
<1>7. EdgeInHand(s)' = 0 /\ stage'[s] \notin Early
  BY <1>6 DEF EdgeInHand, Early
<1>8. /\ Len(out'[s]) = Len(out[s]) + 1
      /\ \A i \in 1 .. Len(out[s]) : out'[s][i] = out[s][i]
      /\ out'[s][Len(out[s]) + 1] = item
      /\ Append(out[s], item) \in Seq(Item)
  BY <1>3, <1>5, <1>6, AppendProperties
<1>9. \A i \in 1 .. Len(out[s]) : out[s][i].place < cursor[s] - 1
  BY <1>1, <1>4 DEF Following
<1>10. \A i \in 1 .. Len(out[s]) - 1 : out[s][i].place < out[s][i + 1].place
  BY <1>1 DEF Following
<1>11. ASSUME Edge!Sent' = Edge!Sent PROVE Following(s)'
  <2>1. cursor'[s] \in 1 .. Len(ring') + 1
    BY <1>2, <1>3, <1>4
  <2>2. Edge!Sent' - joined'[s] =
          Len(out'[s]) + missed'[s] + (Len(ring') + 1 - cursor'[s]) + 0
    <3>1. Edge!Sent - joined[s] = Len(out[s]) + missed[s] + (Len(ring) + 1 - cursor[s]) + 1
      BY <1>1, <1>4 DEF Following
    <3>2. /\ joined'[s] = joined[s] /\ Len(out'[s]) = Len(out[s]) + 1
          /\ missed'[s] = missed[s]
          /\ Len(ring') = Len(ring) /\ cursor'[s] = cursor[s]
      BY <1>2, <1>8
    <3>3. Edge!Sent - joined[s] =
            (Len(out[s]) + 1) + missed[s] + (Len(ring) + 1 - cursor[s]) + 0
      <4>1. /\ Len(out[s]) \in Int /\ missed[s] \in Int
            /\ Len(ring) + 1 - cursor[s] \in Int
        BY <1>3
      <4>2. QED
        BY <3>1, <4>1, OneIsOut
    <3>4. QED
      BY <1>11, <3>2, <3>3
  <2>3. ASSUME NEW i \in 1 .. Len(out'[s]) PROVE out'[s][i].place < cursor'[s] - 0
    <3>1. CASE i = Len(out[s]) + 1
      BY <1>2, <1>3, <1>5, <1>8, <3>1
    <3>2. CASE i # Len(out[s]) + 1
      <4>1. i \in 1 .. Len(out[s])
        BY <1>3, <1>8, <3>2
      <4>2. out'[s][i] = out[s][i] /\ out[s][i].place < cursor[s] - 1
            /\ out[s][i].place \in Nat
        BY <1>3, <1>8, <1>9, <4>1
      <4>3. QED
        BY <1>2, <1>3, <4>2
    <3>3. QED
      BY <3>1, <3>2
  <2>4. ASSUME NEW i \in 1 .. Len(out'[s]) - 1
        PROVE  out'[s][i].place < out'[s][i + 1].place
    <3>1. i \in 1 .. Len(out[s]) /\ out'[s][i] = out[s][i]
      BY <1>3, <1>8
    <3>2. CASE i = Len(out[s])
      <4>1. out'[s][i + 1] = item /\ out[s][i].place < cursor[s] - 1
        BY <1>8, <1>9, <3>1, <3>2
      <4>2. QED
        BY <1>5, <3>1, <4>1
    <3>3. CASE i # Len(out[s])
      <4>1. i \in 1 .. Len(out[s]) - 1 /\ i + 1 \in 1 .. Len(out[s])
        BY <1>3, <3>1, <3>3
      <4>2. QED
        BY <1>8, <1>10, <3>1, <4>1
    <3>4. QED
      BY <3>2, <3>3
  <2>5. QED
    BY <1>1, <1>2, <1>6, <1>7, <2>1, <2>2, <2>3, <2>4 DEF Following
<1>12. /\ cursor' \in [Edge!Subscribers -> Nat] /\ joined' \in [Edge!Subscribers -> Int]
       /\ missed' \in [Edge!Subscribers -> Nat] /\ out' \in [Edge!Subscribers -> Seq(Item)]
  BY <1>1, <1>2, <1>8 DEF EdgeShape
<1>13. \A t \in Edge!Subscribers : t # s => SameLocals(t)
  BY <1>1, <1>2 DEF EdgeShape, SameLocals
<1>14. QED
  BY <1>2, <1>11, <1>12, <1>13, LoopStepPreserves DEF Edge!Stages

(* The frame counted when it was received goes into the ring, unless nobody *)
(* subscribed.                                                              *)
LEMMA ForwardPreserves ==
  ASSUME RelayOfPeers, EdgeInv, NEW p \in Peers, Edge!ForwardFrame(p) PROVE EdgeInv'
<1> DEFINE item == [camera |-> p, place |-> Len(ring) + 1]
<1>1. EdgeShape /\ Edge!RelayGaugesExact /\ p \in Edge!Subscribers /\ p # Upstream
  BY DEF EdgeInv, Edge!Subscribers, RelayOfPeers
<1>2. /\ stage[p] = "forwarding" /\ stage' = [stage EXCEPT ![p] = "camera"]
      /\ cursor' = cursor /\ joined' = joined /\ stats' = stats /\ out' = out
      /\ missed' = missed
  BY DEF Edge!ForwardFrame, Edge!Goto, Edge!subscriptions
<1>3. /\ stage' \in [Edge!Subscribers -> Edge!Stages] /\ stage'[p] = "camera"
      /\ \A q \in Edge!Subscribers : q # p => stage'[q] = stage[q]
  BY <1>1, <1>2 DEF EdgeShape, Edge!Stages
<1>4. Len(ring) \in Nat /\ Edge!Sent \in Int /\ ring \in Seq(Item) /\ item \in Item
  <2>1. Len(ring) \in Nat /\ Edge!Sent \in Int /\ ring \in Seq(Item)
    BY <1>1, Locals DEF EdgeShape
  <2>2. QED
    BY <2>1 DEF Item
<1>5. IF \E s \in Edge!Subscribers : Edge!Subscribed(s) THEN ring' = Append(ring, item) ELSE ring' = ring
  BY DEF Edge!ForwardFrame
<1>6. /\ Append(ring, item) \in Seq(Item) /\ Len(Append(ring, item)) = Len(ring) + 1
      /\ \A i \in 1 .. Len(ring) : Append(ring, item)[i] = ring[i]
      /\ Append(ring, item)[Len(ring) + 1] = item
  BY <1>4, AppendProperties
<1>7. EdgeShape'
  <2>1. ring' \in Seq(Item)
    BY <1>4, <1>5, <1>6
  <2>2. item.place = Len(ring) + 1
    OBVIOUS
  <2>3. \A i \in 1 .. Len(ring) : ring[i].place = i
    BY <1>1 DEF EdgeShape
  <2> HIDE DEF item
  <2>4. ASSUME NEW i \in 1 .. Len(ring') PROVE ring'[i].place = i
    <3>1. CASE ring' = ring
      BY <2>3, <3>1
    <3>2. CASE ring' = Append(ring, item) /\ i = Len(ring) + 1
      BY <1>6, <2>2, <3>2
    <3>3. CASE ring' = Append(ring, item) /\ i # Len(ring) + 1
      <4>1. i \in 1 .. Len(ring) /\ ring'[i] = ring[i]
        BY <1>4, <1>6, <3>3
      <4>2. QED
        BY <2>3, <4>1
    <3>4. QED
      BY <1>5, <3>1, <3>2, <3>3
  <2>5. \A q \in Peers : stage'[q] # "connecting"
    BY <1>1, <1>3 DEF EdgeShape, Edge!Subscribers
  <2>6. QED
    BY <1>1, <1>2, <1>3, <2>1, <2>4, <2>5 DEF EdgeShape
<1> HIDE DEF item
<1>8. Edge!RelayGaugesExact' /\ Edge!Sent' = Edge!Sent + 1
  <2> DEFINE C == {"camera", "forwarding"}
             L == {"opening", "receiving", "sending"}
             F == {"forwarding"}
  <2>1. /\ InSet("camera", C) = 1 /\ InSet("forwarding", C) = 1
        /\ InSet("camera", L) = 0 /\ InSet("forwarding", L) = 0
        /\ InSet("camera", F) = 0 /\ InSet("forwarding", F) = 1
    BY DEF InSet
  <2>2. /\ CountIn(stage', C) = CountIn(stage, C) + InSet("camera", C) - InSet(stage[p], C)
        /\ CountIn(stage', L) = CountIn(stage, L) + InSet("camera", L) - InSet(stage[p], L)
        /\ CountIn(stage', F) = CountIn(stage, F) + InSet("camera", F) - InSet(stage[p], F)
        /\ CountIn(stage, C) \in Nat /\ CountIn(stage, L) \in Nat /\ CountIn(stage, F) \in Nat
    BY <1>1, <1>2, MoveSizes
  <2> HIDE DEF C, L, F
  <2>3. /\ CountIn(stage', C) = CountIn(stage, C) /\ CountIn(stage', L) = CountIn(stage, L)
        /\ CountIn(stage', F) = CountIn(stage, F) - 1 /\ CountIn(stage, F) \in Nat
    BY <1>2, <2>1, <2>2
  <2>4. stats.frames_forwarded \in Nat
    BY <1>1 DEF EdgeShape
  <2>5. /\ stats.cameras = CountIn(stage, C) /\ stats.clients = CountIn(stage, L)
        /\ Edge!Sent = stats.frames_forwarded - CountIn(stage, F)
    BY <1>1, Sizes DEF C, L, F
  <2>6. /\ stats'.cameras = CountIn(stage', C) /\ stats'.clients = CountIn(stage', L)
        /\ stats'.frames_forwarded - CountIn(stage', F) = Edge!Sent + 1
    BY <1>2, <2>3, <2>4, <2>5
  <2>7. QED
    BY <2>6, SizesNext DEF C, L, F
<1>9. ASSUME NEW s \in Edge!Subscribers PROVE Following(s)'
  <2>1. Following(s) /\ SameLocals(s)
    BY <1>2 DEF EdgeInv, SameLocals
  <2>2. CASE s = p
    <3>1. ~Edge!Subscribed(s)' /\ (stage'[s] \in Early => stage[s] \in Early)
      BY <1>1, <1>2, <1>3, <2>2 DEF Edge!Subscribed, Early
    <3>2. Len(ring') \in {Len(ring), Len(ring) + 1}
      BY <1>5, <1>6
    <3>3. QED
      BY <1>1, <2>1, <3>1, <3>2, NotSubscribed
  <2>3. CASE s # p /\ ~Edge!Subscribed(s)
    <3>1. ~Edge!Subscribed(s)' /\ stage'[s] = stage[s]
      BY <1>3, <2>3 DEF Edge!Subscribed
    <3>2. Len(ring') \in {Len(ring), Len(ring) + 1}
      BY <1>5, <1>6
    <3>3. QED
      BY <1>1, <2>1, <3>1, <3>2, NotSubscribed
  <2>4. CASE s # p /\ Edge!Subscribed(s)
    <3>1. /\ stage'[s] = stage[s] /\ Edge!Subscribed(s)' /\ EdgeInHand(s)' = EdgeInHand(s)
          /\ EdgeInHand(s) \in {0, 1}
      BY <1>3, <2>4 DEF Edge!Subscribed, EdgeInHand
    <3>2. Len(ring') = Len(ring) + 1
      BY <1>5, <1>6, <2>4
    <3>3. /\ cursor[s] \in Nat /\ Len(out[s]) \in Nat /\ missed[s] \in Nat
          /\ joined[s] \in Int
      BY <1>1, Locals
    <3>4. cursor'[s] \in 1 .. Len(ring') + 1
      BY <1>2, <1>4, <2>1, <3>2, <3>3 DEF Following
    <3>5. Edge!Sent' - joined'[s] =
            Len(out'[s]) + missed'[s] + (Len(ring') + 1 - cursor'[s]) + EdgeInHand(s)
      <4>1. Edge!Sent - joined[s] =
              Len(out[s]) + missed[s] + (Len(ring) + 1 - cursor[s]) + EdgeInHand(s)
        BY <2>1, <2>4 DEF Following
      <4>2. (Edge!Sent + 1) - joined[s] =
              Len(out[s]) + missed[s] + ((Len(ring) + 1) + 1 - cursor[s]) + EdgeInHand(s)
        <5> DEFINE rest == Len(out[s]) + missed[s]
                   ahead == Len(ring) + 1 - cursor[s]
                   h == EdgeInHand(s)
        <5>1. rest \in Int /\ ahead \in Int /\ h \in Int /\ Edge!Sent \in Int /\ joined[s] \in Int
          BY <1>4, <3>1, <3>3
        <5>2. (Len(ring) + 1) + 1 - cursor[s] = ahead + 1
          BY <1>4, <3>3
        <5>3. Edge!Sent - joined[s] = rest + ahead + h
          BY <4>1
        <5> HIDE DEF rest, ahead, h
        <5>4. (Edge!Sent + 1) - joined[s] = rest + (ahead + 1) + h
          BY <5>1, <5>3
        <5>5. QED
          BY <5>2, <5>4 DEF rest, h
      <4>3. QED
        BY <1>2, <1>8, <3>2, <4>2
    <3>6. QED
      BY <1>2, <2>1, <3>1, <3>4, <3>5 DEF Following
  <2>5. QED
    BY <2>2, <2>3, <2>4
<1>10. RingBounded'
  <2>1. Len(ring) <= Edge!Sent /\ stats'.frames_forwarded <= MaxForwarded
    BY <1>2 DEF EdgeInv, RingBounded
  <2>2. Len(ring') <= Len(ring) + 1 /\ Len(ring') \in Nat
    BY <1>4, <1>5, <1>6
  <2>3. QED
    BY <1>4, <1>8, <2>1, <2>2 DEF RingBounded
<1>11. QED
  BY <1>7, <1>8, <1>9, <1>10 DEF EdgeInv

------------------------------------------------------------------------------
(* The invariant.                                                          *)

LEMMA EdgeBegins ==
  ASSUME RelayOfPeers, Edge!Init PROVE EdgeInv
<1>1. PICK start \in {"connecting", "gone"} :
        stage = [s \in Edge!Subscribers |-> IF s # Upstream THEN "new" ELSE start]
  BY DEF Edge!Init
<1>2. /\ stage \in [Edge!Subscribers -> Edge!Stages]
      /\ \A p \in Peers : stage[p] = "new"
  BY <1>1 DEF Edge!Subscribers, Edge!Stages, RelayOfPeers
<1>3. /\ ring = <<>> /\ cursor = [s \in Edge!Subscribers |-> 1]
      /\ stats = [cameras |-> 0, clients |-> 0, frames_forwarded |-> 0]
      /\ joined = [s \in Edge!Subscribers |-> 0] /\ out = [s \in Edge!Subscribers |-> <<>>]
      /\ missed = [s \in Edge!Subscribers |-> 0]
  BY DEF Edge!Init
<1>4. EdgeShape
  <2>1. ring \in Seq(Item) /\ out \in [Edge!Subscribers -> Seq(Item)] /\ Len(ring) = 0
    BY <1>3
  <2>2. QED
    BY <1>2, <1>3, <2>1 DEF EdgeShape
<1>5. /\ {p \in Peers : stage[p] \in {"camera", "forwarding"}} = {}
      /\ {p \in Peers : stage[p] \in {"opening", "receiving", "sending"}} = {}
      /\ {p \in Peers : stage[p] = "forwarding"} = {}
  BY <1>2
<1>6. Edge!RelayGaugesExact /\ Edge!Sent = 0
  <2>1. stats.cameras = 0 /\ stats.clients = 0 /\ stats.frames_forwarded = 0
    BY <1>3
  <2>2. Cardinality({}) = 0
    BY FS_EmptySet
  <2>3. QED
    BY <1>5, <2>1, <2>2, EdgeSizes DEF Edge!RelayGaugesExact, Edge!Sent
<1>7. ASSUME NEW s \in Edge!Subscribers PROVE Following(s)
  <2>1. /\ cursor[s] = 1 /\ Len(out[s]) = 0 /\ missed[s] = 0 /\ joined[s] = 0
        /\ Len(ring) = 0
    BY <1>3
  <2>2. stage[s] # "sending"
    BY <1>1, <1>2 DEF Edge!Subscribers, RelayOfPeers
  <2>3. EdgeInHand(s) = 0
    BY <2>2 DEF EdgeInHand
  <2>4. QED
    BY <1>6, <2>1, <2>2, <2>3 DEF Following
<1>8. RingBounded
  BY <1>3, <1>6 DEF RingBounded, RelayOfPeers
<1>9. QED
  BY <1>4, <1>6, <1>7, <1>8 DEF EdgeInv

LEMMA EdgeStep ==
  ASSUME RelayOfPeers, EdgeInv, [Edge!Next]_(Edge!vars) PROVE EdgeInv'
<1>1. CASE UNCHANGED Edge!vars
  <2>1. /\ stage' = stage /\ ring' = ring /\ cursor' = cursor /\ joined' = joined
        /\ stats' = stats /\ out' = out /\ missed' = missed
    BY <1>1 DEF Edge!vars, Edge!subscriptions
  <2>2. EdgeShape' /\ Edge!RelayGaugesExact' /\ Edge!Sent' = Edge!Sent
    BY <2>1 DEF EdgeInv, EdgeShape, Edge!RelayGaugesExact, Edge!Sent
  <2>3. \A s \in Edge!Subscribers : Following(s)'
    BY <2>1, <2>2, FollowingStays DEF EdgeInv, SameLocals
  <2>4. RingBounded'
    BY <2>1, <2>2 DEF EdgeInv, RingBounded
  <2>5. QED
    BY <2>2, <2>3, <2>4 DEF EdgeInv
<1>2. ASSUME NEW p \in Peers,
             \/ Edge!Accept(p) \/ Edge!DetectCamera(p) \/ Edge!AcceptStreamFails(p) \/ Edge!DetectClient(p)
             \/ Edge!ReceiveFrame(p) \/ Edge!CameraLeaves(p) \/ Edge!OpenStreamFails(p)
      PROVE  EdgeInv'
  BY <1>2, PeerMovesPreserve
<1>3. ASSUME NEW p \in Peers, Edge!ForwardFrame(p) PROVE EdgeInv'
  BY <1>3, ForwardPreserves
<1>4. ASSUME NEW p \in Peers, Edge!OpenStream(p) PROVE EdgeInv'
  BY <1>4, OpenStreamPreserves
<1>5. CASE Edge!Connect \/ Edge!ConnectFails
  BY <1>5, UpstreamPreserves
<1>6. ASSUME NEW s \in Edge!Subscribers, Edge!Take(s) \/ Edge!Lag(s) \/ Edge!Send(s) \/ Edge!SendFails(s)
      PROVE  EdgeInv'
  <2>1. CASE Edge!Take(s)
    BY <2>1, TakePreserves
  <2>2. CASE Edge!Lag(s)
    BY <2>2, LagPreserves
  <2>3. CASE Edge!Send(s)
    BY <2>3, SendPreserves
  <2>4. CASE Edge!SendFails(s)
    <3>1. s \in Peers \/ s = Upstream
      BY DEF Edge!Subscribers
    <3>2. QED
      BY <2>4, <3>1, PeerMovesPreserve, UpstreamPreserves
  <2>5. QED
    BY <1>6, <2>1, <2>2, <2>3, <2>4
<1>7. QED
  BY <1>1, <1>2, <1>3, <1>4, <1>5, <1>6 DEF Edge!Next

LEMMA EdgeInvariant == ASSUME RelayOfPeers PROVE Edge!Spec => []EdgeInv
<1>1. Edge!Init => EdgeInv
  BY EdgeBegins
<1>2. EdgeInv /\ [Edge!Next]_(Edge!vars) => EdgeInv'
  BY EdgeStep
<1>3. QED
  BY <1>1, <1>2, PTL DEF Edge!Spec

(* In relay mode each frame sent since a client or the upstream server      *)
(* subscribed was sent on, is on its way or was reported missed, they get   *)
(* them in the order of the ring, and the gauges count the handlers that    *)
(* run, whichever way one of them ended (relay.rs:66-91, 165-217).          *)
THEOREM RelayIsExact == ASSUME RelayOfPeers PROVE Edge!Spec => []RelayExact
<1>1. ASSUME EdgeInv PROVE Edge!TypeOK
  <2>1. EdgeShape /\ RingBounded
    BY <1>1 DEF EdgeInv
  <2>2. \A s \in Edge!Subscribers : cursor[s] \in 1 .. Len(ring) + 1
    BY <1>1 DEF EdgeInv, Following
  <2>3. CountIn(stage, {"forwarding"}) \in Nat /\ stats.frames_forwarded \in Nat
    BY <2>1, CountIsNat DEF EdgeShape
  <2>4. Len(ring) \in Nat /\ Len(ring) <= MaxForwarded /\ ring \in Seq(Item)
    <3>1. Len(ring) \in Nat /\ ring \in Seq(Item)
      BY <2>1, LenProperties DEF EdgeShape
    <3>2. QED
      BY <2>1, <2>3, <3>1, Sizes DEF RingBounded, RelayOfPeers
  <2>5. ASSUME NEW i \in 1 .. Len(ring)
        PROVE  ring[i] \in [camera : Peers, place : 1 .. MaxForwarded]
    <3>1. ring[i] \in Item /\ ring[i].place = i
      BY <2>1, <2>4 DEF EdgeShape
    <3>2. i \in 1 .. MaxForwarded
      BY <2>4 DEF RelayOfPeers
    <3>3. QED
      BY <3>1, <3>2 DEF Item
  <2>6. ring \in Seq([camera : Peers, place : 1 .. MaxForwarded])
    <3>1. ring \in [1 .. Len(ring) -> Item]
      BY <2>4, LenProperties
    <3>2. ring \in [1 .. Len(ring) -> [camera : Peers, place : 1 .. MaxForwarded]]
      BY <2>5, <3>1
    <3> DEFINE S == [camera : Peers, place : 1 .. MaxForwarded]
    <3>3. ring \in [1 .. Len(ring) -> S] /\ Len(ring) \in Nat
      BY <2>4, <3>2
    <3> HIDE DEF S
    <3>4. ring \in Seq(S)
      BY <3>3, SeqDef
    <3>5. QED
      BY <3>4 DEF S
  <2>7. QED
    BY <2>1, <2>2, <2>6 DEF EdgeShape, Edge!TypeOK
<1>2. EdgeInv => RelayExact
  BY <1>1 DEF RelayExact, EdgeInv, Following, EdgeInHand,
     Edge!NothingLostUnreported, Edge!SentInOrder
<1>3. QED
  BY <1>2, EdgeInvariant, PTL

-----------------------------------------------------------------------------
(* Sequences of sequences, as FlattenSeq puts them together: by induction  *)
(* on their number.                                                        *)

(* h[i] is what the first i sequences of s are together.                   *)
IsFlattening(h, s, n) ==
  h = [i \in 1 .. n |-> IF i = 1 THEN s[i] ELSE h[i-1] \o s[i]]

LEMMA FlattenIs ==
  ASSUME NEW s, Len(s) # 0
  PROVE  FlattenSeq(s) = (CHOOSE h : IsFlattening(h, s, Len(s)))[Len(s)]
  BY Zenon DEF FlattenSeq, IsFlattening

LEMMA FlatteningExists ==
  ASSUME NEW s, NEW n \in Nat
  PROVE  \E h : IsFlattening(h, s, n)
<1> DEFINE T == {k \in Nat : \E h : IsFlattening(h, s, k)}
<1>1. 0 \in T
  <2>1. IsFlattening([i \in 1 .. 0 |-> s], s, 0)
    BY DEF IsFlattening
  <2>2. QED
    BY <2>1
<1>2. ASSUME NEW k \in Nat, k \in T PROVE k + 1 \in T
  <2>1. PICK h : IsFlattening(h, s, k)
    BY <1>2
  <2> DEFINE g == [i \in 1 .. k + 1 |->
                     IF i = k + 1 THEN IF k = 0 THEN s[i] ELSE h[k] \o s[i] ELSE h[i]]
  <2>2. ASSUME NEW i \in 1 .. k + 1
        PROVE  g[i] = IF i = 1 THEN s[i] ELSE g[i-1] \o s[i]
    <3>1. CASE i = k + 1
      BY <3>1
    <3>2. CASE i # k + 1
      <4>1. i \in 1 .. k /\ (i # 1 => i - 1 \in 1 .. k)
        BY <3>2
      <4>2. h[i] = IF i = 1 THEN s[i] ELSE h[i-1] \o s[i]
        BY <2>1, <4>1, Zenon DEF IsFlattening
      <4>3. g[i] = h[i] /\ (i # 1 => g[i-1] = h[i-1])
        BY <4>1
      <4>4. QED
        BY <4>2, <4>3, Zenon
    <3>3. QED
      BY <3>1, <3>2
  <2>3. IsFlattening(g, s, k + 1)
    BY <2>2, Zenon DEF IsFlattening
  <2>4. QED
    BY <2>3
<1>3. QED
  BY <1>1, <1>2, AllNaturals

LEMMA FlatteningAt ==
  ASSUME NEW s, NEW n, NEW h, IsFlattening(h, s, n), NEW i \in 1 .. n
  PROVE  h[i] = IF i = 1 THEN s[i] ELSE h[i-1] \o s[i]
  BY Zenon DEF IsFlattening

LEMMA FlatteningsAgree ==
  ASSUME NEW s, NEW t, NEW n \in Nat, NEW m \in Nat, n <= m, \A i \in 1 .. n : s[i] = t[i],
         NEW g, IsFlattening(g, s, n), NEW h, IsFlattening(h, t, m)
  PROVE  \A i \in 1 .. n : g[i] = h[i]
<1> DEFINE T == {k \in Nat : k \in 1 .. n => g[k] = h[k]}
<1>1. \A i \in 1 .. n : /\ g[i] = IF i = 1 THEN s[i] ELSE g[i-1] \o s[i]
                        /\ h[i] = IF i = 1 THEN t[i] ELSE h[i-1] \o t[i]
  <2>1. \A i \in 1 .. n : i \in 1 .. m
    OBVIOUS
  <2>2. QED
    BY <2>1, Zenon DEF IsFlattening
<1>2. 0 \in T
  OBVIOUS
<1>3. ASSUME NEW k \in Nat, k \in T PROVE k + 1 \in T
  <2>1. SUFFICES ASSUME k + 1 \in 1 .. n PROVE g[k+1] = h[k+1]
    OBVIOUS
  <2>2. k + 1 - 1 = k /\ (k + 1 = 1 \/ k \in 1 .. n)
    BY <2>1
  <2>3. g[k+1] = (IF k + 1 = 1 THEN s[k+1] ELSE g[k] \o s[k+1])
    BY <1>1, <2>1, <2>2
  <2>4. h[k+1] = (IF k + 1 = 1 THEN t[k+1] ELSE h[k] \o t[k+1])
    BY <1>1, <2>1, <2>2
  <2>5. s[k+1] = t[k+1] /\ (k + 1 # 1 => g[k] = h[k])
    BY <1>3, <2>1, <2>2
  <2>6. QED
    BY <2>3, <2>4, <2>5, Zenon
<1>4. Nat \subseteq T
  BY <1>2, <1>3, AllNaturals
<1>5. QED
  BY <1>4

LEMMA FlattenNothing == FlattenSeq(<<>>) = <<>>
  BY DEF FlattenSeq

LEMMA FlatteningsMeet ==
  ASSUME NEW s, NEW t, NEW n \in Nat, \A i \in 1 .. n : s[i] = t[i],
         NEW g, IsFlattening(g, s, n), NEW h, IsFlattening(h, t, n + 1)
  PROVE  h[n + 1] = IF n = 0 THEN t[1] ELSE g[n] \o t[n + 1]
<1>1. n + 1 \in Nat /\ n <= n + 1 /\ n + 1 \in 1 .. n + 1
  OBVIOUS
<1>2. n + 1 - 1 = n /\ (n = 0 <=> n + 1 = 1) /\ (n # 0 => n \in 1 .. n)
  OBVIOUS
<1>3. h[n + 1] = IF n + 1 = 1 THEN t[n + 1] ELSE h[n + 1 - 1] \o t[n + 1]
  <2>1. \A i \in 1 .. n + 1 : h[i] = IF i = 1 THEN t[i] ELSE h[i-1] \o t[i]
    BY Zenon DEF IsFlattening
  <2>2. QED
    BY <1>1, <2>1
<1>4. n # 0 => g[n] = h[n]
  <2>1. \A i \in 1 .. n : g[i] = h[i]
    BY <1>1, FlatteningsAgree
  <2>2. QED
    BY <1>2, <2>1, Zenon
<1>5. QED
  BY <1>2, <1>3, <1>4, Zenon

LEMMA FlattenLonger ==
  ASSUME NEW s, NEW t, NEW n \in Nat, Len(s) = n, Len(t) = n + 1,
         \A i \in 1 .. n : s[i] = t[i]
  PROVE  FlattenSeq(t) = IF n = 0 THEN t[1] ELSE FlattenSeq(s) \o t[n + 1]
<1>1. n + 1 \in Nat /\ n + 1 # 0
  OBVIOUS
<1>2. PICK h : IsFlattening(h, t, n + 1) /\ FlattenSeq(t) = h[n + 1]
  <2>1. \E f : IsFlattening(f, t, n + 1)
    BY <1>1, FlatteningExists
  <2>2. IsFlattening(CHOOSE f : IsFlattening(f, t, n + 1), t, n + 1)
    BY <2>1, Zenon
  <2>3. QED
    BY <1>1, <2>2, FlattenIs
<1>3. PICK g : IsFlattening(g, s, n) /\ (n # 0 => FlattenSeq(s) = g[n])
  <2>1. \E f : IsFlattening(f, s, n)
    BY FlatteningExists
  <2>2. IsFlattening(CHOOSE f : IsFlattening(f, s, n), s, n)
    BY <2>1, Zenon
  <2>3. QED
    BY <2>2, FlattenIs
<1>4. h[n + 1] = IF n = 0 THEN t[1] ELSE g[n] \o t[n + 1]
  BY <1>2, <1>3, FlatteningsMeet
<1>5. QED
  BY <1>2, <1>3, <1>4, Zenon

LEMMA FlattenAppend ==
  ASSUME NEW A, NEW s \in Seq(Seq(A)), NEW x \in Seq(A)
  PROVE  FlattenSeq(Append(s, x)) = FlattenSeq(s) \o x
<1>1. /\ Len(s) \in Nat /\ Len(Append(s, x)) = Len(s) + 1
      /\ Append(s, x)[Len(s) + 1] = x
      /\ \A i \in 1 .. Len(s) : s[i] = Append(s, x)[i]
  BY AppendProperties, LenProperties
<1>2. FlattenSeq(Append(s, x)) =
        IF Len(s) = 0 THEN Append(s, x)[1] ELSE FlattenSeq(s) \o Append(s, x)[Len(s) + 1]
  BY <1>1, FlattenLonger, Zenon
<1>3. CASE Len(s) = 0
  <2>1. s = <<>>
    BY <1>3, EmptySeq
  <2>2. QED
    BY <1>1, <1>2, <1>3, <2>1, FlattenNothing, ConcatEmptySeq
<1>4. CASE Len(s) # 0
  BY <1>1, <1>2, <1>4, Zenon
<1>5. QED
  BY <1>3, <1>4

LEMMA FlattenIsSeq ==
  ASSUME NEW A, NEW s \in Seq(Seq(A))
  PROVE  FlattenSeq(s) \in Seq(A)
<1> DEFINE T == {n \in Nat : \A q \in Seq(Seq(A)) : Len(q) = n => FlattenSeq(q) \in Seq(A)}
<1>1. 0 \in T
  <2>1. \A q \in Seq(Seq(A)) : Len(q) = 0 => q = <<>>
    BY EmptySeq
  <2>2. QED
    BY <2>1, FlattenNothing
<1>2. ASSUME NEW n \in Nat, n \in T PROVE n + 1 \in T
  <2>1. SUFFICES ASSUME NEW q \in Seq(Seq(A)), Len(q) = n + 1 PROVE FlattenSeq(q) \in Seq(A)
    OBVIOUS
  <2>2. q # <<>>
    BY <2>1
  <2>3. PICK r \in Seq(Seq(A)), x \in Seq(A) : q = Append(r, x)
    BY <2>2, SequenceEmptyOrAppend, Zenon
  <2>4. Len(r) = n
    BY <2>1, <2>3
  <2>5. FlattenSeq(r) \in Seq(A)
    BY <1>2, <2>4
  <2>6. QED
    BY <2>3, <2>5, FlattenAppend, ConcatProperties
<1>3. Len(s) \in Nat
  BY LenProperties
<1>4. QED
  BY <1>1, <1>2, <1>3, AllNaturals

-----------------------------------------------------------------------------
(* The audio capture.                                                      *)

Sample == [batch : Nat, place : Nat]

(* What the thread has received, resampled.                                *)
Resampled == [b \in 1 .. processed |-> Resample(b, batches[b])]

AudioInv ==
  /\ source_rate \in SourceRates
  /\ batches \in Seq(BatchSizes) /\ processed \in 0 .. Len(batches)
  /\ accumulator \in Seq(Sample) /\ packets \in Seq(Seq(Sample))
  /\ taken \in Nat
  /\ thread = "sending" => Len(accumulator) >= TargetSamples
  /\ AudioExact

LEMMA Quotient ==
  ASSUME NEW a \in Nat, NEW r \in Nat \ {0}
  PROVE  a \div r \in Nat /\ r * (a \div r) <= a /\ a < r * (a \div r) + r
  OBVIOUS

(* Rounding up adds less than one sample.                                  *)
LEMMA RoundedUp ==
  ASSUME source_rate \in SourceRates, NEW n \in BatchSizes
  PROVE  /\ OutputLen(n) \in Nat
         /\ OutputLen(n) * source_rate - n * TargetRate \in 0 .. source_rate - 1
<1>1. source_rate \in Nat \ {0} /\ TargetRate \in Nat \ {0} /\ n \in Nat
  BY AudioAssumption
<1> DEFINE r == source_rate
           m == n * TargetRate
           a == m + r - 1
<1>2. m \in Nat
  BY <1>1
<1>3. a \in Nat
  BY <1>1, <1>2
<1>4. OutputLen(n) = a \div r
  BY DEF OutputLen
<1>5. a \div r \in Nat /\ r * (a \div r) <= a /\ a < r * (a \div r) + r
  BY <1>1, <1>3, Quotient
<1> DEFINE k == a \div r
<1>6. k * r = r * k /\ r * k \in Int
  BY <1>1, <1>5
<1> HIDE DEF m, k
<1>7. k * r - m \in 0 .. r - 1
  BY <1>1, <1>2, <1>5, <1>6 DEF k
<1>8. QED
  BY <1>4, <1>5, <1>7 DEF m, k

LEMMA ResampleIs ==
  ASSUME source_rate \in SourceRates, NEW b \in Nat, NEW n \in BatchSizes
  PROVE  Resample(b, n) \in Seq(Sample) /\ Len(Resample(b, n)) = OutputLen(n)
<1>1. source_rate \in Nat \ {0} /\ TargetRate \in Nat \ {0} /\ OutputLen(n) \in Nat
  BY AudioAssumption, RoundedUp
<1>2. ASSUME NEW j \in 1 .. OutputLen(n)
      PROVE  [batch |-> b, place |-> ((j - 1) * source_rate) \div TargetRate] \in Sample
  <2>1. (j - 1) * source_rate \in Nat
    <3>1. j - 1 \in Nat
      BY <1>1
    <3>2. QED
      BY <1>1, <3>1
  <2>2. ((j - 1) * source_rate) \div TargetRate \in Nat
    BY <1>1, <2>1, Quotient
  <2>3. QED
    BY <2>2 DEF Sample
<1>3. QED
  BY <1>1, <1>2 DEF Resample

(* The samples recorded in the first k batches.                            *)
Recorded(k) == SumFunctionOnSet(batches, 1 .. k)

LEMMA RecordedIs ==
  ASSUME batches \in Seq(BatchSizes), NEW k \in 0 .. Len(batches)
  PROVE  /\ Recorded(k) \in Nat
         /\ k < Len(batches) => Recorded(k + 1) = batches[k + 1] + Recorded(k)
<1>1. /\ Len(batches) \in Nat
      /\ \A i \in 1 .. Len(batches) : batches[i] \in Nat
  BY LenProperties, AudioAssumption
<1>2. IsFiniteSet(1 .. k)
  BY FS_Interval
<1>3. Recorded(k) \in Nat
  BY <1>1, <1>2, SumIsNat DEF Recorded
<1>4. ASSUME k < Len(batches) PROVE Recorded(k + 1) = batches[k + 1] + Recorded(k)
  <2>1. 1 .. k + 1 = (1 .. k) \cup {k + 1} /\ k + 1 \notin 1 .. k
        /\ k + 1 \in 1 .. Len(batches)
    BY <1>1, <1>4
  <2>2. (\A i \in 1 .. k : batches[i] \in Int) /\ batches[k + 1] \in Int
    BY <1>1, <2>1
  <2>3. SumFunctionOnSet(batches, (1 .. k) \cup {k + 1}) =
          batches[k + 1] + SumFunctionOnSet(batches, 1 .. k)
    BY <1>2, <2>1, <2>2, SumTakesIn, Zenon
  <2>4. QED
    BY <2>1, <2>3, Zenon DEF Recorded
<1>5. QED
  BY <1>3, <1>4

(* AudioNotShorter, of y samples made of c in k batches at the rate r.     *)
Surplus(y, c, k, r) ==
  0 <= y * r - c * TargetRate /\ y * r - c * TargetRate <= k * (r - 1)

LEMMA SurplusIs ==
  AudioNotShorter <=>
    Surplus(Len(FlattenSeq(packets)) + Len(accumulator),
            SumFunctionOnSet(batches, 1 .. processed), processed, source_rate)
  BY Zenon DEF AudioNotShorter, Surplus

LEMMA OneBatchMore ==
  ASSUME NEW y \in Nat, NEW c \in Nat, NEW k \in Nat, NEW r \in Nat \ {0},
         NEW o \in Nat, NEW n \in Nat, o * r - n * TargetRate \in 0 .. r - 1,
         Surplus(y, c, k, r)
  PROVE  Surplus(y + o, n + c, k + 1, r)
<1>1. TargetRate \in Nat
  BY AudioAssumption
<1>2. /\ y * r \in Int /\ o * r \in Int /\ n * TargetRate \in Int
      /\ c * TargetRate \in Int /\ k * (r - 1) \in Int
  BY <1>1
<1>3. (y + o) * r = y * r + o * r
  OBVIOUS
<1>4. (n + c) * TargetRate = n * TargetRate + c * TargetRate
  BY <1>1
<1>5. (k + 1) * (r - 1) = k * (r - 1) + (r - 1)
  OBVIOUS
<1>6. QED
  BY <1>2, <1>3, <1>4, <1>5 DEF Surplus

LEMMA AudioFacts ==
  ASSUME AudioInv
  PROVE  /\ FlattenSeq(packets) \in Seq(Sample)
         /\ Len(FlattenSeq(packets)) \in Nat /\ Len(accumulator) \in Nat
         /\ Resampled \in Seq(Seq(Sample)) /\ Len(Resampled) = processed
         /\ Len(batches) \in Nat /\ Len(packets) \in Nat
         /\ source_rate \in Nat \ {0} /\ TargetRate \in Nat \ {0}
         /\ TargetSamples \in Nat \ {0} /\ PacketCapacity \in Nat \ {0}
<1>1. /\ source_rate \in SourceRates /\ batches \in Seq(BatchSizes)
      /\ processed \in 0 .. Len(batches) /\ accumulator \in Seq(Sample)
      /\ packets \in Seq(Seq(Sample))
  BY DEF AudioInv
<1>2. FlattenSeq(packets) \in Seq(Sample)
  BY <1>1, FlattenIsSeq
<1>3. ASSUME NEW b \in 1 .. processed PROVE Resample(b, batches[b]) \in Seq(Sample)
  <2>1. b \in Nat /\ batches[b] \in BatchSizes
    BY <1>1, LenProperties
  <2>2. QED
    BY <1>1, <2>1, ResampleIs
<1>4. processed \in Nat
  BY <1>1, LenProperties
<1>5. Resampled \in Seq(Seq(Sample)) /\ Len(Resampled) = processed
  BY <1>3, <1>4 DEF Resampled
<1>6. QED
  BY <1>1, <1>2, <1>5, LenProperties, AudioAssumption

LEMMA AudioBegins == AudioInit => AudioInv
<1> SUFFICES ASSUME AudioInit PROVE AudioInv
  OBVIOUS
<1>1. /\ source_rate \in SourceRates /\ batches = <<>> /\ processed = 0
      /\ accumulator = <<>> /\ thread = "receiving" /\ packets = <<>> /\ taken = 0
      /\ listening = TRUE
  BY DEF AudioInit
<1>2. AudioTypeOK
  BY <1>1, AudioAssumption DEF AudioTypeOK
<1>3. PacketsAreTheAudio
  <2>1. [b \in 1 .. processed |-> Resample(b, batches[b])] = <<>>
    BY <1>1
  <2>2. FlattenSeq(packets) \o accumulator = <<>>
    BY <1>1, FlattenNothing
  <2>3. QED
    BY <1>1, <2>1, <2>2, FlattenNothing DEF PacketsAreTheAudio
<1>4. AudioNotShorter
  <2>1. SumFunctionOnSet(batches, 1 .. processed) = 0
    <3>1. 1 .. processed = {}
      BY <1>1
    <3>2. QED
      BY <3>1, SumOfNothing
  <2>2. Len(FlattenSeq(packets)) + Len(accumulator) = 0
    BY <1>1, FlattenNothing
  <2>3. source_rate \in Nat \ {0} /\ TargetRate \in Nat \ {0}
    BY <1>1, AudioAssumption
  <2>4. 0 * source_rate = 0 /\ 0 * TargetRate = 0 /\ 0 * (source_rate - 1) = 0
    BY <2>3
  <2>5. Surplus(Len(FlattenSeq(packets)) + Len(accumulator),
                SumFunctionOnSet(batches, 1 .. processed), processed, source_rate)
    BY <1>1, <2>1, <2>2, <2>4 DEF Surplus
  <2>6. QED
    BY <2>5, SurplusIs, Zenon
<1>5. QED
  BY <1>1, <1>2, <1>3, <1>4 DEF AudioInv, AudioExact

(* A step that neither receives a batch nor cuts a packet.                 *)
LEMMA AudioStays ==
  ASSUME AudioInv, UNCHANGED <<source_rate, processed, accumulator, packets>>,
         batches' \in Seq(BatchSizes), Len(batches') >= Len(batches),
         \A i \in 1 .. Len(batches) : batches'[i] = batches[i],
         taken' \in taken .. Len(packets), listening' \in BOOLEAN,
         thread' \in {thread, "ended"}
  PROVE  AudioInv'
<1>1. processed \in 0 .. Len(batches) /\ batches \in Seq(BatchSizes)
      /\ Len(batches) \in Nat /\ Len(batches') \in Nat /\ taken \in Nat /\ AudioExact
  BY AudioFacts, LenProperties DEF AudioInv
<1>2. [b \in 1 .. processed |-> Resample(b, batches[b])]' =
        [b \in 1 .. processed |-> Resample(b, batches[b])]
  BY <1>1 DEF Resample, OutputLen
<1>3. SumFunctionOnSet(batches', 1 .. processed) = SumFunctionOnSet(batches, 1 .. processed)
  <2>1. processed \in Int /\ \A i \in 1 .. processed : i \in 1 .. Len(batches)
    BY <1>1
  <2>2. IsFiniteSet(1 .. processed)
    BY <2>1, FS_Interval
  <2>3. QED
    BY <2>1, <2>2, SumOfSame, Zenon
<1>4. PacketsAreTheAudio'
  BY <1>1, <1>2 DEF AudioExact, PacketsAreTheAudio
<1>5. AudioNotShorter'
  BY <1>1, <1>3 DEF AudioExact, AudioNotShorter
<1>6. AudioTypeOK'
  BY <1>1, AudioFacts DEF AudioExact, AudioTypeOK
<1>7. QED
  BY <1>1, <1>4, <1>5, <1>6, AudioFacts DEF AudioInv, AudioExact

LEMMA ProcessStep == AudioInv /\ Process => AudioInv'
<1> SUFFICES ASSUME AudioInv, Process PROVE AudioInv'
  OBVIOUS
<1> DEFINE p == processed + 1
           n == batches[p]
           R == Resample(p, n)
           F == FlattenSeq(packets)
<1>1. /\ source_rate \in SourceRates /\ batches \in Seq(BatchSizes)
      /\ processed \in 0 .. Len(batches) /\ accumulator \in Seq(Sample)
      /\ packets \in Seq(Seq(Sample)) /\ taken \in Nat
      /\ AudioTypeOK /\ PacketsAreTheAudio /\ AudioNotShorter
  BY DEF AudioInv, AudioExact
<1>2. /\ processed < Len(batches) /\ processed' = p /\ accumulator' = accumulator \o R
      /\ thread' = IF Len(accumulator') >= TargetSamples THEN "sending" ELSE "receiving"
      /\ UNCHANGED <<source_rate, batches, packets, taken, listening>>
  BY DEF Process, Resample, OutputLen, Remainder
<1>3. p \in 1 .. Len(batches) /\ n \in BatchSizes /\ p \in Nat
  BY <1>1, <1>2, AudioFacts
<1>4. R \in Seq(Sample) /\ Len(R) = OutputLen(n) /\ OutputLen(n) \in Nat
  BY <1>1, <1>3, ResampleIs, RoundedUp
<1>5. /\ F \in Seq(Sample) /\ Len(F) \in Nat /\ Len(accumulator) \in Nat
      /\ Resampled \in Seq(Seq(Sample)) /\ Len(Resampled) = processed
      /\ processed \in Nat
  BY <1>1, AudioFacts
<1> HIDE DEF n, R, F
<1>6. accumulator' \in Seq(Sample) /\ Len(accumulator') = Len(accumulator) + OutputLen(n)
  BY <1>1, <1>2, <1>4, ConcatProperties
<1>7. Resampled' = Append(Resampled, R)
  <2>1. Resampled' = [b \in 1 .. p |-> Resample(b, batches[b])]
    BY <1>2 DEF Resampled, Resample, OutputLen
  <2>2. /\ Append(Resampled, R) \in Seq(Seq(Sample))
        /\ Len(Append(Resampled, R)) = p
        /\ \A b \in 1 .. p : Append(Resampled, R)[b] = IF b = p THEN R ELSE Resampled[b]
    BY <1>4, <1>5, AppendProperties
  <2>3. Append(Resampled, R) = [b \in 1 .. p |-> IF b = p THEN R ELSE Resampled[b]]
    BY <2>2, LenProperties
  <2>4. ASSUME NEW b \in 1 .. p
        PROVE  Resample(b, batches[b]) = IF b = p THEN R ELSE Resampled[b]
    <3>1. b # p => b \in 1 .. processed
      BY <1>5
    <3>2. b # p => Resampled[b] = Resample(b, batches[b])
      BY <3>1, Zenon DEF Resampled
    <3>3. QED
      BY <3>2, Zenon DEF R, n
  <2>5. QED
    BY <2>1, <2>3, <2>4, Zenon
<1>8. PacketsAreTheAudio'
  <2>1. F \o accumulator = FlattenSeq(Resampled)
    BY <1>1 DEF PacketsAreTheAudio, F, Resampled
  <2>2. FlattenSeq(Append(Resampled, R)) = FlattenSeq(Resampled) \o R
    BY <1>4, <1>5, FlattenAppend
  <2>3. (F \o accumulator) \o R = F \o (accumulator \o R)
    <3>1. F \in Seq(Sample) /\ accumulator \in Seq(Sample) /\ R \in Seq(Sample)
      BY <1>1, <1>4, <1>5
    <3>2. QED
      BY <3>1, ConcatAssociative
  <2>4. FlattenSeq(packets') \o accumulator' = FlattenSeq(Resampled')
    BY <1>2, <1>7, <2>1, <2>2, <2>3, Zenon DEF F
  <2>5. \A i \in DOMAIN packets' : Len(packets'[i]) = TargetSamples
    BY <1>1, <1>2, Zenon DEF PacketsAreTheAudio
  <2>6. QED
    BY <2>4, <2>5, Zenon DEF PacketsAreTheAudio, Resampled
<1>9. AudioNotShorter'
  <2> DEFINE y == Len(F) + Len(accumulator)
             c == Recorded(processed)
             r == source_rate
             o == OutputLen(n)
  <2>1. c \in Nat /\ Recorded(p) = n + c
    BY <1>1, <1>2, RecordedIs DEF n
  <2>3. r \in Nat \ {0} /\ n \in Nat /\ o \in Nat
    BY <1>3, <1>4, AudioFacts, AudioAssumption
  <2>4. o * r - n * TargetRate \in 0 .. r - 1
    BY <1>1, <1>3, RoundedUp
  <2>5. Surplus(y, c, processed, r)
    BY <1>1, SurplusIs, Zenon DEF F, Recorded
  <2>6. y \in Nat
    BY <1>5
  <2>7. Surplus(y + o, n + c, p, r)
    BY <1>5, <2>1, <2>3, <2>4, <2>5, <2>6, OneBatchMore
  <2>8. Len(FlattenSeq(packets')) + Len(accumulator') = y + o
    BY <1>2, <1>4, <1>5, <1>6 DEF F
  <2>9. SumFunctionOnSet(batches', 1 .. processed') = n + c
    BY <1>2, <2>1, Zenon DEF Recorded
  <2> HIDE DEF y, c, o
  <2>10. QED
    BY <1>2, <2>7, <2>8, <2>9, Zenon DEF AudioNotShorter, Surplus
<1>10. QED
  BY <1>1, <1>2, <1>3, <1>6, <1>8, <1>9 DEF AudioInv, AudioExact, AudioTypeOK

LEMMA SendPacketStep == AudioInv /\ SendPacket => AudioInv'
<1> SUFFICES ASSUME AudioInv, SendPacket PROVE AudioInv'
  OBVIOUS
<1> DEFINE N == TargetSamples
           n == Len(accumulator)
           first == SubSeq(accumulator, 1, N)
           rest == SubSeq(accumulator, N + 1, n)
           F == FlattenSeq(packets)
<1>1. /\ source_rate \in SourceRates /\ batches \in Seq(BatchSizes)
      /\ processed \in 0 .. Len(batches) /\ accumulator \in Seq(Sample)
      /\ packets \in Seq(Seq(Sample)) /\ taken \in Nat
      /\ AudioTypeOK /\ PacketsAreTheAudio /\ AudioNotShorter
  BY DEF AudioInv, AudioExact
<1>2. /\ listening /\ Len(packets) - taken < PacketCapacity
      /\ packets' = Append(packets, first) /\ accumulator' = rest
      /\ thread' = IF Len(accumulator') >= TargetSamples THEN "sending" ELSE "receiving"
      /\ UNCHANGED <<source_rate, batches, processed, taken, listening>>
  BY DEF SendPacket
<1>3. N \in Nat \ {0} /\ n \in Nat /\ N <= n
  BY AudioFacts DEF AudioInv, SendPacket
<1>4. F \in Seq(Sample) /\ Len(F) \in Nat /\ Len(packets) \in Nat /\ PacketCapacity \in Nat
  BY AudioFacts
<1>5. /\ first \in Seq(Sample) /\ Len(first) = N
      /\ rest \in Seq(Sample) /\ Len(rest) = n - N
  BY <1>1, <1>3, LenProperties, SubSeqProperties
<1>6. first \o rest = accumulator
  <2>1. 1 \in 1 .. n + 1 /\ N \in 1 - 1 .. n /\ n \in N .. n
    BY <1>3
  <2>2. first \o rest = SubSeq(accumulator, 1, n)
    BY <1>1, <2>1, ConcatAdjacentSubSeq
  <2>3. QED
    BY <1>1, <2>2, SubSeqFull
<1> HIDE DEF first, rest, F, n
<1>7. /\ packets' \in Seq(Seq(Sample)) /\ Len(packets') = Len(packets) + 1
      /\ \A i \in 1 .. Len(packets') :
           packets'[i] = IF i = Len(packets) + 1 THEN first ELSE packets[i]
  BY <1>1, <1>2, <1>5, AppendProperties
<1>8. FlattenSeq(packets') = F \o first
  BY <1>1, <1>2, <1>5, FlattenAppend DEF F
<1>9. FlattenSeq(packets') \o accumulator' = F \o accumulator
  <2>1. (F \o first) \o rest = F \o (first \o rest)
    <3>1. F \in Seq(Sample) /\ first \in Seq(Sample) /\ rest \in Seq(Sample)
      BY <1>4, <1>5
    <3>2. QED
      BY <3>1, ConcatAssociative
  <2>2. QED
    BY <1>2, <1>6, <1>8, <2>1, Zenon
<1>10. Len(FlattenSeq(packets')) + Len(accumulator') = Len(F) + Len(accumulator)
  <2>1. Len(F \o first) = Len(F) + N
    BY <1>4, <1>5, ConcatProperties
  <2>2. Len(FlattenSeq(packets')) = Len(F) + N /\ Len(accumulator') = n - N
    BY <1>2, <1>5, <1>8, <2>1, Zenon
  <2>3. QED
    BY <1>3, <1>4, <2>2 DEF n
<1>11. PacketsAreTheAudio'
  <2>1. [b \in 1 .. processed |-> Resample(b, batches[b])]' =
          [b \in 1 .. processed |-> Resample(b, batches[b])]
    BY <1>2 DEF Resample, OutputLen
  <2>2. F \o accumulator = FlattenSeq([b \in 1 .. processed |-> Resample(b, batches[b])])
    BY <1>1 DEF PacketsAreTheAudio, F
  <2>3. \A i \in DOMAIN packets' : Len(packets'[i]) = TargetSamples
    <3>1. DOMAIN packets' = 1 .. Len(packets) + 1 /\ DOMAIN packets = 1 .. Len(packets)
      BY <1>1, <1>7, LenProperties
    <3>2. QED
      BY <1>1, <1>4, <1>5, <1>7, <3>1 DEF PacketsAreTheAudio
  <2>4. QED
    BY <1>9, <2>1, <2>2, <2>3, Zenon DEF PacketsAreTheAudio
<1>12. AudioNotShorter'
  <2>1. Surplus(Len(FlattenSeq(packets')) + Len(accumulator'),
                SumFunctionOnSet(batches, 1 .. processed), processed, source_rate)
    BY <1>1, <1>10, SurplusIs, Zenon DEF F
  <2>2. QED
    BY <1>2, <2>1, Zenon DEF AudioNotShorter, Surplus
<1>13. AudioTypeOK'
  BY <1>1, <1>2, <1>4, <1>7 DEF AudioTypeOK
<1>14. QED
  BY <1>1, <1>2, <1>5, <1>7, <1>11, <1>12, <1>13 DEF AudioInv, AudioExact

LEMMA AudioStep == AudioInv /\ [AudioNext]_audioVars => AudioInv'
<1> SUFFICES ASSUME AudioInv, [AudioNext]_audioVars PROVE AudioInv'
  OBVIOUS
<1>1. /\ batches \in Seq(BatchSizes) /\ Len(batches) \in Nat /\ Len(packets) \in Nat
      /\ taken \in 0 .. Len(packets) /\ listening \in BOOLEAN
  BY AudioFacts DEF AudioInv, AudioExact, AudioTypeOK
<1>2. ASSUME NEW n \in BatchSizes, Callback(n) PROVE AudioInv'
  <2>1. /\ batches' \in Seq(BatchSizes) /\ Len(batches') = Len(batches) + 1
        /\ \A i \in 1 .. Len(batches) : batches'[i] = batches[i]
    BY <1>1, <1>2, AppendProperties DEF Callback
  <2>2. QED
    BY <1>1, <1>2, <2>1, AudioStays DEF Callback
<1>3. CASE PacketFails
  BY <1>1, <1>3, AudioStays DEF PacketFails
<1>4. CASE TakePacket
  BY <1>1, <1>4, AudioStays DEF TakePacket
<1>5. CASE DropReceiver
  <2>1. listening' \in BOOLEAN
    BY <1>5, Zenon DEF DropReceiver
  <2>2. /\ UNCHANGED <<source_rate, batches, processed, accumulator, packets>>
        /\ taken' \in taken .. Len(packets) /\ thread' \in {thread, "ended"}
    BY <1>1, <1>5 DEF DropReceiver
  <2>3. /\ batches' \in Seq(BatchSizes) /\ Len(batches') >= Len(batches)
        /\ \A i \in 1 .. Len(batches) : batches'[i] = batches[i]
    BY <1>1, <2>2
  <2>4. QED
    BY <2>1, <2>2, <2>3, AudioStays
<1>6. CASE UNCHANGED audioVars
  BY <1>1, <1>6, AudioStays DEF audioVars
<1>7. QED
  BY <1>2, <1>3, <1>4, <1>5, <1>6, ProcessStep, SendPacketStep DEF AudioNext

(* The audio thread neither loses nor doubles nor reorders samples, and    *)
(* what it makes of them is as long as the recording, for any rates of the *)
(* device and sizes of its batches (audio.rs:194-268).                     *)
THEOREM AudioIsExact == AudioSpec => []AudioExact
<1>1. AudioInv => AudioExact
  BY DEF AudioInv
<1>2. QED
  BY <1>1, AudioBegins, AudioStep, PTL DEF AudioSpec

-----------------------------------------------------------------------------
(* The units of the video stream.                                          *)

Byte == 0 .. 255

Unit == [code : {3, 4}, nal : Nals]

(* Unit i, as it is written.                                               *)
Bytes(i) == StartCode(units[i].code) \o units[i].nal

LEMMA StartCodes ==
  /\ StartCode(3) = <<0, 0, 1>> /\ StartCode(4) = <<0, 0, 0, 1>>
  /\ \A c \in {3, 4} : /\ StartCode(c) \in Seq(Byte) /\ Len(StartCode(c)) = c
                       /\ \A j \in 1 .. c : StartCode(c)[j] = IF j = c THEN 1 ELSE 0
<1>1. StartCode(3) = <<0, 0, 1>> /\ StartCode(4) = <<0, 0, 0, 1>>
  BY DEF StartCode
<1>2. /\ <<0, 0, 1>> \in Seq(Byte) /\ Len(<<0, 0, 1>>) = 3
      /\ <<0, 0, 1>>[1] = 0 /\ <<0, 0, 1>>[2] = 0 /\ <<0, 0, 1>>[3] = 1
  BY DEF Byte
<1>3. /\ <<0, 0, 0, 1>> \in Seq(Byte) /\ Len(<<0, 0, 0, 1>>) = 4
      /\ <<0, 0, 0, 1>>[1] = 0 /\ <<0, 0, 0, 1>>[2] = 0
      /\ <<0, 0, 0, 1>>[3] = 0 /\ <<0, 0, 0, 1>>[4] = 1
  BY DEF Byte
<1>4. \A j \in 1 .. 3 : j = 1 \/ j = 2 \/ j = 3
  OBVIOUS
<1>5. \A j \in 1 .. 4 : j = 1 \/ j = 2 \/ j = 3 \/ j = 4
  OBVIOUS
<1>6. \A j \in 1 .. 3 : StartCode(3)[j] = IF j = 3 THEN 1 ELSE 0
  BY <1>1, <1>2, <1>4
<1>7. \A j \in 1 .. 4 : StartCode(4)[j] = IF j = 4 THEN 1 ELSE 0
  BY <1>1, <1>3, <1>5
<1> DEFINE Fine(c) == /\ StartCode(c) \in Seq(Byte) /\ Len(StartCode(c)) = c
                     /\ \A j \in 1 .. c : StartCode(c)[j] = IF j = c THEN 1 ELSE 0
<1>8. Fine(3)
  BY <1>1, <1>2, <1>6, Zenon
<1>9. Fine(4)
  BY <1>1, <1>3, <1>7, Zenon
<1> HIDE DEF Fine
<1>10. \A c \in {3, 4} : Fine(c)
  BY <1>8, <1>9, Zenon
<1>11. QED
  BY <1>1, <1>10, Zenon DEF Fine

LEMMA UnitBytes ==
  ASSUME units \in Seq(Unit), NEW i \in 1 .. Len(units)
  PROVE  /\ units[i].code \in {3, 4} /\ units[i].nal \in Seq(Byte)
         /\ Len(units[i].nal) \in Nat \ {0} /\ units[i].nal[Len(units[i].nal)] # 0
         /\ Bytes(i) \in Seq(Byte)
         /\ Len(Bytes(i)) = units[i].code + Len(units[i].nal)
         /\ \A j \in 1 .. units[i].code :
              Bytes(i)[j] = IF j = units[i].code THEN 1 ELSE 0
         /\ \A j \in 1 .. Len(units[i].nal) :
              Bytes(i)[units[i].code + j] = units[i].nal[j]
<1> DEFINE c == units[i].code
           nal == units[i].nal
<1>1. units[i] \in Unit
  BY ElementOfSeq
<1>2. c \in {3, 4} /\ nal \in Nals
  BY <1>1 DEF Unit
<1>3. nal \in Seq(Byte) /\ nal # <<>> /\ nal[Len(nal)] # 0
  BY <1>2, ParserAssumption DEF IsNal, Byte
<1> HIDE DEF c, nal
<1>4. Len(nal) \in Nat \ {0}
  BY <1>3, EmptySeq
<1>5. /\ StartCode(c) \in Seq(Byte) /\ Len(StartCode(c)) = c
      /\ \A j \in 1 .. c : StartCode(c)[j] = IF j = c THEN 1 ELSE 0
  BY <1>2, StartCodes, Zenon
<1> DEFINE sc == StartCode(c)
<1> HIDE DEF sc
<1>6. /\ sc \o nal \in Seq(Byte) /\ Len(sc \o nal) = Len(sc) + Len(nal)
      /\ \A j \in 1 .. Len(sc) + Len(nal) :
           (sc \o nal)[j] = IF j <= Len(sc) THEN sc[j] ELSE nal[j - Len(sc)]
  BY <1>3, <1>5, ConcatProperties DEF sc
<1>7. Len(sc) = c /\ \A j \in 1 .. c : sc[j] = IF j = c THEN 1 ELSE 0
  BY <1>5 DEF sc
<1>8. /\ \A j \in 1 .. c : (sc \o nal)[j] = IF j = c THEN 1 ELSE 0
      /\ \A j \in 1 .. Len(nal) : (sc \o nal)[c + j] = nal[j]
  BY <1>2, <1>4, <1>6, <1>7
<1>9. Bytes(i) = sc \o nal
  BY DEF Bytes, sc, c, nal
<1>10. QED
  BY <1>2, <1>3, <1>4, <1>6, <1>7, <1>8, <1>9 DEF c, nal

(* The stream up to unit i.                                                *)
UpTo(i) == Stream(SubSeq(units, 1, i - 1))

LEMMA UpToGrows ==
  ASSUME units \in Seq(Unit), NEW i \in 1 .. Len(units)
  PROVE  /\ UpTo(i) \in Seq(Byte) /\ UpTo(i + 1) \in Seq(Byte)
         /\ UpTo(i + 1) = UpTo(i) \o Bytes(i)
<1> DEFINE Parts(k) == [j \in 1 .. k |-> Bytes(j)]
<1>1. Len(units) \in Nat
  BY LenProperties
<1>2. ASSUME NEW k \in 0 .. Len(units)
      PROVE  Stream(SubSeq(units, 1, k)) = FlattenSeq(Parts(k)) /\ Parts(k) \in Seq(Seq(Byte))
  <2>1. DOMAIN SubSeq(units, 1, k) = 1 .. k
    BY <1>1, <1>2
  <2>2. \A j \in 1 .. k : SubSeq(units, 1, k)[j] = units[j]
    BY <1>1, <1>2
  <2>3. [j \in DOMAIN SubSeq(units, 1, k) |->
           StartCode(SubSeq(units, 1, k)[j].code) \o SubSeq(units, 1, k)[j].nal] = Parts(k)
    BY <2>1, <2>2, Zenon DEF Bytes
  <2>4. \A j \in 1 .. k : j \in 1 .. Len(units)
    BY <1>1
  <2>5. \A j \in 1 .. k : Bytes(j) \in Seq(Byte)
    BY <2>4, UnitBytes
  <2>6. Parts(k) \in Seq(Seq(Byte))
    BY <1>1, <2>5
  <2>7. QED
    BY <2>3, <2>6, Zenon DEF Stream
<1>3. i - 1 \in 0 .. Len(units) /\ i \in 0 .. Len(units) /\ i - 1 \in Nat
  BY <1>1
<1>4. Bytes(i) \in Seq(Byte)
  BY UnitBytes
<1>5. Parts(i) = Append(Parts(i - 1), Bytes(i))
  <2>1. Parts(i - 1) \in Seq(Seq(Byte)) /\ Parts(i) \in Seq(Seq(Byte))
    BY <1>2, <1>3
  <2>2. Len(Parts(i - 1)) = i - 1 /\ Len(Parts(i)) = i
    BY <1>3
  <2>3. /\ Append(Parts(i - 1), Bytes(i)) \in Seq(Seq(Byte))
        /\ Len(Append(Parts(i - 1), Bytes(i))) = i
        /\ \A j \in 1 .. i :
             Append(Parts(i - 1), Bytes(i))[j] = IF j = i THEN Bytes(i) ELSE Parts(i - 1)[j]
    <3> HIDE DEF Parts
    <3>1. QED
      BY <1>3, <1>4, <2>1, <2>2, AppendProperties
  <2>4. \A j \in 1 .. i : Parts(i)[j] = IF j = i THEN Bytes(i) ELSE Parts(i - 1)[j]
    BY <1>3
  <2> HIDE DEF Parts
  <2>5. \A j \in 1 .. Len(Parts(i)) : Parts(i)[j] = Append(Parts(i - 1), Bytes(i))[j]
    BY <2>2, <2>3, <2>4
  <2>6. QED
    BY <2>1, <2>2, <2>3, <2>5, SeqEqual
<1> HIDE DEF Parts
<1>6. FlattenSeq(Append(Parts(i - 1), Bytes(i))) = FlattenSeq(Parts(i - 1)) \o Bytes(i)
  BY <1>2, <1>3, <1>4, FlattenAppend
<1>7. FlattenSeq(Parts(i - 1)) \in Seq(Byte)
  BY <1>2, <1>3, FlattenIsSeq
<1>8. UpTo(i) = FlattenSeq(Parts(i - 1))
  BY <1>2, <1>3, Zenon DEF UpTo
<1>9. UpTo(i + 1) = FlattenSeq(Parts(i))
  <2>1. SubSeq(units, 1, (i + 1) - 1) = SubSeq(units, 1, i)
    OBVIOUS
  <2>2. Stream(SubSeq(units, 1, (i + 1) - 1)) = Stream(SubSeq(units, 1, i))
    BY <2>1, Zenon
  <2>3. QED
    BY <1>2, <1>3, <2>2, Zenon DEF UpTo
<1>10. UpTo(i + 1) = UpTo(i) \o Bytes(i)
  BY <1>5, <1>6, <1>8, <1>9, Zenon
<1>11. UpTo(i) \in Seq(Byte)
  BY <1>7, <1>8, Zenon
<1>12. QED
  BY <1>4, <1>10, <1>11, ConcatProperties

LEMMA UpToEnds ==
  ASSUME units \in Seq(Unit)
  PROVE  /\ UpTo(1) = <<>> /\ UpTo(Len(units) + 1) = Stream(units)
         /\ \A i : Before(i) = Len(UpTo(i))
<1>1. SubSeq(units, 1, 1 - 1) = <<>>
  BY SubSeqEmpty
<1>2. Stream(<<>>) = <<>>
  <2>1. [i \in DOMAIN <<>> |-> StartCode(<<>>[i].code) \o <<>>[i].nal] = <<>>
    OBVIOUS
  <2>2. QED
    BY <2>1, FlattenNothing, Zenon DEF Stream
<1>3. SubSeq(units, 1, (Len(units) + 1) - 1) = units
  BY LenProperties, SubSeqFull
<1>4. UpTo(1) = <<>>
  BY <1>1, <1>2, Zenon DEF UpTo
<1>5. UpTo(Len(units) + 1) = Stream(units)
  BY <1>3, Zenon DEF UpTo
<1>6. QED
  BY <1>4, <1>5, Zenon DEF Before, UpTo

(* Where the units lie.                                                    *)
LEMMA BeforeFacts ==
  ASSUME units \in Seq(Unit)
  PROVE  /\ Len(units) \in Nat /\ Before(1) = 0
         /\ Stream(units) \in Seq(Byte) /\ Len(Stream(units)) = Before(Len(units) + 1)
         /\ \A i \in 1 .. Len(units) + 1 : Before(i) \in Nat
         /\ \A i \in 1 .. Len(units) :
              Before(i + 1) = Before(i) + units[i].code + Len(units[i].nal)
<1>1. Len(units) \in Nat
  BY LenProperties
<1>2. \A i \in 1 .. Len(units) + 1 : i = 1 \/ (i - 1 \in 1 .. Len(units) /\ i - 1 + 1 = i)
  BY <1>1
<1>3. <<>> \in Seq(Byte) /\ Len(<<>>) = 0
  BY EmptySeq
<1>4. ASSUME NEW i \in 1 .. Len(units) + 1 PROVE UpTo(i) \in Seq(Byte)
  BY <1>2, <1>3, UpToEnds, UpToGrows
<1>5. ASSUME NEW i \in 1 .. Len(units)
      PROVE  Before(i + 1) = Before(i) + units[i].code + Len(units[i].nal)
  <2>1. UpTo(i) \in Seq(Byte) /\ UpTo(i + 1) = UpTo(i) \o Bytes(i)
    BY UpToGrows
  <2>2. Bytes(i) \in Seq(Byte) /\ Len(Bytes(i)) = units[i].code + Len(units[i].nal)
        /\ units[i].code \in {3, 4} /\ Len(units[i].nal) \in Nat
    BY UnitBytes
  <2>3. Len(UpTo(i) \o Bytes(i)) = Len(UpTo(i)) + Len(Bytes(i)) /\ Len(UpTo(i)) \in Nat
    BY <2>1, <2>2, ConcatProperties, LenProperties
  <2>4. QED
    <3>1. Before(i) = Len(UpTo(i)) /\ Before(i + 1) = Len(UpTo(i + 1))
      BY UpToEnds, Zenon
    <3>2. QED
      BY <2>1, <2>2, <2>3, <3>1
<1>6. Len(units) + 1 \in 1 .. Len(units) + 1
  BY <1>1
<1>7. Before(1) = 0
  <2>1. Before(1) = Len(UpTo(1)) /\ UpTo(1) = <<>>
    BY UpToEnds
  <2>2. QED
    BY <1>3, <2>1
<1>8. Stream(units) \in Seq(Byte) /\ Len(Stream(units)) = Before(Len(units) + 1)
  <2>1. UpTo(Len(units) + 1) = Stream(units) /\ Before(Len(units) + 1) = Len(UpTo(Len(units) + 1))
    BY UpToEnds
  <2>2. UpTo(Len(units) + 1) \in Seq(Byte)
    BY <1>4, <1>6
  <2>3. QED
    BY <2>1, <2>2
<1>9. ASSUME NEW i \in 1 .. Len(units) + 1 PROVE Before(i) \in Nat
  <2>1. UpTo(i) \in Seq(Byte) /\ Before(i) = Len(UpTo(i))
    BY <1>4, UpToEnds
  <2>2. QED
    BY <2>1, LenProperties
<1>10. QED
  BY <1>1, <1>5, <1>7, <1>8, <1>9, Zenon

(* The stream up to a unit is its beginning.                               *)
LEMMA StreamBegins ==
  ASSUME units \in Seq(Unit)
  PROVE  \A i \in 1 .. Len(units) + 1 : \A x \in 1 .. Before(i) :
           UpTo(i)[x] = Stream(units)[x]
<1> DEFINE n == Len(units)
           Begins(i) == \A x \in 1 .. Before(i) : UpTo(i)[x] = Stream(units)[x]
           T == {k \in Nat : k <= n => Begins(n + 1 - k)}
<1>1. n \in Nat
  BY BeforeFacts
<1>2. 0 \in T
  <2>1. n + 1 - 0 = n + 1 /\ Begins(n + 1)
    BY <1>1, UpToEnds
  <2> HIDE DEF Begins, n
  <2>2. QED
    BY <2>1
<1>3. ASSUME NEW k \in Nat, k \in T PROVE k + 1 \in T
  <2>1. SUFFICES ASSUME k + 1 <= n PROVE Begins(n + 1 - (k + 1))
    BY <1>1
  <2> DEFINE i == n - k
  <2>2. /\ i \in 1 .. n /\ n + 1 - (k + 1) = i /\ n + 1 - k = i + 1
        /\ i \in 1 .. n + 1 /\ i + 1 \in 1 .. n + 1 /\ k <= n
    BY <1>1, <2>1
  <2> HIDE DEF i, n, Begins
  <2>3. Begins(i + 1)
    BY <1>3, <2>2
  <2>4. UpTo(i) \in Seq(Byte) /\ UpTo(i + 1) = UpTo(i) \o Bytes(i)
        /\ Bytes(i) \in Seq(Byte)
    BY <2>2, UpToGrows, UnitBytes DEF n
  <2>5. Before(i) = Len(UpTo(i)) /\ Before(i) \in Nat /\ Before(i + 1) \in Nat
        /\ Before(i) <= Before(i + 1)
    <3>1. units[i].code \in {3, 4} /\ Len(units[i].nal) \in Nat
      BY <2>2, UnitBytes DEF n
    <3>2. Before(i) = Len(UpTo(i))
      BY UpToEnds, Zenon
    <3>3. /\ Before(i) \in Nat /\ Before(i + 1) \in Nat
          /\ Before(i + 1) = Before(i) + units[i].code + Len(units[i].nal)
      BY <2>2, BeforeFacts DEF n
    <3>4. QED
      BY <3>1, <3>2, <3>3
  <2>6. ASSUME NEW x \in 1 .. Before(i) PROVE UpTo(i)[x] = Stream(units)[x]
    <3>1. (UpTo(i) \o Bytes(i))[x] = UpTo(i)[x]
      BY <2>4, <2>5
    <3>2. x \in 1 .. Before(i + 1)
      BY <2>5
    <3>3. UpTo(i + 1)[x] = Stream(units)[x]
      BY <2>3, <3>2 DEF Begins
    <3>4. QED
      BY <2>4, <3>1, <3>3, Zenon
  <2>7. Begins(i)
    BY <2>6 DEF Begins
  <2>8. QED
    BY <2>2, <2>7
<1>4. Nat \subseteq T
  <2> HIDE DEF T
  <2>1. QED
    BY <1>2, <1>3, AllNaturals
<1>5. ASSUME NEW i \in 1 .. n + 1 PROVE Begins(i)
  <2>1. n + 1 - i \in Nat /\ n + 1 - i <= n /\ n + 1 - (n + 1 - i) = i
    BY <1>1
  <2> HIDE DEF n, Begins
  <2>2. n + 1 - i \in T
    BY <1>4, <2>1
  <2>3. QED
    BY <2>1, <2>2
<1>6. QED
  BY <1>5

(* What the stream has in unit i.                                          *)
LEMMA StreamBytes ==
  ASSUME units \in Seq(Unit), NEW i \in 1 .. Len(units)
  PROVE  /\ \A j \in 1 .. units[i].code :
              Stream(units)[Before(i) + j] = IF j = units[i].code THEN 1 ELSE 0
         /\ \A j \in 1 .. Len(units[i].nal) :
              Stream(units)[Before(i) + units[i].code + j] = units[i].nal[j]
<1> DEFINE c == units[i].code
           l == Len(units[i].nal)
           P == UpTo(i)
           Q == Bytes(i)
<1>1. P \in Seq(Byte) /\ UpTo(i + 1) = P \o Q
  BY UpToGrows
<1>2. /\ c \in {3, 4} /\ l \in Nat
      /\ Q \in Seq(Byte) /\ Len(Q) = c + l
      /\ \A j \in 1 .. c : Q[j] = IF j = c THEN 1 ELSE 0
      /\ \A j \in 1 .. l : Q[c + j] = units[i].nal[j]
  BY UnitBytes
<1>3. Before(i) \in Nat /\ Before(i + 1) = Before(i) + c + l /\ Len(P) = Before(i)
      /\ i + 1 \in 1 .. Len(units) + 1
  BY BeforeFacts, UpToEnds
<1> HIDE DEF P, Q, c, l
<1>4. ASSUME NEW k \in 1 .. c + l PROVE Stream(units)[Before(i) + k] = Q[k]
  <2>1. Before(i) + k \in 1 .. Before(i + 1)
    BY <1>2, <1>3
  <2>2. UpTo(i + 1)[Before(i) + k] = Stream(units)[Before(i) + k]
    BY <1>3, <2>1, StreamBegins
  <2>3. (P \o Q)[Before(i) + k] = Q[k]
    <3>1. /\ Before(i) + k \in 1 .. Len(P) + Len(Q)
          /\ ~(Before(i) + k <= Len(P)) /\ Before(i) + k - Len(P) = k
      BY <1>2, <1>3
    <3> DEFINE x == Before(i) + k
    <3> HIDE DEF x
    <3>2. (P \o Q)[x] = IF x <= Len(P) THEN P[x] ELSE Q[x - Len(P)]
      <4>1. x \in 1 .. Len(P) + Len(Q)
        BY <3>1 DEF x
      <4>2. QED
        BY <1>1, <1>2, <4>1, ConcatProperties
    <3>3. ~(x <= Len(P)) /\ x - Len(P) = k
      BY <1>3 DEF x
    <3>4. QED
      BY <3>2, <3>3 DEF x
  <2>4. QED
    BY <1>1, <2>2, <2>3, Zenon
<1>5. \A j \in 1 .. c : Stream(units)[Before(i) + j] = IF j = c THEN 1 ELSE 0
  BY <1>2, <1>4
<1>6. ASSUME NEW j \in 1 .. l PROVE Stream(units)[Before(i) + c + j] = units[i].nal[j]
  <2>1. c + j \in 1 .. c + l /\ Before(i) + (c + j) = Before(i) + c + j
    BY <1>2, <1>3
  <2>2. QED
    BY <1>2, <1>4, <2>1
<1>7. QED
  BY <1>5, <1>6 DEF c, l

LEMMA BeforeGrows ==
  ASSUME units \in Seq(Unit)
  PROVE  \A i, j \in 1 .. Len(units) + 1 : i < j => Before(i + 1) <= Before(j)
<1> DEFINE n == Len(units)
           T == {k \in Nat : \A i \in 1 .. n :
                               i + 1 + k <= n + 1 => Before(i + 1) <= Before(i + 1 + k)}
<1>1. /\ n \in Nat /\ \A i \in 1 .. n + 1 : Before(i) \in Nat
      /\ \A i \in 1 .. n : Before(i) <= Before(i + 1)
  <2>1. n \in Nat /\ \A i \in 1 .. n + 1 : Before(i) \in Nat
    BY BeforeFacts
  <2>2. ASSUME NEW i \in 1 .. n PROVE Before(i) <= Before(i + 1)
    <3>1. units[i].code \in {3, 4} /\ Len(units[i].nal) \in Nat
      BY UnitBytes
    <3>2. Before(i + 1) = Before(i) + units[i].code + Len(units[i].nal)
      BY BeforeFacts
    <3>3. Before(i) \in Nat
      BY <2>1
    <3>4. QED
      BY <3>1, <3>2, <3>3
  <2>3. QED
    BY <2>1, <2>2
<1> HIDE DEF n
<1>2. 0 \in T
  BY <1>1
<1>3. ASSUME NEW k \in Nat, k \in T PROVE k + 1 \in T
  <2>1. SUFFICES ASSUME NEW i \in 1 .. n, i + 1 + (k + 1) <= n + 1
                 PROVE  Before(i + 1) <= Before(i + 1 + (k + 1))
    OBVIOUS
  <2>2. i + 1 + k \in 1 .. n /\ i + 1 + (k + 1) = (i + 1 + k) + 1 /\ i + 1 + k <= n + 1
    BY <1>1, <2>1
  <2>3. Before(i + 1) <= Before(i + 1 + k)
    BY <1>3, <2>2
  <2>4. Before(i + 1 + k) <= Before(i + 1 + (k + 1))
    BY <1>1, <2>2
  <2>5. /\ Before(i + 1) \in Nat /\ Before(i + 1 + k) \in Nat
        /\ Before(i + 1 + (k + 1)) \in Nat
    <3>1. i + 1 \in 1 .. n + 1 /\ i + 1 + k \in 1 .. n + 1 /\ i + 1 + (k + 1) \in 1 .. n + 1
      BY <1>1, <2>1
    <3>2. QED
      BY <1>1, <3>1
  <2>6. QED
    BY <2>3, <2>4, <2>5
<1>4. Nat \subseteq T
  <2> HIDE DEF T
  <2>1. QED
    BY <1>2, <1>3, AllNaturals
<1>5. ASSUME NEW i \in 1 .. n + 1, NEW j \in 1 .. n + 1, i < j
      PROVE  Before(i + 1) <= Before(j)
  <2>1. j - i - 1 \in Nat /\ i \in 1 .. n /\ i + 1 + (j - i - 1) = j
    BY <1>1, <1>5
  <2>2. j - i - 1 \in T
    BY <1>4, <2>1
  <2>3. QED
    BY <2>1, <2>2
<1>6. QED
  BY <1>5 DEF n

LEMMA EveryByteInUnit ==
  ASSUME units \in Seq(Unit)
  PROVE  \A z \in 1 .. Len(Stream(units)) :
           \E i \in 1 .. Len(units) : Before(i) < z /\ z <= Before(i + 1)
<1> DEFINE n == Len(units)
           Covered(k) == \A z \in 1 .. Before(k + 1) :
                           \E i \in 1 .. n : Before(i) < z /\ z <= Before(i + 1)
           T == {k \in Nat : k <= n => Covered(k)}
<1>1. /\ n \in Nat /\ \A i \in 1 .. n + 1 : Before(i) \in Nat
      /\ Before(1) = 0 /\ Len(Stream(units)) = Before(n + 1)
  BY BeforeFacts
<1> HIDE DEF n
<1>2. 0 \in T
  <2>1. Covered(0)
    BY <1>1
  <2>2. QED
    BY <2>1
<1>3. ASSUME NEW k \in Nat, k \in T PROVE k + 1 \in T
  <2>1. SUFFICES ASSUME k + 1 <= n, NEW z \in 1 .. Before((k + 1) + 1)
                 PROVE  \E i \in 1 .. n : Before(i) < z /\ z <= Before(i + 1)
    OBVIOUS
  <2>2. k <= n /\ k + 1 \in 1 .. n + 1 /\ k + 1 \in 1 .. n /\ (k + 1) + 1 \in 1 .. n + 1
    BY <1>1, <2>1
  <2>3. Before(k + 1) \in Nat /\ Before((k + 1) + 1) \in Nat
    BY <1>1, <2>2
  <2>4. CASE z <= Before(k + 1)
    <3>1. z \in 1 .. Before(k + 1)
      BY <2>3, <2>4
    <3>2. QED
      BY <1>3, <2>2, <3>1
  <2>5. CASE ~(z <= Before(k + 1))
    <3>1. Before(k + 1) < z /\ z <= Before((k + 1) + 1)
      BY <2>3, <2>5
    <3>2. QED
      BY <2>2, <3>1
  <2>6. QED
    BY <2>4, <2>5
<1>4. n \in T
  <2> HIDE DEF T
  <2>1. QED
    BY <1>1, <1>2, <1>3, AllNaturals
<1>5. QED
  BY <1>1, <1>4 DEF n

(* Positions of units, in figures.                                         *)
Lies(i) ==
  /\ units[i].code \in {3, 4} /\ Before(i) \in Nat /\ Len(units[i].nal) \in Nat \ {0}
  /\ Before(i + 1) = Before(i) + units[i].code + Len(units[i].nal)
  /\ HeaderAt(i) = Before(i) + units[i].code + 1
  /\ Before(i + 1) <= Len(Stream(units))

LEMMA Layout ==
  ASSUME units \in Seq(Unit)
  PROVE  /\ Len(units) \in Nat /\ Len(Stream(units)) \in Nat
         /\ \A i \in 1 .. Len(units) : Lies(i)
         /\ \A i, j \in 1 .. Len(units) : i < j => Before(i + 1) <= Before(j)
<1>1. Len(units) \in Nat /\ Stream(units) \in Seq(Byte)
      /\ Len(Stream(units)) = Before(Len(units) + 1)
  BY BeforeFacts
<1>2. ASSUME NEW i \in 1 .. Len(units) PROVE Lies(i)
  <2>1. units[i].code \in {3, 4} /\ Len(units[i].nal) \in Nat \ {0}
    BY UnitBytes
  <2>2. i \in 1 .. Len(units) + 1 /\ Len(units) + 1 \in 1 .. Len(units) + 1
        /\ i < Len(units) + 1
    BY <1>1
  <2>3. Before(i + 1) <= Before(Len(units) + 1)
    BY <2>2, BeforeGrows
  <2>4. Before(i) \in Nat /\ Before(i + 1) = Before(i) + units[i].code + Len(units[i].nal)
    BY <2>2, BeforeFacts
  <2>5. QED
    BY <1>1, <2>1, <2>3, <2>4 DEF Lies, HeaderAt
<1>3. \A i \in 1 .. Len(units) : i \in 1 .. Len(units) + 1
  BY <1>1
<1>4. QED
  BY <1>1, <1>2, <1>3, BeforeGrows, LenProperties

(* A start code, 00 00 01, ends at z: in the stream, at the units' and     *)
(* nowhere else.                                                           *)
EndsCode(z) ==
  Stream(units)[z] = 1 /\ Stream(units)[z - 1] = 0 /\ Stream(units)[z - 2] = 0

LEMMA CodeThere ==
  ASSUME NEW b \in Seq(Byte), NEW c \in {3, 4}, NEW x \in Nat \ {0},
         NEW y \in Nat, y = x + (c - 1), y <= Len(b)
  PROVE  SubSeq(b, x, y) = StartCode(c) <=>
           \A j \in 1 .. c : b[x + (j - 1)] = IF j = c THEN 1 ELSE 0
<1> DEFINE s == SubSeq(b, x, y)
           t == StartCode(c)
<1>1. t \in Seq(Byte) /\ Len(t) = c /\ \A j \in 1 .. c : t[j] = IF j = c THEN 1 ELSE 0
  BY StartCodes
<1>2. s \in Seq(Byte) /\ Len(s) = c /\ \A j \in 1 .. c : s[j] = b[x + (j - 1)]
  <2>1. Len(b) \in Nat /\ \A i \in x .. y : b[i] \in Byte
    BY LenProperties, ElementOfSeq
  <2>2. y - x + 1 = c /\ x <= y
    OBVIOUS
  <2>3. \A j \in 1 .. c : x + j - 1 = x + (j - 1)
    OBVIOUS
  <2>4. /\ s \in Seq(Byte) /\ Len(s) = y - x + 1
        /\ \A j \in 1 .. (y - x + 1) : s[j] = b[x + j - 1]
    BY <2>1, <2>2, SubSeqProperties
  <2>5. QED
    BY <2>2, <2>3, <2>4
<1> HIDE DEF s, t
<1>3. ASSUME s = t PROVE \A j \in 1 .. c : b[x + (j - 1)] = IF j = c THEN 1 ELSE 0
  BY <1>1, <1>2, <1>3
<1>4. ASSUME \A j \in 1 .. c : b[x + (j - 1)] = IF j = c THEN 1 ELSE 0 PROVE s = t
  <2>1. \A j \in 1 .. Len(s) : s[j] = t[j]
    BY <1>1, <1>2, <1>4
  <2>2. QED
    BY <1>1, <1>2, <2>1, SeqEqual
<1>5. QED
  BY <1>3, <1>4 DEF s, t

LEMMA IsStartCodeIs ==
  ASSUME NEW b \in Seq(Byte), NEW x \in 1 .. Len(b) - 2
  PROVE  /\ SubSeq(b, x, x + 2) = StartCode(3) <=>
              b[x] = 0 /\ b[x + 1] = 0 /\ b[x + 2] = 1
         /\ x + 3 <= Len(b) =>
              (SubSeq(b, x, x + 3) = StartCode(4) <=>
                 b[x] = 0 /\ b[x + 1] = 0 /\ b[x + 2] = 0 /\ b[x + 3] = 1)
<1>1. Len(b) \in Nat
  BY LenProperties
<1>2. SubSeq(b, x, x + 2) = StartCode(3) <=> b[x] = 0 /\ b[x + 1] = 0 /\ b[x + 2] = 1
  <2>1. SubSeq(b, x, x + 2) = StartCode(3) <=>
          \A j \in 1 .. 3 : b[x + (j - 1)] = IF j = 3 THEN 1 ELSE 0
    <3>1. /\ 3 \in {3, 4} /\ x \in Nat \ {0} /\ x + 2 \in Nat
          /\ x + 2 = x + (3 - 1) /\ x + 2 <= Len(b)
      BY <1>1
    <3>2. QED
      BY <3>1, CodeThere, Zenon
  <2>2. x + (1 - 1) = x /\ x + (2 - 1) = x + 1 /\ x + (3 - 1) = x + 2
    OBVIOUS
  <2>3. 1 \in 1 .. 3 /\ 2 \in 1 .. 3 /\ 3 \in 1 .. 3
        /\ \A j \in 1 .. 3 : j = 1 \/ j = 2 \/ j = 3
    OBVIOUS
  <2>4. QED
    BY <2>1, <2>2, <2>3
<1>3. ASSUME x + 3 <= Len(b)
      PROVE  SubSeq(b, x, x + 3) = StartCode(4) <=>
               b[x] = 0 /\ b[x + 1] = 0 /\ b[x + 2] = 0 /\ b[x + 3] = 1
  <2>1. SubSeq(b, x, x + 3) = StartCode(4) <=>
          \A j \in 1 .. 4 : b[x + (j - 1)] = IF j = 4 THEN 1 ELSE 0
    <3>1. /\ 4 \in {3, 4} /\ x \in Nat \ {0} /\ x + 3 \in Nat
          /\ x + 3 = x + (4 - 1) /\ x + 3 <= Len(b)
      BY <1>1, <1>3
    <3>2. QED
      BY <3>1, CodeThere, Zenon
  <2>2. x + (1 - 1) = x /\ x + (2 - 1) = x + 1 /\ x + (3 - 1) = x + 2 /\ x + (4 - 1) = x + 3
    OBVIOUS
  <2>3. 1 \in 1 .. 4 /\ 2 \in 1 .. 4 /\ 3 \in 1 .. 4 /\ 4 \in 1 .. 4
        /\ \A j \in 1 .. 4 : j = 1 \/ j = 2 \/ j = 3 \/ j = 4
    OBVIOUS
  <2>4. QED
    BY <2>1, <2>2, <2>3
<1>4. QED
  BY <1>2, <1>3

LEMMA CodesOfUnits ==
  ASSUME units \in Seq(Unit), NEW z \in 3 .. Len(Stream(units))
  PROVE  EndsCode(z) <=> \E i \in 1 .. Len(units) : z = Before(i) + units[i].code
<1> DEFINE W == Stream(units)
<1>1. W \in Seq(Byte) /\ Len(W) \in Nat
  BY BeforeFacts, LenProperties
<1> HIDE DEF W
<1>2. PICK i \in 1 .. Len(units) : Before(i) < z /\ z <= Before(i + 1)
  <2>1. z \in 1 .. Len(Stream(units))
    BY <1>1 DEF W
  <2>2. QED
    BY <2>1, EveryByteInUnit
<1> DEFINE c == units[i].code
           nal == units[i].nal
           B == Before(i)
           l == Len(nal)
<1>3. /\ c \in {3, 4} /\ B \in Nat /\ l \in Nat \ {0} /\ Before(i + 1) = B + c + l
  BY Layout DEF Lies
<1>4. /\ \A j \in 1 .. c : W[B + j] = IF j = c THEN 1 ELSE 0
      /\ \A j \in 1 .. l : W[B + c + j] = nal[j]
  BY StreamBytes DEF W
<1>5. nal \in Seq(Byte) /\ \A x \in 1 .. l - 2 : ~IsStartCode(nal, x)
  <2>1. units[i] \in Unit
    BY ElementOfSeq
  <2>2. nal \in Nals
    BY <2>1 DEF Unit
  <2>3. QED
    BY <2>2, ParserAssumption DEF IsNal, Byte
<1>6. \A j \in 1 .. Len(units) : j # i => z # Before(j) + units[j].code
  <2>1. SUFFICES ASSUME NEW j \in 1 .. Len(units), j # i PROVE z # Before(j) + units[j].code
    OBVIOUS
  <2>2. /\ Lies(j) /\ (i < j => Before(i + 1) <= Before(j))
        /\ (j < i => Before(j + 1) <= Before(i))
    BY Layout
  <2>3. i < j \/ j < i
    BY <2>1
  <2>4. CASE i < j
    <3> DEFINE u == Before(i + 1)
               v == Before(j)
               d == units[j].code
    <3>1. u <= v /\ v \in Nat /\ d \in {3, 4}
      BY <2>2, <2>4 DEF Lies
    <3>2. z <= u /\ u \in Nat /\ z \in Nat
      BY <1>1, <1>2, <1>3 DEF W
    <3> HIDE DEF u, v, d
    <3>3. v + d > v /\ u \in Nat /\ d \in Nat
      BY <3>1, <3>2
    <3>4. z # v + d
      BY <3>1, <3>2, <3>3
    <3>5. QED
      BY <3>4 DEF v, d
  <2>5. CASE j < i
    <3> DEFINE u == Before(j + 1)
               v == Before(j)
               d == units[j].code
               e == Len(units[j].nal)
    <3>1. u <= B /\ v \in Nat /\ d \in {3, 4} /\ e \in Nat \ {0} /\ u = v + d + e
      BY <2>2, <2>5 DEF Lies
    <3>2. B < z /\ B \in Nat
      BY <1>2, <1>3
    <3> HIDE DEF u, v, d, e, B
    <3>3. z # v + d
      BY <3>1, <3>2
    <3>4. QED
      BY <3>3 DEF v, d
  <2>6. QED
    BY <2>3, <2>4, <2>5
<1> HIDE DEF c, nal, B, l
<1>7. CASE z <= B + c
  <2>1. z - B \in 1 .. c /\ B + (z - B) = z
    BY <1>2, <1>3, <1>7 DEF B
  <2>2. W[z] = IF z - B = c THEN 1 ELSE 0
    BY <1>4, <2>1
  <2>3. z = B + c => EndsCode(z)
    <3>1. SUFFICES ASSUME z = B + c PROVE EndsCode(z)
      OBVIOUS
    <3>2. c - 1 \in 1 .. c /\ c - 2 \in 1 .. c /\ B + (c - 1) = z - 1 /\ B + (c - 2) = z - 2
      BY <1>3, <3>1
    <3>3. W[z - 1] = 0 /\ W[z - 2] = 0
      <4>1. c - 1 # c /\ c - 2 # c
        BY <1>3
      <4>2. W[B + (c - 1)] = 0 /\ W[B + (c - 2)] = 0
        BY <1>4, <3>2, <4>1
      <4>3. QED
        BY <3>2, <4>2, Zenon
    <3>4. W[z] = 1
      BY <1>3, <2>2, <3>1
    <3>5. QED
      BY <3>3, <3>4 DEF EndsCode, W
  <2>4. EndsCode(z) => z = B + c
    BY <1>3, <2>1, <2>2 DEF EndsCode, W
  <2>5. QED
    BY <1>6, <2>3, <2>4 DEF B, c
<1>8. CASE z > B + c
  <2> DEFINE k == z - B - c
  <2>1. k \in 1 .. l /\ B + c + k = z
    <3>1. z <= B + c + l /\ B + c \in Nat
      BY <1>2, <1>3 DEF B
    <3>2. QED
      BY <1>3, <1>8, <3>1
  <2>2. W[B + c] = 1
    <3>1. c \in 1 .. c
      BY <1>3
    <3>2. QED
      BY <1>4, <3>1
  <2>3. CASE k = 1
    <3>1. z - 1 = B + c
      BY <1>3, <2>1, <2>3
    <3>2. ~EndsCode(z)
      BY <2>2, <3>1 DEF EndsCode, W
    <3>3. QED
      BY <1>3, <1>6, <1>8, <3>2 DEF B, c
  <2>4. CASE k = 2
    <3>1. z - 2 = B + c
      BY <1>3, <2>1, <2>4
    <3>2. ~EndsCode(z)
      BY <2>2, <3>1 DEF EndsCode, W
    <3>3. QED
      BY <1>3, <1>6, <1>8, <3>2 DEF B, c
  <2>5. CASE k >= 3
    <3>1. /\ k - 2 \in 1 .. l - 2 /\ k - 2 \in 1 .. l /\ k - 1 \in 1 .. l
          /\ B + c + (k - 2) = z - 2 /\ B + c + (k - 1) = z - 1
          /\ (k - 2) + 1 = k - 1 /\ (k - 2) + 2 = k
      BY <1>3, <2>1, <2>5
    <3> HIDE DEF k
    <3>2. W[z - 2] = nal[k - 2] /\ W[z - 1] = nal[k - 1] /\ W[z] = nal[k]
      BY <1>4, <2>1, <3>1
    <3>3. ~(nal[k - 2] = 0 /\ nal[k - 1] = 0 /\ nal[k] = 1)
      <4>1. ~IsStartCode(nal, k - 2)
        BY <1>5, <3>1
      <4>2. k - 2 \in 1 .. Len(nal) - 2
        BY <3>1 DEF l
      <4> DEFINE x == k - 2
      <4>3. x + 1 = k - 1 /\ x + 2 = k
        BY <3>1
      <4> HIDE DEF x
      <4>4. ~(nal[x] = 0 /\ nal[x + 1] = 0 /\ nal[x + 2] = 1)
        BY <1>5, <4>1, <4>2, IsStartCodeIs DEF IsStartCode, x
      <4>5. QED
        BY <4>3, <4>4 DEF x
    <3>4. ~EndsCode(z)
      BY <3>2, <3>3 DEF EndsCode, W
    <3>5. QED
      BY <1>3, <1>6, <1>8, <3>4 DEF B, c
  <2>6. QED
    BY <2>1, <2>3, <2>4, <2>5
<1>9. QED
  BY <1>3, <1>7, <1>8 DEF B

(* The last byte of a unit's start code.                                   *)
CodeEnd(i) == Before(i) + units[i].code

(* The bytes of the stream after the p-th and up to the q-th.              *)
Excerpt(b, p, q) ==
  /\ p \in Nat /\ q \in Nat /\ p <= q /\ q <= Len(Stream(units))
  /\ b = SubSeq(Stream(units), p + 1, q)

LEMMA Places ==
  ASSUME units \in Seq(Unit)
  PROVE  /\ Len(units) \in Nat /\ Len(Stream(units)) \in Nat
         /\ \A i \in 1 .. Len(units) :
              /\ units[i].code \in {3, 4}
              /\ Before(i) \in Nat /\ CodeEnd(i) = Before(i) + units[i].code
              /\ CodeEnd(i) \in Nat
              /\ HeaderAt(i) = CodeEnd(i) + 1 /\ HeaderAt(i) \in Nat
              /\ CodeEnd(i) < Before(i + 1) /\ Before(i + 1) \in Nat
              /\ Before(i + 1) <= Len(Stream(units))
         /\ \A i, j \in 1 .. Len(units) : i < j => CodeEnd(i) < Before(j)
         /\ \A i, j \in 1 .. Len(units) : i < j => Before(i + 1) <= Before(j)
<1>1. /\ Len(units) \in Nat /\ Len(Stream(units)) \in Nat
      /\ \A i, j \in 1 .. Len(units) : i < j => Before(i + 1) <= Before(j)
  BY Layout
<1>2. ASSUME NEW i \in 1 .. Len(units)
      PROVE  /\ units[i].code \in {3, 4}
             /\ Before(i) \in Nat /\ CodeEnd(i) = Before(i) + units[i].code
             /\ CodeEnd(i) \in Nat
             /\ HeaderAt(i) = CodeEnd(i) + 1 /\ HeaderAt(i) \in Nat
             /\ CodeEnd(i) < Before(i + 1) /\ Before(i + 1) \in Nat
             /\ Before(i + 1) <= Len(Stream(units))
  <2> DEFINE c == units[i].code
             l == Len(units[i].nal)
             B == Before(i)
             E == Before(i + 1)
  <2>1. /\ c \in {3, 4} /\ B \in Nat /\ l \in Nat \ {0} /\ E = B + c + l
        /\ HeaderAt(i) = B + c + 1 /\ E <= Len(Stream(units))
    BY Layout DEF Lies
  <2>2. CodeEnd(i) = B + c
    BY DEF CodeEnd
  <2> HIDE DEF c, l, B, E
  <2>3. /\ CodeEnd(i) \in Nat /\ HeaderAt(i) = CodeEnd(i) + 1 /\ HeaderAt(i) \in Nat
        /\ CodeEnd(i) < E /\ E \in Nat
    BY <2>1, <2>2
  <2>4. QED
    BY <2>1, <2>2, <2>3 DEF c, B, E
<1>3. ASSUME NEW i \in 1 .. Len(units), NEW j \in 1 .. Len(units), i < j
      PROVE  CodeEnd(i) < Before(j)
  <2>1. CodeEnd(i) < Before(i + 1) /\ Before(i + 1) <= Before(j)
        /\ CodeEnd(i) \in Nat /\ Before(i + 1) \in Nat /\ Before(j) \in Nat
    BY <1>1, <1>2, <1>3
  <2>2. QED
    BY <2>1
<1>4. QED
  BY <1>1, <1>2, <1>3

LEMMA ExcerptBytes ==
  ASSUME units \in Seq(Unit), NEW b, NEW p, NEW q, Excerpt(b, p, q)
  PROVE  /\ b \in Seq(Byte) /\ Len(b) = q - p /\ Len(b) \in Nat
         /\ \A x \in 1 .. Len(b) : b[x] = Stream(units)[x + p]
<1> DEFINE W == Stream(units)
<1>1. W \in Seq(Byte) /\ Len(W) \in Nat
  BY BeforeFacts, LenProperties
<1>2. p \in Nat /\ q \in Nat /\ p <= q /\ q <= Len(W) /\ b = SubSeq(W, p + 1, q)
  BY DEF Excerpt
<1> HIDE DEF W
<1>3. CASE p = q
  <2>1. b = <<>>
    BY <1>2, <1>3, SubSeqEmpty
  <2>2. QED
    BY <1>2, <1>3, <2>1, EmptySeq
<1>4. CASE p < q
  <2>1. \A i \in p + 1 .. q : W[i] \in Byte
    BY <1>1, <1>2, ElementOfSeq
  <2>2. p + 1 \in Nat /\ p + 1 <= q + 1 /\ q - (p + 1) + 1 = q - p
    BY <1>2
  <2>3. /\ b \in Seq(Byte) /\ Len(b) = q - p
        /\ \A x \in 1 .. q - p : b[x] = W[p + 1 + x - 1]
    <3>1. p + 1 \in Int /\ q \in Int /\ p + 1 <= q
      BY <1>2, <1>4
    <3>2. b \in Seq(Byte) /\ Len(b) = IF p + 1 <= q THEN q - (p + 1) + 1 ELSE 0
      BY <1>2, <2>1, <3>1, SubSeqProperties
    <3>3. \A x \in 1 .. (q - (p + 1) + 1) : b[x] = W[p + 1 + x - 1]
      BY <1>2, <2>1, <3>1, SubSeqProperties
    <3>4. QED
      BY <2>2, <3>1, <3>2, <3>3
  <2>4. \A x \in 1 .. q - p : p + 1 + x - 1 = x + p
    BY <1>2
  <2>5. QED
    BY <1>2, <2>3, <2>4 DEF W
<1>5. QED
  BY <1>2, <1>3, <1>4

LEMMA LastByte ==
  ASSUME units \in Seq(Unit), NEW i \in 1 .. Len(units)
  PROVE  Stream(units)[Before(i + 1)] # 0
<1> DEFINE l == Len(units[i].nal)
           c == units[i].code
<1>1. l \in Nat \ {0} /\ units[i].nal[l] # 0 /\ c \in {3, 4}
  BY UnitBytes
<1>2. Before(i + 1) = Before(i) + c + l
  BY BeforeFacts
<1>3. \A j \in 1 .. l : Stream(units)[Before(i) + c + j] = units[i].nal[j]
  BY StreamBytes
<1> HIDE DEF l, c
<1>4. Stream(units)[Before(i) + c + l] = units[i].nal[l]
  BY <1>1, <1>3
<1>5. QED
  BY <1>1, <1>2, <1>4

(* Where a start code is in an excerpt: the short form of a unit's, or all   *)
(* four bytes of a long one.                                               *)
At(i, w, q) ==
  \/ w + 2 = CodeEnd(i)
  \/ units[i].code = 4 /\ w + 3 = CodeEnd(i) /\ CodeEnd(i) <= q

LEMMA StartAt ==
  ASSUME units \in Seq(Unit), NEW b, NEW p, NEW q, Excerpt(b, p, q),
         NEW x \in 1 .. Len(b) - 2
  PROVE  /\ IsStartCode(b, x) <=> \E i \in 1 .. Len(units) : At(i, x + p, q)
         /\ \A i \in 1 .. Len(units) :
              At(i, x + p, q) =>
                /\ IsStartCode(b, x)
                /\ StartCodeLen(b, x) \in {3, 4}
                /\ x + p + StartCodeLen(b, x) = HeaderAt(i)
                /\ b[x + 2] = 1 <=> x + p + 3 = HeaderAt(i)
<1> DEFINE W == Stream(units)
           z == x + p + 2
           Short == SubSeq(b, x, x + 2) = StartCode(3)
           Long == x + 3 <= Len(b) /\ SubSeq(b, x, x + 3) = StartCode(4)
<1>1. /\ b \in Seq(Byte) /\ Len(b) = q - p /\ Len(b) \in Nat
      /\ \A y \in 1 .. Len(b) : b[y] = W[y + p]
  BY ExcerptBytes
<1>2. p \in Nat /\ q \in Nat /\ p <= q /\ q <= Len(W) /\ Len(W) \in Nat
  BY Layout DEF Excerpt
<1>3. /\ b[x] = W[z - 2] /\ b[x + 1] = W[z - 1] /\ b[x + 2] = W[z]
      /\ x + 3 <= Len(b) => b[x + 3] = W[z + 1]
      /\ z \in 3 .. Len(W) /\ x + p = z - 2
      /\ x + 3 <= Len(b) => z + 1 \in 3 .. Len(W)
      /\ x + 3 <= Len(b) <=> z + 1 <= q
  <2>1. x \in 1 .. Len(b) /\ x + 1 \in 1 .. Len(b) /\ x + 2 \in 1 .. Len(b)
        /\ (x + 3 <= Len(b) => x + 3 \in 1 .. Len(b))
    BY <1>1
  <2>2. b[x] = W[x + p] /\ b[x + 1] = W[x + 1 + p] /\ b[x + 2] = W[x + 2 + p]
        /\ (x + 3 <= Len(b) => b[x + 3] = W[x + 3 + p])
    BY <1>1, <2>1
  <2>3. /\ x + p = z - 2 /\ x + 1 + p = z - 1 /\ x + 2 + p = z /\ x + 3 + p = z + 1
        /\ z \in 3 .. Len(W)
        /\ x + 3 <= Len(b) => z + 1 \in 3 .. Len(W)
        /\ x + 3 <= Len(b) <=> z + 1 <= q
    BY <1>1, <1>2
  <2> HIDE DEF W, z
  <2>4. QED
    BY <2>2, <2>3
<1>4. /\ Short <=> b[x] = 0 /\ b[x + 1] = 0 /\ b[x + 2] = 1
      /\ x + 3 <= Len(b) =>
           (SubSeq(b, x, x + 3) = StartCode(4) <=>
              b[x] = 0 /\ b[x + 1] = 0 /\ b[x + 2] = 0 /\ b[x + 3] = 1)
  BY <1>1, IsStartCodeIs
<1>5. /\ IsStartCode(b, x) <=> Short \/ Long
      /\ StartCodeLen(b, x) = IF Long THEN 4 ELSE 3
  BY DEF IsStartCode, StartCodeLen
<1> HIDE DEF W, z
<1>6. Short <=> W[z - 2] = 0 /\ W[z - 1] = 0 /\ W[z] = 1
  BY <1>3, <1>4
<1>7. Long <=> z + 1 <= q /\ W[z - 2] = 0 /\ W[z - 1] = 0 /\ W[z] = 0 /\ W[z + 1] = 1
  BY <1>3, <1>4
<1> HIDE DEF Short, Long
<1>8. Short <=> \E i \in 1 .. Len(units) : z = CodeEnd(i)
  <2>1. EndsCode(z) <=> \E i \in 1 .. Len(units) : z = CodeEnd(i)
    BY <1>3, CodesOfUnits DEF W, CodeEnd
  <2>2. QED
    BY <1>6, <2>1 DEF EndsCode, W
<1>9. ASSUME NEW i \in 1 .. Len(units), units[i].code = 4, z + 1 = CodeEnd(i), z + 1 <= q
      PROVE  Long /\ W[z] = 0
  <2>1. Before(i) \in Nat /\ CodeEnd(i) = Before(i) + 4
    BY <1>9, Places
  <2>2. \A j \in 1 .. 4 : W[Before(i) + j] = IF j = 4 THEN 1 ELSE 0
    BY <1>9, StreamBytes DEF W
  <2>3. Before(i) + 1 = z - 2 /\ Before(i) + 2 = z - 1 /\ Before(i) + 3 = z
        /\ Before(i) + 4 = z + 1
    <3>1. z \in Nat
      BY <1>2, <1>3
    <3>2. Before(i) \in Nat /\ z + 1 = Before(i) + 4
      BY <1>9, <2>1
    <3>3. QED
      BY <3>1, <3>2
  <2>4. W[Before(i) + 1] = 0 /\ W[Before(i) + 2] = 0 /\ W[Before(i) + 3] = 0
        /\ W[Before(i) + 4] = 1
    BY <2>2
  <2>5. W[z - 2] = 0 /\ W[z - 1] = 0 /\ W[z] = 0 /\ W[z + 1] = 1
    BY <2>3, <2>4, Zenon
  <2>6. QED
    BY <1>7, <1>9, <2>5
<1>10. ASSUME Long
       PROVE  \E i \in 1 .. Len(units) :
                units[i].code = 4 /\ z + 1 = CodeEnd(i) /\ z + 1 <= q
  <2>1. z + 1 <= q /\ W[z - 2] = 0 /\ W[z - 1] = 0 /\ W[z] = 0 /\ W[z + 1] = 1
        /\ z + 1 \in 3 .. Len(W)
    BY <1>2, <1>3, <1>7, <1>10
  <2>2. EndsCode(z + 1)
    <3>1. (z + 1) - 1 = z /\ (z + 1) - 2 = z - 1
      BY <1>2, <1>3
    <3>2. QED
      BY <2>1, <3>1 DEF EndsCode, W
  <2>3. PICK i \in 1 .. Len(units) : z + 1 = CodeEnd(i)
    BY <2>1, <2>2, CodesOfUnits DEF W, CodeEnd
  <2>4. /\ Before(i) \in Nat /\ CodeEnd(i) = Before(i) + units[i].code
        /\ units[i].code \in {3, 4}
    BY Places
  <2>5. ASSUME units[i].code = 3 PROVE FALSE
    <3>1. Before(i) = z - 2 /\ Before(i) > 0
      BY <1>3, <2>3, <2>4, <2>5
    <3>2. i # 1
      BY <3>1, BeforeFacts
    <3>3. i - 1 \in 1 .. Len(units) /\ (i - 1) + 1 = i
      BY <3>2
    <3>4. W[Before((i - 1) + 1)] # 0
      BY <3>3, LastByte DEF W
    <3>5. W[Before(i)] # 0
      BY <3>3, <3>4, Zenon
    <3>6. QED
      BY <2>1, <3>1, <3>5
  <2>6. QED
    BY <2>1, <2>3, <2>4, <2>5
<1>11. \A i \in 1 .. Len(units) :
         At(i, x + p, q) <=>
           \/ z = CodeEnd(i)
           \/ units[i].code = 4 /\ z + 1 = CodeEnd(i) /\ z + 1 <= q
  <2>1. x + p + 2 = z /\ x + p + 3 = z + 1
    BY <1>2 DEF z
  <2>2. QED
    BY <2>1 DEF At
<1>12. IsStartCode(b, x) <=> \E i \in 1 .. Len(units) : At(i, x + p, q)
  BY <1>5, <1>8, <1>9, <1>10, <1>11
<1>13. ASSUME NEW i \in 1 .. Len(units), At(i, x + p, q)
       PROVE  /\ StartCodeLen(b, x) \in {3, 4}
              /\ x + p + StartCodeLen(b, x) = HeaderAt(i)
              /\ b[x + 2] = 1 <=> x + p + 3 = HeaderAt(i)
  <2>1. HeaderAt(i) = CodeEnd(i) + 1 /\ CodeEnd(i) \in Nat
    BY Places
  <2>2. x + p + 3 = z + 1 /\ x + p + 4 = z + 2 /\ z \in Nat
    BY <1>2 DEF z
  <2>3. CASE z = CodeEnd(i)
    <3>1. Short
      BY <1>8, <2>3
    <3>2. W[z] = 1
      BY <1>6, <3>1
    <3>3. ~Long
      BY <1>7, <3>2
    <3>4. QED
      BY <1>3, <1>5, <2>1, <2>2, <2>3, <3>2, <3>3
  <2>4. CASE units[i].code = 4 /\ z + 1 = CodeEnd(i) /\ z + 1 <= q
    <3>1. Long /\ W[z] = 0
      BY <1>9, <2>4
    <3>2. QED
      BY <1>3, <1>5, <2>1, <2>2, <2>4, <3>1
  <2>5. QED
    BY <1>11, <1>13, <2>3, <2>4
<1>14. QED
  BY <1>12, <1>13

(* Unit i is the first one with a short start code at w or later.          *)
IsNext(i, w) ==
  /\ i \in 1 .. Len(units) + 1
  /\ \A j \in 1 .. Len(units) : j < i => CodeEnd(j) - 2 < w
  /\ i <= Len(units) => w <= CodeEnd(i) - 2

LEMMA NextExists ==
  ASSUME units \in Seq(Unit), NEW w \in Nat
  PROVE  \E i : IsNext(i, w)
<1> DEFINE n == Len(units)
           None(k) == \A j \in 1 .. n : j <= k => CodeEnd(j) - 2 < w
           T == {k \in Nat : k <= n => None(k)}
<1>1. n \in Nat /\ \A j \in 1 .. n : CodeEnd(j) \in Nat
  BY Places
<1> HIDE DEF n
<1>2. SUFFICES ASSUME \A i : ~IsNext(i, w) PROVE FALSE
  OBVIOUS
<1>3. 0 \in T
  BY <1>1
<1>4. ASSUME NEW k \in Nat, k \in T PROVE k + 1 \in T
  <2>1. SUFFICES ASSUME k + 1 <= n PROVE None(k + 1)
    BY <1>1
  <2>2. k + 1 \in 1 .. n /\ k + 1 \in 1 .. n + 1 /\ k <= n
    BY <1>1, <2>1
  <2>3. None(k)
    BY <1>4, <2>2
  <2>4. \A j \in 1 .. n : j < k + 1 => CodeEnd(j) - 2 < w
    BY <2>3
  <2>5. ~(w <= CodeEnd(k + 1) - 2)
    BY <1>2, <2>2, <2>4 DEF IsNext, n
  <2>6. CodeEnd(k + 1) - 2 < w
    BY <1>1, <2>2, <2>5
  <2>7. \A j \in 1 .. n : j <= k + 1 => j < k + 1 \/ j = k + 1
    BY <1>1
  <2>8. QED
    BY <2>4, <2>6, <2>7
<1>5. n \in T
  <2> HIDE DEF T
  <2>1. QED
    BY <1>1, <1>3, <1>4, AllNaturals
<1>6. None(n)
  BY <1>1, <1>5
<1>7. IsNext(n + 1, w)
  <2>1. n + 1 \in 1 .. n + 1 /\ ~(n + 1 <= n)
    BY <1>1
  <2>2. QED
    BY <1>6, <2>1 DEF IsNext, n
<1>8. QED
  BY <1>2, <1>7

(* There is only one.                                                      *)
LEMMA OneNext ==
  ASSUME units \in Seq(Unit), NEW w \in Nat, NEW i, NEW j, IsNext(i, w), IsNext(j, w)
  PROVE  i = j
<1>1. Len(units) \in Nat /\ \A k \in 1 .. Len(units) : CodeEnd(k) \in Nat
  BY Places
<1>2. ASSUME NEW k, NEW l, IsNext(k, w), IsNext(l, w), k < l PROVE FALSE
  <2>1. k \in 1 .. Len(units) + 1 /\ l \in 1 .. Len(units) + 1 /\ k \in 1 .. Len(units)
    BY <1>1, <1>2 DEF IsNext
  <2>2. CodeEnd(k) - 2 < w /\ w <= CodeEnd(k) - 2 /\ CodeEnd(k) \in Nat
    BY <1>1, <1>2, <2>1 DEF IsNext
  <2>3. QED
    BY <2>2
<1>3. i \in Int /\ j \in Int
  BY <1>1 DEF IsNext
<1>4. i < j \/ j < i \/ i = j
  BY <1>3
<1>5. QED
  BY <1>2, <1>4

LEMMA LeastOf ==
  ASSUME NEW S, S \subseteq Int, NEW m \in S, \A y \in S : m <= y
  PROVE  Min(S) = m
<1>1. Min(S) \in S /\ \A y \in S : Min(S) <= y
  BY Zenon DEF Min
<1>2. Min(S) <= m /\ m <= Min(S) /\ m \in Int /\ Min(S) \in Int
  BY <1>1
<1>3. QED
  BY <1>2

(* Where the start code of unit i is found from w on.                      *)
First(i, w) == IF Before(i) + 1 <= w THEN w ELSE Before(i) + 1

LEMMA Finds ==
  ASSUME units \in Seq(Unit), NEW b, NEW p, NEW q, Excerpt(b, p, q),
         NEW w \in p + 1 .. q + 1, NEW i, IsNext(i, w)
  PROVE  /\ (i <= Len(units) /\ CodeEnd(i) <= q) =>
              LET r == FindStartCode(b, w - p) IN
                /\ r = First(i, w) - p /\ r \in w - p .. Len(b) - 2
                /\ r + StartCodeLen(b, r) = HeaderAt(i) - p
         /\ ~(i <= Len(units) /\ CodeEnd(i) <= q) => FindStartCode(b, w - p) = 0
<1> DEFINE n == Len(units)
           at == {y \in w - p .. Len(b) - 2 : IsStartCode(b, y)}
<1>1. /\ p \in Nat /\ q \in Nat /\ p <= q /\ Len(b) = q - p /\ n \in Nat
      /\ w \in Nat /\ p + 1 <= w
  BY ExcerptBytes, Places DEF Excerpt
<1>2. FindStartCode(b, w - p) = IF at = {} THEN 0 ELSE Min(at)
  BY DEF FindStartCode
<1>3. /\ \A j \in 1 .. n : j < i => CodeEnd(j) - 2 < w
      /\ i \in 1 .. n + 1
      /\ i <= n => w <= CodeEnd(i) - 2
  BY DEF IsNext
<1>4. /\ \A j \in 1 .. n :
           /\ units[j].code \in {3, 4} /\ Before(j) \in Nat
           /\ CodeEnd(j) = Before(j) + units[j].code
           /\ CodeEnd(j) \in Nat /\ Before(j) <= CodeEnd(j)
      /\ \A j, k \in 1 .. n : j < k => CodeEnd(j) < Before(k)
  <2>1. ASSUME NEW j \in 1 .. n
        PROVE  /\ units[j].code \in {3, 4} /\ Before(j) \in Nat
               /\ CodeEnd(j) = Before(j) + units[j].code
               /\ CodeEnd(j) \in Nat /\ Before(j) <= CodeEnd(j)
    BY Places
  <2>2. QED
    BY <2>1, Places
<1> HIDE DEF n
<1>5. \A y \in w - p .. Len(b) - 2 : y \in 1 .. Len(b) - 2 /\ y \in Int
  BY <1>1
<1>6. ASSUME NEW y \in at
      PROVE  \E j \in 1 .. n : /\ i <= j /\ CodeEnd(j) <= q
                               /\ Before(j) + 1 <= y + p /\ w <= y + p
  <2>1. y \in 1 .. Len(b) - 2 /\ IsStartCode(b, y) /\ y \in w - p .. Len(b) - 2
    BY <1>5
  <2>2. PICK j \in 1 .. n : At(j, y + p, q)
    BY <2>1, StartAt DEF n
  <2>3. /\ units[j].code \in {3, 4} /\ Before(j) \in Nat
        /\ CodeEnd(j) = Before(j) + units[j].code
    BY <1>4
  <2> DEFINE B == Before(j)
             c == units[j].code
             e == CodeEnd(j)
  <2>4. y + p + 2 = e \/ (c = 4 /\ y + p + 3 = e /\ e <= q)
    BY <2>2 DEF At
  <2>5. ~(e - 2 < w) => i <= j
    BY <1>3, <1>1
  <2> HIDE DEF B, c, e
  <2>6. c \in {3, 4} /\ B \in Nat /\ e = B + c
    BY <2>3 DEF B, c, e
  <2>7. B + 1 <= y + p /\ w <= y + p /\ e <= q /\ ~(e - 2 < w)
    BY <1>1, <2>1, <2>4, <2>6
  <2>8. QED
    BY <2>5, <2>7 DEF B, e
<1>7. CASE i <= n /\ CodeEnd(i) <= q
  <2> DEFINE r == First(i, w) - p
             B == Before(i)
             c == units[i].code
             e == CodeEnd(i)
             f == First(i, w)
  <2>1. /\ i \in 1 .. n /\ c \in {3, 4} /\ B \in Nat /\ e = B + c
        /\ w <= e - 2 /\ e <= q
    BY <1>1, <1>3, <1>4, <1>7
  <2>2. f = IF B + 1 <= w THEN w ELSE B + 1
    BY DEF First
  <2> HIDE DEF B, c, e, f
  <2>3. /\ w <= f /\ f \in Nat /\ B + 1 <= f /\ f <= e - 2
        /\ f + 2 = e \/ (c = 4 /\ f + 3 = e /\ e <= q)
    BY <1>1, <2>1, <2>2
  <2>4. /\ f - p \in w - p .. Len(b) - 2 /\ f - p \in 1 .. Len(b) - 2 /\ (f - p) + p = f
        /\ f - p \in Int
    BY <1>1, <2>1, <2>3
  <2>5. At(i, (f - p) + p, q)
    BY <2>3, <2>4 DEF At, e, c
  <2>6. /\ IsStartCode(b, f - p)
        /\ StartCodeLen(b, f - p) \in {3, 4}
        /\ (f - p) + p + StartCodeLen(b, f - p) = HeaderAt(i)
    BY <2>1, <2>4, <2>5, StartAt DEF n
  <2>7. f - p \in at
    BY <2>4, <2>6
  <2>8. ASSUME NEW y \in at PROVE f - p <= y
    <3>1. PICK j \in 1 .. n : /\ i <= j /\ CodeEnd(j) <= q
                              /\ Before(j) + 1 <= y + p /\ w <= y + p
      BY <1>6
    <3>2. y \in Int
      BY <1>5
    <3>3. CASE i = j
      <4>1. B + 1 <= y + p /\ w <= y + p
        BY <3>1, <3>3 DEF B
      <4>2. QED
        BY <1>1, <2>1, <2>2, <3>2, <4>1
    <3>4. CASE i < j
      <4>1. e < Before(j) /\ Before(j) \in Nat
        BY <1>4, <2>1, <3>4 DEF e
      <4>2. QED
        BY <1>1, <2>1, <2>3, <3>1, <3>2, <4>1
    <3>5. i = j \/ i < j
      BY <2>1, <3>1, <1>1
    <3>6. QED
      BY <3>3, <3>4, <3>5
  <2>9. at \subseteq Int
    BY <1>5
  <2> HIDE DEF at
  <2>10. Min(at) = f - p
    BY <2>7, <2>8, <2>9, LeastOf
  <2>11. FindStartCode(b, w - p) = f - p
    BY <1>2, <2>7, <2>10
  <2>12. f - p + StartCodeLen(b, f - p) = HeaderAt(i) - p
    <3>1. HeaderAt(i) \in Nat
      BY <2>1, Places DEF n
    <3> DEFINE d == StartCodeLen(b, f - p)
    <3>2. d \in {3, 4} /\ (f - p) + p + d = HeaderAt(i)
      BY <2>6
    <3> HIDE DEF d
    <3>3. f - p + d = HeaderAt(i) - p
      BY <1>1, <2>3, <3>1, <3>2
    <3>4. QED
      BY <3>3 DEF d
  <2>13. QED
    BY <1>7, <2>4, <2>11, <2>12 DEF f, n
<1>8. CASE ~(i <= n /\ CodeEnd(i) <= q)
  <2>1. at = {}
    <3>1. SUFFICES ASSUME NEW y \in at PROVE FALSE
      OBVIOUS
    <3>2. PICK j \in 1 .. n : i <= j /\ CodeEnd(j) <= q
      BY <1>6
    <3>3. i \in 1 .. n
      BY <1>1, <1>3, <3>2
    <3>4. CodeEnd(i) <= CodeEnd(j)
      <4>1. /\ CodeEnd(i) \in Nat /\ CodeEnd(j) \in Nat /\ Before(j) <= CodeEnd(j)
            /\ Before(j) \in Nat
        BY <1>4, <3>3
      <4>2. i = j \/ i < j
        BY <1>1, <3>2, <3>3
      <4>3. i < j => CodeEnd(i) < Before(j)
        BY <1>4, <3>3
      <4>4. QED
        BY <4>1, <4>2, <4>3
    <3>5. CodeEnd(i) <= q
      <4>1. CodeEnd(i) \in Nat /\ CodeEnd(j) \in Nat
        BY <1>4, <3>3
      <4>2. QED
        BY <1>1, <3>2, <3>4, <4>1
    <3>6. QED
      BY <1>1, <1>8, <3>3, <3>5
  <2>2. QED
    BY <1>2, <1>8, <2>1 DEF n
<1>9. QED
  BY <1>7, <1>8 DEF n

LEMMA IsExcerpt ==
  ASSUME units \in Seq(Unit), NEW p \in Nat, NEW q \in Nat, p <= q,
         q <= Len(Stream(units)), NEW s \in Seq(Byte), Len(s) = q - p,
         \A x \in 1 .. Len(s) : s[x] = Stream(units)[x + p]
  PROVE  Excerpt(s, p, q)
<1> DEFINE b == SubSeq(Stream(units), p + 1, q)
<1>1. Excerpt(b, p, q)
  BY DEF Excerpt
<1> HIDE DEF b
<1>2. /\ b \in Seq(Byte) /\ Len(b) = q - p
      /\ \A x \in 1 .. Len(b) : b[x] = Stream(units)[x + p]
  BY <1>1, ExcerptBytes
<1>3. b = s
  BY <1>2, SeqEqual
<1>4. QED
  BY <1>1, <1>3

(* A part of an excerpt.                                                     *)
LEMMA ExcerptPart ==
  ASSUME units \in Seq(Unit), NEW b, NEW p, NEW q, Excerpt(b, p, q),
         NEW y \in 1 .. Len(b) + 1, NEW z \in Nat, y <= z + 1, z <= Len(b)
  PROVE  Excerpt(SubSeq(b, y, z), p + y - 1, p + z)
<1> DEFINE s == SubSeq(b, y, z)
<1>1. /\ b \in Seq(Byte) /\ Len(b) = q - p /\ Len(b) \in Nat
      /\ \A x \in 1 .. Len(b) : b[x] = Stream(units)[x + p]
  BY ExcerptBytes
<1>2. p \in Nat /\ q \in Nat /\ p <= q /\ q <= Len(Stream(units)) /\ Len(Stream(units)) \in Nat
  BY Layout DEF Excerpt
<1>3. s \in Seq(Byte) /\ Len(s) = z - y + 1 /\ \A x \in 1 .. z - y + 1 : s[x] = b[y + x - 1]
  <2>1. \A x \in y .. z : b[x] \in Byte
    BY <1>1, ElementOfSeq
  <2>2. y \in Int /\ z \in Int
    OBVIOUS
  <2>3. /\ s \in Seq(Byte) /\ Len(s) = IF y <= z THEN z - y + 1 ELSE 0
        /\ \A x \in 1 .. z - y + 1 : s[x] = b[y + x - 1]
    BY <2>1, <2>2, SubSeqProperties
  <2>4. QED
    BY <2>3
<1> HIDE DEF s
<1>4. \A x \in 1 .. z - y + 1 :
        y + x - 1 \in 1 .. Len(b) /\ (y + x - 1) + p = x + (p + y - 1)
  BY <1>1, <1>2
<1>5. ASSUME NEW x \in 1 .. Len(s) PROVE s[x] = Stream(units)[x + (p + y - 1)]
  <2> DEFINE v == y + x - 1
  <2>1. x \in 1 .. z - y + 1
    BY <1>3
  <2>2. v \in 1 .. Len(b) /\ v + p = x + (p + y - 1) /\ s[x] = b[v]
    BY <1>3, <1>4, <2>1
  <2> HIDE DEF v
  <2>3. b[v] = Stream(units)[v + p]
    BY <1>1, <2>2
  <2>4. QED
    BY <2>2, <2>3
<1>6. /\ p + y - 1 \in Nat /\ p + z \in Nat /\ p + y - 1 <= p + z /\ p + z <= Len(Stream(units))
      /\ Len(s) = (p + z) - (p + y - 1)
  <2>1. Len(b) = q - p /\ Len(s) = z - y + 1 /\ y \in Nat
    BY <1>1, <1>3
  <2>2. QED
    BY <1>2, <2>1
<1>7. QED
  BY <1>3, <1>5, <1>6, IsExcerpt DEF s

LEMMA ExcerptsJoin ==
  ASSUME units \in Seq(Unit), NEW b, NEW d, NEW p, NEW q, NEW r,
         Excerpt(b, p, q), Excerpt(d, q, r)
  PROVE  Excerpt(b \o d, p, r)
<1> DEFINE W == Stream(units)
<1>1. /\ b \in Seq(Byte) /\ Len(b) = q - p /\ Len(b) \in Nat
      /\ \A x \in 1 .. Len(b) : b[x] = W[x + p]
      /\ d \in Seq(Byte) /\ Len(d) = r - q /\ Len(d) \in Nat
      /\ \A x \in 1 .. Len(d) : d[x] = W[x + q]
  BY ExcerptBytes
<1>2. p \in Nat /\ q \in Nat /\ r \in Nat /\ p <= q /\ q <= r /\ r <= Len(W) /\ Len(W) \in Nat
  BY Layout DEF Excerpt
<1> HIDE DEF W
<1> DEFINE s == b \o d
<1>3. /\ s \in Seq(Byte) /\ Len(s) = Len(b) + Len(d)
      /\ \A x \in 1 .. Len(b) + Len(d) : s[x] = IF x <= Len(b) THEN b[x] ELSE d[x - Len(b)]
  BY <1>1, ConcatProperties
<1> HIDE DEF s
<1>4. ASSUME NEW x \in 1 .. Len(s) PROVE s[x] = W[x + p]
  <2>1. CASE x <= Len(b)
    BY <1>1, <1>3, <2>1
  <2>2. CASE ~(x <= Len(b))
    <3> DEFINE y == x - Len(b)
    <3>1. y \in 1 .. Len(d) /\ y + q = x + p
      BY <1>1, <1>2, <1>3, <2>2
    <3>2. s[x] = d[y]
      BY <1>3, <2>2
    <3> HIDE DEF y
    <3>3. d[y] = W[y + q]
      BY <1>1, <3>1
    <3>4. QED
      BY <3>1, <3>2, <3>3, Zenon
  <2>3. QED
    BY <2>1, <2>2
<1>5. Len(s) = r - p /\ p <= r
  BY <1>1, <1>2, <1>3
<1>6. QED
  BY <1>2, <1>3, <1>4, <1>5, IsExcerpt DEF s, W

(* A NAL that lies in an excerpt.                                            *)
LEMMA NalThere ==
  ASSUME units \in Seq(Unit), NEW b, NEW p, NEW q, Excerpt(b, p, q),
         NEW i \in 1 .. Len(units), p <= CodeEnd(i), Before(i + 1) <= q
  PROVE  SubSeq(b, HeaderAt(i) - p, Before(i + 1) - p) = units[i].nal
<1> DEFINE y == HeaderAt(i) - p
           z == Before(i + 1) - p
           s == SubSeq(b, y, z)
           nal == units[i].nal
           e == CodeEnd(i)
           l == Len(nal)
<1>1. /\ p \in Nat /\ q \in Nat /\ p <= q
      /\ b \in Seq(Byte) /\ Len(b) = q - p
      /\ \A x \in 1 .. Len(b) : b[x] = Stream(units)[x + p]
  BY ExcerptBytes DEF Excerpt
<1>2. /\ e \in Nat /\ HeaderAt(i) = e + 1 /\ p <= e /\ Before(i) \in Nat
      /\ e = Before(i) + units[i].code
  BY Places
<1>3. nal \in Seq(Byte) /\ l \in Nat \ {0} /\ units[i].code \in {3, 4}
  BY UnitBytes
<1>4. Before(i + 1) = e + l
  BY <1>2, <1>3, BeforeFacts
<1>5. \A j \in 1 .. l : Stream(units)[e + j] = nal[j]
  BY StreamBytes DEF CodeEnd
<1> HIDE DEF e, l, nal
<1>6. Len(b) = q - p /\ p \in Nat /\ q \in Nat /\ p <= q /\ e \in Nat /\ l \in Nat \ {0}
       /\ p <= e
  BY <1>1, <1>2, <1>3
<1>7. y = e + 1 - p /\ z = e + l - p /\ e + l <= q
  <2>1. y = (e + 1) - p /\ z = (e + l) - p
    BY <1>2, <1>4, Zenon
  <2>2. e + l <= q
    BY <1>4, Zenon
  <2> HIDE DEF y, z
  <2>3. QED
    BY <1>6, <2>1, <2>2
<1> HIDE DEF y, z
<1>8. /\ y \in 1 .. Len(b) /\ z \in 1 .. Len(b) /\ z - y + 1 = l /\ y <= z
      /\ \A j \in 1 .. l : y + j - 1 \in 1 .. Len(b) /\ (y + j - 1) + p = e + j
  BY <1>6, <1>7
<1>9. s \in Seq(Byte) /\ Len(s) = l /\ \A j \in 1 .. l : s[j] = b[y + j - 1]
  <2>1. \A x \in y .. z : b[x] \in Byte
    BY <1>1, <1>8, ElementOfSeq
  <2>2. y \in Int /\ z \in Int
    BY <1>8
  <2>3. /\ s \in Seq(Byte) /\ Len(s) = IF y <= z THEN z - y + 1 ELSE 0
        /\ \A x \in 1 .. z - y + 1 : s[x] = b[y + x - 1]
    BY <2>1, <2>2, SubSeqProperties
  <2>4. QED
    BY <1>8, <2>3
<1>10. \A j \in 1 .. l : s[j] = nal[j]
  BY <1>1, <1>5, <1>8, <1>9
<1> HIDE DEF s
<1>11. s = nal
  BY <1>3, <1>9, <1>10, SeqEqual DEF l
<1>12. QED
  BY <1>11 DEF s, y, z, nal

(* One step of extract_nals, the rest of whose work is g's.                *)
SplitStep(b, g, i) ==
  LET start == FindStartCode(b, i)
      nal_start == start + StartCodeLen(b, start)
      nal_end == FindStartCode(b, nal_start)
  IN IF start = 0 THEN [nals |-> <<>>, buffer |-> SubSeq(b, i, Len(b))]
     ELSE IF nal_end = 0
       THEN [nals |-> <<>>, buffer |-> SubSeq(b, start, Len(b))]
     ELSE [g[nal_end] EXCEPT !.nals = Parse(SubSeq(b, nal_start, nal_end - 1)) \o @]

IsSplit(b, g) == g = [i \in 1 .. Len(b) + 1 |-> SplitStep(b, g, i)]

LEMMA ExtractIs ==
  ASSUME NEW b
  PROVE  ExtractNals(b) = (CHOOSE g : IsSplit(b, g))[1]
  BY Zenon DEF ExtractNals, IsSplit, SplitStep

NextUnit(w) == CHOOSE i : IsNext(i, w)

(* Units 1 to k have their start codes in the first q bytes.               *)
BegunTo(k, q) ==
  /\ k \in 0 .. Len(units)
  /\ \A i \in 1 .. Len(units) : CodeEnd(i) <= q <=> i <= k

(* What comes of an excerpt from x on.                                       *)
NalsFrom(i, k) == [j \in 1 .. k - i |-> units[i + j - 1].nal]

SplitFrom(b, p, k, x) ==
  LET i == NextUnit(x + p)
  IN IF i > k THEN [nals |-> <<>>, buffer |-> SubSeq(b, x, Len(b))]
     ELSE [nals |-> NalsFrom(i, k), buffer |-> SubSeq(b, First(k, x + p) - p, Len(b))]

LEMMA NextIs ==
  ASSUME units \in Seq(Unit), NEW w \in Nat
  PROVE  /\ IsNext(NextUnit(w), w)
         /\ \A i : IsNext(i, w) => NextUnit(w) = i
<1>1. IsNext(NextUnit(w), w)
  BY NextExists, Zenon DEF NextUnit
<1>2. QED
  BY <1>1, OneNext

LEMMA NextAfter ==
  ASSUME units \in Seq(Unit), NEW i \in 1 .. Len(units)
  PROVE  /\ IsNext(i + 1, HeaderAt(i))
         /\ i + 1 <= Len(units) => IsNext(i + 1, Before(i + 1) + 1)
<1> DEFINE n == Len(units)
           e == CodeEnd(i)
<1>1. /\ n \in Nat /\ HeaderAt(i) = e + 1 /\ e \in Nat
      /\ e < Before(i + 1) /\ Before(i + 1) \in Nat
  BY Places
<1>2. /\ \A j, k \in 1 .. n : j < k => CodeEnd(j) < Before(k)
      /\ \A j \in 1 .. n : /\ CodeEnd(j) \in Nat /\ Before(j) \in Nat /\ Before(j) + 3 <= CodeEnd(j)
  <2>1. ASSUME NEW j \in 1 .. n
        PROVE  CodeEnd(j) \in Nat /\ Before(j) \in Nat /\ Before(j) + 3 <= CodeEnd(j)
    <3>1. /\ units[j].code \in {3, 4} /\ Before(j) \in Nat
          /\ CodeEnd(j) = Before(j) + units[j].code
      BY Places
    <3>2. QED
      BY <3>1
  <2>2. QED
    BY <2>1, Places
<1> HIDE DEF n
<1>3. ASSUME NEW j \in 1 .. n, j < i + 1 PROVE CodeEnd(j) <= e
  <2>1. j = i \/ j < i
    BY <1>1, <1>3 DEF n
  <2>2. j < i => CodeEnd(j) < Before(i)
    BY <1>2 DEF n
  <2>3. Before(i) \in Nat /\ Before(i) + 3 <= CodeEnd(i) /\ CodeEnd(j) \in Nat
    BY <1>2 DEF n
  <2>4. QED
    BY <1>1, <2>1, <2>2, <2>3
<1>4. i + 1 \in 1 .. n + 1 /\ (i + 1 <= n => i + 1 \in 1 .. n)
  BY <1>1 DEF n
<1> HIDE DEF e
<1>5. ASSUME NEW j \in 1 .. n, j < i + 1
      PROVE  CodeEnd(j) - 2 < HeaderAt(i) /\ CodeEnd(j) - 2 < Before(i + 1) + 1
  <2>1. CodeEnd(j) <= e /\ CodeEnd(j) \in Nat
    BY <1>2, <1>3, <1>5
  <2>2. QED
    BY <1>1, <2>1
<1>6. ASSUME i + 1 <= n
      PROVE  HeaderAt(i) <= CodeEnd(i + 1) - 2 /\ Before(i + 1) + 1 <= CodeEnd(i + 1) - 2
  <2>1. Before(i + 1) + 3 <= CodeEnd(i + 1) /\ CodeEnd(i + 1) \in Nat
    BY <1>2, <1>4, <1>6
  <2>2. QED
    BY <1>1, <2>1
<1>7. IsNext(i + 1, HeaderAt(i))
  BY <1>4, <1>5, <1>6 DEF IsNext, n
<1>8. i + 1 <= n => IsNext(i + 1, Before(i + 1) + 1)
  BY <1>4, <1>5, <1>6 DEF IsNext, n
<1>9. QED
  BY <1>7, <1>8 DEF n

LEMMA NothingEnds ==
  ASSUME units \in Seq(Unit), NEW b, NEW p, NEW q, Excerpt(b, p, q),
         NEW k, BegunTo(k, q), NEW x \in 1 .. Len(b) + 1, NEW g,
         NextUnit(x + p) >= k
  PROVE  SplitStep(b, g, x) = SplitFrom(b, p, k, x)
<1> DEFINE i == NextUnit(x + p)
           n == Len(units)
           start == FindStartCode(b, x)
           nal_start == start + StartCodeLen(b, start)
           nal_end == FindStartCode(b, nal_start)
<1>1. /\ p \in Nat /\ q \in Nat /\ p <= q /\ Len(b) = q - p /\ n \in Nat
      /\ x + p \in p + 1 .. q + 1 /\ x + p \in Nat /\ (x + p) - p = x
  BY ExcerptBytes, Places DEF Excerpt
<1>2. IsNext(i, x + p)
  BY <1>1, NextIs
<1>3. i \in 1 .. n + 1 /\ k \in 0 .. n /\ (i \in 1 .. n => (CodeEnd(i) <= q <=> i <= k))
  BY <1>2 DEF IsNext, BegunTo
<1> HIDE DEF i
<1>4. CASE i > k
  <2>1. ~(i <= n /\ CodeEnd(i) <= q)
    <3>1. i <= n => i \in 1 .. n
      BY <1>1, <1>3
    <3>2. i <= n => ~(CodeEnd(i) <= q)
      BY <1>1, <1>3, <1>4, <3>1
    <3>3. QED
      BY <3>2, Zenon
  <2>2. FindStartCode(b, (x + p) - p) = 0
    BY <1>1, <1>2, <2>1, Finds DEF n
  <2>3. start = 0
    BY <1>1, <2>2
  <2>4. SplitStep(b, g, x) = [nals |-> <<>>, buffer |-> SubSeq(b, x, Len(b))]
    BY <2>3, Zenon DEF SplitStep
  <2>5. SplitFrom(b, p, k, x) = [nals |-> <<>>, buffer |-> SubSeq(b, x, Len(b))]
    BY <1>4, Zenon DEF SplitFrom, i
  <2>6. QED
    BY <2>4, <2>5
<1>5. CASE i = k
  <2>1. i \in 1 .. n /\ i <= n /\ CodeEnd(i) <= q /\ ~(i > k)
    BY <1>1, <1>3, <1>5
  <2> DEFINE r == FindStartCode(b, (x + p) - p)
  <2>2. /\ r = First(i, x + p) - p /\ r \in (x + p) - p .. Len(b) - 2
        /\ r + StartCodeLen(b, r) = HeaderAt(i) - p
    BY <1>1, <1>2, <2>1, Finds DEF n
  <2>3. r = start
    BY <1>1
  <2> HIDE DEF r, start, nal_start, nal_end
  <2>4. start # 0 /\ start = First(i, x + p) - p /\ start \in Nat
    BY <1>1, <2>2, <2>3
  <2>5. nal_start = HeaderAt(i) - p
    BY <2>2, <2>3, Zenon DEF nal_start
  <2>6. nal_end = 0
    <3>1. IsNext(i + 1, HeaderAt(i))
      BY <2>1, NextAfter DEF n
    <3>2. HeaderAt(i) = CodeEnd(i) + 1 /\ CodeEnd(i) \in Nat
      BY <2>1, Places DEF n
    <3>3. x + p <= CodeEnd(i) - 2
      BY <1>2, <2>1 DEF IsNext, n
    <3>4. HeaderAt(i) \in p + 1 .. q + 1
      BY <1>1, <2>1, <3>2, <3>3
    <3>5. ~(i + 1 <= n /\ CodeEnd(i + 1) <= q)
      <4>1. i + 1 <= n => i + 1 \in 1 .. n /\ ~(i + 1 <= k)
        BY <1>1, <1>3, <1>5
      <4>2. i + 1 <= n => ~(CodeEnd(i + 1) <= q)
        BY <4>1 DEF BegunTo, n
      <4>3. QED
        BY <4>2, Zenon
    <3>6. FindStartCode(b, HeaderAt(i) - p) = 0
      BY <3>1, <3>4, <3>5, Finds DEF n
    <3>7. QED
      BY <2>5, <3>6, Zenon DEF nal_end
  <2>7. SplitStep(b, g, x) = [nals |-> <<>>, buffer |-> SubSeq(b, start, Len(b))]
    BY <2>4, <2>6, Zenon DEF SplitStep, nal_end, nal_start, start
  <2>8. SplitFrom(b, p, k, x) =
          [nals |-> NalsFrom(i, k), buffer |-> SubSeq(b, First(k, x + p) - p, Len(b))]
    BY <2>1, Zenon DEF SplitFrom, i
  <2>9. NalsFrom(i, k) = <<>>
    <3>1. 1 .. k - i = {}
      BY <1>1, <1>3, <1>5
    <3>2. QED
      BY <3>1 DEF NalsFrom
  <2>10. SplitFrom(b, p, k, x) = [nals |-> <<>>, buffer |-> SubSeq(b, start, Len(b))]
    BY <1>5, <2>4, <2>8, <2>9, Zenon
  <2>11. QED
    BY <2>7, <2>10, Zenon
<1>6. QED
  BY <1>1, <1>3, <1>4, <1>5 DEF i

LEMMA SplitFromIs ==
  ASSUME NEW b, NEW p, NEW k, NEW x, NEW i, NEW f,
         NextUnit(x + p) = i, First(k, x + p) = f, ~(i > k)
  PROVE  SplitFrom(b, p, k, x) = [nals |-> NalsFrom(i, k), buffer |-> SubSeq(b, f - p, Len(b))]
  BY DEF SplitFrom

LEMMA ConcatIs ==
  ASSUME NEW S, NEW h \in Seq(S), NEW f \in Seq(S), NEW s \in Seq(S),
         Len(s) = Len(h) + Len(f), \A j \in 1 .. Len(h) : s[j] = h[j],
         \A j \in 1 .. Len(f) : s[Len(h) + j] = f[j]
  PROVE  h \o f = s
<1>1. Len(h) \in Nat /\ Len(f) \in Nat
  BY LenProperties
<1>2. /\ h \o f \in Seq(S) /\ Len(h \o f) = Len(h) + Len(f)
      /\ \A j \in 1 .. Len(h) + Len(f) :
           (h \o f)[j] = IF j <= Len(h) THEN h[j] ELSE f[j - Len(h)]
  BY ConcatProperties
<1>3. ASSUME NEW j \in 1 .. Len(s) PROVE s[j] = (h \o f)[j]
  <2>1. CASE j <= Len(h)
    BY <1>1, <1>2, <2>1
  <2>2. CASE ~(j <= Len(h))
    <3> DEFINE y == j - Len(h)
    <3>1. y \in 1 .. Len(f) /\ Len(h) + y = j
      BY <1>1, <2>2
    <3>2. (h \o f)[j] = f[y]
      BY <1>1, <1>2, <2>2
    <3> HIDE DEF y
    <3>3. s[Len(h) + y] = f[y]
      BY <3>1
    <3>4. QED
      BY <3>1, <3>2, <3>3, Zenon
  <2>3. QED
    BY <2>1, <2>2
<1>4. QED
  BY <1>2, <1>3, SeqEqual

LEMMA NalsFromAre ==
  ASSUME units \in Seq(Unit), NEW i \in 1 .. Len(units) + 1, NEW k \in 0 .. Len(units),
         i <= k + 1
  PROVE  /\ NalsFrom(i, k) \in Seq(Seq(Byte)) /\ Len(NalsFrom(i, k)) = IF i <= k THEN k - i ELSE 0
         /\ \A j \in 1 .. k - i : NalsFrom(i, k)[j] = units[i + j - 1].nal
<1> DEFINE m == IF i <= k THEN k - i ELSE 0
<1>1. Len(units) \in Nat
  BY Places
<1>2. m \in Nat /\ 1 .. m = 1 .. k - i
  BY <1>1
<1>3. \A j \in 1 .. m : i + j - 1 \in 1 .. Len(units)
  BY <1>1
<1>4. \A j \in 1 .. Len(units) : units[j].nal \in Seq(Byte)
  BY UnitBytes
<1>5. NalsFrom(i, k) = [j \in 1 .. m |-> units[i + j - 1].nal]
  BY <1>2, Zenon DEF NalsFrom
<1>6. QED
  BY <1>2, <1>3, <1>4, <1>5

LEMMA NalsFromGrows ==
  ASSUME units \in Seq(Unit), NEW i \in 1 .. Len(units), NEW k \in 1 .. Len(units), i < k
  PROVE  <<units[i].nal>> \o NalsFrom(i + 1, k) = NalsFrom(i, k)
<1> DEFINE f == NalsFrom(i, k)
           h == NalsFrom(i + 1, k)
           m == k - (i + 1)
<1>1. /\ Len(units) \in Nat /\ m \in Nat /\ k - i = m + 1 /\ k \in 0 .. Len(units)
      /\ i \in 1 .. Len(units) + 1 /\ i + 1 \in 1 .. Len(units) + 1
      /\ i <= k + 1 /\ i + 1 <= k + 1 /\ i <= k /\ i + 1 <= k
  BY Places
<1>2. /\ f \in Seq(Seq(Byte)) /\ Len(f) = m + 1
      /\ \A j \in 1 .. m + 1 : f[j] = units[i + j - 1].nal
  BY <1>1, NalsFromAre
<1>3. /\ h \in Seq(Seq(Byte)) /\ Len(h) = m
      /\ \A j \in 1 .. m : h[j] = units[(i + 1) + j - 1].nal
  BY <1>1, NalsFromAre
<1>4. units[i].nal \in Seq(Byte)
  BY UnitBytes
<1> HIDE DEF f, h, m
<1>5. f[1] = units[i].nal
  <2>1. 1 \in 1 .. m + 1 /\ i + 1 - 1 = i
    BY <1>1
  <2>2. f[1] = units[i + 1 - 1].nal
    BY <1>2, <2>1
  <2>3. QED
    BY <2>1, <2>2, Zenon
<1>6. ASSUME NEW j \in 1 .. m PROVE f[1 + j] = h[j]
  <2>1. 1 + j \in 1 .. m + 1 /\ i + (1 + j) - 1 = (i + 1) + j - 1
    BY <1>1
  <2>2. f[1 + j] = units[i + (1 + j) - 1].nal /\ h[j] = units[(i + 1) + j - 1].nal
    BY <1>2, <1>3, <2>1
  <2>3. QED
    BY <2>1, <2>2
<1>7. <<units[i].nal>> \o h = f
  <2> DEFINE s == <<units[i].nal>>
  <2>1. s \in Seq(Seq(Byte)) /\ Len(s) = 1 /\ s[1] = units[i].nal
    BY <1>4
  <2> HIDE DEF s
  <2>2. \A j \in 1 .. Len(s) : f[j] = s[j]
    BY <1>5, <2>1
  <2>3. \A j \in 1 .. Len(h) : f[Len(s) + j] = h[j]
    BY <1>3, <1>6, <2>1
  <2>4. Len(f) = Len(s) + Len(h)
    BY <1>1, <1>2, <1>3, <2>1
  <2>5. s \o h = f
    BY <1>2, <1>3, <2>1, <2>2, <2>3, <2>4, ConcatIs
  <2>6. QED
    BY <2>5 DEF s
<1>8. QED
  BY <1>7 DEF f, h

LEMMA OneEnds ==
  ASSUME units \in Seq(Unit), NEW b, NEW p, NEW q, Excerpt(b, p, q),
         NEW k, BegunTo(k, q), NEW x \in 1 .. Len(b) + 1, NEW g,
         NextUnit(x + p) < k,
         \A y \in x + 1 .. Len(b) + 1 : g[y] = SplitFrom(b, p, k, y)
  PROVE  SplitStep(b, g, x) = SplitFrom(b, p, k, x)
<1> DEFINE i == NextUnit(x + p)
           n == Len(units)
           start == FindStartCode(b, x)
           nal_start == start + StartCodeLen(b, start)
           nal_end == FindStartCode(b, nal_start)
<1>1. /\ p \in Nat /\ q \in Nat /\ p <= q /\ Len(b) = q - p /\ n \in Nat
      /\ x + p \in p + 1 .. q + 1 /\ x + p \in Nat /\ (x + p) - p = x
  BY ExcerptBytes, Places DEF Excerpt
<1>2. IsNext(i, x + p)
  BY <1>1, NextIs
<1>3. /\ i \in 1 .. n + 1 /\ k \in 0 .. n /\ i < k
      /\ \A j \in 1 .. n : CodeEnd(j) <= q <=> j <= k
  BY <1>2 DEF IsNext, BegunTo
<1> HIDE DEF i
<1>4. /\ i \in 1 .. n /\ i <= n /\ i + 1 \in 1 .. n /\ i + 1 <= k /\ i + 1 <= n /\ k \in 1 .. n
      /\ CodeEnd(i) <= q /\ CodeEnd(i + 1) <= q /\ ~(i > k) /\ ~(i + 1 > k)
  BY <1>1, <1>3
<1>5. /\ HeaderAt(i) = CodeEnd(i) + 1 /\ CodeEnd(i) \in Nat
      /\ CodeEnd(i) < Before(i + 1) /\ Before(i + 1) \in Nat
      /\ Before(i + 1) < CodeEnd(i + 1) /\ CodeEnd(i + 1) \in Nat
      /\ Before(k) \in Nat /\ Before(i + 1) <= Before(k)
  <2>1. /\ HeaderAt(i) = CodeEnd(i) + 1 /\ CodeEnd(i) \in Nat
        /\ CodeEnd(i) < Before(i + 1) /\ Before(k) \in Nat
        /\ (i < k => Before(i + 1) <= Before(k))
    BY <1>4, Places DEF n
  <2>2. /\ units[i + 1].code \in {3, 4} /\ Before(i + 1) \in Nat
        /\ CodeEnd(i + 1) = Before(i + 1) + units[i + 1].code
    BY <1>4, Places DEF n
  <2>3. QED
    BY <1>3, <2>1, <2>2
<1>6. x + p <= CodeEnd(i) - 2
  BY <1>2, <1>4 DEF IsNext, n
<1>7. /\ HeaderAt(i) \in p + 1 .. q + 1 /\ p <= CodeEnd(i) /\ Before(i + 1) <= q
      /\ x + p < Before(i + 1) + 1
      /\ Before(i + 1) + 1 \in p + 1 .. q + 1
  BY <1>1, <1>4, <1>5, <1>6
<1>8. start # 0 /\ nal_start = HeaderAt(i) - p
  <2> DEFINE r == FindStartCode(b, (x + p) - p)
  <2>1. /\ r \in (x + p) - p .. Len(b) - 2
        /\ r + StartCodeLen(b, r) = HeaderAt(i) - p
    BY <1>1, <1>2, <1>4, Finds DEF n
  <2>2. r = start
    BY <1>1
  <2> HIDE DEF r, start
  <2>3. QED
    BY <1>1, <2>1, <2>2
<1>9. nal_end = (Before(i + 1) + 1) - p
  <2>1. IsNext(i + 1, HeaderAt(i))
    BY <1>4, NextAfter DEF n
  <2>2. FindStartCode(b, HeaderAt(i) - p) = First(i + 1, HeaderAt(i)) - p
    BY <1>4, <1>7, <2>1, Finds DEF n
  <2>3. First(i + 1, HeaderAt(i)) = Before(i + 1) + 1
    BY <1>5 DEF First
  <2>4. QED
    BY <1>8, <2>2, <2>3 DEF nal_end
<1> HIDE DEF start, nal_start, nal_end
<1>10. /\ nal_end \in x + 1 .. Len(b) + 1 /\ nal_end # 0
       /\ nal_end + p = Before(i + 1) + 1 /\ nal_end - 1 = Before(i + 1) - p
  <2> DEFINE u == Before(i + 1)
  <2>1. /\ nal_end = (u + 1) - p /\ u \in Nat /\ u + 1 \in p + 1 .. q + 1 /\ x + p < u + 1
        /\ Len(b) = q - p /\ p \in Nat /\ q \in Nat /\ x \in Int
    BY <1>1, <1>5, <1>7, <1>9
  <2> HIDE DEF u
  <2>2. /\ nal_end \in x + 1 .. Len(b) + 1 /\ nal_end # 0
        /\ nal_end + p = u + 1 /\ nal_end - 1 = u - p
    BY <2>1
  <2>3. QED
    BY <2>2 DEF u
<1>11. SubSeq(b, nal_start, nal_end - 1) = units[i].nal
  <2>1. SubSeq(b, HeaderAt(i) - p, Before(i + 1) - p) = units[i].nal
    BY <1>4, <1>7, NalThere DEF n
  <2>2. QED
    BY <1>8, <1>10, <2>1, Zenon
<1>12. Parse(units[i].nal) = <<units[i].nal>>
  <2>1. units[i].nal \in Seq(Byte) /\ Len(units[i].nal) # 0
    BY <1>4, UnitBytes DEF n
  <2>2. units[i].nal # <<>>
    BY <2>1, EmptySeq
  <2>3. QED
    BY <2>2, Zenon DEF Parse
<1>13. g[nal_end] = [nals |-> NalsFrom(i + 1, k), buffer |-> SubSeq(b, (Before(k) + 1) - p, Len(b))]
  <2>1. g[nal_end] = SplitFrom(b, p, k, nal_end)
    BY <1>10
  <2>2. NextUnit(Before(i + 1) + 1) = i + 1
    <3>1. IsNext(i + 1, Before(i + 1) + 1)
      BY <1>4, NextAfter DEF n
    <3>2. Before(i + 1) + 1 \in Nat
      BY <1>5
    <3>3. QED
      BY <3>1, <3>2, NextIs
  <2>3. First(k, Before(i + 1) + 1) = Before(k) + 1
    BY <1>5 DEF First
  <2>4. NextUnit(nal_end + p) = i + 1 /\ First(k, nal_end + p) = Before(k) + 1
    BY <1>10, <2>2, <2>3, Zenon
  <2>5. SplitFrom(b, p, k, nal_end) =
          [nals |-> NalsFrom(i + 1, k), buffer |-> SubSeq(b, (Before(k) + 1) - p, Len(b))]
    BY <1>4, <2>4, SplitFromIs
  <2>6. QED
    BY <2>1, <2>5, Zenon
<1>14. SplitStep(b, g, x) =
         [nals |-> <<units[i].nal>> \o NalsFrom(i + 1, k),
          buffer |-> SubSeq(b, (Before(k) + 1) - p, Len(b))]
  <2>1. SplitStep(b, g, x) =
          [g[nal_end] EXCEPT !.nals = Parse(SubSeq(b, nal_start, nal_end - 1)) \o @]
    BY <1>8, <1>10, Zenon DEF SplitStep, start, nal_start, nal_end
  <2>2. SplitStep(b, g, x) = [g[nal_end] EXCEPT !.nals = <<units[i].nal>> \o @]
    BY <1>11, <1>12, <2>1, Zenon
  <2> DEFINE v == <<units[i].nal>>
             f == NalsFrom(i + 1, k)
             s == SubSeq(b, (Before(k) + 1) - p, Len(b))
             h == g[nal_end]
  <2>3. h = [nals |-> f, buffer |-> s] /\ SplitStep(b, g, x) = [h EXCEPT !.nals = v \o @]
    BY <1>13, <2>2, Zenon
  <2> HIDE DEF v, f, s, h
  <2>4. SplitStep(b, g, x) = [nals |-> v \o f, buffer |-> s]
    BY <2>3
  <2>5. QED
    BY <2>4, Zenon DEF v, f, s
<1>15. <<units[i].nal>> \o NalsFrom(i + 1, k) = NalsFrom(i, k)
  BY <1>3, <1>4, NalsFromGrows DEF n
<1>16. SplitFrom(b, p, k, x) =
         [nals |-> NalsFrom(i, k), buffer |-> SubSeq(b, (Before(k) + 1) - p, Len(b))]
  <2>1. First(k, x + p) = Before(k) + 1
    BY <1>1, <1>5, <1>7 DEF First
  <2>2. SplitFrom(b, p, k, x) =
          [nals |-> NalsFrom(i, k), buffer |-> SubSeq(b, First(k, x + p) - p, Len(b))]
    BY <1>4, Zenon DEF SplitFrom, i
  <2>3. QED
    BY <2>1, <2>2
<1>17. QED
  BY <1>14, <1>15, <1>16, Zenon

LEMMA StepIs ==
  ASSUME units \in Seq(Unit), NEW b, NEW p, NEW q, Excerpt(b, p, q),
         NEW k, BegunTo(k, q), NEW x \in 1 .. Len(b) + 1, NEW g,
         \A y \in x + 1 .. Len(b) + 1 : g[y] = SplitFrom(b, p, k, y)
  PROVE  SplitStep(b, g, x) = SplitFrom(b, p, k, x)
<1>1. x + p \in Nat /\ k \in Int
  <2>1. Len(b) \in Nat /\ p \in Nat
    BY ExcerptBytes DEF Excerpt
  <2>2. QED
    BY <2>1, Places DEF BegunTo
<1>2. IsNext(NextUnit(x + p), x + p)
  BY <1>1, NextIs
<1>3. NextUnit(x + p) \in Int
  BY <1>2, Places DEF IsNext
<1>4. NextUnit(x + p) >= k \/ NextUnit(x + p) < k
  BY <1>1, <1>3
<1>5. QED
  BY <1>4, NothingEnds, OneEnds

LEMMA ExtractedFrom ==
  ASSUME units \in Seq(Unit), NEW b, NEW p, NEW q, Excerpt(b, p, q),
         NEW k, BegunTo(k, q)
  PROVE  ExtractNals(b) = SplitFrom(b, p, k, 1)
<1> DEFINE N == Len(b) + 1
           G == [x \in 1 .. N |-> SplitFrom(b, p, k, x)]
           g == CHOOSE h : IsSplit(b, h)
           T == {m \in Nat : \A x \in 1 .. N : x + m > N => g[x] = SplitFrom(b, p, k, x)}
<1>1. Len(b) \in Nat /\ N \in Nat /\ 1 \in 1 .. N
  BY ExcerptBytes
<1>2. ASSUME NEW x \in 1 .. N PROVE SplitStep(b, G, x) = SplitFrom(b, p, k, x)
  <2>1. \A y \in x + 1 .. N : y \in 1 .. N
    BY <1>1
  <2>2. \A y \in x + 1 .. N : G[y] = SplitFrom(b, p, k, y)
    BY <2>1
  <2> HIDE DEF G
  <2>3. QED
    BY <2>2, StepIs
<1>3. IsSplit(b, G)
  <2>1. [x \in 1 .. N |-> SplitStep(b, G, x)] = G
    <3> DEFINE H == G
    <3>1. \A x \in 1 .. N : SplitStep(b, H, x) = SplitFrom(b, p, k, x)
      BY <1>2
    <3> HIDE DEF H
    <3>2. [x \in 1 .. N |-> SplitStep(b, H, x)] = [x \in 1 .. N |-> SplitFrom(b, p, k, x)]
      BY <3>1, Zenon
    <3>3. QED
      BY <3>2 DEF H
  <2> HIDE DEF G
  <2>2. QED
    BY <2>1, Zenon DEF IsSplit
<1>4. IsSplit(b, g)
  BY <1>3, Zenon
<1> HIDE DEF g
<1>5. ASSUME NEW x \in 1 .. N PROVE g[x] = SplitStep(b, g, x)
  <2> DEFINE h == g
  <2> HIDE DEF h
  <2>1. g = [i \in 1 .. N |-> SplitStep(b, h, i)]
    BY <1>4, Zenon DEF IsSplit, h
  <2>2. g[x] = SplitStep(b, h, x)
    BY <2>1
  <2>3. QED
    BY <2>2 DEF h
<1>6. 0 \in T
  BY <1>1
<1>7. ASSUME NEW m \in Nat, m \in T PROVE m + 1 \in T
  <2>1. SUFFICES ASSUME NEW x \in 1 .. N, x + (m + 1) > N
                 PROVE  g[x] = SplitFrom(b, p, k, x)
    OBVIOUS
  <2>2. \A y \in x + 1 .. N : y \in 1 .. N /\ y + m > N
    BY <1>1, <2>1
  <2>3. \A y \in x + 1 .. N : g[y] = SplitFrom(b, p, k, y)
    BY <1>7, <2>2
  <2>4. SplitStep(b, g, x) = SplitFrom(b, p, k, x)
    BY <2>3, StepIs
  <2>5. QED
    BY <1>5, <2>4
<1>8. N \in T
  <2> HIDE DEF T
  <2>1. QED
    BY <1>1, <1>6, <1>7, AllNaturals
<1>9. g[1] = SplitFrom(b, p, k, 1)
  <2>1. 1 + N > N
    BY <1>1
  <2>2. QED
    BY <1>1, <1>8, <2>1
<1>10. QED
  BY <1>9, ExtractIs DEF g

(* What extract_nals makes of an excerpt.                                    *)
LEMMA Extracted ==
  ASSUME units \in Seq(Unit), NEW b, NEW p, NEW q, Excerpt(b, p, q),
         NEW k, BegunTo(k, q), NEW i, IsNext(i, p + 1)
  PROVE  /\ i > k => /\ ExtractNals(b).nals = <<>>
                     /\ Excerpt(ExtractNals(b).buffer, p, q)
         /\ ~(i > k) => /\ ExtractNals(b).nals = NalsFrom(i, k)
                        /\ Excerpt(ExtractNals(b).buffer,
                                  IF Before(k) <= p THEN p ELSE Before(k), q)
<1>1. /\ p \in Nat /\ q \in Nat /\ p <= q /\ Len(b) = q - p /\ Len(b) \in Nat
      /\ p + 1 \in Nat /\ 1 + p = p + 1 /\ 1 \in 1 .. Len(b) + 1
  BY ExcerptBytes DEF Excerpt
<1>2. NextUnit(1 + p) = i
  BY <1>1, NextIs
<1>3. ASSUME NEW y \in 1 .. Len(b) + 1
      PROVE  Excerpt(SubSeq(b, y, Len(b)), p + y - 1, q)
  <2>1. y <= Len(b) + 1 /\ Len(b) <= Len(b) /\ p + Len(b) = q
    BY <1>1
  <2>2. Excerpt(SubSeq(b, y, Len(b)), p + y - 1, p + Len(b))
    BY <1>1, <2>1, ExcerptPart
  <2>3. QED
    BY <2>1, <2>2, Zenon
<1>4. ASSUME i > k
      PROVE  ExtractNals(b).nals = <<>> /\ Excerpt(ExtractNals(b).buffer, p, q)
  <2>1. ExtractNals(b) = [nals |-> <<>>, buffer |-> SubSeq(b, 1, Len(b))]
    BY <1>2, <1>4, ExtractedFrom DEF SplitFrom
  <2>2. Excerpt(SubSeq(b, 1, Len(b)), p + 1 - 1, q)
    BY <1>1, <1>3
  <2>3. p + 1 - 1 = p
    BY <1>1
  <2>4. QED
    BY <2>1, <2>2, <2>3
<1>5. ASSUME ~(i > k)
      PROVE  /\ ExtractNals(b).nals = NalsFrom(i, k)
             /\ Excerpt(ExtractNals(b).buffer, IF Before(k) <= p THEN p ELSE Before(k), q)
  <2> DEFINE f == First(k, 1 + p)
             y == f - p
  <2>1. ExtractNals(b) = [nals |-> NalsFrom(i, k), buffer |-> SubSeq(b, y, Len(b))]
    BY <1>2, <1>5, ExtractedFrom, SplitFromIs
  <2>2. k \in 1 .. Len(units) /\ CodeEnd(k) <= q
    <3>1. i \in 1 .. Len(units) + 1 /\ k \in 0 .. Len(units) /\ Len(units) \in Nat
      BY Places DEF IsNext, BegunTo
    <3>2. k \in 1 .. Len(units) /\ k <= k
      BY <1>5, <3>1
    <3>3. QED
      BY <3>2 DEF BegunTo
  <2> DEFINE B == Before(k)
  <2>3. B \in Nat /\ B <= q
    <3>1. /\ units[k].code \in {3, 4} /\ Before(k) \in Nat
          /\ CodeEnd(k) = Before(k) + units[k].code
      BY <2>2, Places
    <3>2. QED
      BY <1>1, <2>2, <3>1
  <2>4. f = IF B + 1 <= 1 + p THEN 1 + p ELSE B + 1
    BY DEF First
  <2> HIDE DEF B, f
  <2>5. y \in 1 .. Len(b) + 1 /\ p + y - 1 = IF B <= p THEN p ELSE B
    BY <1>1, <2>3, <2>4
  <2>6. Excerpt(SubSeq(b, y, Len(b)), p + y - 1, q)
    BY <1>3, <2>5
  <2> HIDE DEF y
  <2>7. ExtractNals(b).nals = NalsFrom(i, k) /\ ExtractNals(b).buffer = SubSeq(b, y, Len(b))
    <3> DEFINE e == ExtractNals(b)
               v == NalsFrom(i, k)
               s == SubSeq(b, y, Len(b))
    <3>1. e = [nals |-> v, buffer |-> s]
      BY <2>1, Zenon
    <3> HIDE DEF e, v, s
    <3>2. e.nals = v /\ e.buffer = s
      BY <3>1
    <3>3. QED
      BY <3>2 DEF e, v, s
  <2>8. Excerpt(ExtractNals(b).buffer, IF B <= p THEN p ELSE B, q)
    BY <2>5, <2>6, <2>7, Zenon
  <2>9. QED
    BY <2>7, <2>8 DEF B
<1>6. QED
  BY <1>4, <1>5

LEMMA BegunExists ==
  ASSUME units \in Seq(Unit), NEW q \in Nat
  PROVE  \E k : BegunTo(k, q)
<1> DEFINE n == Len(units)
<1>1. /\ n \in Nat /\ \A j, k \in 1 .. n : j < k => CodeEnd(j) < CodeEnd(k)
      /\ \A j \in 1 .. n : CodeEnd(j) \in Nat /\ CodeEnd(j) >= 3
  <2>1. ASSUME NEW j \in 1 .. n
        PROVE  CodeEnd(j) \in Nat /\ CodeEnd(j) >= 3 /\ Before(j) \in Nat
               /\ Before(j) <= CodeEnd(j)
    <3>1. /\ units[j].code \in {3, 4} /\ Before(j) \in Nat
          /\ CodeEnd(j) = Before(j) + units[j].code
      BY Places
    <3>2. QED
      BY <3>1
  <2>2. ASSUME NEW j \in 1 .. n, NEW k \in 1 .. n, j < k PROVE CodeEnd(j) < CodeEnd(k)
    <3>1. CodeEnd(j) < Before(k)
      BY <2>2, Places
    <3>2. QED
      BY <2>1, <3>1
  <2>3. QED
    BY <2>1, <2>2, Places
<1>2. CASE q = 0
  <2>1. 0 \in 0 .. n /\ \A j \in 1 .. n : ~(CodeEnd(j) <= q) /\ ~(j <= 0)
    BY <1>1, <1>2
  <2>2. BegunTo(0, q)
    BY <2>1 DEF BegunTo, n
  <2>3. QED
    BY <2>2
<1>3. CASE q # 0
  <2> DEFINE w == q - 1
  <2>1. w \in Nat
    BY <1>3
  <2>2. PICK i : IsNext(i, w)
    BY <2>1, NextExists
  <2>3. /\ i \in 1 .. n + 1
        /\ \A j \in 1 .. n : j < i => CodeEnd(j) - 2 < w
        /\ i <= n => w <= CodeEnd(i) - 2
    BY <2>2 DEF IsNext, n
  <2> HIDE DEF n
  <2>4. ASSUME NEW j \in 1 .. n PROVE CodeEnd(j) <= q <=> j <= i - 1
    <3>1. CASE j < i
      <4>1. CodeEnd(j) - 2 < w /\ CodeEnd(j) \in Nat /\ j <= i - 1
        BY <1>1, <2>3, <3>1
      <4>2. QED
        BY <4>1
    <3>2. CASE ~(j < i)
      <4>1. i \in 1 .. n /\ i <= n /\ (j = i \/ i < j) /\ ~(j <= i - 1)
        BY <1>1, <2>3, <3>2
      <4>2. w <= CodeEnd(i) - 2 /\ CodeEnd(i) \in Nat /\ CodeEnd(j) \in Nat
            /\ CodeEnd(i) <= CodeEnd(j)
        BY <1>1, <2>3, <4>1
      <4>3. ~(CodeEnd(j) <= q)
        BY <4>2
      <4>4. QED
        BY <4>1, <4>3
    <3>3. QED
      BY <3>1, <3>2
  <2>5. i - 1 \in 0 .. n
    BY <1>1, <2>3
  <2>6. BegunTo(i - 1, q)
    BY <2>4, <2>5 DEF BegunTo, n
  <2>7. QED
    BY <2>6
<1>4. QED
  BY <1>2, <1>3

LEMMA BegunIs ==
  ASSUME units \in Seq(Unit), NEW k, BegunTo(k, read)
  PROVE  Begun = 1 .. k /\ Cardinality(Begun) = k /\ k \in 0 .. Len(units)
<1>1. Len(units) \in Nat /\ k \in 0 .. Len(units)
      /\ \A i \in 1 .. Len(units) : CodeEnd(i) <= read <=> i <= k
  BY Places DEF BegunTo
<1>2. \A i \in 1 .. Len(units) : HeaderAt(i) - 1 = CodeEnd(i)
  <2>1. ASSUME NEW i \in 1 .. Len(units) PROVE HeaderAt(i) - 1 = CodeEnd(i)
    <3>1. HeaderAt(i) = CodeEnd(i) + 1 /\ CodeEnd(i) \in Nat
      BY Places
    <3>2. QED
      BY <3>1
  <2>2. QED
    BY <2>1
<1>3. DOMAIN units = 1 .. Len(units)
  BY LenProperties
<1>4. \A i \in 1 .. Len(units) : HeaderAt(i) - 1 <= read <=> i <= k
  BY <1>1, <1>2
<1>5. Begun = {i \in 1 .. Len(units) : i <= k}
  BY <1>3, <1>4 DEF Begun
<1>6. Begun = 1 .. k
  BY <1>1, <1>5
<1>7. Cardinality(1 .. k) = k
  BY <1>1, FS_Interval
<1>8. QED
  BY <1>1, <1>6, <1>7

(* What contains_keyframe finds in an excerpt.                               *)
ShowsKeyframe(i, p, q) ==
  /\ IsKeyframe(units[i].nal)
  /\ p + 1 <= HeaderAt(i) - 3 /\ HeaderAt(i) <= q
  /\ HeaderAt(i) = q => units[i].code = 4 /\ p + 1 <= HeaderAt(i) - 4

LEMMA Headers ==
  ASSUME units \in Seq(Unit), NEW b, NEW p, NEW q, Excerpt(b, p, q),
         NEW i \in 1 .. Len(units), p + 1 <= HeaderAt(i), HeaderAt(i) <= q
  PROVE  b[HeaderAt(i) - p] = units[i].nal[1]
<1> DEFINE e == CodeEnd(i)
<1>1. /\ HeaderAt(i) = e + 1 /\ e \in Nat
  BY Places
<1>2. /\ p \in Nat /\ q \in Nat /\ Len(b) = q - p
      /\ \A x \in 1 .. Len(b) : b[x] = Stream(units)[x + p]
  BY ExcerptBytes DEF Excerpt
<1>3. Stream(units)[e + 1] = units[i].nal[1]
  <2>1. 1 \in 1 .. Len(units[i].nal)
    BY UnitBytes
  <2>2. QED
    BY <2>1, StreamBytes DEF CodeEnd
<1> HIDE DEF e
<1>4. HeaderAt(i) - p \in 1 .. Len(b) /\ (HeaderAt(i) - p) + p = e + 1
  BY <1>1, <1>2
<1>5. QED
  BY <1>2, <1>3, <1>4

LEMMA KeyframesShow ==
  ASSUME units \in Seq(Unit), NEW b, NEW p, NEW q, Excerpt(b, p, q)
  PROVE  ContainsKeyframe(b) <=> \E i \in 1 .. Len(units) : ShowsKeyframe(i, p, q)
<1> DEFINE n == Len(units)
           Here(x) == /\ IsStartCode(b, x)
                      /\ b[x + (IF b[x + 2] = 1 THEN 3 ELSE 4)] % 32 = 5
<1>1. /\ p \in Nat /\ q \in Nat /\ Len(b) = q - p /\ Len(b) \in Nat
  BY ExcerptBytes DEF Excerpt
<1>2. \A x \in 1 .. Len(b) - 4 : x \in 1 .. Len(b) - 2
  BY <1>1
<1>3. \A i \in 1 .. n : HeaderAt(i) = CodeEnd(i) + 1 /\ CodeEnd(i) \in Nat
  BY Places
<1>4. ASSUME NEW x \in 1 .. Len(b) - 4, NEW i \in 1 .. n, At(i, x + p, q)
      PROVE  /\ IsStartCode(b, x)
             /\ x + (IF b[x + 2] = 1 THEN 3 ELSE 4) = HeaderAt(i) - p
             /\ p + 1 <= HeaderAt(i) - 3 /\ HeaderAt(i) <= q
             /\ HeaderAt(i) = q => units[i].code = 4 /\ p + 1 <= HeaderAt(i) - 4
             /\ b[HeaderAt(i) - p] = units[i].nal[1]
  <2>1. IsStartCode(b, x) /\ (b[x + 2] = 1 <=> x + p + 3 = HeaderAt(i))
    BY <1>2, <1>4, StartAt
  <2>2. \/ x + p + 3 = HeaderAt(i)
        \/ units[i].code = 4 /\ x + p + 4 = HeaderAt(i) /\ HeaderAt(i) - 1 <= q
    BY <1>1, <1>3, <1>4 DEF At
  <2>3. HeaderAt(i) \in Nat
    BY <1>3
  <2> DEFINE t == HeaderAt(i)
             u == b[x + 2]
  <2> HIDE DEF t, u
  <2>4. x + (IF u = 1 THEN 3 ELSE 4) = t - p
    BY <1>1, <2>1, <2>2, <2>3 DEF t, u
  <2>5. p + 1 <= t - 3 /\ t <= q
    BY <1>1, <2>2, <2>3 DEF t
  <2>6. t = q => units[i].code = 4 /\ p + 1 <= t - 4
    BY <1>1, <2>2, <2>3 DEF t
  <2>7. p + 1 <= HeaderAt(i) /\ HeaderAt(i) <= q
    BY <1>1, <2>3, <2>5 DEF t
  <2>8. b[HeaderAt(i) - p] = units[i].nal[1]
    BY <2>7, Headers
  <2>9. QED
    BY <2>1, <2>4, <2>5, <2>6, <2>8 DEF t, u
<1>5. ASSUME NEW x \in 1 .. Len(b) - 4, Here(x)
      PROVE  \E i \in 1 .. n : ShowsKeyframe(i, p, q)
  <2>1. PICK i \in 1 .. n : At(i, x + p, q)
    BY <1>2, <1>5, StartAt
  <2>2. /\ x + (IF b[x + 2] = 1 THEN 3 ELSE 4) = HeaderAt(i) - p
        /\ p + 1 <= HeaderAt(i) - 3 /\ HeaderAt(i) <= q
        /\ HeaderAt(i) = q => units[i].code = 4 /\ p + 1 <= HeaderAt(i) - 4
        /\ b[HeaderAt(i) - p] = units[i].nal[1]
    BY <1>4, <2>1
  <2>3. b[HeaderAt(i) - p] % 32 = 5
    BY <1>5, <2>2
  <2>4. IsKeyframe(units[i].nal)
    BY <2>2, <2>3 DEF IsKeyframe
  <2>5. QED
    BY <2>2, <2>4 DEF ShowsKeyframe
<1>6. ASSUME NEW i \in 1 .. n, ShowsKeyframe(i, p, q)
      PROVE  \E x \in 1 .. Len(b) - 4 : Here(x)
  <2> DEFINE t == HeaderAt(i)
             x == IF t < q THEN (t - 3) - p ELSE (t - 4) - p
  <2>1. t = CodeEnd(i) + 1 /\ CodeEnd(i) \in Nat
    BY <1>3
  <2>2. /\ p + 1 <= t - 3 /\ t <= q
        /\ t = q => units[i].code = 4 /\ p + 1 <= t - 4
    BY <1>6 DEF ShowsKeyframe
  <2>3. units[i].nal[1] % 32 = 5
    BY <1>6 DEF ShowsKeyframe, IsKeyframe
  <2> HIDE DEF t
  <2> DEFINE e == CodeEnd(i)
             l == Len(b)
             Four == units[i].code = 4
  <2>4. /\ p \in Nat /\ q \in Nat /\ l = q - p /\ t = e + 1 /\ e \in Nat
         /\ p + 1 <= t - 3 /\ t <= q /\ (t = q => Four /\ p + 1 <= t - 4)
    BY <1>1, <2>1, <2>2
  <2> HIDE DEF e, l, Four
  <2>5. ASSUME t < q PROVE x \in 1 .. l - 4 /\ x + p + 2 = e
    <3>1. x = (t - 3) - p
      BY <2>5
    <3> HIDE DEF x
    <3>2. x \in 1 .. l - 4 /\ x + p + 2 = e
      BY <2>4, <2>5, <3>1
    <3>3. QED
      BY <3>2
  <2>6. ASSUME ~(t < q) PROVE x \in 1 .. l - 4 /\ x + p + 3 = e /\ e <= q /\ Four
    <3>1. x = (t - 4) - p
      BY <2>6
    <3> HIDE DEF x
    <3>2. t = q
      BY <2>4, <2>6
    <3>3. x \in 1 .. l - 4 /\ x + p + 3 = e /\ e <= q /\ Four
      BY <2>4, <3>1, <3>2
    <3>4. QED
      BY <3>3
  <2> HIDE DEF x
  <2>7. x \in 1 .. Len(b) - 4
    BY <2>5, <2>6 DEF l
  <2>8. x + p + 2 = CodeEnd(i) \/ (units[i].code = 4 /\ x + p + 3 = CodeEnd(i) /\ CodeEnd(i) <= q)
    BY <2>5, <2>6 DEF e, Four
  <2>9. At(i, x + p, q)
    BY <2>8 DEF At
  <2>10. /\ IsStartCode(b, x)
        /\ x + (IF b[x + 2] = 1 THEN 3 ELSE 4) = HeaderAt(i) - p
        /\ b[HeaderAt(i) - p] = units[i].nal[1]
    BY <1>4, <2>7, <2>9
  <2>11. Here(x)
    BY <2>3, <2>10
  <2> HIDE DEF Here
  <2>12. QED
    BY <2>7, <2>11
<1>7. ContainsKeyframe(b) <=> \E x \in 1 .. Len(b) - 4 : Here(x)
  BY Zenon DEF ContainsKeyframe
<1> HIDE DEF Here
<1>8. QED
  BY <1>5, <1>6, <1>7

LEMMA NalsFromJoin ==
  ASSUME units \in Seq(Unit), NEW i \in 1 .. Len(units), NEW k \in 1 .. Len(units), i <= k
  PROVE  NalsFrom(1, i) \o NalsFrom(i, k) = NalsFrom(1, k)
<1> DEFINE h == NalsFrom(1, i)
           f == NalsFrom(i, k)
           s == NalsFrom(1, k)
<1>1. /\ Len(units) \in Nat /\ 1 \in 1 .. Len(units) + 1 /\ i \in 1 .. Len(units) + 1
      /\ i \in 0 .. Len(units) /\ k \in 0 .. Len(units)
      /\ 1 <= i + 1 /\ 1 <= k + 1 /\ i <= k + 1 /\ 1 <= i /\ 1 <= k
  BY Places
<1>2. /\ h \in Seq(Seq(Byte)) /\ Len(h) = i - 1
      /\ \A j \in 1 .. i - 1 : h[j] = units[1 + j - 1].nal
  BY <1>1, NalsFromAre
<1>3. /\ f \in Seq(Seq(Byte)) /\ Len(f) = k - i
      /\ \A j \in 1 .. k - i : f[j] = units[i + j - 1].nal
  BY <1>1, NalsFromAre
<1>4. /\ s \in Seq(Seq(Byte)) /\ Len(s) = k - 1
      /\ \A j \in 1 .. k - 1 : s[j] = units[1 + j - 1].nal
  BY <1>1, NalsFromAre
<1> HIDE DEF h, f, s
<1>5. ASSUME NEW j \in 1 .. i - 1 PROVE s[j] = h[j]
  <2>1. j \in 1 .. k - 1
    BY <1>1
  <2>2. QED
    BY <1>2, <1>4, <2>1
<1>6. \A j \in 1 .. k - i : s[(i - 1) + j] = f[j]
  <2>1. \A j \in 1 .. k - i : (i - 1) + j \in 1 .. k - 1 /\ 1 + ((i - 1) + j) - 1 = i + j - 1
    BY <1>1
  <2>2. QED
    BY <1>3, <1>4, <2>1
<1>7. Len(s) = Len(h) + Len(f)
  BY <1>1, <1>2, <1>3, <1>4
<1>8. h \o f = s
  <2>1. \A j \in 1 .. Len(h) : s[j] = h[j]
    BY <1>2, <1>5
  <2>2. \A j \in 1 .. Len(f) : s[Len(h) + j] = f[j]
    BY <1>2, <1>3, <1>6
  <2>3. QED
    BY <1>2, <1>3, <1>4, <1>7, <2>1, <2>2, ConcatIs
<1>9. QED
  BY <1>8 DEF h, f, s

Increasing(kept, m) == \A a, c \in 1 .. m : a < c => kept[a] < kept[c]

LEMMA IncreasingIs ==
  ASSUME NEW m \in Nat, NEW n \in Nat, NEW kept \in [1 .. m -> 1 .. n], Increasing(kept, m)
  PROVE  \A a \in 1 .. m : a <= kept[a]
<1> DEFINE T == {k \in Nat : \A a \in 1 .. m : a <= k => a <= kept[a]}
<1>1. 0 \in T
  OBVIOUS
<1>2. ASSUME NEW k \in Nat, k \in T PROVE k + 1 \in T
  <2>1. SUFFICES ASSUME NEW a \in 1 .. m, a <= k + 1 PROVE a <= kept[a]
    OBVIOUS
  <2>2. kept[a] \in 1 .. n
    OBVIOUS
  <2>3. CASE a = 1
    BY <2>2, <2>3
  <2>4. CASE a # 1
    <3>1. a - 1 \in 1 .. m /\ a - 1 <= k /\ a - 1 < a
      BY <2>1, <2>4
    <3>2. a - 1 <= kept[a - 1] /\ kept[a - 1] \in 1 .. n
      BY <1>2, <3>1
    <3>3. kept[a - 1] < kept[a]
      BY <3>1 DEF Increasing
    <3>4. QED
      BY <2>2, <3>1, <3>2, <3>3
  <2>5. QED
    BY <2>3, <2>4
<1>3. m \in T
  <2> HIDE DEF T
  <2>1. QED
    BY <1>1, <1>2, AllNaturals
<1>4. QED
  BY <1>3

(* Units all of whose bytes are among the first p.                         *)
WholeUnits(ns, p) ==
  \E m \in 0 .. Len(units) : \E kept \in [1 .. m -> 1 .. Len(units)] :
    /\ Increasing(kept, m)
    /\ ns = [a \in 1 .. m |-> units[kept[a]].nal]
    /\ \A a \in 1 .. m : Before(kept[a] + 1) <= p

LEMMA NalsOf ==
  ASSUME units \in Seq(Unit), NEW m \in Nat, NEW kept \in [1 .. m -> 1 .. Len(units)],
         NEW s, s = [a \in 1 .. m |-> units[kept[a]].nal]
  PROVE  /\ s \in Seq(Seq(Byte)) /\ Len(s) = m
         /\ \A a \in 1 .. m : s[a] = units[kept[a]].nal
<1>1. \A i \in 1 .. Len(units) : units[i].nal \in Seq(Byte)
  BY UnitBytes
<1>2. \A a \in 1 .. m : kept[a] \in 1 .. Len(units)
  OBVIOUS
<1>3. \A a \in 1 .. m : units[kept[a]].nal \in Seq(Byte)
  BY <1>1, <1>2
<1>4. QED
  BY <1>3

LEMMA MoreUnits ==
  ASSUME units \in Seq(Unit), NEW ns, NEW p \in Nat, WholeUnits(ns, p),
         NEW i, IsNext(i, p + 1), NEW k \in 0 .. Len(units), ~(i > k)
  PROVE  WholeUnits(ns \o NalsFrom(i, k), IF Before(k) <= p THEN p ELSE Before(k))
<1> DEFINE n == Len(units)
           f == NalsFrom(i, k)
           p2 == IF Before(k) <= p THEN p ELSE Before(k)
<1>1. PICK m \in 0 .. n : \E kept \in [1 .. m -> 1 .. n] :
        /\ Increasing(kept, m)
        /\ ns = [a \in 1 .. m |-> units[kept[a]].nal]
        /\ \A a \in 1 .. m : Before(kept[a] + 1) <= p
  BY DEF WholeUnits
<1>2. PICK kept \in [1 .. m -> 1 .. n] :
        /\ Increasing(kept, m)
        /\ ns = [a \in 1 .. m |-> units[kept[a]].nal]
        /\ \A a \in 1 .. m : Before(kept[a] + 1) <= p
  BY <1>1
<1>3. /\ n \in Nat /\ m \in Nat /\ i \in 1 .. n /\ k \in 1 .. n /\ i <= k
      /\ p + 1 <= CodeEnd(i) - 2
  BY Places DEF IsNext
<1>4. /\ \A a \in 1 .. n : CodeEnd(a) < Before(a + 1) /\ CodeEnd(a) \in Nat /\ Before(a) \in Nat
                           /\ Before(a + 1) \in Nat
      /\ \A a, c \in 1 .. n : a < c => Before(a + 1) <= Before(c)
      /\ \A a, c \in 1 .. n : a < c => CodeEnd(a) < Before(c)
  BY Places
<1>5. ASSUME NEW a \in 1 .. m PROVE kept[a] \in 1 .. n /\ kept[a] < i
  <2>1. kept[a] \in 1 .. n /\ Before(kept[a] + 1) <= p
    BY <1>2
  <2> DEFINE d == kept[a]
  <2>2. d \in 1 .. n /\ CodeEnd(d) < Before(d + 1) /\ CodeEnd(d) \in Nat /\ Before(d + 1) \in Nat
        /\ Before(d + 1) <= p /\ CodeEnd(i) \in Nat
    BY <1>3, <1>4, <2>1
  <2> HIDE DEF d
  <2>3. d # i
    BY <1>3, <2>2
  <2>4. ~(i < d)
    <3>1. SUFFICES ASSUME i < d PROVE FALSE
      OBVIOUS
    <3>2. Before(i + 1) <= Before(d) /\ CodeEnd(i) < Before(i + 1) /\ Before(i + 1) \in Nat
          /\ Before(d) \in Nat
      BY <1>3, <1>4, <2>2, <3>1
    <3>3. Before(d) <= CodeEnd(d)
      <4>1. /\ units[d].code \in {3, 4} /\ Before(d) \in Nat
            /\ CodeEnd(d) = Before(d) + units[d].code
        BY <2>2, Places
      <4>2. QED
        BY <4>1
    <3>4. QED
      BY <1>3, <2>2, <3>2, <3>3
  <2>5. d < i
    BY <1>3, <2>2, <2>3, <2>4
  <2>6. QED
    BY <2>2, <2>5 DEF d
<1>6. m < i
  <2>1. CASE m = 0
    BY <1>3, <2>1
  <2>2. CASE m # 0
    <3>1. m \in 1 .. m
      BY <1>3, <2>2
    <3>2. m <= kept[m]
      BY <1>2, <1>3, <3>1, IncreasingIs
    <3>3. QED
      BY <1>3, <1>5, <3>1, <3>2
  <2>3. QED
    BY <2>1, <2>2
<1> DEFINE m2 == m + (k - i)
           kept2 == [a \in 1 .. m2 |-> IF a <= m THEN kept[a] ELSE i + (a - m) - 1]
<1>7. m2 \in 0 .. n /\ k - i \in Nat
  BY <1>3, <1>6
<1> HIDE DEF n
<1>8. ASSUME NEW a \in 1 .. m2
      PROVE  /\ a <= m => a \in 1 .. m /\ kept2[a] = kept[a] /\ kept2[a] \in 1 .. n /\ kept2[a] < i
             /\ ~(a <= m) => /\ kept2[a] = i + (a - m) - 1 /\ kept2[a] \in i .. k - 1
                             /\ kept2[a] \in 1 .. n
  <2>1. a <= m => a \in 1 .. m
    BY <1>3, <1>7
  <2>2. ~(a <= m) => i + (a - m) - 1 \in i .. k - 1 /\ i + (a - m) - 1 \in 1 .. n
    BY <1>3, <1>7
  <2>3. QED
    BY <1>5, <2>1, <2>2
<1>9. kept2 \in [1 .. m2 -> 1 .. n]
  <2>1. \A a \in 1 .. m2 : kept2[a] \in 1 .. n
    BY <1>8
  <2>2. QED
    BY <2>1
<1>10. ASSUME NEW a \in 1 .. m2, NEW c \in 1 .. m2, a < c PROVE kept2[a] < kept2[c]
  <2> DEFINE u == kept2[a]
             v == kept2[c]
  <2>1. CASE c <= m
    <3>1. a <= m
      BY <1>3, <1>7, <1>10, <2>1
    <3>2. kept[a] < kept[c]
      BY <1>2, <1>8, <1>10, <2>1, <3>1 DEF Increasing
    <3>3. QED
      BY <1>8, <2>1, <3>1, <3>2
  <2>2. CASE a <= m /\ ~(c <= m)
    <3>1. u < i /\ u \in 1 .. n /\ v \in i .. k - 1
      BY <1>8, <2>2
    <3> HIDE DEF u, v
    <3>2. u < v
      BY <1>3, <3>1
    <3>3. QED
      BY <3>2 DEF u, v
  <2>3. CASE ~(a <= m) /\ ~(c <= m)
    <3>1. u = i + (a - m) - 1 /\ v = i + (c - m) - 1
      BY <1>8, <2>3
    <3> HIDE DEF u, v
    <3>2. u < v
      BY <1>3, <1>7, <1>10, <3>1
    <3>3. QED
      BY <3>2 DEF u, v
  <2>4. QED
    BY <1>3, <1>7, <1>10, <2>1, <2>2, <2>3
<1>11. ns \o f = [a \in 1 .. m2 |-> units[kept2[a]].nal]
  <2> DEFINE s == [a \in 1 .. m2 |-> units[kept2[a]].nal]
  <2>1. /\ ns \in Seq(Seq(Byte)) /\ Len(ns) = m
        /\ \A a \in 1 .. m : ns[a] = units[kept[a]].nal
    BY <1>2, <1>3, NalsOf DEF n
  <2>2. /\ s \in Seq(Seq(Byte)) /\ Len(s) = m2
        /\ \A a \in 1 .. m2 : s[a] = units[kept2[a]].nal
    <3> HIDE DEF kept2, m2
    <3>1. m2 \in Nat
      BY <1>3, <1>7
    <3>2. QED
      BY <1>9, <3>1, NalsOf DEF n
  <2>3. /\ f \in Seq(Seq(Byte)) /\ Len(f) = k - i
        /\ \A j \in 1 .. k - i : f[j] = units[i + j - 1].nal
    <3>1. i \in 1 .. Len(units) + 1 /\ i <= k + 1 /\ i <= k /\ Len(units) \in Nat
      BY <1>3 DEF n
    <3>2. QED
      BY <3>1, NalsFromAre
  <2> HIDE DEF s, f
  <2>4. \A a \in 1 .. m : s[a] = ns[a]
    <3>1. SUFFICES ASSUME NEW a \in 1 .. m PROVE s[a] = ns[a]
      OBVIOUS
    <3>2. a \in 1 .. m2 /\ a <= m
      BY <1>3, <1>7
    <3>3. kept2[a] = kept[a]
      BY <1>8, <3>2
    <3>4. QED
      BY <2>1, <2>2, <3>2, <3>3
  <2>5. \A j \in 1 .. k - i : s[m + j] = f[j]
    <3>1. SUFFICES ASSUME NEW j \in 1 .. k - i PROVE s[m + j] = f[j]
      OBVIOUS
    <3>2. m + j \in 1 .. m2 /\ ~(m + j <= m) /\ i + ((m + j) - m) - 1 = i + j - 1
      BY <1>3, <1>7
    <3>3. kept2[m + j] = i + j - 1
      BY <1>8, <3>2
    <3>4. QED
      BY <2>2, <2>3, <3>2, <3>3
  <2>6. Len(s) = Len(ns) + Len(f)
    BY <2>1, <2>2, <2>3
  <2>7. ns \o f = s
    <3>1. \A j \in 1 .. Len(ns) : s[j] = ns[j]
      BY <2>1, <2>4
    <3>2. \A j \in 1 .. Len(f) : s[Len(ns) + j] = f[j]
      BY <2>1, <2>3, <2>5
    <3>3. QED
      BY <2>1, <2>2, <2>3, <2>6, <3>1, <3>2, ConcatIs
  <2>8. QED
    BY <2>7 DEF s
<1>12. ASSUME NEW a \in 1 .. m2 PROVE Before(kept2[a] + 1) <= p2
  <2>1. Before(k) \in Nat
    BY <1>3, <1>4 DEF n
  <2>2. CASE a <= m
    <3>1. Before(kept[a] + 1) <= p /\ kept2[a] = kept[a] /\ kept[a] \in 1 .. n
      BY <1>2, <1>5, <1>8, <2>2
    <3>2. Before(kept[a] + 1) \in Nat
      BY <1>4, <3>1 DEF n
    <3>3. QED
      BY <2>1, <3>1, <3>2
  <2>3. CASE ~(a <= m)
    <3> DEFINE d == kept2[a]
    <3>1. d \in 1 .. n /\ d < k
      BY <1>3, <1>8, <2>3
    <3> HIDE DEF d
    <3>2. Before(d + 1) <= Before(k) /\ Before(d + 1) \in Nat
      BY <1>3, <1>4, <3>1 DEF n
    <3>3. Before(d + 1) <= p2
      BY <2>1, <3>2
    <3>4. QED
      BY <3>3 DEF d
  <2>4. QED
    BY <2>2, <2>3
<1> HIDE DEF kept2, p2, f, m2
<1>13. Increasing(kept2, m2)
  BY <1>10 DEF Increasing
<1>14. WholeUnits(ns \o f, p2)
  BY <1>7, <1>9, <1>11, <1>12, <1>13 DEF WholeUnits, n
<1>15. QED
  BY <1>14 DEF f, p2

(* What the parser holds, while it is fed: the stream from some byte on, of *)
(* the units before which it has returned some; and all of them, if it has *)
(* given no buffer up.                                                     *)
Holds(p) ==
  /\ Excerpt(unparsed, p, read)
  /\ WholeUnits(nals, p)
  /\ ~reset => \E k : /\ BegunTo(k, read) /\ nals = NalsFrom(1, k)
                      /\ p = IF k = 0 THEN 0 ELSE Before(k)

NalInv ==
  /\ units \in Seq(Unit) /\ Len(units) = MaxUnits
  /\ ParserTypeOK /\ KeyframesMarked
  /\ ~flushed => \E p : Holds(p)
  /\ flushed => SplitIsExact

LEMMA HoldsIsWhole == NalInv => OnlyWholeNals
<1> SUFFICES ASSUME NalInv, ~flushed PROVE OnlyWholeNals
  BY DEF OnlyWholeNals
<1>1. units \in Seq(Unit)
  BY DEF NalInv
<1>2. PICK p : Holds(p)
  BY DEF NalInv
<1>3. WholeUnits(nals, p)
  BY <1>2 DEF Holds
<1>4. DOMAIN units = 1 .. Len(units)
  BY <1>1, LenProperties
<1>5. PICK m \in 0 .. Len(units) : \E kept \in [1 .. m -> 1 .. Len(units)] :
        Increasing(kept, m) /\ nals = [a \in 1 .. m |-> units[kept[a]].nal]
  BY <1>3 DEF WholeUnits
<1>6. PICK kept \in [1 .. m -> DOMAIN units] :
        Increasing(kept, m) /\ nals = [a \in 1 .. m |-> units[kept[a]].nal]
  BY <1>4, <1>5
<1>7. QED
  BY <1>5, <1>6 DEF OnlyWholeNals, Increasing

LEMMA NalsCounted ==
  ASSUME units \in Seq(Unit), NEW ns, NEW p, WholeUnits(ns, p)
  PROVE  ns \in Seq(Seq(Byte)) /\ Len(ns) <= Len(units)
<1>1. PICK m \in 0 .. Len(units) : \E kept \in [1 .. m -> 1 .. Len(units)] :
        ns = [a \in 1 .. m |-> units[kept[a]].nal]
  BY DEF WholeUnits
<1>2. PICK kept \in [1 .. m -> 1 .. Len(units)] : ns = [a \in 1 .. m |-> units[kept[a]].nal]
  BY <1>1
<1>3. m \in Nat /\ m <= Len(units)
  BY Places
<1>4. QED
  BY <1>2, <1>3, NalsOf

LEMMA AllUnits ==
  ASSUME units \in Seq(Unit), NEW k \in 0 .. Len(units)
  PROVE  /\ NalsFrom(1, k) = [i \in 1 .. k - 1 |-> units[i].nal]
         /\ k = 0 => NalsFrom(1, k) = <<>>
<1>1. \A i \in 1 .. k - 1 : 1 + i - 1 = i
  BY Places
<1>2. NalsFrom(1, k) = [i \in 1 .. k - 1 |-> units[i].nal]
  BY <1>1 DEF NalsFrom
<1>3. ASSUME k = 0 PROVE NalsFrom(1, k) = <<>>
  <2>1. 1 .. k - 1 = {}
    BY <1>3
  <2>2. QED
    BY <1>2, <2>1
<1>4. QED
  BY <1>2, <1>3

LEMMA HoldsIsExact ==
  ASSUME NalInv PROVE SplitIsExact
<1>1. CASE flushed
  BY <1>1 DEF NalInv
<1>2. CASE ~flushed
  <2>1. SUFFICES ASSUME ~reset
                 PROVE  nals = [i \in 1 .. Cardinality(Begun) - 1 |-> units[i].nal] \o <<>>
    BY <1>2 DEF SplitIsExact
  <2>2. units \in Seq(Unit)
    BY DEF NalInv
  <2>3. PICK p : Holds(p)
    BY <1>2 DEF NalInv
  <2>4. PICK k : BegunTo(k, read) /\ nals = NalsFrom(1, k)
    BY <2>1, <2>3 DEF Holds
  <2>5. Cardinality(Begun) = k /\ k \in 0 .. Len(units)
    BY <2>2, <2>4, BegunIs
  <2>6. nals = [i \in 1 .. k - 1 |-> units[i].nal]
    BY <2>2, <2>4, <2>5, AllUnits
  <2>7. nals \in Seq(Seq(Byte))
    BY <2>2, <2>3, NalsCounted DEF Holds
  <2>8. nals \o <<>> = nals
    BY <2>7
  <2>9. QED
    BY <2>5, <2>6, <2>8, Zenon
<1>3. QED
  BY <1>1, <1>2

LEMMA ParserBegins == ParserInit => NalInv
<1> SUFFICES ASSUME ParserInit PROVE NalInv
  OBVIOUS
<1>1. /\ units \in [1 .. MaxUnits -> Unit] /\ read = 0
      /\ chunk = [from |-> 1, marked |-> FALSE]
      /\ unparsed = <<>> /\ nals = <<>> /\ reset = FALSE /\ flushed = FALSE
  BY DEF ParserInit, Unit
<1>2. MaxUnits \in Nat /\ MaxBuffer \in Nat
  BY ParserAssumption
<1>3. units \in Seq(Unit) /\ Len(units) = MaxUnits
  BY <1>1, <1>2
<1>4. Len(Stream(units)) \in Nat /\ Len(units) \in Nat
  BY <1>3, Places
<1>5. ParserTypeOK
  <2>1. Len(<<>>) = 0
    BY EmptySeq
  <2>2. chunk.from = 1 /\ chunk.marked = FALSE
    BY <1>1
  <2>3. QED
    <3>1. read \in 0 .. Len(Stream(units)) /\ chunk.from \in 1 .. read + 1
      BY <1>1, <1>4, <2>2
    <3>2. Len(unparsed) <= MaxBuffer /\ Len(nals) <= MaxUnits + 1
      BY <1>1, <1>2, <2>1
    <3>3. QED
      BY <1>1, <2>2, <3>1, <3>2, Zenon DEF ParserTypeOK
<1>6. KeyframesMarked
  <2>1. ASSUME NEW i \in DOMAIN units PROVE ~(HeaderAt(i) <= read)
    <3>1. i \in 1 .. Len(units)
      BY <1>3
    <3>2. HeaderAt(i) = CodeEnd(i) + 1 /\ CodeEnd(i) \in Nat
      BY <1>3, <3>1, Places
    <3>3. QED
      BY <1>1, <3>2
  <2>2. chunk.marked = FALSE
    BY <1>1
  <2>3. QED
    BY <2>1, <2>2, Zenon DEF KeyframesMarked
<1>7. Holds(0)
  <2>1. Excerpt(unparsed, 0, read)
    <3>1. <<>> = SubSeq(Stream(units), 0 + 1, 0)
      BY SubSeqEmpty
    <3>2. QED
      BY <1>1, <1>4, <3>1 DEF Excerpt
  <2>2. WholeUnits(nals, 0)
    <3> DEFINE kept == [a \in 1 .. 0 |-> 1]
    <3>1. kept \in [1 .. 0 -> 1 .. Len(units)] /\ Increasing(kept, 0)
      BY DEF Increasing
    <3>2. nals = [a \in 1 .. 0 |-> units[kept[a]].nal]
      BY <1>1
    <3>3. \A a \in 1 .. 0 : Before(kept[a] + 1) <= 0
      OBVIOUS
    <3> HIDE DEF kept
    <3>4. 0 \in 0 .. Len(units)
      BY <1>4
    <3>5. QED
      BY <3>1, <3>2, <3>3, <3>4 DEF WholeUnits
  <2>3. BegunTo(0, read)
    <3>1. ASSUME NEW i \in 1 .. Len(units) PROVE ~(CodeEnd(i) <= read) /\ ~(i <= 0)
      <4>1. /\ units[i].code \in {3, 4} /\ Before(i) \in Nat
            /\ CodeEnd(i) = Before(i) + units[i].code
        BY <1>3, Places
      <4>2. QED
        BY <1>1, <4>1
    <3>2. 0 \in 0 .. Len(units)
      BY <1>4
    <3>3. QED
      BY <3>1, <3>2 DEF BegunTo
  <2>4. nals = NalsFrom(1, 0)
    <3>1. 0 \in 0 .. Len(units)
      BY <1>4
    <3>2. NalsFrom(1, 0) = <<>>
      BY <1>3, <3>1, AllUnits
    <3>3. QED
      BY <1>1, <3>2
  <2>5. QED
    BY <2>1, <2>2, <2>3, <2>4 DEF Holds
<1>8. QED
  BY <1>1, <1>3, <1>5, <1>6, <1>7 DEF NalInv

LEMMA WholeUnitsStay ==
  ASSUME units' = units, NEW p
  PROVE  WholeUnits(nals, p)' <=> WholeUnits(nals', p)
<1>1. \A i : Before(i)' = Before(i)
  BY DEF Before
<1> DEFINE Are(f, m, ns) ==
             Increasing(f, m) /\ ns = [a \in 1 .. m |-> units[f[a]].nal]
<1>2. WholeUnits(nals', p) <=>
        \E m \in 0 .. Len(units) : \E kept \in [1 .. m -> 1 .. Len(units)] :
          Are(kept, m, nals') /\ \A a \in 1 .. m : Before(kept[a] + 1) <= p
  BY DEF WholeUnits
<1>3. WholeUnits(nals, p)' <=>
        \E m \in 0 .. Len(units) : \E kept \in [1 .. m -> 1 .. Len(units)] :
          Are(kept, m, nals') /\ \A a \in 1 .. m : Before(kept[a] + 1)' <= p
  BY DEF WholeUnits, Increasing
<1> HIDE DEF Are
<1>4. QED
  BY <1>1, <1>2, <1>3

(* What a call of feed leaves.                                             *)
LEMMA FeedStep ==
  ASSUME NalInv, ~flushed, NEW data, NEW q \in Nat, Excerpt(data, read, q),
         Feed(data), read' = q, UNCHANGED units
  PROVE  /\ \E p : Holds(p)'
         /\ Len(unparsed') <= MaxBuffer /\ reset' \in BOOLEAN
<1> DEFINE n == Len(units)
           b == unparsed \o data
<1>1. units \in Seq(Unit) /\ read \in Nat /\ MaxBuffer \in Nat /\ reset \in BOOLEAN
  <2>1. Len(Stream(units)) \in Nat /\ units \in Seq(Unit)
    BY Places DEF NalInv
  <2>2. QED
    BY <2>1, ParserAssumption DEF NalInv, ParserTypeOK
<1>2. PICK p : Holds(p)
  BY DEF NalInv
<1>3. Excerpt(b, p, q)
  BY <1>1, <1>2, ExcerptsJoin DEF Holds
<1>4. p \in Nat /\ q \in Nat /\ read <= q /\ p <= read /\ q <= Len(Stream(units))
      /\ Len(b) = q - p /\ Len(b) \in Nat
  BY <1>1, <1>2, <1>3, ExcerptBytes DEF Holds, Excerpt
<1>5. WholeUnits(nals, p)
  BY <1>2 DEF Holds
<1>6. PICK k : BegunTo(k, q)
  BY <1>1, BegunExists
<1>7. PICK i : IsNext(i, p + 1)
  <2>1. p + 1 \in Nat
    BY <1>4
  <2>2. QED
    BY <1>1, <2>1, NextExists
<1>8. /\ n \in Nat /\ i \in 1 .. n + 1 /\ k \in 0 .. n
      /\ \A j \in 1 .. n : CodeEnd(j) <= q <=> j <= k
  BY <1>1, <1>6, <1>7, Places DEF IsNext, BegunTo
<1> HIDE DEF b
<1>9. CASE Len(b) > MaxBuffer
  <2>1. unparsed' = <<>> /\ reset' = TRUE /\ nals' = nals
    BY <1>9 DEF Feed, GivenUp, b
  <2>2. Excerpt(<<>>, q, q)
    <3>1. <<>> = SubSeq(Stream(units), q + 1, q)
      BY <1>4, SubSeqEmpty
    <3>2. QED
      BY <1>4, <3>1 DEF Excerpt
  <2>3. WholeUnits(nals, q)
    <3>1. PICK m \in 0 .. n : \E kept \in [1 .. m -> 1 .. n] :
            /\ Increasing(kept, m)
            /\ nals = [a \in 1 .. m |-> units[kept[a]].nal]
            /\ \A a \in 1 .. m : Before(kept[a] + 1) <= p
      BY <1>5 DEF WholeUnits
    <3>2. PICK kept \in [1 .. m -> 1 .. n] :
            /\ Increasing(kept, m)
            /\ nals = [a \in 1 .. m |-> units[kept[a]].nal]
            /\ \A a \in 1 .. m : Before(kept[a] + 1) <= p
      BY <3>1
    <3>3. ASSUME NEW a \in 1 .. m PROVE Before(kept[a] + 1) <= q
      <4>1. kept[a] \in 1 .. n /\ Before(kept[a] + 1) <= p
        BY <3>2
      <4>2. Before(kept[a] + 1) \in Nat
        BY <1>1, <4>1, Places
      <4>3. QED
        BY <1>1, <1>4, <4>1, <4>2
    <3>4. QED
      BY <3>1, <3>2, <3>3 DEF WholeUnits
  <2>4. Holds(q)'
    <3>1. Excerpt(unparsed, q, read)'
      BY <2>1, <2>2 DEF Excerpt
    <3>2. WholeUnits(nals, q)'
      BY <2>1, <2>3, WholeUnitsStay
    <3>3. reset'
      BY <2>1
    <3>4. QED
      BY <3>1, <3>2, <3>3 DEF Holds
  <2>5. Len(unparsed') = 0
    BY <2>1, EmptySeq
  <2>6. QED
    BY <1>1, <2>1, <2>4, <2>5
<1>10. CASE ~(Len(b) > MaxBuffer)
  <2> DEFINE e == ExtractNals(b)
             p2 == IF Before(k) <= p THEN p ELSE Before(k)
  <2>1. unparsed' = e.buffer /\ reset' = reset /\ nals' = nals \o e.nals
    BY <1>10 DEF Feed, b
  <2>2. /\ i > k => e.nals = <<>> /\ Excerpt(e.buffer, p, q)
        /\ ~(i > k) => e.nals = NalsFrom(i, k) /\ Excerpt(e.buffer, p2, q)
    BY <1>1, <1>3, <1>6, <1>7, Extracted
  <2>3. nals \in Seq(Seq(Byte))
    BY <1>1, <1>5, NalsCounted
  <2> HIDE DEF e
  <2>4. ASSUME NEW t, Excerpt(e.buffer, t, q), p <= t
        PROVE  Len(unparsed') <= MaxBuffer
    <3>1. Len(e.buffer) = q - t /\ t \in Nat
      BY <1>1, <2>4, ExcerptBytes DEF Excerpt
    <3>2. Len(unparsed') = q - t
      BY <2>1, <3>1
    <3>3. q - p <= MaxBuffer
      BY <1>1, <1>4, <1>10
    <3>4. q - t <= MaxBuffer
      BY <1>1, <1>4, <2>4, <3>1, <3>3
    <3>5. QED
      BY <3>2, <3>4
  <2>5. ASSUME NEW t, Excerpt(e.buffer, t, q), WholeUnits(nals', t),
               ~reset => \E l : /\ BegunTo(l, q) /\ nals' = NalsFrom(1, l)
                                /\ t = IF l = 0 THEN 0 ELSE Before(l)
        PROVE  Holds(t)'
    <3>1. Excerpt(unparsed', t, q)
      BY <2>1, <2>5
    <3>2. Excerpt(unparsed', t, q) <=> Excerpt(unparsed, t, read)'
      BY DEF Excerpt
    <3>3. WholeUnits(nals, t)'
      BY <2>5, WholeUnitsStay
    <3>4. (~reset => \E l : /\ BegunTo(l, read) /\ nals = NalsFrom(1, l)
                            /\ t = IF l = 0 THEN 0 ELSE Before(l))'
      BY <2>1, <2>5 DEF BegunTo, NalsFrom, CodeEnd, Before
    <3>5. QED
      BY <3>1, <3>2, <3>3, <3>4 DEF Holds
  <2>6. CASE i > k
    <3>1. Excerpt(e.buffer, p, q) /\ nals' = nals
      <4>1. nals \o <<>> = nals
        BY <2>3
      <4>2. QED
        BY <2>1, <2>2, <2>6, <4>1
    <3>2. ASSUME ~reset
          PROVE  /\ BegunTo(k, q) /\ nals = NalsFrom(1, k)
                 /\ p = IF k = 0 THEN 0 ELSE Before(k)
      <4>1. PICK l : /\ BegunTo(l, read) /\ nals = NalsFrom(1, l)
                     /\ p = IF l = 0 THEN 0 ELSE Before(l)
        BY <1>2, <3>2 DEF Holds
      <4>2. l = k
        <5>1. l \in 0 .. n /\ \A j \in 1 .. n : CodeEnd(j) <= read <=> j <= l
          BY <4>1 DEF BegunTo
        <5>2. l <= k
          <6>1. CASE l = 0
            BY <1>8, <6>1
          <6>2. CASE l # 0
            <7>1. l \in 1 .. n /\ CodeEnd(l) <= read /\ CodeEnd(l) \in Nat
              BY <1>1, <1>8, <5>1, <6>2, Places
            <7>2. CodeEnd(l) <= q
              BY <1>1, <1>4, <7>1
            <7>3. QED
              BY <1>8, <7>1, <7>2
          <6>3. QED
            BY <6>1, <6>2
        <5>3. ~(l < k)
          <6>1. SUFFICES ASSUME l < k PROVE FALSE
            OBVIOUS
          <6>2. k \in 1 .. n /\ l + 1 <= k
            BY <1>8, <5>1, <6>1
          <6>3. CodeEnd(k) - 2 < p + 1
            BY <1>7, <2>6, <6>2 DEF IsNext
          <6>4. /\ units[k].code \in {3, 4} /\ Before(k) \in Nat
                /\ CodeEnd(k) = Before(k) + units[k].code
            BY <1>1, <6>2, Places
          <6>5. p < Before(k) + 1
            <7>1. CASE l = 0
              BY <4>1, <6>4, <7>1
            <7>2. CASE l # 0
              <8>1. l \in 1 .. n /\ p = Before(l)
                BY <4>1, <5>1, <7>2
              <8>2. CodeEnd(l) < Before(k) /\ Before(l) <= CodeEnd(l) /\ CodeEnd(l) \in Nat
                <9>1. /\ units[l].code \in {3, 4} /\ Before(l) \in Nat
                      /\ CodeEnd(l) = Before(l) + units[l].code
                  BY <1>1, <8>1, Places
                <9>2. CodeEnd(l) < Before(k)
                  BY <1>1, <6>1, <6>2, <8>1, Places
                <9>3. QED
                  BY <9>1, <9>2
              <8>3. QED
                BY <1>4, <6>4, <8>1, <8>2
            <7>3. QED
              BY <7>1, <7>2
          <6>6. QED
            BY <1>4, <6>3, <6>4, <6>5
        <5>4. QED
          BY <1>8, <5>1, <5>2, <5>3
      <4>3. QED
        BY <1>6, <4>1, <4>2
    <3>3. Holds(p)'
      BY <1>5, <2>5, <3>1, <3>2
    <3>4. Len(unparsed') <= MaxBuffer
      BY <1>4, <2>4, <3>1
    <3>5. QED
      BY <1>1, <2>1, <3>3, <3>4
  <2>7. CASE ~(i > k)
    <3>1. Excerpt(e.buffer, p2, q) /\ nals' = nals \o NalsFrom(i, k)
      BY <2>1, <2>2, <2>7
    <3>2. WholeUnits(nals', p2)
      BY <1>1, <1>4, <1>5, <1>7, <1>8, <2>7, <3>1, MoreUnits
    <3>3. k \in 1 .. n /\ i \in 1 .. n /\ i <= k /\ Before(k) \in Nat
          /\ p + 1 <= CodeEnd(i) - 2
      <4>1. k \in 1 .. n /\ i \in 1 .. n /\ i <= k /\ i <= n
        BY <1>8, <2>7
      <4>2. QED
        BY <1>1, <1>7, <4>1, Places DEF IsNext
    <3>4. ASSUME ~reset
          PROVE  BegunTo(k, q) /\ nals' = NalsFrom(1, k) /\ p2 = Before(k)
      <4>1. PICK l : /\ BegunTo(l, read) /\ nals = NalsFrom(1, l)
                     /\ p = IF l = 0 THEN 0 ELSE Before(l)
        BY <1>2, <3>4 DEF Holds
      <4>2. l \in 0 .. n
        BY <4>1 DEF BegunTo
      <4> DEFINE h == IF l = 0 THEN 1 ELSE l
      <4>3. n # 0 /\ h \in 1 .. n /\ p = Before(h)
        <5>1. Before(1) = 0
          BY <1>1, BeforeFacts
        <5>2. QED
          BY <1>8, <3>3, <4>1, <4>2, <5>1
      <4>4. IsNext(h, p + 1)
        <5>1. ASSUME NEW j \in 1 .. n, j < h PROVE CodeEnd(j) - 2 < p + 1
          <6>1. CodeEnd(j) < Before(h) /\ CodeEnd(j) \in Nat
            BY <1>1, <4>3, <5>1, Places
          <6>2. QED
            BY <1>4, <4>3, <6>1
        <5>2. p + 1 <= CodeEnd(h) - 2
          <6>1. /\ units[h].code \in {3, 4} /\ Before(h) \in Nat
                /\ CodeEnd(h) = Before(h) + units[h].code
            BY <1>1, <4>3, Places
          <6>2. QED
            BY <1>4, <4>3, <6>1
        <5>3. h \in 1 .. n + 1
          BY <1>8, <4>3
        <5> HIDE DEF h
        <5>4. QED
          BY <5>1, <5>2, <5>3 DEF IsNext
      <4> HIDE DEF h
      <4>5. h = i
        <5>1. p + 1 \in Nat
          BY <1>4
        <5>2. QED
          BY <1>1, <1>7, <4>4, <5>1, OneNext
      <4>6. NalsFrom(1, l) = NalsFrom(1, h)
        <5>1. CASE l = 0
          <6>1. 0 \in 0 .. n /\ 1 \in 0 .. n /\ h = 1 /\ 1 .. 1 - 1 = {} /\ 1 .. 0 - 1 = {}
            BY <1>8, <4>3, <5>1 DEF h
          <6>2. NalsFrom(1, 1) = <<>> /\ NalsFrom(1, 0) = <<>>
            BY <6>1 DEF NalsFrom
          <6>3. QED
            BY <5>1, <6>1, <6>2, Zenon
        <5>2. CASE l # 0
          BY <5>2 DEF h
        <5>3. QED
          BY <5>1, <5>2
      <4>7. nals' = NalsFrom(1, k)
        BY <1>1, <3>1, <3>3, <4>1, <4>5, <4>6, NalsFromJoin
      <4>8. p2 = Before(k)
        <5>1. CASE i = k
          BY <4>3, <4>5, <5>1
        <5>2. CASE i # k
          <6>1. i < k
            BY <3>3, <5>2
          <6>2. CodeEnd(i) < Before(k) /\ CodeEnd(i) \in Nat
            BY <1>1, <3>3, <6>1, Places
          <6>3. QED
            BY <1>4, <3>3, <6>2
        <5>3. QED
          BY <5>1, <5>2
      <4>9. QED
        BY <1>6, <4>7, <4>8
    <3>5. p <= p2
      BY <1>4, <3>3
    <3>6. PICK t : t = p2
      OBVIOUS
    <3> HIDE DEF p2
    <3>7. ~reset => \E l : /\ BegunTo(l, q) /\ nals' = NalsFrom(1, l)
                           /\ t = IF l = 0 THEN 0 ELSE Before(l)
      <4>1. k # 0
        BY <3>3
      <4>2. QED
        BY <3>4, <3>6, <4>1
    <3>8. Excerpt(e.buffer, t, q) /\ WholeUnits(nals', t) /\ p <= t
      BY <3>1, <3>2, <3>5, <3>6
    <3>9. Holds(t)'
      BY <2>5, <3>7, <3>8
    <3>10. Len(unparsed') <= MaxBuffer
      BY <2>4, <3>8
    <3>11. QED
      BY <1>1, <2>1, <3>9, <3>10
  <2>8. QED
    BY <2>6, <2>7
<1>11. QED
  BY <1>9, <1>10

LEMMA ReadChunkStep ==
  ASSUME NalInv, NEW n \in 1 .. MaxChunk, ReadChunk(n) PROVE NalInv'
<1> DEFINE W == Stream(units)
           q == read + n
           data == SubSeq(W, read + 1, q)
<1>1. /\ ~flushed /\ q <= Len(W) /\ read' = q
      /\ chunk' = [from |-> read + 1, marked |-> ContainsKeyframe(data)]
      /\ Feed(data) /\ units' = units /\ flushed' = flushed
  BY DEF ReadChunk
<1>2. /\ units \in Seq(Unit) /\ Len(units) = MaxUnits /\ read \in Nat /\ Len(W) \in Nat
      /\ MaxUnits \in Nat
  <2>1. units \in Seq(Unit) /\ Len(units) = MaxUnits /\ read \in 0 .. Len(W) /\ Len(W) \in Nat
    BY Places DEF NalInv, ParserTypeOK
  <2>2. QED
    BY <2>1, ParserAssumption
<1>3. q \in Nat /\ read <= q
  <2>1. n \in Nat
    BY ParserAssumption
  <2>2. QED
    BY <1>2, <2>1
<1>4. Excerpt(data, read, q)
  BY <1>1, <1>2, <1>3 DEF Excerpt
<1> HIDE DEF q, data, W
<1>5. (\E p : Holds(p)') /\ Len(unparsed') <= MaxBuffer /\ reset' \in BOOLEAN
  BY <1>1, <1>3, <1>4, FeedStep
<1>6. PICK p : Holds(p)'
  BY <1>5
<1>7. Len(nals') <= MaxUnits
  <2>1. WholeUnits(nals', p)
    BY <1>1, <1>6, WholeUnitsStay DEF Holds
  <2>2. QED
    BY <1>2, <2>1, NalsCounted
<1>8. chunk'.from = read + 1 /\ chunk'.marked = ContainsKeyframe(data)
  BY <1>1
<1>9. ContainsKeyframe(data) \in BOOLEAN
  BY Zenon DEF ContainsKeyframe
<1>10. ParserTypeOK'
  <2>1. read' \in 0 .. Len(W) /\ chunk'.from \in 1 .. read' + 1 /\ Len(nals') <= MaxUnits + 1
    <3>1. read + 1 \in 1 .. q + 1 /\ q \in 0 .. Len(W)
      BY <1>1, <1>2, <1>3
    <3>2. Len(nals') <= MaxUnits + 1
      <4>1. Len(nals') \in Nat
        <5>1. WholeUnits(nals', p)
          BY <1>1, <1>6, WholeUnitsStay DEF Holds
        <5>2. nals' \in Seq(Seq(Byte))
          BY <1>2, <5>1, NalsCounted
        <5>3. QED
          BY <5>2, LenProperties
      <4>2. QED
        BY <1>2, <1>7, <4>1
    <3>3. QED
      BY <1>1, <1>8, <3>1, <3>2
  <2>2. Len(Stream(units')) = Len(W)
    BY <1>1 DEF W
  <2>3. chunk'.marked \in BOOLEAN /\ flushed' \in BOOLEAN
    <3>1. flushed \in BOOLEAN
      BY DEF NalInv, ParserTypeOK
    <3>2. QED
      BY <1>1, <1>8, <1>9, <3>1
  <2>4. read' \in 0 .. Len(Stream(units'))
    BY <2>1, <2>2
  <2>5. (Stream(units))' = Stream(units')
    BY DEF Stream
  <2>6. QED
    BY <1>5, <2>1, <2>3, <2>4, <2>5 DEF ParserTypeOK
<1>11. KeyframesMarked'
  <2>1. \A i : HeaderAt(i)' = HeaderAt(i)
    BY <1>1 DEF HeaderAt, Before
  <2>2. DOMAIN units' = 1 .. Len(units)
    BY <1>1, <1>2, LenProperties
  <2>3. ContainsKeyframe(data) <=> \E i \in 1 .. Len(units) : ShowsKeyframe(i, read, q)
    BY <1>2, <1>4, KeyframesShow
  <2>4. \A i \in 1 .. Len(units) :
          ShowsKeyframe(i, read, q) <=>
            /\ IsKeyframe(units'[i].nal)
            /\ chunk'.from <= HeaderAt(i)' - 3 /\ HeaderAt(i)' <= read'
            /\ HeaderAt(i)' = read' => units'[i].code = 4 /\ chunk'.from <= HeaderAt(i)' - 4
    BY <1>1, <1>8, <2>1 DEF ShowsKeyframe
  <2>5. chunk'.marked <=>
          \E i \in DOMAIN units' :
            /\ IsKeyframe(units'[i].nal)
            /\ chunk'.from <= HeaderAt(i)' - 3 /\ HeaderAt(i)' <= read'
            /\ HeaderAt(i)' = read' => units'[i].code = 4 /\ chunk'.from <= HeaderAt(i)' - 4
    BY <1>8, <2>2, <2>3, <2>4
  <2>6. \A i : IsKeyframe(units[i].nal)' <=> IsKeyframe(units'[i].nal)
    BY DEF IsKeyframe
  <2>7. QED
    BY <2>5, <2>6 DEF KeyframesMarked
<1>12. ~flushed'
  BY <1>1
<1>13. QED
  BY <1>1, <1>2, <1>6, <1>10, <1>11, <1>12 DEF NalInv

LEMMA FlushStep == ASSUME NalInv, Flush PROVE NalInv'
<1> DEFINE at == FindStartCode(unparsed, 1)
           start == IF at = 0 THEN 1 ELSE at + StartCodeLen(unparsed, at)
           rest == SubSeq(unparsed, start, Len(unparsed))
<1>1. /\ ~flushed /\ nals' = nals \o Parse(rest) /\ unparsed' = <<>> /\ flushed' = TRUE
      /\ units' = units /\ read' = read /\ chunk' = chunk /\ reset' = reset
  BY DEF Flush
<1>2. /\ units \in Seq(Unit) /\ Len(units) = MaxUnits /\ read \in Nat
      /\ MaxUnits \in Nat /\ MaxBuffer \in Nat
  <2>1. units \in Seq(Unit) /\ Len(units) = MaxUnits /\ read \in 0 .. Len(Stream(units))
        /\ Len(Stream(units)) \in Nat
    BY Places DEF NalInv, ParserTypeOK
  <2>2. QED
    BY <2>1, ParserAssumption
<1>3. PICK p : Holds(p)
  BY <1>1 DEF NalInv
<1>4. /\ Excerpt(unparsed, p, read) /\ WholeUnits(nals, p)
      /\ ~reset => \E k : /\ BegunTo(k, read) /\ nals = NalsFrom(1, k)
                          /\ p = IF k = 0 THEN 0 ELSE Before(k)
  BY <1>3 DEF Holds
<1>5. /\ p \in Nat /\ p <= read /\ unparsed \in Seq(Byte) /\ Len(unparsed) = read - p
      /\ Len(unparsed) \in Nat
  BY <1>2, <1>4, ExcerptBytes DEF Excerpt
<1>6. nals \in Seq(Seq(Byte)) /\ Len(nals) <= MaxUnits /\ Len(nals) \in Nat
  BY <1>2, <1>4, NalsCounted, LenProperties
<1>7. Len(nals \o Parse(rest)) <= MaxUnits + 1
  <2> HIDE DEF rest
  <2>1. CASE rest = <<>>
    <3>1. Parse(rest) = <<>> /\ nals \o <<>> = nals
      BY <1>6, <2>1 DEF Parse
    <3>2. QED
      BY <1>2, <1>6, <3>1
  <2>2. CASE rest # <<>>
    <3>1. Parse(rest) = <<rest>>
      BY <2>2 DEF Parse
    <3> DEFINE v == <<rest>>
               T == Seq(Byte) \cup {rest}
    <3>2. v \in Seq(T) /\ Len(v) = 1
      OBVIOUS
    <3>3. nals \in Seq(T)
      <4>1. \A j \in 1 .. Len(nals) : nals[j] \in Seq(Byte)
        BY <1>6, ElementOfSeq
      <4>2. nals = [j \in 1 .. Len(nals) |-> nals[j]]
        BY <1>6
      <4>3. QED
        BY <1>6, <4>1, <4>2
    <3> HIDE DEF v, T
    <3>4. Len(nals \o v) = Len(nals) + Len(v)
      BY <3>2, <3>3, ConcatProperties
    <3>5. QED
      BY <1>2, <1>6, <3>1, <3>2, <3>4 DEF v
  <2>3. QED
    BY <2>1, <2>2
<1> HIDE DEF at, start, rest
<1>8. ASSUME ~reset, NEW k, BegunTo(k, read), nals = NalsFrom(1, k), k # 0, p = Before(k)
      PROVE  rest = SubSeq(Stream(units), HeaderAt(k), read)
  <2>1. k \in 1 .. Len(units) /\ k <= Len(units) /\ CodeEnd(k) <= read
    <3>1. k \in 0 .. Len(units) /\ Len(units) \in Nat
      BY <1>2, <1>8 DEF BegunTo
    <3>2. k \in 1 .. Len(units) /\ k <= k
      BY <1>8, <3>1
    <3>3. QED
      BY <1>8, <3>2 DEF BegunTo
  <2>2. /\ units[k].code \in {3, 4} /\ Before(k) \in Nat
        /\ CodeEnd(k) = Before(k) + units[k].code
        /\ HeaderAt(k) = CodeEnd(k) + 1 /\ HeaderAt(k) \in Nat
    BY <1>2, <2>1, Places
  <2>3. IsNext(k, p + 1)
    <3>1. ASSUME NEW j \in 1 .. Len(units), j < k PROVE CodeEnd(j) - 2 < p + 1
      <4>1. CodeEnd(j) < Before(k) /\ CodeEnd(j) \in Nat
        BY <1>2, <2>1, <3>1, Places
      <4>2. QED
        BY <1>5, <1>8, <4>1
    <3>2. p + 1 <= CodeEnd(k) - 2 /\ k \in 1 .. Len(units) + 1
      BY <1>2, <1>5, <1>8, <2>1, <2>2
    <3>3. QED
      BY <3>1, <3>2 DEF IsNext
  <2>4. (p + 1) - p = 1 /\ p + 1 \in p + 1 .. read + 1
    BY <1>2, <1>5
  <2> DEFINE r == FindStartCode(unparsed, (p + 1) - p)
  <2>5. /\ r = First(k, p + 1) - p
        /\ r + StartCodeLen(unparsed, r) = HeaderAt(k) - p
    BY <1>2, <1>4, <2>1, <2>3, <2>4, Finds
  <2>6. First(k, p + 1) - p = 1
    BY <1>5, <1>8 DEF First
  <2>7. r = at
    BY <2>4 DEF at
  <2> HIDE DEF r
  <2>8. start = HeaderAt(k) - p
    <3>1. at # 0
      BY <2>5, <2>6, <2>7
    <3>2. start = r + StartCodeLen(unparsed, r)
      BY <2>7, <3>1 DEF start
    <3>3. QED
      BY <2>5, <3>2
  <2>9. start \in 1 .. Len(unparsed) + 1 /\ start <= Len(unparsed) + 1
        /\ Len(unparsed) <= Len(unparsed)
        /\ (p + start - 1) + 1 = HeaderAt(k) /\ p + Len(unparsed) = read
    <3> DEFINE t == HeaderAt(k)
               l == Len(unparsed)
               e == CodeEnd(k)
    <3>1. /\ t \in Nat /\ t = e + 1 /\ e <= read /\ e \in Nat /\ start = t - p /\ p < t
      BY <1>5, <1>8, <2>1, <2>2, <2>8
    <3>2. p \in Nat /\ read \in Nat /\ l = read - p /\ l \in Nat
      BY <1>2, <1>5
    <3> HIDE DEF t, l, e
    <3>3. /\ start \in 1 .. l + 1 /\ start <= l + 1 /\ l <= l
          /\ (p + start - 1) + 1 = t /\ p + l = read
      BY <3>1, <3>2
    <3>4. QED
      BY <3>3 DEF t, l
  <2>10. Excerpt(rest, p + start - 1, p + Len(unparsed))
    BY <1>2, <1>4, <1>5, <2>9, ExcerptPart DEF rest
  <2>11. rest = SubSeq(Stream(units), (p + start - 1) + 1, p + Len(unparsed))
    BY <2>10, Zenon DEF Excerpt
  <2>12. QED
    BY <2>9, <2>11
<1>9. SplitIsExact'
  <2>1. SUFFICES ASSUME ~reset, Begun # {}
                 PROVE  nals' = [i \in 1 .. Cardinality(Begun) - 1 |-> units[i].nal] \o Unfinished
    <3>1. Begun' = Begun
      BY <1>1 DEF Begun, HeaderAt, Before
    <3>2. Unfinished' = Unfinished
      BY <1>1, <3>1 DEF Unfinished, HeaderAt, Before
    <3>3. (~reset)' = ~reset /\ flushed' /\ units' = units
      BY <1>1
    <3>4. (Begun # {})' <=> Begun # {}
      BY <3>1
    <3>5. ([i \in 1 .. Cardinality(Begun) - 1 |-> units[i].nal])'
            = [i \in 1 .. Cardinality(Begun) - 1 |-> units[i].nal]
      BY <3>1, <3>3
    <3>6. QED
      BY <3>2, <3>3, <3>4, <3>5 DEF SplitIsExact
  <2>2. PICK k : /\ BegunTo(k, read) /\ nals = NalsFrom(1, k)
                 /\ p = IF k = 0 THEN 0 ELSE Before(k)
    BY <1>4, <2>1
  <2>3. Begun = 1 .. k /\ Cardinality(Begun) = k /\ k \in 0 .. Len(units)
    BY <1>2, <2>2, BegunIs
  <2>4. k # 0
    BY <2>1, <2>3
  <2>5. rest = SubSeq(Stream(units), HeaderAt(k), read)
    BY <1>8, <2>1, <2>2, <2>4
  <2>6. Unfinished = Parse(rest)
    BY <2>3, <2>5 DEF Unfinished
  <2>7. nals = [i \in 1 .. Cardinality(Begun) - 1 |-> units[i].nal]
    BY <1>2, <2>2, <2>3, AllUnits
  <2>8. QED
    BY <1>1, <2>6, <2>7
<1>10. ParserTypeOK'
  <2>1. Len(unparsed') = 0
    BY <1>1, EmptySeq
  <2>2. Len(nals') <= MaxUnits + 1
    BY <1>1, <1>7
  <2>3. Len(unparsed') <= MaxBuffer
    BY <1>2, <2>1
  <2>4. (Stream(units))' = Stream(units)
    BY <1>1 DEF Stream
  <2>5. /\ read \in 0 .. Len(Stream(units))
        /\ chunk.from \in 1 .. read + 1 /\ chunk.marked \in BOOLEAN /\ reset \in BOOLEAN
    BY DEF NalInv, ParserTypeOK
  <2>6. QED
    BY <1>1, <2>2, <2>3, <2>4, <2>5 DEF ParserTypeOK
<1>11. KeyframesMarked'
  <2>1. KeyframesMarked
    BY DEF NalInv
  <2>2. QED
    BY <1>1, <2>1 DEF KeyframesMarked, HeaderAt, Before, IsKeyframe
<1>12. QED
  BY <1>1, <1>2, <1>9, <1>10, <1>11 DEF NalInv

LEMMA ParserStep == NalInv /\ [ParserNext]_parserVars => NalInv'
<1> SUFFICES ASSUME NalInv, [ParserNext]_parserVars PROVE NalInv'
  OBVIOUS
<1>1. ASSUME NEW n \in 1 .. MaxChunk, ReadChunk(n) PROVE NalInv'
  BY <1>1, ReadChunkStep
<1>2. CASE Flush
  BY <1>2, FlushStep
<1>3. CASE UNCHANGED parserVars
  <2>1. /\ units' = units /\ read' = read /\ chunk' = chunk /\ unparsed' = unparsed
        /\ nals' = nals /\ reset' = reset /\ flushed' = flushed
    BY <1>3 DEF parserVars
  <2>2. units \in Seq(Unit) /\ Len(units) = MaxUnits /\ ParserTypeOK /\ KeyframesMarked
    BY DEF NalInv
  <2>3. ParserTypeOK'
    <3>1. (Stream(units))' = Stream(units)
      BY <2>1 DEF Stream
    <3>2. QED
      BY <2>1, <2>2, <3>1 DEF ParserTypeOK
  <2>4. KeyframesMarked'
    BY <2>1, <2>2 DEF KeyframesMarked, HeaderAt, Before, IsKeyframe
  <2>5. ASSUME ~flushed PROVE \E p : Holds(p)'
    <3>1. PICK p : Holds(p)
      BY <2>5 DEF NalInv
    <3>2. Excerpt(unparsed, p, read)'
      BY <2>1, <3>1 DEF Holds, Excerpt
    <3>3. WholeUnits(nals, p)'
      <4>1. WholeUnits(nals', p)
        BY <2>1, <3>1 DEF Holds
      <4>2. QED
        BY <2>1, <4>1, WholeUnitsStay
    <3>4. (~reset => \E k : /\ BegunTo(k, read) /\ nals = NalsFrom(1, k)
                            /\ p = IF k = 0 THEN 0 ELSE Before(k))'
      BY <2>1, <3>1 DEF Holds, BegunTo, CodeEnd, Before, NalsFrom
    <3>5. QED
      BY <3>2, <3>3, <3>4 DEF Holds
  <2>6. ASSUME flushed PROVE SplitIsExact'
    <3>1. SplitIsExact
      BY <2>6 DEF NalInv
    <3>2. Begun' = Begun
      BY <2>1 DEF Begun, HeaderAt, Before
    <3>3. Unfinished' = Unfinished
      BY <2>1, <3>2 DEF Unfinished, HeaderAt, Before
    <3>4. QED
      BY <2>1, <3>1, <3>2, <3>3 DEF SplitIsExact
  <2>7. QED
    BY <2>1, <2>2, <2>3, <2>4, <2>5, <2>6 DEF NalInv
<1>4. QED
  BY <1>1, <1>2, <1>3 DEF ParserNext

(* The parser returns the stream's units whole, however the stream falls   *)
(* into chunks, and a buffer it gives up costs whole units                 *)
(* (h264.rs:136-188, 223-244).                                             *)
THEOREM UnitsAreWhole == ParserSpec => []NalsExact
<1>1. NalInv => NalsExact
  <2>1. NalInv => ParserTypeOK
    BY DEF NalInv
  <2>2. QED
    BY <2>1, HoldsIsExact, HoldsIsWhole DEF NalsExact
<1>2. QED
  BY <1>1, ParserBegins, ParserStep, PTL DEF ParserSpec

(* A chunk is marked a keyframe exactly when it has enough of an IDR       *)
(* unit's beginning (h264.rs:252-274, camera.rs:520).                      *)
THEOREM KeyframesAreMarked == ParserSpec => []KeyframesMarked
<1>1. NalInv => KeyframesMarked
  BY DEF NalInv
<1>2. QED
  BY <1>1, ParserBegins, ParserStep, PTL DEF ParserSpec
=============================================================================
