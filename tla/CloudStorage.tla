---------------------------- MODULE CloudStorage -----------------------------
(***************************************************************************)
(* Recordings in an object store: the StorageManager (server/storage.rs)   *)
(* with its size limit and its cleanup task over the CloudStorage backend  *)
(* (storage/cloud.rs), which collects the frames of a source in a local    *)
(* file and uploads it as one object when the next segment begins.         *)
(*                                                                         *)
(* A frame is its timestamp, which starts again with the camera's process; *)
(* bytes are counted in frames.  Files of the cache directory are named by *)
(* a time: the start of the segment's interval for a file being written,   *)
(* the first timestamp for a downloaded copy.                              *)
(***************************************************************************)
EXTENDS Integers, Sequences, FiniteSets, FiniteSetsExt, Functions

CONSTANTS Sources,
          Times,        \* per life of a camera, the timestamps of its frames
          Duration,     \* segment_duration_us
          MaxSize,      \* max_size_bytes
          MaxFaults,    \* bound: uploads, downloads and deletions that fail
          MaxCrashes,   \* bound: restarts of the server
          NoSegment

Lives == DOMAIN Times

(* No two lives of a camera have a timestamp, counted in microseconds, in  *)
(* common.                                                                 *)
ASSUME CloudAssumption ==
  /\ Times \in Seq(SUBSET (Nat \ {0})) /\ Lives # {}
  /\ \A l \in Lives : IsFiniteSet(Times[l])
  /\ \A l, m \in Lives : l # m => Times[l] \cap Times[m] = {}
  /\ {Duration, MaxSize} \subseteq Nat \ {0} /\ {MaxFaults, MaxCrashes} \subseteq Nat
  /\ IsFiniteSet(Sources) /\ Sources # {}
  /\ NoSegment \notin [start : Nat, end : Nat, frames : SUBSET Nat]

VARIABLES
  life, clock,          \* per camera, its life and its last timestamp
  local,                \* local_segments
  index, total,         \* CloudIndex: segments and total_bytes
  objects,              \* the object store, by key
  cache,                \* the files in the cache directory
  step, frame, old,     \* where store is, its frame, the segment it finalizes
  faults, crashes,
  stored, lost          \* history: frames store took since the server started,
                        \* those of segments whose upload failed

cameras  == <<life, clock>>
storing  == <<step, frame, old>>
history  == <<stored, lost>>
vars     == <<cameras, local, index, total, objects, cache, storing, faults, crashes,
              history>>

AllTimes == UNION Range(Times)
Bucket(t) == Duration * (t \div Duration)

Segments == [start : AllTimes, end : AllTimes, frames : SUBSET AllTimes]
Paths    == AllTimes \cup {Bucket(t) : t \in AllTimes}
Holds(f) == DOMAIN f \subseteq Paths /\ \A p \in DOMAIN f : f[p] \subseteq AllTimes
Empty    == [p \in {} |-> {}]

Put(f, p, x) == [q \in DOMAIN f \cup {p} |-> IF q = p THEN x ELSE f[q]]
DropKeys(f, S) == Restrict(f, DOMAIN f \ S)
Size(seg)    == Cardinality(seg.frames)

TypeOK ==
  /\ life \in [Sources -> Lives] /\ clock \in [Sources -> AllTimes \cup {0}]
  /\ local \in [Sources -> Segments \cup {NoSegment}]
  /\ index \in [Sources -> SUBSET Segments] /\ total \in Nat
  /\ DOMAIN objects = Sources /\ DOMAIN cache = Sources
  /\ \A s \in Sources : Holds(objects[s]) /\ Holds(cache[s])
  /\ step \in {"idle", "uploading", "indexing", "writing"}
  /\ frame \in [source : Sources, t : AllTimes \cup {0}]
  /\ old \in Segments \cup {NoSegment}
  /\ old # NoSegment <=> step \in {"uploading", "indexing"}
  /\ faults \in 0 .. MaxFaults /\ crashes \in 0 .. MaxCrashes
  /\ stored \in [Sources -> SUBSET AllTimes] /\ lost \in [Sources -> SUBSET AllTimes]

NoFrame == [source |-> CHOOSE s \in Sources : TRUE, t |-> 0]

Init ==
  /\ life = [s \in Sources |-> 1] /\ clock = [s \in Sources |-> 0]
  /\ local = [s \in Sources |-> NoSegment]
  /\ index = [s \in Sources |-> {}] /\ total = 0
  /\ objects = [s \in Sources |-> Empty] /\ cache = [s \in Sources |-> Empty]
  /\ step = "idle" /\ frame = NoFrame /\ old = NoSegment
  /\ faults = 0 /\ crashes = 0
  /\ stored = [s \in Sources |-> {}] /\ lost = [s \in Sources |-> {}]

----------------------------------------------------------------------------
Fault == faults < MaxFaults /\ faults' = faults + 1

RestartCamera(s) ==
  /\ life[s] + 1 \in Lives
  /\ life' = [life EXCEPT ![s] = @ + 1] /\ clock' = [clock EXCEPT ![s] = 0]
  /\ UNCHANGED <<local, index, total, objects, cache, storing, faults, crashes, history>>

\* Mutant: the limit only keeps a new segment from being opened.
LimitForNew == total >= MaxSize /\ \A s \in Sources : local[s] = NoSegment

(* StorageManager::store checks the finalized segments only.               *)
LimitReached == total >= MaxSize

Arrives(s, t) ==
  /\ step = "idle" /\ t \in Times[life[s]] /\ t > clock[s]
  /\ clock' = [clock EXCEPT ![s] = t]

Skip(s, t) ==
  /\ Arrives(s, t) /\ LimitReached
  /\ UNCHANGED <<life, local, index, total, objects, cache, storing, faults, crashes,
                 history>>

(* get_or_create_segment: a segment of another interval is taken out.      *)
Store(s, t) ==
  /\ Arrives(s, t) /\ ~LimitReached
  /\ frame' = [source |-> s, t |-> t]
  /\ IF local[s] # NoSegment /\ Bucket(local[s].start) # Bucket(t)
       THEN /\ old' = local[s] /\ step' = "uploading"
            /\ local' = [local EXCEPT ![s] = NoSegment]
       ELSE step' = "writing" /\ UNCHANGED <<old, local>>
  /\ UNCHANGED <<life, index, total, objects, cache, faults, crashes, history>>

\* Mutant: the object is named after the interval, like the local file.
KeyOfInterval(seg) == Bucket(seg.start)

(* object_key: the first timestamp, not the start of the interval.         *)
Key(seg) == seg.start

\* Mutant: the file is uploaded before the last frame of it is flushed.
UploadUnflushed ==
  /\ step = "uploading" /\ step' = "indexing"
  /\ objects' = [objects EXCEPT ![frame.source] = Put(@, Key(old), old.frames \ {old.end})]
  /\ UNCHANGED <<cameras, local, index, total, cache, frame, old, faults, crashes, history>>

Upload ==
  /\ step = "uploading" /\ step' = "indexing"
  /\ objects' = [objects EXCEPT ![frame.source] = Put(@, Key(old), old.frames)]
  /\ UNCHANGED <<cameras, local, index, total, cache, frame, old, faults, crashes, history>>

(* The segment and the frame are given up; the local file stays.           *)
UploadFails ==
  /\ step = "uploading" /\ Fault /\ step' = "idle" /\ frame' = NoFrame /\ old' = NoSegment
  /\ lost' = [lost EXCEPT ![frame.source] = @ \cup old.frames]
  /\ UNCHANGED <<cameras, local, index, total, objects, cache, crashes, stored>>

(* The index has it, and the local file is removed.                        *)
Index ==
  LET s == frame.source IN
  /\ step = "indexing" /\ step' = "writing" /\ old' = NoSegment
  /\ index' = [index EXCEPT ![s] = @ \cup {old}] /\ total' = total + Size(old)
  /\ cache' = [cache EXCEPT ![s] = DropKeys(@, {Bucket(old.start)})]
  /\ UNCHANGED <<cameras, local, objects, frame, faults, crashes, history>>

(* The segment after a frame is written to it, or to a new one.            *)
Extended(seg, t) ==
  IF seg = NoSegment THEN [start |-> t, end |-> t, frames |-> {t}]
  ELSE [seg EXCEPT !.end = t, !.frames = @ \cup {t}]

(* A new local file empties one of its name.                               *)
Write ==
  LET s == frame.source  seg == Extended(local[s], frame.t) IN
  /\ step = "writing" /\ step' = "idle" /\ frame' = NoFrame
  /\ local' = [local EXCEPT ![s] = seg]
  /\ cache' = [cache EXCEPT ![s] = Put(@, Bucket(seg.start), seg.frames)]
  /\ stored' = [stored EXCEPT ![s] = @ \cup {frame.t}]
  /\ UNCHANGED <<cameras, index, total, objects, old, faults, crashes, lost>>

----------------------------------------------------------------------------
Indexed == UNION {{s} \X index[s] : s \in Sources}

Old(cutoff) == {p \in Indexed : p[2].end < cutoff}

SizeOf(D) == SumFunctionOnSet([p \in D |-> Size(p[2])], D)

\* Mutant: the bytes of deleted objects still count.
SubtractNothing(D) == UNCHANGED total

Subtract(D) == total' = total - SizeOf(D)

Of(D, s) == {seg \in index[s] : <<s, seg>> \in D}

(* cleanup: the objects of the segments D are deleted and leave the index. *)
Delete(D) ==
  /\ index' = [s \in Sources |-> index[s] \ Of(D, s)]
  /\ objects' = [s \in Sources |-> DropKeys(objects[s], {Key(seg) : seg \in Of(D, s)})]
  /\ Subtract(D)
  /\ stored' = [s \in Sources |-> stored[s] \ UNION {seg.frames : seg \in Of(D, s)}]

(* The cutoff is the wall clock less the retention: 0 for a clock that was *)
(* not set, and beyond every timestamp of a camera otherwise.              *)
Beyond == Max(AllTimes) + 1

(* Of those old enough any may fail to be deleted.                         *)
Cleanup(cutoff) ==
  /\ Old(cutoff) # {}
  /\ \/ Delete(Old(cutoff)) /\ UNCHANGED faults
     \/ Fault /\ \E failed \in SUBSET Old(cutoff) \ {{}} : Delete(Old(cutoff) \ failed)
  /\ UNCHANGED <<cameras, local, cache, storing, crashes, lost>>

(* get_frames, for one of the segments: without a file of that name the    *)
(* object is downloaded.                                                   *)
Retrieve(s, seg) ==
  /\ seg.start \notin DOMAIN cache[s] /\ Key(seg) \in DOMAIN objects[s]
  /\ cache' = [cache EXCEPT ![s] = Put(@, seg.start, objects[s][Key(seg)])]
  /\ UNCHANGED <<cameras, local, index, total, objects, storing, faults, crashes, history>>

(* The index and the open segments are in memory only.                     *)
Crash ==
  /\ crashes < MaxCrashes /\ crashes' = crashes + 1
  /\ local' = [s \in Sources |-> NoSegment]
  /\ index' = [s \in Sources |-> {}] /\ total' = 0
  /\ step' = "idle" /\ frame' = NoFrame /\ old' = NoSegment
  /\ stored' = [s \in Sources |-> {}] /\ lost' = [s \in Sources |-> {}]
  /\ UNCHANGED <<cameras, objects, cache, faults>>

----------------------------------------------------------------------------
Next ==
  \/ \E s \in Sources :
       \/ RestartCamera(s)
       \/ \E t \in AllTimes : Skip(s, t) \/ Store(s, t)
       \/ \E seg \in index[s] : Retrieve(s, seg)
  \/ Upload \/ UploadFails \/ Index \/ Write
  \/ \E cutoff \in {0, Beyond} : Cleanup(cutoff)
  \/ Crash

(* The task that stores goes on, and the cleanup task finds the clock set. *)
Fairness ==
  /\ WF_vars(Upload \/ UploadFails) /\ WF_vars(Index) /\ WF_vars(Write)
  /\ WF_vars(Cleanup(Beyond))

Spec == Init /\ [][Next]_vars /\ Fairness

----------------------------------------------------------------------------
InFlight(s) == IF old # NoSegment /\ frame.source = s THEN old.frames ELSE {}
Open(s)     == IF local[s] = NoSegment THEN {} ELSE local[s].frames
Uploaded(s) == UNION {objects[s][Key(seg)] : seg \in index[s]}

(* A frame that store took is in the open segment, on its way, or in an    *)
(* object the index names; it is missing only if its upload failed, the    *)
(* cleanup deleted it or the server went down.                             *)
FramesAccountedFor ==
  \A s \in Sources :
    /\ \A seg \in index[s] : Key(seg) \in DOMAIN objects[s]
    /\ stored[s] = Open(s) \cup InFlight(s) \cup Uploaded(s) \cup lost[s]

(* total_bytes is what the index names, whatever failed to be deleted.     *)
UsageIsIndexed == total = SizeOf(Indexed)

(* The limit is overrun by one segment at most, however many are open: by  *)
(* the frames of one interval.                                             *)
LimitOverrunBySegment ==
  \E b \in {Bucket(t) : t \in AllTimes \cup {0}} :
    total < MaxSize + Cardinality({t \in AllTimes : Bucket(t) = b})

(* The accounts of the storage: the two above over state of the right      *)
(* types (cloud.rs:170-300, server/storage.rs:83).                         *)
UsageAccounted == TypeOK /\ UsageIsIndexed /\ LimitOverrunBySegment

(* What a retrieval reads for a segment is what was uploaded, unless its   *)
(* first frame fell on the start of an interval: there the file being      *)
(* written has the name of the downloaded copy.                            *)
RetrievedIsUploaded ==
  \A s \in Sources : \A seg \in index[s] :
    seg.start # Bucket(seg.start) /\ seg.start \in DOMAIN cache[s]
      => cache[s][seg.start] = seg.frames

(* A full store takes frames again once the cleanup has run.               *)
LimitIsLifted == []<>(~LimitReached)

=============================================================================
