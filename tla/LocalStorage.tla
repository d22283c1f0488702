----------------------------- MODULE LocalStorage -----------------------------
(***************************************************************************)
(* The recordings on the server's disk: LocalStorage of                    *)
(* crates/kodama/src/storage/local.rs, fed by the one recording task of    *)
(* the server, with its crashes and restarts.                              *)
(*                                                                         *)
(* A file is what its writer has written to it, its buffer included; how   *)
(* much of that was on disk is decided when the process dies.  Bytes are   *)
(* counted in records: the header is one, each frame is one.               *)
(***************************************************************************)
EXTENDS Integers, FiniteSets, SequencesExt

CONSTANTS
  Sources,           \* cameras, by SourceId
  SegmentDuration,   \* time units per segment file
  MaxTime,           \* bound: the latest timestamp of a frame
  MaxFrames,         \* bound: how many frames are recorded
  MaxCameraRestarts, \* bound: how often cameras restart their clocks
  MaxCrashes,        \* bound: how often the server dies
  MaxFlushes,        \* bound: how many sources are flushed
  MaxFaults,         \* bound: how many file operations fail
  NoFile, NoWriter, NoFrame

ASSUME StorageAssumption ==
  /\ IsFiniteSet(Sources)
  /\ SegmentDuration \in Nat \ {0} /\ MaxTime \in Nat
  /\ \A bound \in {MaxFrames, MaxCameraRestarts, MaxCrashes, MaxFlushes,
                   MaxFaults} : bound \in Nat

Times == 0 .. MaxTime

\* segment_path: the file of a timestamp, named for the segment's start.
SegmentOf(t) == t \div SegmentDuration
Segments == {SegmentOf(t) : t \in Times}
Paths == Sources \X Segments

Frame == [source : Sources, n : 1 .. MaxFrames, t : Times]

\* A frame that was written in part.
Torn == [n |-> 0, t |-> 0]

\* A file without its header is empty: the header is in the writer's buffer
\* with the first frames.  The header's end is 0 until the file is finalized.
File == [header : BOOLEAN, start : Times, end : Times,
         contents : Seq(Frame \cup {Torn})]

Writer == [start : Times, end : Times, bytes : Nat]
Entry == [seg : Segments, start : Times, end : Times, size : Nat]

ASSUME SentinelAssumption ==
  NoFile \notin File /\ NoWriter \notin Writer /\ NoFrame \notin Frame

Event == {"frames", "restarts", "crashes", "flushes", "faults"}

VARIABLES
  files,       \* the storage directory
  writers,     \* per source, the open SegmentWriter
  index,       \* per source, the entries of the finalized segments
  total_bytes, \* StorageIndex::total_bytes
  up,          \* whether the server runs
  pc,          \* where store_frame is
  frame,       \* the frame it stores
  closing,     \* the writer it has taken out and is finalizing
  clock,       \* per source, the timestamp the camera has reached
  counts,      \* how often each bounded event has happened
  durable,     \* per source, the frames of finalized segments that no cleanup
               \* has been asked to delete (a history variable)
  reopened     \* files that were emptied while the index named them (a history
               \* variable)

diskVars == <<files, writers, index, total_bytes>>
taskVars == <<pc, frame, closing>>
history == <<durable, reopened>>
vars == <<diskVars, up, taskVars, clock, counts, history>>

Seg(w) == SegmentOf(w.start)

Count(event) == counts' = [counts EXCEPT ![event] = @ + 1]

Init ==
  /\ files = [p \in Paths |-> NoFile]
  /\ writers = [s \in Sources |-> NoWriter]
  /\ index = [s \in Sources |-> <<>>]
  /\ total_bytes = 0
  /\ up = TRUE
  /\ pc = "idle" /\ frame = NoFrame /\ closing = NoWriter
  /\ clock = [s \in Sources |-> 0]
  /\ counts = [event \in Event |-> 0]
  /\ durable = [s \in Sources |-> {}]
  /\ reopened = {}

-------------------------------------------------------------------------------
(* Finalizing a segment.                                                   *)

\* The file with the header of its writer.
WithHeader(f, w) ==
  IF f = NoFile THEN NoFile
  ELSE [f EXCEPT !.header = TRUE, !.start = w.start, !.end = w.end]

EntryOf(w) == [seg |-> Seg(w), start |-> w.start, end |-> w.end, size |-> w.bytes]

FramesOf(f) == IF f = NoFile THEN {} ELSE Range(f.contents) \ {Torn}

\* finalize_segment: the header is written and the segment enters the index.
Finalize(s, w) ==
  LET p == <<s, Seg(w)>>
  IN /\ files' = [files EXCEPT ![p] = WithHeader(@, w)]
     /\ index' = [index EXCEPT ![s] = Append(@, EntryOf(w))]
     /\ total_bytes' = total_bytes + w.bytes
     /\ durable' = [durable EXCEPT ![s] = @ \cup FramesOf(files[p])]

-------------------------------------------------------------------------------
(* store_frame, called by the recording task for one frame after the other. *)

\* A camera's next frame; its timestamps only go back when it restarts.
StoreFrame(s, t) ==
  /\ up /\ pc = "idle" /\ counts.frames < MaxFrames /\ t >= clock[s]
  /\ frame' = [source |-> s, n |-> counts.frames + 1, t |-> t]
  /\ clock' = [clock EXCEPT ![s] = t]
  /\ Count("frames")
  /\ pc' = "opening"
  /\ UNCHANGED <<diskVars, up, closing, history>>

HasWriter(s) == writers[s] # NoWriter

\* The writer takes the frames of its segment, whatever their order.
Fits(f) == HasWriter(f.source) /\ Seg(writers[f.source]) = SegmentOf(f.t)

UseWriter ==
  /\ up /\ pc = "opening" /\ Fits(frame)
  /\ pc' = "writing"
  /\ UNCHANGED <<diskVars, up, frame, closing, clock, counts, history>>

\* The frame belongs to another segment: the writer is taken out.  The lock of
\* the writers is held from here until the new writer is in.
BeginClose ==
  /\ up /\ pc = "opening" /\ HasWriter(frame.source) /\ ~Fits(frame)
  /\ closing' = writers[frame.source]
  /\ writers' = [writers EXCEPT ![frame.source] = NoWriter]
  /\ pc' = "closing"
  /\ UNCHANGED <<files, index, total_bytes, up, frame, clock, counts, history>>

EndClose ==
  /\ up /\ pc = "closing"
  /\ Finalize(frame.source, closing)
  /\ closing' = NoWriter
  /\ pc' = "creating"
  /\ UNCHANGED <<writers, up, frame, clock, counts, reopened>>

\* What is in a file whose header was written in part: nothing of it, the start,
\* or all times.
HeaderInPart(f, w) ==
  IF f = NoFile THEN {NoFile}
  ELSE {f, [f EXCEPT !.start = w.start], WithHeader(f, w)}

\* Finalizing fails: the writer is gone, the segment is not indexed, and the
\* frame is not stored.
CloseFails ==
  /\ up /\ pc = "closing" /\ counts.faults < MaxFaults
  /\ LET p == <<frame.source, Seg(closing)>>
     IN \E f \in HeaderInPart(files[p], closing) :
          files' = [files EXCEPT ![p] = f]
  /\ closing' = NoWriter
  /\ pc' = "idle"
  /\ Count("faults")
  /\ UNCHANGED <<writers, index, total_bytes, up, frame, clock, history>>

MayCreate ==
  up /\ (pc = "creating" \/ (pc = "opening" /\ ~HasWriter(frame.source)))

Indexed(p) == \E i \in DOMAIN index[p[1]] : index[p[1]][i].seg = p[2]

\* Opening a segment creates its file or empties the one that is there.
OpenedFile(f) == [header |-> TRUE, start |-> 0, end |-> 0, contents |-> <<>>]

CreateWriter ==
  /\ MayCreate
  /\ LET s == frame.source
         p == <<s, SegmentOf(frame.t)>>
     IN /\ files' = [files EXCEPT ![p] = OpenedFile(@)]
        /\ writers' = [writers EXCEPT ![s] =
                         [start |-> frame.t, end |-> frame.t, bytes |-> 1]]
        /\ reopened' = reopened \cup {q \in {p} : Indexed(q)}
  /\ pc' = "writing"
  /\ UNCHANGED <<index, total_bytes, up, frame, closing, clock, counts, durable>>

CreateFails ==
  /\ MayCreate /\ counts.faults < MaxFaults
  /\ pc' = "idle"
  /\ Count("faults")
  /\ UNCHANGED <<diskVars, up, frame, closing, clock, history>>

\* A file that was deleted under its writer takes the frames with it.
Written(f, r) ==
  IF f = NoFile THEN NoFile ELSE [f EXCEPT !.contents = Append(@, r)]

\* Mutant: the end of the segment is not kept up to date.
WriterAfterStart(w, f) == [w EXCEPT !.bytes = @ + 1]

WriterAfter(w, f) == [w EXCEPT !.end = f.t, !.bytes = @ + 1]

WriteFrame ==
  /\ up /\ pc = "writing" /\ HasWriter(frame.source)
  /\ LET s == frame.source
     IN /\ files' = [files EXCEPT ![<<s, Seg(writers[s])>>] = Written(@, frame)]
        /\ writers' = [writers EXCEPT ![s] = WriterAfter(@, frame)]
  /\ pc' = "idle"
  /\ UNCHANGED <<index, total_bytes, up, frame, closing, clock, counts, history>>

\* The disk takes a part of the frame, or nothing; the writer stays.
WriteFails ==
  /\ up /\ pc = "writing" /\ HasWriter(frame.source) /\ counts.faults < MaxFaults
  /\ LET p == <<frame.source, Seg(writers[frame.source])>>
     IN \E f \in {files[p], Written(files[p], Torn)} :
          files' = [files EXCEPT ![p] = f]
  /\ pc' = "idle"
  /\ Count("faults")
  /\ UNCHANGED <<writers, index, total_bytes, up, frame, closing, clock, history>>

\* A flush took the writer in between: "Writer not found after creation".
WriterGone ==
  /\ up /\ pc = "writing" /\ ~HasWriter(frame.source)
  /\ pc' = "idle"
  /\ UNCHANGED <<diskVars, up, frame, closing, clock, counts, history>>

-------------------------------------------------------------------------------
(* flush, cleanup and get_frames.                                          *)

\* A turn of flush: it waits for the lock of the writers.  Finalizing is one step
\* here, although flush has released the lock by then.
FlushSource(s) ==
  /\ up /\ pc \notin {"closing", "creating"} /\ HasWriter(s)
  /\ counts.flushes < MaxFlushes
  /\ Finalize(s, writers[s])
  /\ writers' = [writers EXCEPT ![s] = NoWriter]
  /\ Count("flushes")
  /\ UNCHANGED <<up, taskVars, clock, reopened>>

IsOld(e, cutoff) == e.end < cutoff

\* The entries whose file a cleanup deletes: of several that name the same file
\* only the first finds it, and an entry without its file is kept.
Deleted(s, cutoff) ==
  {i \in DOMAIN index[s] :
     LET e == index[s][i]
     IN /\ IsOld(e, cutoff) /\ files[<<s, e.seg>>] # NoFile
        /\ \A j \in 1 .. i - 1 :
             ~(index[s][j].seg = e.seg /\ IsOld(index[s][j], cutoff))}

SizesOf(entries, I) == SumFunctionOnSet([i \in I |-> entries[i].size], I)

\* The entries that stay, in their order.
Without(entries, I) ==
  LET kept[i \in 0 .. Len(entries)] ==
        IF i = 0 THEN <<>>
        ELSE IF i \in I THEN kept[i - 1]
        ELSE Append(kept[i - 1], entries[i])
  IN kept[Len(entries)]

BytesIn(idx) ==
  FoldFunction(+, 0, [s \in Sources |-> SizesOf(idx[s], DOMAIN idx[s])])

\* Mutant: the bytes that were deleted still count.
TotalAfterNothing(cutoff) == total_bytes

\* cleanup, with its saturating subtraction.
TotalAfter(cutoff) ==
  LET bytes == FoldFunction(+, 0, [s \in Sources |->
                 SizesOf(index[s], Deleted(s, cutoff))])
  IN IF bytes > total_bytes THEN 0 ELSE total_bytes - bytes

\* cleanup holds the index; the recording task may be anywhere else.
Cleanup(cutoff) ==
  /\ up
  /\ files' = [p \in Paths |->
                 IF \E i \in Deleted(p[1], cutoff) : index[p[1]][i].seg = p[2]
                   THEN NoFile ELSE files[p]]
  /\ index' = [s \in Sources |-> Without(index[s], Deleted(s, cutoff))]
  /\ total_bytes' = TotalAfter(cutoff)
  /\ durable' = [s \in Sources |-> {f \in durable[s] : f.t >= cutoff}]
  /\ UNCHANGED <<writers, up, taskVars, clock, counts, reopened>>

InRange(e, from, to) == ~(e.end < from \/ e.start > to)

\* The entries a query for [from, to] reads.
Relevant(s, from, to) == {i \in DOMAIN index[s] : InRange(index[s][i], from, to)}

\* get_frames returns an error when a file is missing or ends within a frame.
QueryFails(s, from, to) ==
  \E i \in Relevant(s, from, to) :
    LET f == files[<<s, index[s][i].seg>>]
    IN f = NoFile \/ Torn \in Range(f.contents)

\* How often get_frames returns a frame, when it succeeds.
TimesReturned(s, from, to, f) ==
  IF f.t \in from .. to
    THEN Cardinality({i \in Relevant(s, from, to) :
                        f \in FramesOf(files[<<s, index[s][i].seg>>])})
    ELSE 0

-------------------------------------------------------------------------------
(* Restarts.                                                               *)

\* The camera's process starts anew and with it its timestamps.
CameraRestarts(s) ==
  /\ counts.restarts < MaxCameraRestarts /\ clock[s] > 0
  /\ clock' = [clock EXCEPT ![s] = 0]
  /\ Count("restarts")
  /\ UNCHANGED <<diskVars, up, taskVars, history>>

\* The server dies or is stopped: nothing flushes the writers.
Crash ==
  /\ up /\ counts.crashes < MaxCrashes
  /\ up' = FALSE
  /\ Count("crashes")
  /\ UNCHANGED <<diskVars, taskVars, clock, history>>

\* What of a file the disk holds when its writer dies: nothing at all, or the
\* header and the first frames, the last of which may be cut off.
OnDisk(f) ==
  IF f = NoFile THEN {NoFile}
  ELSE {[f EXCEPT !.header = FALSE, !.contents = <<>>]} \cup
       UNION {LET some == SubSeq(f.contents, 1, k)
              IN IF k = Len(f.contents) THEN {[f EXCEPT !.contents = some]}
                 ELSE {[f EXCEPT !.contents = some],
                       [f EXCEPT !.contents = Append(some, Torn)]}
              : k \in 0 .. Len(f.contents)}

\* An open writer dies with the server.
LoseBuffer(s) ==
  /\ ~up /\ HasWriter(s)
  /\ LET p == <<s, Seg(writers[s])>>
     IN \E f \in OnDisk(files[p]) : files' = [files EXCEPT ![p] = f]
  /\ writers' = [writers EXCEPT ![s] = NoWriter]
  /\ UNCHANGED <<index, total_bytes, up, taskVars, clock, counts, history>>

\* So does one that is being finalized: before or after its buffer is written.
LoseClosing ==
  /\ ~up /\ closing # NoWriter
  /\ LET p == <<frame.source, Seg(closing)>>
     IN \E f \in OnDisk(files[p]) \cup HeaderInPart(files[p], closing) :
          files' = [files EXCEPT ![p] = f]
  /\ closing' = NoWriter
  /\ UNCHANGED <<writers, index, total_bytes, up, pc, frame, clock, counts, history>>

SizeOf(f) == IF f = NoFile \/ ~f.header THEN 0 ELSE 1 + Len(f.contents)

\* read_segment_index takes a header as it is, finalized or not.
Scanned(s) ==
  {[seg |-> g, start |-> files[<<s, g>>].start, end |-> files[<<s, g>>].end,
    size |-> SizeOf(files[<<s, g>>])]
     : g \in {h \in Segments : SizeOf(files[<<s, h>>]) > 0}}

\* The entries by their start; those with the same start are as the directory
\* lists them.
SortedByStart(S) ==
  CHOOSE e \in [1 .. Cardinality(S) -> S] :
    /\ IsInjective(e)
    /\ \A i, j \in DOMAIN e : i < j => e[i].start <= e[j].start

\* rebuild_index_sync, in LocalStorage::new.
Restart ==
  /\ ~up /\ closing = NoWriter /\ \A s \in Sources : ~HasWriter(s)
  /\ up' = TRUE /\ pc' = "idle"
  /\ index' = [s \in Sources |-> SortedByStart(Scanned(s))]
  /\ total_bytes' = BytesIn(index')
  /\ UNCHANGED <<files, writers, frame, closing, clock, counts, history>>

Next ==
  \/ \E s \in Sources : \/ \E t \in Times : StoreFrame(s, t)
                        \/ FlushSource(s) \/ CameraRestarts(s) \/ LoseBuffer(s)
  \/ UseWriter \/ BeginClose \/ EndClose \/ CloseFails
  \/ CreateWriter \/ CreateFails \/ WriteFrame \/ WriteFails \/ WriterGone
  \/ \E cutoff \in 1 .. MaxTime + 1 : Cleanup(cutoff)
  \/ Crash \/ LoseClosing \/ Restart

Spec == Init /\ [][Next]_vars

-------------------------------------------------------------------------------
(* Properties.                                                             *)

TypeOK ==
  /\ files \in [Paths -> File \cup {NoFile}]
  /\ writers \in [Sources -> Writer \cup {NoWriter}]
  /\ index \in [Sources -> Seq(Entry)]
  /\ total_bytes \in Nat
  /\ up \in BOOLEAN
  /\ pc \in {"idle", "opening", "closing", "creating", "writing"}
  /\ frame \in Frame \cup {NoFrame}
  /\ closing \in Writer \cup {NoWriter}
  /\ clock \in [Sources -> Times]
  /\ counts \in [Event -> Nat]
  /\ durable \in [Sources -> SUBSET Frame]
  /\ reopened \subseteq Paths

\* A frame of a finalized segment is in what a query for its time returns, once,
\* whatever was recorded, cleaned up or lost in a crash since (local.rs:290-340
\* over 112-155, 214-241, 342-370), and the query does succeed as long as no crash
\* and no failed operation has left a file that makes it fail (326).  Not so when
\* the segment was opened once more while it was indexed, or when a camera has
\* restarted: the range of a segment is its first and last timestamp (198, 283)
\* and can then miss frames.
DurableFramesReadable ==
  (up /\ counts.restarts = 0) =>
    \A s \in Sources : \A f \in durable[s] :
      <<s, SegmentOf(f.t)>> \notin reopened =>
        /\ TimesReturned(s, f.t, f.t, f) = 1
        /\ counts.crashes + counts.faults = 0 => ~QueryFails(s, f.t, f.t)

StorageUsed ==
  FoldFunction(+, 0, [s \in Sources |->
    LET sizes == [g \in Segments |-> SizeOf(files[<<s, g>>])]
    IN SumFunctionOnSet(sizes, {g \in Segments : Indexed(<<s, g>>)})])

\* The bytes in use are those of the files in the index, through finalizing,
\* cleanup and the scan of a restart, as long as no failed write left a part of
\* a frame that nobody counted and no indexed file was opened once more
\* (local.rs:133, 237, 367).
UsageIsDisk ==
  (up /\ counts.faults = 0 /\ reopened = {}) => total_bytes = StorageUsed

\* The accounts of the storage agree with the disk: the types and the bytes in
\* use (local.rs:133, 237, 367).
DiskAccounted == TypeOK /\ UsageIsDisk
===============================================================================
