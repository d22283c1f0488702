------------------------------ MODULE WebVideo ------------------------------
(***************************************************************************)
(* Video for the browser: the shared VideoMuxer (web/fmp4.rs) reads the    *)
(* router's broadcast, feeds the frames of every source to an FFmpeg       *)
(* process of its own, caches the init segment that process writes first   *)
(* and broadcasts its output; a WebSocket session (web/ws.rs) subscribes,  *)
(* sends the cached inits and then what it receives.                       *)
(*                                                                         *)
(* The processes of a source are numbered: epoch e wrote init e and the    *)
(* segments that only init e can decode.  Of the bytes FFmpeg writes only  *)
(* the boxes are kept; a read may end after any of them, and a session may *)
(* lag behind.  Both broadcast channels drop their oldest entry when full  *)
(* and report the loss once, before the next entry.                        *)
(***************************************************************************)
EXTENDS Naturals, Sequences, FiniteSets, SequencesExt, FiniteSetsExt

CONSTANTS Sources,      \* cameras
          InputCap,     \* capacity of the router's broadcast
          QueueCap,     \* capacity of the muxer's broadcast
          BoxCap,       \* bound: boxes written and not read yet
          MaxFaults,    \* bound: crashes, failed starts and lags of the muxer
          MaxLags       \* bound: lags of the session

ASSUME WebVideoAssumption ==
  /\ IsFiniteSet(Sources)
  /\ {InputCap, QueueCap, BoxCap, MaxFaults, MaxLags} \subseteq Nat
  /\ InputCap > 0 /\ QueueCap > 0

VARIABLES
  input, missed,        \* the muxer's receiver: frames, and whether it lags
  muxer,                \* per source, its Fmp4Muxer and FFmpeg process
  result,               \* what run still has to do with the frame's result
  inits,                \* per source, the epoch of the cached init, 0 without
  session,              \* off, joining (subscribed) or on (in its loop)
  queue, lagged,        \* the session's receiver
  initSent,             \* video_init_sent
  shown, played,        \* per source, epochs of the last init and segment sent
  faults, lags,
  gap, torn             \* history: a frame was skipped since the last one fed;
                        \* a process was fed across such a gap

feed    == <<input, missed>>
viewer  == <<session, initSent, shown, played>>
channel == <<queue, lagged, lags>>
history == <<gap, torn>>
vars    == <<feed, muxer, result, inits, viewer, channel, faults, history>>

Boxes  == {"ftyp", "moov", "media"}
Epochs == 0 .. MaxFaults + 1
Frames == [source : Sources, key : BOOLEAN]
Output == [kind : {"cache", "init", "segment"}, source : Sources, epoch : Epochs]

(* What is in reach of one process.                                        *)
Muxers == [proc : {"none", "running", "exited"}, epoch : Epochs,
           needsKeyframe : BOOLEAN, initSent : BOOLEAN,
           pending : Seq({"ftyp"}), unread : Seq(Boxes),
           writing : Boxes, fed : BOOLEAN]      \* the next box; input is left

TypeOK ==
  /\ input \in Seq(Frames) /\ Len(input) <= InputCap /\ missed \in BOOLEAN
  /\ muxer \in [Sources -> Muxers]
  /\ result \in Seq(Output) /\ Len(result) <= 3
  /\ inits \in [Sources -> Epochs]
  /\ session \in {"off", "joining", "on"}
  /\ queue \in Seq(Output) /\ Len(queue) <= QueueCap /\ lagged \in BOOLEAN
  /\ initSent \subseteq Sources
  /\ shown \in [Sources -> Epochs] /\ played \in [Sources -> Epochs]
  /\ faults \in 0 .. MaxFaults /\ lags \in 0 .. MaxLags
  /\ gap \in [Sources -> BOOLEAN] /\ torn \in [Sources -> BOOLEAN]

NewMuxer == [proc |-> "none", epoch |-> 0, needsKeyframe |-> FALSE,
             initSent |-> FALSE, pending |-> <<>>, unread |-> <<>>,
             writing |-> "ftyp", fed |-> FALSE]

Init ==
  /\ input = <<>> /\ missed = FALSE /\ muxer = [s \in Sources |-> NewMuxer]
  /\ result = <<>> /\ inits = [s \in Sources |-> 0]
  /\ session = "off" /\ queue = <<>> /\ lagged = FALSE /\ initSent = {}
  /\ shown = [s \in Sources |-> 0] /\ played = [s \in Sources |-> 0]
  /\ faults = 0 /\ lags = 0
  /\ gap = [s \in Sources |-> FALSE] /\ torn = [s \in Sources |-> FALSE]

----------------------------------------------------------------------------
(* The router publishes a frame.  A muxer that has fallen behind loses the *)
(* oldest one.                                                             *)
Publish(f) ==
  \/ /\ Len(input) < InputCap
     /\ input' = Append(input, f)
     /\ UNCHANGED <<missed, faults, history>>
  \/ /\ Len(input) = InputCap /\ faults < MaxFaults
     /\ input' = Append(Tail(input), f) /\ missed' = TRUE /\ faults' = faults + 1
     /\ gap' = [gap EXCEPT ![Head(input).source] = TRUE]
     /\ UNCHANGED torn

----------------------------------------------------------------------------
(* FFmpeg: ftyp and moov once it has input, then fragments, moof and mdat, *)
(* for the frames it was fed.                                              *)
NextBox == [ftyp |-> "moov", moov |-> "media", media |-> "media"]

Write(s) ==
  LET m == muxer[s] IN
  /\ m.proc = "running" /\ m.fed /\ Len(m.unread) < BoxCap
  /\ muxer' = [muxer EXCEPT
       ![s].unread = Append(@, m.writing), ![s].writing = NextBox[@],
       ![s].fed = m.writing # "media"]
  /\ UNCHANGED <<feed, result, inits, viewer, channel, faults, history>>

Crash(s) ==
  /\ muxer[s].proc = "running" /\ faults < MaxFaults
  /\ muxer' = [muxer EXCEPT ![s].proc = "exited"] /\ faults' = faults + 1
  /\ UNCHANGED <<feed, result, inits, viewer, channel, history>>

----------------------------------------------------------------------------
(* mux_frame.                                                              *)

(* The process is killed, what it wrote is forgotten, a keyframe is due.   *)
Reset(m) == [NewMuxer EXCEPT !.epoch = m.epoch, !.needsKeyframe = TRUE]

Start(m) == [NewMuxer EXCEPT !.proc = "running", !.epoch = m.epoch + 1]

Skips(m, f) == ~f.key /\ (m.needsKeyframe \/ m.proc = "none")

Out(kind, s, m) == [kind |-> kind, source |-> s, epoch |-> m.epoch]

Segment(s, m, boxes) ==
  IF boxes = <<>> THEN <<>> ELSE <<Out("segment", s, m)>>

(* Everything written so far is read.  Until the moov is complete it is    *)
(* collected; what follows the moov is the first segment.                  *)
Read(m) ==
  IF m.initSent THEN [m EXCEPT !.unread = <<>>]
  ELSE LET bytes == m.pending \o m.unread
           ready == "moov" \in Range(bytes)
       IN  [m EXCEPT !.unread = <<>>, !.initSent = ready,
                     !.pending = IF ready THEN <<>> ELSE bytes]

\* Mutant: the init is broadcast before it is cached.
InitAnnouncedFirst(s, m) == <<Out("init", s, m), Out("cache", s, m)>>

(* run: the init is cached before it is broadcast.                         *)
InitCachedFirst(s, m) == <<Out("cache", s, m), Out("init", s, m)>>

Produced(s, m) ==
  LET bytes == m.pending \o m.unread
      after == SelectSeq(bytes, LAMBDA b : b = "media")
  IN  IF m.initSent THEN Segment(s, m, m.unread)
      ELSE IF "moov" \in Range(bytes)
           THEN InitCachedFirst(s, m) \o Segment(s, m, after)
           ELSE <<>>

(* try_wait finds the process gone: the frame is dropped with it.          *)
FindExited(s, m, f) ==
  /\ m.proc = "exited"
  /\ muxer' = [muxer EXCEPT ![s] = Reset(m)]
  /\ gap' = [gap EXCEPT ![s] = TRUE]
  /\ UNCHANGED <<result, faults, torn>>

Skip(s, m, f) ==
  /\ m.proc # "exited" /\ Skips(m, f)
  /\ gap' = [gap EXCEPT ![s] = TRUE]
  /\ UNCHANGED <<muxer, result, faults, torn>>

StartFails(s, m, f) ==
  /\ m.proc = "none" /\ f.key /\ faults < MaxFaults
  /\ muxer' = [muxer EXCEPT ![s].needsKeyframe = FALSE] /\ faults' = faults + 1
  /\ gap' = [gap EXCEPT ![s] = TRUE]
  /\ UNCHANGED <<result, torn>>

(* The frame is handed over and the output read; the process may go down   *)
(* in between, which shows in its stdin or, once the init is out, in its   *)
(* stdout.                                                                 *)
Feed(s, m, f) ==
  LET m1 == IF m.proc = "none" THEN Start(m)
            ELSE [m EXCEPT !.needsKeyframe = FALSE]
      m2 == [m1 EXCEPT !.fed = TRUE]
  IN
  /\ m.proc # "exited" /\ ~Skips(m, f)
  /\ torn' = [torn EXCEPT ![s] = \/ torn[s]
                                 \/ m.proc = "running" /\ gap[s]
                                 \/ m.proc = "none" /\ ~f.key]
  /\ gap' = [gap EXCEPT ![s] = FALSE]
  /\ \/ muxer' = [muxer EXCEPT ![s] = Read(m2)] /\ result' = Produced(s, m2)
        /\ UNCHANGED faults
     \/ faults < MaxFaults /\ faults' = faults + 1
        /\ muxer' = [muxer EXCEPT ![s] = Reset(m2)]
        /\ result' \in {<<>>} \cup (IF m2.initSent THEN {Produced(s, m2)} ELSE {})

MuxFrame ==
  /\ result = <<>> /\ ~missed /\ input # <<>>
  /\ LET f == Head(input)  s == f.source IN
       \/ FindExited(s, muxer[s], f) \/ Skip(s, muxer[s], f)
       \/ StartFails(s, muxer[s], f) \/ Feed(s, muxer[s], f)
  /\ input' = Tail(input)
  /\ UNCHANGED <<missed, inits, viewer, channel>>

\* Mutant: the muxers carry on after a lag.
CarryOn == UNCHANGED muxer

(* A muxer that was not made yet and one just reset both wait for a        *)
(* keyframe, so all of them are reset here.                                *)
ResetAll == muxer' = [s \in Sources |-> Reset(muxer[s])]

Lagged ==
  /\ result = <<>> /\ missed /\ missed' = FALSE /\ ResetAll
  /\ UNCHANGED <<input, result, inits, viewer, channel, faults, history>>

----------------------------------------------------------------------------
(* run hands on what the frame gave.  The session may run in between.      *)
Send(o) ==
  IF session = "off" THEN UNCHANGED channel
  ELSE \/ /\ Len(queue) < QueueCap
          /\ queue' = Append(queue, o) /\ UNCHANGED <<lagged, lags>>
       \/ /\ Len(queue) = QueueCap /\ lags < MaxLags
          /\ queue' = Append(Tail(queue), o) /\ lagged' = TRUE /\ lags' = lags + 1

HandOn ==
  /\ result # <<>> /\ result' = Tail(result)
  /\ LET o == Head(result) IN
       IF o.kind = "cache"
         THEN inits' = [inits EXCEPT ![o.source] = o.epoch] /\ UNCHANGED channel
         ELSE Send(o) /\ UNCHANGED inits
  /\ UNCHANGED <<feed, muxer, viewer, faults, history>>

----------------------------------------------------------------------------
(* The session: subscribe, send the cached inits, then serve the queue.    *)
Join ==
  /\ session = "off" /\ session' = "joining"
  /\ queue' = <<>> /\ lagged' = FALSE /\ initSent' = {}
  /\ shown' = [s \in Sources |-> 0] /\ played' = [s \in Sources |-> 0]
  /\ UNCHANGED <<feed, muxer, result, inits, lags, faults, history>>

SendCached ==
  /\ session = "joining" /\ session' = "on"
  /\ shown' = inits /\ initSent' = {s \in Sources : inits[s] # 0}
  /\ UNCHANGED <<feed, muxer, result, inits, played, channel, faults, history>>

Leave ==
  /\ session # "off" /\ session' = "off"
  /\ queue' = <<>> /\ lagged' = FALSE /\ initSent' = {}
  /\ shown' = [s \in Sources |-> 0] /\ played' = [s \in Sources |-> 0]
  /\ UNCHANGED <<feed, muxer, result, inits, lags, faults, history>>

ReceiveInit(o) ==
  /\ o.kind = "init"
  /\ shown' = [shown EXCEPT ![o.source] = o.epoch]
  /\ initSent' = initSent \cup {o.source} /\ UNCHANGED played

(* Without an init sent, the cached one goes first; without a cached one   *)
(* the segment is skipped.                                                 *)
ReceiveSegment(o) ==
  LET s == o.source IN
  /\ o.kind = "segment"
  /\ \/ /\ s \in initSent
        /\ played' = [played EXCEPT ![s] = o.epoch] /\ UNCHANGED <<shown, initSent>>
     \/ /\ s \notin initSent /\ inits[s] # 0
        /\ shown' = [shown EXCEPT ![s] = inits[s]] /\ initSent' = initSent \cup {s}
        /\ played' = [played EXCEPT ![s] = o.epoch]
     \/ /\ s \notin initSent /\ inits[s] = 0
        /\ UNCHANGED <<shown, initSent, played>>

Receive ==
  /\ session = "on" /\ ~lagged /\ queue # <<>> /\ queue' = Tail(queue)
  /\ ReceiveInit(Head(queue)) \/ ReceiveSegment(Head(queue))
  /\ UNCHANGED <<feed, muxer, result, inits, session, lagged, lags, faults, history>>

\* Mutant: after a lag the session believes its inits are still good.
TrustInits == UNCHANGED initSent

ForgetInits == initSent' = {}

SessionLagged ==
  /\ session = "on" /\ lagged /\ lagged' = FALSE /\ ForgetInits
  /\ UNCHANGED <<feed, muxer, result, inits, session, shown, played, queue, lags,
                 faults, history>>

----------------------------------------------------------------------------
PublishSome ==
  /\ \E f \in Frames : Publish(f)
  /\ UNCHANGED <<muxer, result, inits, viewer, channel>>

Next ==
  \/ PublishSome \/ MuxFrame \/ Lagged \/ HandOn
  \/ \E s \in Sources : Write(s) \/ Crash(s)
  \/ Join \/ SendCached \/ Leave \/ Receive \/ SessionLagged

(* Every camera goes on sending frames and keyframes among them; the tasks *)
(* and FFmpeg run.                                                         *)
PublishKey(s) ==
  /\ Publish([source |-> s, key |-> TRUE])
  /\ UNCHANGED <<muxer, result, inits, viewer, channel>>

Fairness ==
  /\ WF_vars(MuxFrame) /\ WF_vars(Lagged) /\ WF_vars(HandOn)
  /\ WF_vars(SendCached) /\ WF_vars(Receive) /\ WF_vars(SessionLagged)
  /\ \A s \in Sources : WF_vars(Write(s)) /\ SF_vars(PublishKey(s))

Spec == Init /\ [][Next]_vars /\ Fairness

----------------------------------------------------------------------------
(* A process is fed from a keyframe on and never across a frame the muxer  *)
(* skipped or the broadcast dropped: it would decode garbage.              *)
NoTornStream == \A s \in Sources : ~torn[s]

(* In every state, over state of the right types (fmp4.rs:411).            *)
FeedSound == TypeOK /\ NoTornStream

(* The browser never gets a segment of a newer process than the init it    *)
(* was given last: whatever the session lost, it sent a new init before.   *)
SegmentNeverNewerThanInit == \A s \in Sources : played[s] <= shown[s]

(* Whatever crashed or lagged: a session that stays ends up with the init  *)
(* and the segments of the process that is running.                        *)
SessionCatchesUp ==
  \A s \in Sources :
    <>[](session = "on") =>
      <>[](/\ muxer[s].proc = "running"
           /\ shown[s] = muxer[s].epoch /\ played[s] = muxer[s].epoch)

=============================================================================
