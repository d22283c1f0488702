------------------------------- MODULE WebView -------------------------------
(***************************************************************************)
(* What a browser knows of the cameras: the telemetry task of a camera     *)
(* (capture/telemetry.rs) sends a full heartbeat now and then and only the *)
(* fields that changed in between; a WebSocket session (web/ws.rs) merges  *)
(* them into a state of its own, lists every camera it hears of, and       *)
(* compares the router's table of peers with its own every five seconds.   *)
(*                                                                         *)
(* A sample is taken once a second.  A payload may get lost on its way:    *)
(* drained while the camera is offline, dropped for backpressure, or       *)
(* overwritten in the broadcast channel of a session that lags.  A frame   *)
(* of any channel lists its camera; only telemetry is kept here.           *)
(***************************************************************************)
EXTENDS Integers, Sequences, FiniteSets, SequencesExt, Functions

CONSTANTS Cameras,
          Fields,       \* of the telemetry
          Core,         \* those that make a state ready: cpu and mem
          Optional,     \* those a sample may lack
          Values,       \* per field, the numbers it takes
          Threshold,    \* per field, the change worth sending
          Heartbeat,    \* samples from one heartbeat to the next
          QueueCap,     \* capacity of the session's broadcast receiver
          MaxLosses     \* bound: payloads that get lost

ASSUME WebViewAssumption ==
  /\ IsFiniteSet(Cameras) /\ Core \subseteq Fields /\ Optional \subseteq Fields
  /\ Core \cap Optional = {} /\ Core # {}
  /\ Threshold \in [Fields -> Nat \ {0}]
  /\ Values \in [Fields -> SUBSET Nat] /\ \A f \in Fields \ Optional : 0 \in Values[f]
  /\ MaxLosses \in Nat /\ {Heartbeat, QueueCap} \subseteq Nat \ {0}

VARIABLES
  online,               \* cameras in the router's table of peers
  reading,              \* per camera, what its sensors say
  lastSent, beat,       \* last_sent, samples since last_heartbeat
  session,              \* off, subscribed, listed (after get_camera_ids) or on
  queue, lagged,        \* its receiver of frames
  known, knownPeers,    \* known_cameras, known_peers
  view, ready,          \* per camera, its TelemetryState and the ready flag
  losses,
  steady                \* history: samples since the last disturbance

camera  == <<online, reading, lastSent, beat>>
channel == <<queue, lagged>>
browser == <<known, knownPeers, view, ready>>
viewVars == <<camera, session, channel, browser, losses, steady>>

Absent == -1
Never  == [f \in {} |-> 0]          \* nothing was sent yet

RangeOf(f)  == Values[f] \cup (IF f \in Optional THEN {Absent} ELSE {})
Numbers   == UNION {Values[f] : f \in Fields}
Readings  == {r \in [Fields -> Numbers \cup {Absent}] :
                \A f \in Fields : r[f] \in RangeOf(f)}
Payloads  == [full : BOOLEAN,
              values : UNION {[S -> Numbers] : S \in SUBSET Fields}]
Messages  == [camera : Cameras, payload : Payloads]

(* TelemetryState::default: numbers are 0, options are None.               *)
NoView == [f \in Fields |-> IF f \in Optional THEN Absent ELSE 0]

ViewTypeOK ==
  /\ online \subseteq Cameras /\ reading \in [Cameras -> Readings]
  /\ lastSent \in [Cameras -> Readings \cup {Never}]
  /\ beat \in [Cameras -> 0 .. Heartbeat]
  /\ session \in {"off", "subscribed", "listed", "on"}
  /\ queue \in Seq(Messages) /\ Len(queue) <= QueueCap /\ lagged \in BOOLEAN
  /\ known \subseteq Cameras /\ knownPeers \subseteq Cameras
  /\ view \in [Cameras -> Readings] /\ ready \in [Cameras -> BOOLEAN]
  /\ losses \in 0 .. MaxLosses /\ steady \in [Cameras -> 0 .. Heartbeat]

ViewInit ==
  /\ online = {} /\ reading \in [Cameras -> Readings]
  /\ lastSent = [c \in Cameras |-> Never] /\ beat = [c \in Cameras |-> Heartbeat]
  /\ session = "off" /\ queue = <<>> /\ lagged = FALSE
  /\ known = {} /\ knownPeers = {}
  /\ view = [c \in Cameras |-> NoView] /\ ready = [c \in Cameras |-> FALSE]
  /\ losses = 0 /\ steady = [c \in Cameras |-> 0]

----------------------------------------------------------------------------
(* The camera.                                                             *)
Change(c, f) ==
  /\ \E v \in RangeOf(f) \ {reading[c][f]} : reading' = [reading EXCEPT ![c][f] = v]
  /\ steady' = [steady EXCEPT ![c] = 0]
  /\ UNCHANGED <<online, lastSent, beat, session, channel, browser, losses>>

Arrive(c) ==
  /\ c \notin online /\ online' = online \cup {c}
  /\ UNCHANGED <<reading, lastSent, beat, session, channel, browser, losses, steady>>

Depart(c) ==
  /\ c \in online /\ online' = online \ {c}
  /\ steady' = [steady EXCEPT ![c] = 0]
  /\ UNCHANGED <<reading, lastSent, beat, session, channel, browser, losses>>

(* from_full: every field the sample has.                                  *)
Full(now) == [full |-> TRUE, values |-> Restrict(now, {f \in Fields : now[f] # Absent})]

(* A field is worth sending when it appears or moves by its threshold; one *)
(* that disappears is not mentioned.                                       *)
Changed(now, before) ==
  {f \in Fields :
     /\ now[f] # Absent
     /\ \/ before[f] = Absent
        \/ now[f] - before[f] >= Threshold[f] \/ before[f] - now[f] >= Threshold[f]}

\* Mutant: a heartbeat holds the fields that changed, like any other payload.
BeatDiff(c) ==
  IF lastSent[c] = Never THEN Full(reading[c])
  ELSE [full |-> beat[c] + 1 >= Heartbeat,
        values |-> Restrict(reading[c], Changed(reading[c], lastSent[c]))]

(* What a sample is sent as: in full the first time and when a heartbeat   *)
(* is due, as a difference to the last one otherwise.                      *)
Payload(c) ==
  IF lastSent[c] = Never \/ beat[c] + 1 >= Heartbeat THEN Full(reading[c])
  ELSE [full |-> FALSE,
        values |-> Restrict(reading[c], Changed(reading[c], lastSent[c]))]

(* A full broadcast channel loses its oldest entry.                        *)
Overwrite(m) == Append(Tail(queue), m)

(* A payload that reaches the broadcast is queued for the session.         *)
Deliver(c, p) ==
  /\ c \in online
  /\ IF session = "off" THEN UNCHANGED <<channel, losses, steady>>
     ELSE \/ /\ Len(queue) < QueueCap
             /\ queue' = Append(queue, [camera |-> c, payload |-> p])
             /\ steady' = [steady EXCEPT ![c] = IF @ < Heartbeat THEN @ + 1 ELSE @]
             /\ UNCHANGED <<lagged, losses>>
          \/ /\ Len(queue) = QueueCap /\ losses < MaxLosses /\ losses' = losses + 1
             /\ queue' = Overwrite([camera |-> c, payload |-> p])
             /\ lagged' = TRUE
             /\ steady' = [steady EXCEPT ![c] = 0, ![Head(queue).camera] = 0]

Lose(c) ==
  /\ \/ c \notin online /\ UNCHANGED losses
     \/ c \in online /\ losses < MaxLosses /\ losses' = losses + 1
  /\ steady' = [steady EXCEPT ![c] = 0] /\ UNCHANGED channel

(* The uptime, not kept here, changes with almost every sample: then there *)
(* is a payload even when no other field is in it.                         *)
Sample(c) ==
  LET p == Payload(c)  quiet == ~p.full /\ DOMAIN p.values = {} IN
  /\ \/ /\ Deliver(c, p) \/ Lose(c)
        /\ lastSent' = [lastSent EXCEPT ![c] = reading[c]]
     \/ /\ quiet /\ UNCHANGED <<lastSent, channel, losses>>
        /\ steady' = [steady EXCEPT
             ![c] = IF @ < Heartbeat /\ c \in online /\ session # "off" THEN @ + 1 ELSE @]
  /\ beat' = [beat EXCEPT ![c] = IF p.full THEN 0 ELSE @ + 1]
  /\ UNCHANGED <<online, reading, session, browser>>

----------------------------------------------------------------------------
(* The session: it subscribes, asks for the cameras, then for the peers.   *)
Join ==
  /\ session = "off" /\ session' = "subscribed"
  /\ UNCHANGED <<camera, channel, browser, losses, steady>>

ListCameras ==
  /\ session = "subscribed" /\ session' = "listed" /\ known' = online
  /\ UNCHANGED <<camera, channel, knownPeers, view, ready, losses, steady>>

ListPeers ==
  /\ session = "listed" /\ session' = "on" /\ knownPeers' = online
  /\ UNCHANGED <<camera, channel, known, view, ready, losses, steady>>

Leave ==
  /\ session # "off" /\ session' = "off"
  /\ queue' = <<>> /\ lagged' = FALSE /\ known' = {} /\ knownPeers' = {}
  /\ view' = [c \in Cameras |-> NoView] /\ ready' = [c \in Cameras |-> FALSE]
  /\ steady' = [c \in Cameras |-> 0]
  /\ UNCHANGED <<camera, losses>>

Merge(state, values) ==
  [f \in Fields |-> IF f \in DOMAIN values THEN values[f] ELSE state[f]]

\* Mutant: frames do not list their camera.
DoNotList(c) == known

List(c) == known \cup {c}

Receive ==
  /\ session = "on" /\ ~lagged /\ queue # <<>> /\ queue' = Tail(queue)
  /\ LET c == Head(queue).camera  p == Head(queue).payload IN
       /\ known' = List(c)
       /\ view' = [view EXCEPT ![c] = Merge(@, p.values)]
       /\ ready' = [ready EXCEPT ![c] = @ \/ p.full \/ Core \subseteq DOMAIN p.values]
  /\ UNCHANGED <<camera, session, lagged, knownPeers, losses, steady>>

SessionLagged ==
  /\ session = "on" /\ lagged /\ lagged' = FALSE
  /\ UNCHANGED <<camera, session, queue, browser, losses, steady>>

(* Every five seconds: a camera that left the table is taken off the list. *)
Tick ==
  /\ session = "on"
  /\ known' = known \ (knownPeers \ online) /\ knownPeers' = online
  /\ UNCHANGED <<camera, session, channel, view, ready, losses, steady>>

----------------------------------------------------------------------------
ViewNext ==
  \/ \E c \in Cameras : \/ Arrive(c) \/ Depart(c) \/ Sample(c)
                        \/ \E f \in Fields : Change(c, f)
  \/ Join \/ ListCameras \/ ListPeers \/ Leave
  \/ Receive \/ SessionLagged \/ Tick

(* The timers of the camera and of the session fire, and the tasks run.    *)
ViewFairness ==
  /\ \A c \in Cameras : WF_viewVars(Sample(c))
  /\ WF_viewVars(ListCameras) /\ WF_viewVars(ListPeers)
  /\ WF_viewVars(Receive) /\ WF_viewVars(SessionLagged) /\ WF_viewVars(Tick)

ViewSpec == ViewInit /\ [][ViewNext]_viewVars /\ ViewFairness

----------------------------------------------------------------------------
Matches(c) == \A f \in Fields : reading[c][f] # Absent => view[c][f] = reading[c][f]

(* However many payloads were lost before, and however a reading crept up  *)
(* below its threshold: after a heartbeat's time without a change and      *)
(* without a loss the browser shows what the sensors say.                  *)
SteadyIsShown ==
  \A c \in Cameras :
    /\ session = "on" /\ steady[c] = Heartbeat
    /\ \A i \in DOMAIN queue : queue[i].camera # c
    => ready[c] /\ Matches(c)

(* In every state, over state of the right types (telemetry.rs:189).       *)
BrowserInStep == ViewTypeOK /\ SteadyIsShown

(* A camera that stays is on the list of a session that stays, whenever    *)
(* the two came and whatever the session took off its list before.         *)
ListFollowsCamera ==
  \A c \in Cameras : <>[](session = "on" /\ c \in online) => <>[](c \in known)

=============================================================================
