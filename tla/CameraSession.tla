--------------------------- MODULE CameraSession ---------------------------
(***************************************************************************)
(* The reconnection loop of the camera (camera.rs, run_async from the      *)
(* combined channel on) and the network monitor that interrupts it.        *)
(*                                                                         *)
(* The capture tasks push into one bounded channel all the time.  The loop *)
(* waits for a default route, connects, and sends what it receives until   *)
(* the send fails, takes longer than five seconds, or the monitor signals  *)
(* another interface.  The command task of a session is FirmwareUpdate's.  *)
(*                                                                         *)
(* Time is abstract: a timer is a step that may be taken once the code     *)
(* waits for it.  The channel of 128 has the capacity Cap, and a dead link *)
(* swallows up to Window frames before a send blocks on it.                *)
(***************************************************************************)
EXTENDS Naturals, FiniteSets

CONSTANTS Ifaces,     \* the real network interfaces
          NoRoute,    \* no default route in /proc/net/route
          Cap,        \* capacity of the combined channel
          Window,     \* frames a connection buffers without an acknowledgement
          MaxRoutes,  \* bound: changes of the default route
          MaxFaults   \* bound: failures with the route in place

ASSUME CameraAssumption ==
  /\ NoRoute \notin Ifaces
  /\ {Cap, Window, MaxRoutes, MaxFaults} \subseteq Nat
  /\ Cap > 0

VARIABLES
  route, routes, faults,        \* the network, and what went wrong so far
  lastSignaled, monitor, gen,   \* network_monitor and its watch channel
  pc, seen,                     \* the loop: where it is, its receiver's version
  queued,                       \* messages in the combined channel
  iface, up, unacked,           \* the connection of this session
  torn,                         \* its stream ends in half a frame
  calm                          \* history: no route change is under way that
                                \* the session was not opened after

network == <<route, routes, faults>>
signal  == <<lastSignaled, monitor, gen>>
loop    == <<pc, seen>>
link    == <<iface, up, unacked>>
sessionVars == <<network, signal, loop, queued, link, torn, calm>>

Routes    == Ifaces \cup {NoRoute}
Streaming == pc \in {"recv", "send"}

SessionTypeOK ==
  /\ route \in Routes /\ routes \in 0 .. MaxRoutes /\ faults \in 0 .. MaxFaults
  /\ lastSignaled \in Routes /\ monitor \in {"start", "poll", "debounce"}
  /\ gen \in 0 .. MaxRoutes + 1 /\ seen \in 0 .. gen
  /\ pc \in {"top", "waitroute", "online", "connect", "open", "recv", "send",
             "backoff", "pause"}
  /\ queued \in 0 .. Cap /\ torn \in BOOLEAN /\ calm \in BOOLEAN
  /\ iface \in Routes /\ up \in BOOLEAN /\ unacked \in 0 .. Window

(* What is left of a connection once the loop has dropped its handles.     *)
NoConnection == /\ iface' = NoRoute /\ up' = FALSE /\ unacked' = 0
                /\ torn' = FALSE

SessionInit ==
  /\ route \in Routes /\ routes = 0 /\ faults = 0
  /\ lastSignaled = NoRoute /\ monitor = "start" /\ gen = 0
  /\ pc = "top" /\ seen = 0 /\ queued = 0
  /\ iface = NoRoute /\ up = FALSE /\ unacked = 0
  /\ torn = FALSE /\ calm = FALSE

----------------------------------------------------------------------------
(* The environment: routes come and go, links die, captures produce.       *)

RouteChanges ==
  /\ routes < MaxRoutes
  /\ route' \in Routes \ {route}
  /\ routes' = routes + 1 /\ calm' = FALSE
  /\ UNCHANGED <<faults, signal, loop, queued, link, torn>>

(* A connection may outlive the route it was made over, or not.            *)
LinkDies ==
  /\ up
  /\ \/ iface # route /\ faults' = faults
     \/ iface = route /\ faults < MaxFaults /\ faults' = faults + 1
  /\ up' = FALSE
  /\ UNCHANGED <<route, routes, signal, loop, queued, iface, unacked, torn,
                 calm>>

Acknowledge ==
  /\ up /\ unacked > 0
  /\ unacked' = 0
  /\ UNCHANGED <<network, signal, loop, queued, iface, up, torn,
                 calm>>

(* A forwarding task gets its message into the combined channel; it waits  *)
(* while the channel is full.                                              *)
HasRoom == queued < Cap

Capture ==
  /\ HasRoom
  /\ queued' = queued + 1
  /\ UNCHANGED <<network, signal, loop, link, torn, calm>>

----------------------------------------------------------------------------
(* network_monitor.                                                        *)

MonitorStarts ==
  /\ monitor = "start"
  /\ lastSignaled' = route /\ monitor' = "poll"
  /\ UNCHANGED <<network, gen, loop, queued, link, torn, calm>>

AnotherInterface == route \notin {lastSignaled, NoRoute}

MonitorPolls ==
  /\ monitor = "poll" /\ AnotherInterface
  /\ monitor' = "debounce"
  /\ UNCHANGED <<network, lastSignaled, gen, loop, queued, link, torn, calm>>

PollAgain == monitor' = "poll"

MonitorSettles ==
  /\ monitor = "debounce"
  /\ PollAgain
  /\ IF AnotherInterface
     THEN lastSignaled' = route /\ gen' = gen + 1
     ELSE UNCHANGED <<lastSignaled, gen>>
  /\ UNCHANGED <<network, loop, queued, link, torn, calm>>

----------------------------------------------------------------------------
(* The reconnection loop.                                                  *)

Attempt ==
  /\ pc = "top"
  /\ pc' = IF route = NoRoute THEN "waitroute" ELSE "online"
  /\ UNCHANGED <<network, signal, seen, queued, link, torn, calm>>

\* Mutant: the channel is left as it is.
DrainNothing == UNCHANGED queued

Drain == queued' = 0

(* One round of the 500 ms wait: the channel is drained while there is     *)
(* still no route.                                                         *)
WaitForRoute ==
  /\ pc = "waitroute"
  /\ IF route = NoRoute
     THEN queued > 0 /\ Drain /\ pc' = pc
     ELSE pc' = "online" /\ queued' = queued
  /\ UNCHANGED <<network, signal, seen, link, torn, calm>>

(* network_change, then online() or its timeout of 10 s.                   *)
GoOnline ==
  /\ pc = "online"
  /\ pc' = "connect"
  /\ UNCHANGED <<network, signal, seen, queued, link, torn, calm>>

ConnectOk ==
  /\ pc = "connect" /\ route # NoRoute
  /\ iface' = route /\ up' = TRUE
  /\ pc' = "open"
  /\ UNCHANGED <<network, signal, seen, queued, unacked, torn, calm>>

ConnectFails ==
  /\ pc = "connect"
  /\ \/ route = NoRoute /\ faults' = faults
     \/ route # NoRoute /\ faults < MaxFaults /\ faults' = faults + 1
  /\ pc' = "backoff"
  /\ UNCHANGED <<route, routes, signal, seen, queued, link, torn, calm>>

OpenStreamFails ==
  /\ pc = "open" /\ ~up
  /\ NoConnection
  /\ pc' = "backoff"
  /\ UNCHANGED <<network, signal, seen, queued, calm>>

\* Mutant: the version seen by the session before is kept.
MarkNothing == seen' = seen

MarkSeen == seen' = gen

(* The session starts: what the monitor signalled so far is marked as seen.*)
OpenStream ==
  /\ pc = "open"
  /\ MarkSeen
  /\ calm' = (monitor = "poll" /\ ~AnotherInterface)
  /\ pc' = "recv"
  /\ UNCHANGED <<network, signal, queued, link, torn>>

Receive ==
  /\ pc = "recv" /\ queued > 0
  /\ queued' = queued - 1 /\ pc' = "send"
  /\ UNCHANGED <<network, signal, seen, link, torn, calm>>

(* write_frame returns: the connection took the whole frame.               *)
SendOk ==
  /\ pc = "send"
  /\ up \/ unacked < Window
  /\ unacked' = IF unacked < Window THEN unacked + 1 ELSE unacked
  /\ pc' = "recv"
  /\ UNCHANGED <<network, signal, seen, queued, iface, up, torn,
                 calm>>

\* Mutant: the loop logs the failed send and goes on.
KeepSession == pc' = "recv"

LeaveSession == pc' = "pause"

(* The other branches of the select drop the send future: what it had      *)
(* written of the frame stays in the stream.                               *)
SendCancelled == torn' \in BOOLEAN

SendFails ==
  /\ pc = "send" /\ ~up
  /\ SendCancelled
  /\ LeaveSession
  /\ UNCHANGED <<network, signal, seen, queued, link, calm>>

SendTimesOut ==
  /\ pc = "send"
  /\ \/ ~up /\ faults' = faults
     \/ up /\ faults < MaxFaults /\ faults' = faults + 1
  /\ SendCancelled
  /\ LeaveSession
  /\ UNCHANGED <<route, routes, signal, seen, queued, link, calm>>

(* net_change_rx.changed(), in the wait for a message or during a send.    *)
NetworkChanged ==
  /\ Streaming /\ gen # seen
  /\ seen' = gen
  /\ IF pc = "send" THEN SendCancelled ELSE UNCHANGED torn
  /\ LeaveSession
  /\ UNCHANGED <<network, signal, queued, link, calm>>

(* One second, then the loop starts over without its handles.              *)
Pause ==
  /\ pc = "pause"
  /\ pc' = "top"
  /\ NoConnection
  /\ UNCHANGED <<network, signal, seen, queued, calm>>

(* drain_during_delay: messages are discarded until the deadline.          *)
BackoffDrains ==
  /\ pc = "backoff" /\ queued > 0
  /\ queued' = queued - 1
  /\ UNCHANGED <<network, signal, loop, link, torn, calm>>

BackoffEnds ==
  /\ pc = "backoff"
  /\ pc' = "top"
  /\ UNCHANGED <<network, signal, seen, queued, link, torn, calm>>

----------------------------------------------------------------------------
Monitor == MonitorStarts \/ MonitorPolls \/ MonitorSettles

Loop == \/ Attempt \/ WaitForRoute \/ GoOnline \/ ConnectOk \/ ConnectFails
        \/ OpenStreamFails \/ OpenStream \/ Receive \/ SendOk \/ SendFails
        \/ SendTimesOut \/ NetworkChanged \/ Pause \/ BackoffDrains \/ BackoffEnds

SessionNext == \/ RouteChanges \/ LinkDies \/ Acknowledge \/ Capture \/ Monitor \/ Loop

(* The monitor and the captures run; every wait of the loop is bounded by  *)
(* a timer, and a send on a dead link fails or times out.                  *)
SessionFairness ==
  /\ WF_sessionVars(Monitor) /\ WF_sessionVars(Capture) /\ WF_sessionVars(Acknowledge)
  /\ WF_sessionVars(Attempt) /\ WF_sessionVars(WaitForRoute) /\ WF_sessionVars(GoOnline)
  /\ WF_sessionVars(ConnectOk \/ ConnectFails) /\ WF_sessionVars(OpenStreamFails \/ OpenStream)
  /\ WF_sessionVars(Receive) /\ WF_sessionVars(SendOk \/ SendFails \/ SendTimesOut)
  /\ WF_sessionVars(Pause) /\ WF_sessionVars(BackoffDrains) /\ WF_sessionVars(BackoffEnds)

SessionSpec == SessionInit /\ [][SessionNext]_sessionVars /\ SessionFairness

----------------------------------------------------------------------------
(* A frame whose send was abandoned may be half written, and the receiver  *)
(* would read the next length prefix from the middle of it: that stream is *)
(* never written to again (camera.rs:544-567, write_frame).                *)
TornStreamAbandoned == torn => ~Streaming

(* A session opened after the monitor had caught up with the route is not  *)
(* broken by a signal before the route changes again: what was signalled   *)
(* while the camera was offline is marked as seen (camera.rs:498-499).     *)
StaleSignalIgnored == [][pc' = "pause" /\ seen' # seen => ~calm]_sessionVars

(* In every state, over state of the right types (camera.rs:544-567).      *)
StreamSound == SessionTypeOK /\ TornStreamAbandoned

(* However long the outage was: once the network stays up, the camera      *)
(* streams over a live connection, also when the connection died behind a  *)
(* signal that was already marked as seen (camera.rs:499, 562); the last   *)
(* signal is the route's, whatever it did during the debounce (network_    *)
(* monitor, 944-986); and the captures get on, because the channel they    *)
(* fill is drained in every wait of the loop (381-397, drain_during_delay). *)
CameraRecovers ==
  /\ <>[](route # NoRoute) => <>[](Streaming /\ up /\ route = lastSignaled)
  /\ []<>(queued < Cap)
=============================================================================
