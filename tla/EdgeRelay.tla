------------------------------- MODULE EdgeRelay -------------------------------
(***************************************************************************)
(* The relay mode of the firmware, apps/kodama-firmware/src/relay.rs: a    *)
(* process without limits, table or storage that takes the frames of       *)
(* cameras and sends them to clients and, if one is configured, to one     *)
(* upstream server.                                                        *)
(*                                                                         *)
(* Whether a peer is a camera is found out by waiting: one that opens a    *)
(* stream in time is, any other is a client.  The ring is that of          *)
(* FrameRelay: all frames sent, of which the last RingCapacity remain.     *)
(***************************************************************************)
EXTENDS FiniteSets, SequencesExt

CONSTANTS
  Peers,          \* connections to the relay
  Upstream,       \* the task that forwards to the upstream server
  RingCapacity,   \* buffer_capacity
  MaxFrames       \* bound: frames all cameras send

Subscribers == Peers \cup {Upstream}

VARIABLES
  stage,      \* per peer, and for the upstream task, where its task is
  ring,       \* all frames sent into the ring: their camera and place
  cursor,     \* per subscriber, the position in the ring it takes next
  stats,      \* RelayStats
  joined,     \* per subscriber, how many were sent when it subscribed (history)
  out,        \* per subscriber, the frames it was sent (history)
  missed      \* per subscriber, how many it was told it missed (history)

subscriptions == <<cursor, joined>>
vars == <<stage, ring, subscriptions, stats, out, missed>>

\* Between subscribing to the ring and the end of its task.
Subscribed(s) ==
  \/ stage[s] \in {"receiving", "sending"}
  \/ s = Upstream /\ stage[s] = "connecting"

\* The upstream task subscribes before it connects, and before the first peer
\* is accepted.
Init ==
  /\ \E configured \in BOOLEAN :
       stage = [s \in Subscribers |->
                  IF s # Upstream THEN "new"
                  ELSE IF configured THEN "connecting" ELSE "gone"]
  /\ ring = <<>>
  /\ cursor = [s \in Subscribers |-> 1]
  /\ stats = [cameras |-> 0, clients |-> 0, frames_forwarded |-> 0]
  /\ joined = [s \in Subscribers |-> 0]
  /\ out = [s \in Subscribers |-> <<>>]
  /\ missed = [s \in Subscribers |-> 0]

Goto(s, from, to) ==
  /\ stage[s] \in from
  /\ stage' = [stage EXCEPT ![s] = to]

Count(gauge, n) == stats' = [stats EXCEPT ![gauge] = @ + n]

-------------------------------------------------------------------------------
(* Peers.                                                                  *)

Accept(p) ==
  /\ Goto(p, {"new"}, "detecting")
  /\ UNCHANGED <<ring, subscriptions, stats, out, missed>>

\* The peer opens a stream before the timeout.
DetectCamera(p) ==
  /\ Goto(p, {"detecting"}, "camera")
  /\ Count("cameras", 1)
  /\ UNCHANGED <<ring, subscriptions, out, missed>>

AcceptStreamFails(p) ==
  /\ Goto(p, {"detecting"}, "gone")
  /\ UNCHANGED <<ring, subscriptions, stats, out, missed>>

\* The timeout, also for a camera that is late.
DetectClient(p) ==
  /\ Goto(p, {"detecting"}, "opening")
  /\ Count("clients", 1)
  /\ UNCHANGED <<ring, subscriptions, out, missed>>

\* A frame is counted, and then sent; meanwhile the handlers of other cameras run.
ReceiveFrame(p) ==
  /\ stats.frames_forwarded < MaxFrames
  /\ Goto(p, {"camera"}, "forwarding")
  /\ Count("frames_forwarded", 1)
  /\ UNCHANGED <<ring, subscriptions, out, missed>>

\* The ring takes it only if there is a subscriber.
ForwardFrame(p) ==
  /\ Goto(p, {"forwarding"}, "camera")
  /\ ring' = IF \E s \in Subscribers : Subscribed(s)
             THEN Append(ring, [camera |-> p, place |-> Len(ring) + 1])
             ELSE ring
  /\ UNCHANGED <<subscriptions, stats, out, missed>>

CameraLeaves(p) ==
  /\ Goto(p, {"camera"}, "gone")
  /\ Count("cameras", -1)
  /\ UNCHANGED <<ring, subscriptions, out, missed>>

OpenStreamFails(p) ==
  /\ Goto(p, {"opening"}, "gone")
  /\ Count("clients", -1)
  /\ UNCHANGED <<ring, subscriptions, out, missed>>

\* Frames counted and sent.
Sent ==
  stats.frames_forwarded - Cardinality({p \in Peers : stage[p] = "forwarding"})

Subscribe(s) ==
  /\ cursor' = [cursor EXCEPT ![s] = Len(ring) + 1]
  /\ joined' = [joined EXCEPT ![s] = Sent]

\* A client subscribes once its stream is open.
OpenStream(p) ==
  /\ Goto(p, {"opening"}, "receiving")
  /\ Subscribe(p)
  /\ UNCHANGED <<ring, stats, out, missed>>

-------------------------------------------------------------------------------
(* The upstream task: it connects once and ends with its first error.      *)

\* Mutant: what came while it connected is skipped.
ConnectFresh ==
  /\ Goto(Upstream, {"connecting"}, "receiving")
  /\ cursor' = [cursor EXCEPT ![Upstream] = Len(ring) + 1]
  /\ UNCHANGED <<ring, joined, stats, out, missed>>

Connect ==
  /\ Goto(Upstream, {"connecting"}, "receiving")
  /\ UNCHANGED <<ring, subscriptions, stats, out, missed>>

ConnectFails ==
  /\ Goto(Upstream, {"connecting"}, "gone")
  /\ UNCHANGED <<ring, subscriptions, stats, out, missed>>

-------------------------------------------------------------------------------
(* The loop of a client's handler and of the upstream task.                *)

\* The first position the ring still has.
Oldest == IF Len(ring) > RingCapacity THEN Len(ring) - RingCapacity + 1 ELSE 1

Take(s) ==
  /\ cursor[s] \in Oldest .. Len(ring)
  /\ Goto(s, {"receiving"}, "sending")
  /\ cursor' = [cursor EXCEPT ![s] = @ + 1]
  /\ UNCHANGED <<ring, joined, stats, out, missed>>

Lag(s) ==
  /\ stage[s] = "receiving" /\ cursor[s] < Oldest
  /\ missed' = [missed EXCEPT ![s] = @ + (Oldest - cursor[s])]
  /\ cursor' = [cursor EXCEPT ![s] = Oldest]
  /\ UNCHANGED <<stage, ring, joined, stats, out>>

Send(s) ==
  /\ Goto(s, {"sending"}, "receiving")
  /\ out' = [out EXCEPT ![s] = Append(@, ring[cursor[s] - 1])]
  /\ UNCHANGED <<ring, subscriptions, stats, missed>>

SendFails(s) ==
  /\ Goto(s, {"sending"}, "gone")
  /\ IF s = Upstream THEN UNCHANGED stats ELSE Count("clients", -1)
  /\ UNCHANGED <<ring, subscriptions, out, missed>>

Next ==
  \/ \E p \in Peers :
       \/ Accept(p) \/ DetectCamera(p) \/ AcceptStreamFails(p) \/ DetectClient(p)
       \/ ReceiveFrame(p) \/ ForwardFrame(p) \/ CameraLeaves(p)
       \/ OpenStream(p) \/ OpenStreamFails(p)
  \/ Connect \/ ConnectFails
  \/ \E s \in Subscribers : Take(s) \/ Lag(s) \/ Send(s) \/ SendFails(s)

\* The tasks run, and a send ends: a dead connection fails it in time.
Fairness ==
  \A s \in Subscribers :
    WF_vars(Take(s) \/ Lag(s)) /\ WF_vars(Send(s) \/ SendFails(s))

Spec == Init /\ [][Next]_vars /\ Fairness

-------------------------------------------------------------------------------
(* Properties.                                                             *)

Stages == {"new", "detecting", "camera", "forwarding", "connecting", "opening", "receiving",
           "sending", "gone"}

TypeOK ==
  /\ stage \in [Subscribers -> Stages]
  /\ ring \in Seq([camera : Peers, place : 1 .. MaxFrames])
  /\ \A s \in Subscribers : cursor[s] \in 1 .. Len(ring) + 1

\* The gauges count the handlers that run, whichever way one of them ended
\* (relay.rs:165, 182, 192, 217).
RelayGaugesExact ==
  /\ stats.cameras =
       Cardinality({p \in Peers : stage[p] \in {"camera", "forwarding"}})
  /\ stats.clients =
       Cardinality({p \in Peers : stage[p] \in {"opening", "receiving", "sending"}})

\* Each frame a camera sent since the subscription was sent on, is on its way or
\* was reported missed; for the upstream server that is each frame since the
\* relay started, those that came while it still connected included
\* (relay.rs:66-91, 194-210).
NothingLostUnreported ==
  \A s \in Subscribers : Subscribed(s) =>
    Sent - joined[s] =
      Len(out[s]) + missed[s] + (Len(ring) + 1 - cursor[s])
        + (IF stage[s] = "sending" THEN 1 ELSE 0)

\* A client and the upstream server get frames in the order of the ring, each at
\* most once, however far they fall behind (relay.rs:78-91, 197-210).
SentInOrder ==
  \A s \in Subscribers : \A i \in 1 .. Len(out[s]) - 1 :
    out[s][i].place < out[s][i + 1].place

\* A subscriber that stays gets to the end of what is sent: a lag does not keep
\* it from going on (relay.rs:79-90, 198-209).
SubscribersCatchUp ==
  \A s \in Subscribers :
    <>[](stage[s] = "receiving" => cursor[s] = Len(ring) + 1)
===============================================================================
