----------------------------- MODULE MCFrameRelay -----------------------------
(* Instances of FrameRelay for TLC.  A second is two ticks, so that frames can
   come at its start and at its end; telemetry has half the limit of video. *)
EXTENDS FrameRelay

CONSTANTS video, telemetry

MCFps == [ch \in Channels |-> IF ch = telemetry THEN 1 ELSE 2]

CameraSymmetry == Permutations(Cameras)

(* Two questions, of which a behaviour explores one: the relay to the client,
   whose handlers do not look at the clock, within an instant and with one
   channel; the limits over time, with both channels of a camera by itself.  *)
RelayInAnInstant ==
  /\ now = 0 /\ FoldFunction(+, 0, received) <= 5
  /\ \A c \in Cameras : limiter[c].windows[telemetry].count = 0

LimitsOverTime ==
  /\ \A d \in Clients : client[d] = "new"
  /\ Cardinality({c \in Cameras : pc[c] # "new"}) <= 1

RelayOrLimits == RelayInAnInstant \/ LimitsOverTime
===============================================================================
