----------------------------- MODULE MCMediaParts -----------------------------
(* The parts that a stream of media passes through on its way and that share no
   state with one another: the sender with its buffer, the demuxer, the parser of
   the encoder's bytes, the relay mode of the firmware and the audio capture.
   Each is checked by itself: a behaviour is one of the part that it starts with,
   and the others stay as they are initially. *)
EXTENDS Backpressure, Demuxer, NalStream, RelayMode, AudioCapture

\* An IDR slice of which only the header is there, a P slice with zeros and what
\* would be a header of an IDR slice in it, and another.
MCNals == {<<101>>, <<65, 0, 101>>, <<1, 7>>}

VARIABLE part

\* A part that does not run is in one of its initial states.
PartsInit ==
  /\ part \in {"sender", "demuxer", "parser", "relay", "audio"}
  /\ SenderInit /\ (part # "sender" => buffer.capacity = 0)
  /\ DemuxInit
  /\ ParserInit
  /\ part # "parser" => \A i \in DOMAIN units : units[i] = [code |-> 3, nal |-> <<101>>]
  /\ Edge!Init /\ (part # "relay" => stage[Upstream] = "gone")
  /\ AudioInit /\ (part # "audio" => source_rate = TargetRate)

PartsNext ==
  /\ UNCHANGED part
  /\ \/ /\ part = "sender" /\ SenderNext
        /\ UNCHANGED <<demuxerVars, parserVars, relayVars, audioVars>>
     \/ /\ part = "demuxer" /\ DemuxNext
        /\ UNCHANGED <<senderVars, parserVars, relayVars, audioVars>>
     \/ /\ part = "parser" /\ ParserNext
        /\ UNCHANGED <<senderVars, demuxerVars, relayVars, audioVars>>
     \/ /\ part = "relay" /\ Edge!Next
        /\ UNCHANGED <<senderVars, demuxerVars, parserVars, audioVars>>
     \/ /\ part = "audio" /\ AudioNext
        /\ UNCHANGED <<senderVars, demuxerVars, parserVars, relayVars>>

PartsSpec ==
  /\ PartsInit
  /\ [][PartsNext]_<<part, senderVars, demuxerVars, parserVars, relayVars, audioVars>>
  /\ DemuxFairness /\ Edge!Fairness /\ AudioFairness

-------------------------------------------------------------------------------
(* What each part promises of every state is a property of its own module: *)
(* BufferExact and KeyframesKept of Backpressure, SubscribersExact of      *)
(* Demuxer, NalsExact and KeyframesMarked of NalStream, RelayExact of      *)
(* RelayMode, AudioExact of AudioCapture.                                  *)

\* Demuxer, EdgeRelay and AudioCapture: calls return, who lags catches up, and
\* dropping the receiver ends the thread (demuxer.rs:58-84, relay.rs:79-90,
\* audio.rs:219-222).
PartsProgress == RouteReturns /\ Edge!SubscribersCatchUp /\ DropEndsThread
===============================================================================
