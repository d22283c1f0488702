----------------------------- MODULE Backpressure -----------------------------
(***************************************************************************)
(* BackpressureSender of crates/kodama/src/transport/mux/muxer.rs: a       *)
(* bounded channel to a receiver on another task, with a FrameBuffer in    *)
(* front of it for what the channel does not take.                         *)
(*                                                                         *)
(* send() first flushes the buffer and then tries to send the new frame;   *)
(* the receiver can take a frame, or go away, between any two attempts.    *)
(***************************************************************************)
EXTENDS FrameBuffer

CONSTANTS
  Capacities,       \* the buffer's capacity is one of these
  ChannelCapacity,  \* slots of the mpsc channel
  MaxFrames         \* bound: how many frames the caller sends

ASSUME CapacitiesAssumption ==
  Capacities \subseteq Nat /\ ChannelCapacity \in Nat \ {0} /\ MaxFrames \in Nat

VARIABLES
  pc,         \* "idle", in send() "flushing" or "sending"; "failed" after Err
  frame,      \* the frame send() was called with
  buffer,     \* the FrameBuffer
  channel,    \* frames in the channel
  open,       \* whether the receiver still exists
  delivered,  \* frames the receiver has taken
  offered     \* frames send() was called with so far

senderVars == <<pc, frame, buffer, channel, open, delivered, offered>>

SenderInit ==
  /\ pc = "idle"
  /\ frame = [n |-> 0, key |-> FALSE]
  /\ \E capacity \in Capacities : buffer = EmptyBuffer(capacity)
  /\ channel = <<>>
  /\ open = TRUE
  /\ delivered = <<>>
  /\ offered = 0

HasRoom == Len(channel) < ChannelCapacity

\* send() is called.
Offer(isKey) ==
  /\ pc = "idle" /\ offered < MaxFrames
  /\ offered' = offered + 1
  /\ frame' = [n |-> offered', key |-> isKey]
  /\ pc' = "flushing"
  /\ UNCHANGED <<buffer, channel, open, delivered>>

\* flush_buffer: the oldest buffered frame goes into the channel.
FlushOne ==
  /\ pc = "flushing" /\ buffer.frames # <<>> /\ open /\ HasRoom
  /\ channel' = Append(channel, Head(buffer.frames))
  /\ buffer' = Pop(buffer)
  /\ UNCHANGED <<pc, frame, open, delivered, offered>>

\* Mutant: the frame that did not fit is forgotten.
PutBackNothing(b, f) == b

\* A frame that did not fit is pushed like a new one: at the end, behind younger
\* frames, and counted as received once more.
PutBack(b, f) == Push(b, f)

\* flush_buffer: the channel is full.
FlushBlocked ==
  /\ pc = "flushing" /\ buffer.frames # <<>> /\ open /\ ~HasRoom
  /\ buffer' = PutBack(Pop(buffer), Head(buffer.frames))
  /\ pc' = "sending"
  /\ UNCHANGED <<frame, channel, open, delivered, offered>>

FlushDone ==
  /\ pc = "flushing" /\ buffer.frames = <<>>
  /\ pc' = "sending"
  /\ UNCHANGED <<frame, buffer, channel, open, delivered, offered>>

\* The channel is closed: the error takes the popped frame with it.
FlushFails ==
  /\ pc = "flushing" /\ buffer.frames # <<>> /\ ~open
  /\ buffer' = Pop(buffer)
  /\ pc' = "failed"
  /\ UNCHANGED <<frame, channel, open, delivered, offered>>

SendDirect ==
  /\ pc = "sending" /\ open /\ HasRoom
  /\ channel' = Append(channel, frame)
  /\ pc' = "idle"
  /\ UNCHANGED <<frame, buffer, open, delivered, offered>>

BufferFrame ==
  /\ pc = "sending" /\ open /\ ~HasRoom
  /\ buffer' = Push(buffer, frame)
  /\ pc' = "idle"
  /\ UNCHANGED <<frame, channel, open, delivered, offered>>

SendFails ==
  /\ pc = "sending" /\ ~open
  /\ pc' = "failed"
  /\ UNCHANGED <<frame, buffer, channel, open, delivered, offered>>

Receive ==
  /\ open /\ channel # <<>>
  /\ delivered' = Append(delivered, Head(channel))
  /\ channel' = Tail(channel)
  /\ UNCHANGED <<pc, frame, buffer, open, offered>>

CloseReceiver ==
  /\ open
  /\ open' = FALSE
  /\ UNCHANGED <<pc, frame, buffer, channel, delivered, offered>>

SenderNext ==
  \/ \E isKey \in BOOLEAN : Offer(isKey)
  \/ FlushOne \/ FlushBlocked \/ FlushDone \/ FlushFails
  \/ SendDirect \/ BufferFrame \/ SendFails
  \/ Receive \/ CloseReceiver

SenderSpec == SenderInit /\ [][SenderNext]_senderVars

-------------------------------------------------------------------------------
(* Properties.                                                             *)

SenderTypeOK ==
  /\ pc \in {"idle", "flushing", "sending", "failed"}
  /\ frame \in Frame
  /\ buffer.frames \in Seq(Frame)
  /\ buffer.last_keyframe_idx \in 0 .. Len(buffer.frames)
  /\ \A s \in {buffer.frames_received, buffer.frames_dropped,
               buffer.keyframes_received, buffer.keyframes_dropped} : s \in Nat
  /\ channel \in Seq(Frame) /\ Len(channel) <= ChannelCapacity
  /\ open \in BOOLEAN
  /\ delivered \in Seq(Frame)
  /\ offered \in 0 .. MaxFrames

\* Frames that were sent and are not dropped, wherever they are now.
Kept == Range(delivered) \cup Range(channel) \cup Range(buffer.frames)

\* No frame is lost or duplicated without being counted: what is not delivered,
\* in the channel or in the buffer was counted as dropped, across any mix of
\* flushes, put-backs and evictions (muxer.rs:217-248).
EveryFrameAccounted ==
  pc = "idle" =>
    /\ offered = Cardinality(Kept) + buffer.frames_dropped
    /\ Cardinality(Kept) =
         Len(delivered) + Len(channel) + Len(buffer.frames)

\* The keyframe sent last is still on its way (muxer.rs:5 "Always keeps the most
\* recent keyframe"), even after put-backs have reordered the buffer: only a
\* newer keyframe can push one out.
LatestKeyframeKept ==
  [][\A f \in Kept :
       (f.key /\ f \notin Kept' /\ pc' # "failed") =>
         (frame.key /\ frame.n > f.n)]_senderVars

\* A keyframe is only dropped from a buffer that holds nothing else
\* (muxer.rs:4 "Drops non-keyframes first").
KeyframesGoLast ==
  [][buffer'.keyframes_dropped > buffer.keyframes_dropped =>
       \A i \in DOMAIN buffer.frames : buffer.frames[i].key]_senderVars

\* The recorded index is that of the last keyframe in the buffer, after any
\* sequence of pushes, evictions, pops and put-backs (muxer.rs:65-189).
KeyframeIndexExact ==
  buffer.last_keyframe_idx =
    SelectLastInSeq(buffer.frames, LAMBDA f : f.key)

\* The buffer stays within its capacity; only a buffer of capacity 0 holds one
\* frame more, a keyframe (muxer.rs:73, 92-97).
BufferBounded ==
  \/ Len(buffer.frames) <= buffer.capacity
  \/ buffer.capacity = 0 /\ Len(buffer.frames) = 1 /\ buffer.frames[1].key

\* No frame is lost or kept twice unaccounted, within the capacity
\* (muxer.rs:65-248).
BufferExact ==
  SenderTypeOK /\ EveryFrameAccounted /\ KeyframeIndexExact /\ BufferBounded

\* The newest keyframe stays, and no keyframe goes before another frame
\* (muxer.rs:4-5, 82-102).
KeyframesKept == LatestKeyframeKept /\ KeyframesGoLast
===============================================================================
