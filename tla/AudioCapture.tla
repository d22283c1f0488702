------------------------------ MODULE AudioCapture ------------------------------
(***************************************************************************)
(* The audio capture of crates/kodama/src/capture/audio.rs: the device's   *)
(* callback hands over whatever number of samples the device has, through  *)
(* an unbounded channel, and a thread makes packets of a fixed number of   *)
(* samples at the target rate, for a receiver of bounded capacity.         *)
(*                                                                         *)
(* A sample is the batch it came in and its place in the batch; averaging  *)
(* the channels and interpolating give a sample the place it starts from.  *)
(***************************************************************************)
EXTENDS Integers, SequencesExt, FiniteSetsExt

CONSTANTS
  SourceRates, TargetRate,   \* samples a second, of the device and of packets
  BatchSizes,                \* samples of a callback, per channel
  TargetSamples,             \* of a packet
  PacketCapacity,            \* of the channel of packets: 32 in the code
  MaxBatches                 \* bound: callbacks

ASSUME AudioAssumption ==
  /\ SourceRates \subseteq Nat \ {0} /\ TargetRate \in Nat \ {0}
  /\ BatchSizes \subseteq Nat
  /\ TargetSamples \in Nat \ {0}
  /\ PacketCapacity \in Nat \ {0}

VARIABLES
  source_rate,   \* of the device
  batches,       \* sizes of all batches the callback sent
  processed,     \* how many of them the thread has received
  accumulator,   \* samples that make no packet yet
  thread,        \* "receiving", "sending" or "ended"
  packets,       \* all packets sent
  taken,         \* how many of them the receiver has taken
  listening      \* whether the receiver exists

audioVars == <<source_rate, batches, processed, accumulator, thread, packets,
               taken, listening>>

AudioInit ==
  /\ source_rate \in SourceRates
  /\ batches = <<>> /\ processed = 0
  /\ accumulator = <<>>
  /\ thread = "receiving"
  /\ packets = <<>> /\ taken = 0
  /\ listening = TRUE

\* output_len: n / ratio, rounded up.
OutputLen(n) == (n * TargetRate + source_rate - 1) \div source_rate

\* resample, of batch b with n samples.
Resample(b, n) ==
  [j \in 1 .. OutputLen(n) |->
     [batch |-> b, place |-> ((j - 1) * source_rate) \div TargetRate]]

\* The callback; it ends with the thread, which owns the stream.
Callback(n) ==
  /\ thread # "ended" /\ Len(batches) < MaxBatches
  /\ batches' = Append(batches, n)
  /\ UNCHANGED <<source_rate, processed, accumulator, thread, packets, taken, listening>>

\* Mutant: what made no packet is not kept for the next batch.
LoseRemainder(samples) == <<>>

Remainder(samples) == samples

\* The thread receives a batch.
Process ==
  /\ thread = "receiving" /\ processed < Len(batches)
  /\ processed' = processed + 1
  /\ accumulator' = Remainder(accumulator) \o Resample(processed', batches[processed'])
  /\ thread' = IF Len(accumulator') >= TargetSamples THEN "sending" ELSE "receiving"
  /\ UNCHANGED <<source_rate, batches, packets, taken, listening>>

\* blocking_send of the next packet, once the channel has room for it; the
\* thread goes on as long as there are samples for one more.
SendPacket ==
  /\ thread = "sending" /\ listening /\ Len(packets) - taken < PacketCapacity
  /\ packets' = Append(packets, SubSeq(accumulator, 1, TargetSamples))
  /\ accumulator' = SubSeq(accumulator, TargetSamples + 1, Len(accumulator))
  /\ thread' = IF Len(accumulator') >= TargetSamples THEN "sending" ELSE "receiving"
  /\ UNCHANGED <<source_rate, batches, processed, taken, listening>>

\* The receiver is gone: the thread ends, and the stream with it.
PacketFails ==
  /\ thread = "sending" /\ ~listening
  /\ thread' = "ended"
  /\ UNCHANGED <<source_rate, batches, processed, accumulator, packets, taken, listening>>

TakePacket ==
  /\ listening /\ taken < Len(packets)
  /\ taken' = taken + 1
  /\ UNCHANGED <<source_rate, batches, processed, accumulator, thread, packets, listening>>

DropReceiver ==
  /\ listening
  /\ listening' = FALSE
  /\ UNCHANGED <<source_rate, batches, processed, accumulator, thread, packets, taken>>

AudioNext ==
  \/ \E n \in BatchSizes : Callback(n)
  \/ Process \/ SendPacket \/ PacketFails
  \/ TakePacket \/ DropReceiver

\* The thread runs.
AudioFairness == WF_audioVars(Process \/ SendPacket \/ PacketFails)

AudioSpec == AudioInit /\ [][AudioNext]_audioVars /\ AudioFairness

-------------------------------------------------------------------------------
(* Properties.                                                             *)

AudioTypeOK ==
  /\ processed \in 0 .. Len(batches)
  /\ thread \in {"receiving", "sending", "ended"}
  /\ Len(packets) - taken \in 0 .. PacketCapacity
  /\ listening \in BOOLEAN

\* What left the thread and what it still holds is each batch, resampled, once
\* and in the order of the callbacks, however batches and packets overlap and
\* however long the receiver made the thread wait; every packet is a full one
\* (audio.rs:194-231).
PacketsAreTheAudio ==
  /\ FlattenSeq(packets) \o accumulator =
       FlattenSeq([b \in 1 .. processed |-> Resample(b, batches[b])])
  /\ \A i \in DOMAIN packets : Len(packets[i]) = TargetSamples

\* Resampling batch by batch never yields less time than was recorded, and less
\* than a sample more per batch (audio.rs:254-268).
AudioNotShorter ==
  LET recorded == SumFunctionOnSet(batches, 1 .. processed)
      yielded == Len(FlattenSeq(packets)) + Len(accumulator)
      surplus == yielded * source_rate - recorded * TargetRate
  IN 0 <= surplus /\ surplus <= processed * (source_rate - 1)

\* The packets are the recorded audio.
AudioExact == AudioTypeOK /\ PacketsAreTheAudio /\ AudioNotShorter

\* With its receiver gone, the thread ends at the next packet it makes
\* (audio.rs:219-222).
DropEndsThread ==
  (~listening /\ SumFunction([b \in DOMAIN batches |-> OutputLen(batches[b])])
                   >= (Len(packets) + 1) * TargetSamples)
    ~> thread = "ended"
===============================================================================
