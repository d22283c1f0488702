------------------------------ MODULE FrameBuffer ------------------------------
(***************************************************************************)
(* The buffer with selective dropping of                                   *)
(* crates/kodama/src/transport/mux/muxer.rs, as operators on its value.    *)
(*                                                                         *)
(* A frame is its position in the stream and whether it is a keyframe; the *)
(* buffer is a record of the frames, its capacity, the index of the latest *)
(* keyframe and the statistics.  Indexes count from 1, and NoIndex is the  *)
(* code's None.                                                            *)
(***************************************************************************)
EXTENDS Integers, SequencesExt

Frame == [n : Nat, key : BOOLEAN]

NoIndex == 0

EmptyBuffer(capacity) ==
  [frames |-> <<>>, capacity |-> capacity, last_keyframe_idx |-> NoIndex,
   frames_received |-> 0, frames_dropped |-> 0,
   keyframes_received |-> 0, keyframes_dropped |-> 0]

AsCount(isKey) == IF isKey THEN 1 ELSE 0

\* find_droppable_non_keyframe: the oldest frame that is no keyframe, else 0.
FindDroppable(b) == SelectInSeq(b.frames, LAMBDA f : ~f.key)

\* The latest keyframe's index once the frame at i is gone.
IndexAfter(last, i) ==
  IF i < last THEN last - 1 ELSE IF i = last THEN NoIndex ELSE last

\* drop_at; drop_oldest is DropAt(b, 1).
DropAt(b, i) ==
  [b EXCEPT !.frames = RemoveAt(@, i),
            !.frames_dropped = @ + 1,
            !.keyframes_dropped = @ + AsCount(b.frames[i].key),
            !.last_keyframe_idx = IndexAfter(@, i)]

PushBack(b, f) ==
  [b EXCEPT !.frames = Append(@, f),
            !.last_keyframe_idx = IF f.key THEN Len(b.frames) + 1 ELSE @]

Received(b, f) ==
  [b EXCEPT !.frames_received = @ + 1,
            !.keyframes_received = @ + AsCount(f.key)]

\* Mutant: a full buffer gives up its oldest frame, keyframe or not.
MakeRoomOldest(b, f) == IF b.frames # <<>> THEN DropAt(b, 1) ELSE b

\* What a full buffer gives up for f: its oldest non-keyframe, else, for a
\* keyframe, its oldest frame (a buffer of capacity 0 has none).
MakeRoom(b, f) ==
  IF FindDroppable(b) # 0 THEN DropAt(b, FindDroppable(b))
  ELSE IF b.frames # <<>> THEN DropAt(b, 1)
  ELSE b

\* Whether push keeps the frame.
Keeps(b, f) == Len(b.frames) < b.capacity \/ f.key \/ FindDroppable(b) # 0

Push(b, f) ==
  LET r == Received(b, f)
  IN CASE Len(b.frames) < b.capacity -> PushBack(r, f)
       [] Len(b.frames) >= b.capacity /\ Keeps(b, f) -> PushBack(MakeRoom(r, f), f)
       [] OTHER -> [r EXCEPT !.frames_dropped = @ + 1]

\* pop, of a buffer that is not empty.
Pop(b) ==
  [b EXCEPT !.frames = Tail(@),
            !.last_keyframe_idx = IndexAfter(@, 1)]
===============================================================================
