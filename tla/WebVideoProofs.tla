---------------------------- MODULE WebVideoProofs ----------------------------
(***************************************************************************)
(* The web video path, for any sources, capacities and number of faults:   *)
(* no process of FFmpeg is fed across a gap, and the browser never gets a  *)
(* segment of a newer process than the init segment it was given last.     *)
(*                                                                         *)
(* The first rests on where a gap can be: behind a muxer that will be      *)
(* reset (MuxerSound).  The second rests on what is on its way to the      *)
(* session: epochs never go back in its queue, and where they go forward   *)
(* to a segment there is an init in between, unless the session is about   *)
(* to forget its inits (Ordered, Follows).                                 *)
(***************************************************************************)
EXTENDS WebVideo, SequenceTheorems, TLAPS

(* What a process wrote is an ftyp, a moov and media, in this order.       *)
BoxesInOrder(m) ==
  LET bytes == m.pending \o m.unread IN
  ~m.initSent /\ (m.writing = "media" \/ "media" \in Range(bytes))
    => "moov" \in Range(bytes)

MuxerSound(s) ==
  LET m == muxer[s] IN
  /\ m.epoch <= faults + 1
  /\ m.proc # "running" \/ missed => m.epoch <= faults
  /\ m.needsKeyframe => m.proc = "none"
  /\ m.proc = "running" /\ gap[s] => missed
  /\ BoxesInOrder(m)

FeedInv ==
  /\ TypeOK
  /\ \A s \in Sources : MuxerSound(s)
  /\ NoTornStream

-------------------------------------------------------------------------------
(* The muxers.                                                             *)

LEMMA NewIsMuxer == NewMuxer \in Muxers /\ BoxesInOrder(NewMuxer)
<1>1. <<>> \in Seq({"ftyp"}) /\ <<>> \in Seq(Boxes) /\ <<>> \o <<>> = <<>>
  OBVIOUS
<1>2. 0 \in Epochs
  BY WebVideoAssumption DEF Epochs
<1>3. NewMuxer \in Muxers
  BY <1>1, <1>2 DEF NewMuxer, Muxers, Boxes
<1>4. Range(NewMuxer.pending \o NewMuxer.unread) = {}
  BY <1>1 DEF NewMuxer, Range
<1>5. BoxesInOrder(NewMuxer)
  BY <1>4 DEF BoxesInOrder, NewMuxer
<1>6. QED
  BY <1>3, <1>5

LEMMA ResetIsMuxer ==
  ASSUME NEW m \in Muxers
  PROVE  /\ Reset(m) \in Muxers /\ BoxesInOrder(Reset(m))
         /\ Reset(m).proc = "none" /\ Reset(m).epoch = m.epoch /\ ~Reset(m).initSent
<1> DEFINE n == [NewMuxer EXCEPT !.epoch = m.epoch]
<1>1. Reset(m) = [n EXCEPT !.needsKeyframe = TRUE]
  BY DEF Reset
<1>2. /\ NewMuxer \in Muxers /\ NewMuxer.writing = "ftyp" /\ NewMuxer.proc = "none"
      /\ NewMuxer.pending = <<>> /\ NewMuxer.unread = <<>> /\ ~NewMuxer.initSent
      /\ ~NewMuxer.needsKeyframe
  BY NewIsMuxer DEF NewMuxer
<1>3. m.epoch \in Epochs
  BY DEF Muxers
<1>4. n \in Muxers
  BY <1>2, <1>3 DEF Muxers
<1>5. /\ n.epoch = m.epoch /\ n.writing = "ftyp" /\ n.pending = <<>> /\ n.unread = <<>>
      /\ ~n.initSent /\ ~n.needsKeyframe /\ n.proc = "none"
  BY <1>2 DEF Muxers
<1> HIDE DEF n
<1>6. Reset(m) \in Muxers
  BY <1>1, <1>3, <1>4 DEF Muxers
<1>7. /\ Reset(m).epoch = m.epoch /\ Reset(m).needsKeyframe = TRUE
      /\ Reset(m).writing = "ftyp" /\ Reset(m).pending = <<>> /\ Reset(m).unread = <<>>
      /\ ~Reset(m).initSent
  BY <1>1, <1>4, <1>5 DEF Muxers
<1>8. Reset(m).proc = "none"
  BY <1>1, <1>4, <1>5 DEF Muxers
<1>9. Range(<<>> \o <<>>) = {}
  BY DEF Range
<1>10. BoxesInOrder(Reset(m))
  BY <1>7, <1>9 DEF BoxesInOrder
<1>11. QED
  BY <1>6, <1>7, <1>8, <1>10

LEMMA StartIsMuxer ==
  ASSUME NEW m \in Muxers, m.epoch + 1 \in Epochs
  PROVE  /\ Start(m) \in Muxers /\ BoxesInOrder(Start(m))
         /\ Start(m).proc = "running" /\ Start(m).epoch = m.epoch + 1
         /\ ~Start(m).initSent /\ ~Start(m).needsKeyframe
<1> DEFINE n == [NewMuxer EXCEPT !.proc = "running"]
<1>1. Start(m) = [n EXCEPT !.epoch = m.epoch + 1]
  BY DEF Start
<1>2. /\ NewMuxer \in Muxers /\ NewMuxer.writing = "ftyp" /\ NewMuxer.proc = "none"
      /\ NewMuxer.pending = <<>> /\ NewMuxer.unread = <<>> /\ ~NewMuxer.initSent
      /\ ~NewMuxer.needsKeyframe
  BY NewIsMuxer DEF NewMuxer
<1>3. "running" \in {"none", "running", "exited"}
  OBVIOUS
<1>4. n \in Muxers
  BY <1>2, <1>3 DEF Muxers
<1>5. /\ n.proc = "running" /\ n.writing = "ftyp" /\ n.pending = <<>> /\ n.unread = <<>>
      /\ ~n.initSent /\ ~n.needsKeyframe
  BY <1>2 DEF Muxers
<1> HIDE DEF n
<1>6. Start(m) \in Muxers
  BY <1>1, <1>3, <1>4 DEF Muxers
<1>7. /\ Start(m).proc = "running" /\ Start(m).epoch = m.epoch + 1
      /\ Start(m).writing = "ftyp" /\ Start(m).pending = <<>> /\ Start(m).unread = <<>>
      /\ ~Start(m).initSent
  BY <1>1, <1>4, <1>5 DEF Muxers
<1>8. ~Start(m).needsKeyframe
  BY <1>1, <1>4, <1>5 DEF Muxers
<1>9. Range(<<>> \o <<>>) = {}
  BY DEF Range
<1>10. BoxesInOrder(Start(m))
  BY <1>7, <1>9 DEF BoxesInOrder
<1>11. QED
  BY <1>6, <1>7, <1>8, <1>10

(* The muxer that is handed a frame, and where its output goes.            *)
Handed(m) ==
  [(IF m.proc = "none" THEN Start(m) ELSE [m EXCEPT !.needsKeyframe = FALSE])
     EXCEPT !.fed = TRUE]

LEMMA HandedIsMuxer ==
  ASSUME NEW m \in Muxers, BoxesInOrder(m), m.proc = "none" => m.epoch + 1 \in Epochs,
         m.proc # "exited"
  PROVE  /\ Handed(m) \in Muxers /\ BoxesInOrder(Handed(m))
         /\ Handed(m).proc = "running" /\ ~Handed(m).needsKeyframe
         /\ Handed(m).epoch = IF m.proc = "none" THEN m.epoch + 1 ELSE m.epoch
         /\ Handed(m).initSent => m.initSent /\ Handed(m).epoch = m.epoch
<1> DEFINE n == IF m.proc = "none" THEN Start(m) ELSE [m EXCEPT !.needsKeyframe = FALSE]
<1>1. /\ n \in Muxers /\ BoxesInOrder(n) /\ n.proc = "running" /\ ~n.needsKeyframe
      /\ n.epoch = (IF m.proc = "none" THEN m.epoch + 1 ELSE m.epoch)
      /\ n.initSent => m.initSent /\ n.epoch = m.epoch
  <2>1. CASE m.proc = "none"
    <3>1. n = Start(m)
      BY <2>1
    <3>2. QED
      BY <2>1, <3>1, StartIsMuxer
  <2>2. CASE m.proc # "none"
    <3>1. n = [m EXCEPT !.needsKeyframe = FALSE] /\ m.proc = "running"
      BY <2>2 DEF Muxers
    <3>2. /\ n.proc = m.proc /\ n.epoch = m.epoch /\ n.initSent = m.initSent
          /\ n.pending = m.pending /\ n.unread = m.unread /\ n.writing = m.writing
          /\ n.needsKeyframe = FALSE
      BY <3>1 DEF Muxers
    <3>3. n \in Muxers
      BY <3>1 DEF Muxers
    <3>4. BoxesInOrder(n)
      BY <3>2 DEF BoxesInOrder
    <3>5. QED
      BY <2>2, <3>1, <3>2, <3>3, <3>4
  <2>3. QED
    BY <2>1, <2>2
<1>2. Handed(m) = [n EXCEPT !.fed = TRUE]
  BY DEF Handed
<1> HIDE DEF n
<1>3. /\ Handed(m) \in Muxers
      /\ Handed(m).proc = n.proc /\ Handed(m).epoch = n.epoch
      /\ Handed(m).initSent = n.initSent /\ Handed(m).pending = n.pending
      /\ Handed(m).unread = n.unread /\ Handed(m).writing = n.writing
      /\ Handed(m).needsKeyframe = n.needsKeyframe
  BY <1>1, <1>2 DEF Muxers
<1>4. BoxesInOrder(Handed(m))
  BY <1>1, <1>3 DEF BoxesInOrder
<1>5. QED
  BY <1>1, <1>3, <1>4

(* Collecting the output of a process until its moov is complete.          *)
LEMMA ReadIsMuxer ==
  ASSUME NEW m \in Muxers, BoxesInOrder(m)
  PROVE  /\ Read(m) \in Muxers /\ BoxesInOrder(Read(m))
         /\ Read(m).proc = m.proc /\ Read(m).epoch = m.epoch
         /\ Read(m).needsKeyframe = m.needsKeyframe
         /\ Read(m).initSent <=> m.initSent \/ "moov" \in Range(m.pending \o m.unread)
<1> DEFINE bytes == m.pending \o m.unread
<1>1. /\ m.pending \in Seq({"ftyp"}) /\ m.unread \in Seq(Boxes) /\ m.initSent \in BOOLEAN
      /\ <<>> \in Seq(Boxes) /\ <<>> \in Seq({"ftyp"})
  BY DEF Muxers
<1>2. m.pending \in Seq(Boxes)
  <2>1. \A i \in 1 .. Len(m.pending) : m.pending[i] \in Boxes
    BY <1>1, ElementOfSeq DEF Boxes
  <2>2. QED
    BY <1>1, <2>1
<1>3. bytes \in Seq(Boxes)
  BY <1>1, <1>2
<1>4. CASE m.initSent
  <2>1. Read(m) = [m EXCEPT !.unread = <<>>]
    BY <1>4 DEF Read
  <2>2. Read(m) \in Muxers
    BY <1>1, <2>1 DEF Muxers
  <2>3. /\ Read(m).proc = m.proc /\ Read(m).epoch = m.epoch
        /\ Read(m).needsKeyframe = m.needsKeyframe /\ Read(m).initSent = m.initSent
    BY <2>1 DEF Muxers
  <2>4. QED
    BY <1>4, <2>2, <2>3 DEF BoxesInOrder
<1>5. CASE ~m.initSent
  <2> DEFINE ready == "moov" \in Range(bytes)
             kept == IF ready THEN <<>> ELSE bytes
  <2>1. kept \in Seq({"ftyp"})
    <3>1. CASE ready
      BY <1>1, <3>1
    <3>2. CASE ~ready
      <4>1. "moov" \notin Range(bytes) /\ "media" \notin Range(bytes)
        BY <1>5, <3>2 DEF BoxesInOrder
      <4> HIDE DEF bytes
      <4>2. \A i \in 1 .. Len(bytes) : bytes[i] \in Boxes /\ bytes[i] \in Range(bytes)
        BY <1>3, ElementOfSeq DEF Range
      <4>3. \A i \in 1 .. Len(bytes) : bytes[i] = "ftyp"
        BY <4>1, <4>2 DEF Boxes
      <4>4. bytes \in Seq({"ftyp"})
        BY <1>3, <4>3
      <4>5. QED
        BY <3>2, <4>4
    <3>3. QED
      BY <3>1, <3>2
  <2>2. Read(m) = [m EXCEPT !.unread = <<>>, !.initSent = ready, !.pending = kept]
    BY <1>5 DEF Read
  <2>3. ready \in BOOLEAN
    OBVIOUS
  <2>4. "moov" \in Range(bytes) <=> ready
    OBVIOUS
  <2>5. "moov" \notin Range(bytes) =>
          /\ ~ready /\ kept = bytes /\ m.writing # "media" /\ "media" \notin Range(bytes)
    BY <1>5 DEF BoxesInOrder
  <2> HIDE DEF ready, kept
  <2>6. Read(m) = [[[m EXCEPT !.unread = <<>>] EXCEPT !.initSent = ready] EXCEPT !.pending = kept]
    BY <2>2
  <2> DEFINE n1 == [m EXCEPT !.unread = <<>>]
             n2 == [n1 EXCEPT !.initSent = ready]
  <2>7. n1 \in Muxers
    BY <1>1 DEF Muxers
  <2>8. n1.proc = m.proc /\ n1.epoch = m.epoch /\ n1.needsKeyframe = m.needsKeyframe
        /\ n1.unread = <<>> /\ n1.writing = m.writing
    BY DEF Muxers
  <2> HIDE DEF n1
  <2>9. n2 \in Muxers
    BY <2>3, <2>7 DEF Muxers
  <2>10. n2.proc = m.proc /\ n2.epoch = m.epoch /\ n2.needsKeyframe = m.needsKeyframe
         /\ n2.initSent = ready /\ n2.unread = <<>> /\ n2.writing = m.writing
    BY <2>7, <2>8 DEF Muxers
  <2>11. Read(m) = [n2 EXCEPT !.pending = kept]
    BY <2>6 DEF n1
  <2> HIDE DEF n2
  <2>12. Read(m) \in Muxers
    BY <2>1, <2>9, <2>11 DEF Muxers
  <2>13. /\ Read(m).proc = m.proc /\ Read(m).epoch = m.epoch
         /\ Read(m).needsKeyframe = m.needsKeyframe /\ Read(m).initSent = ready
         /\ Read(m).unread = <<>> /\ Read(m).writing = m.writing /\ Read(m).pending = kept
    BY <2>9, <2>10, <2>11 DEF Muxers
  <2>14. BoxesInOrder(Read(m))
    <3>1. CASE ready
      BY <2>13, <3>1 DEF BoxesInOrder
    <3>2. CASE ~ready
      <4>1. kept = bytes /\ m.writing # "media" /\ "media" \notin Range(bytes)
        BY <2>4, <2>5, <3>2
      <4>2. Read(m).pending \o Read(m).unread = bytes
        BY <1>3, <2>13, <4>1
      <4>3. QED
        BY <2>13, <4>1, <4>2 DEF BoxesInOrder
    <3>3. QED
      BY <3>1, <3>2
  <2>15. QED
    BY <1>5, <2>4, <2>12, <2>13, <2>14
<1>6. QED
  BY <1>4, <1>5

LEMMA WrittenIsMuxer ==
  ASSUME NEW m \in Muxers, BoxesInOrder(m), NEW n,
         n = [m EXCEPT !.unread = Append(m.unread, m.writing),
                       !.writing = NextBox[m.writing], !.fed = m.writing # "media"]
  PROVE  /\ n \in Muxers /\ BoxesInOrder(n)
         /\ n.proc = m.proc /\ n.epoch = m.epoch
         /\ n.needsKeyframe = m.needsKeyframe /\ n.initSent = m.initSent
<1> DEFINE bytes == m.pending \o m.unread
           w == m.writing
<1>1. /\ m.pending \in Seq({"ftyp"}) /\ m.unread \in Seq(Boxes) /\ w \in Boxes
  BY DEF Muxers
<1>2. m.pending \in Seq(Boxes)
  <2>1. \A i \in 1 .. Len(m.pending) : m.pending[i] \in Boxes
    BY <1>1, ElementOfSeq DEF Boxes
  <2>2. QED
    BY <1>1, <2>1
<1>3. /\ Append(m.unread, w) \in Seq(Boxes) /\ NextBox[w] \in Boxes
      /\ (w # "media") \in BOOLEAN /\ bytes \in Seq(Boxes)
      /\ NextBox[w] = "media" => w \in {"moov", "media"}
  BY <1>1, <1>2 DEF NextBox, Boxes
<1> DEFINE n1 == [m EXCEPT !.unread = Append(m.unread, w)]
           n2 == [n1 EXCEPT !.writing = NextBox[w]]
<1>4. n = [n2 EXCEPT !.fed = (w # "media")]
  OBVIOUS
<1>5. n1 \in Muxers
  BY <1>3 DEF Muxers
<1>6. n1.proc = m.proc /\ n1.epoch = m.epoch /\ n1.needsKeyframe = m.needsKeyframe
      /\ n1.initSent = m.initSent /\ n1.pending = m.pending
      /\ n1.unread = Append(m.unread, w)
  BY DEF Muxers
<1> HIDE DEF n1
<1>7. n2 \in Muxers
  BY <1>3, <1>5 DEF Muxers
<1>8. n2.proc = m.proc /\ n2.epoch = m.epoch /\ n2.needsKeyframe = m.needsKeyframe
      /\ n2.initSent = m.initSent /\ n2.pending = m.pending
      /\ n2.unread = Append(m.unread, w) /\ n2.writing = NextBox[w]
  BY <1>5, <1>6 DEF Muxers
<1> HIDE DEF n2
<1>9. n \in Muxers
  BY <1>3, <1>4, <1>7 DEF Muxers
<1>10. n.proc = m.proc /\ n.epoch = m.epoch /\ n.needsKeyframe = m.needsKeyframe
       /\ n.initSent = m.initSent /\ n.pending = m.pending
       /\ n.unread = Append(m.unread, w) /\ n.writing = NextBox[w]
  BY <1>4, <1>7, <1>8 DEF Muxers
<1>11. n.pending \o n.unread = Append(bytes, w)
  <2>1. Append(m.unread, w) = m.unread \o <<w>>
    BY <1>1, AppendIsConcat
  <2>2. m.pending \o (m.unread \o <<w>>) = (m.pending \o m.unread) \o <<w>>
    <3> DEFINE one == <<w>>
    <3>1. one \in Seq(Boxes) /\ m.pending \in Seq(Boxes) /\ m.unread \in Seq(Boxes)
      BY <1>1, <1>2
    <3> HIDE DEF one
    <3>0. ASSUME NEW a \in Seq(Boxes), NEW b \in Seq(Boxes), NEW c \in Seq(Boxes)
          PROVE  a \o (b \o c) = (a \o b) \o c
      BY ConcatAssociative
    <3>2. m.pending \o (m.unread \o one) = (m.pending \o m.unread) \o one
      BY <3>0, <3>1, Zenon
    <3>3. QED
      BY <3>2 DEF one
  <2>3. bytes \o <<w>> = Append(bytes, w)
    BY <1>1, <1>3, AppendIsConcat
  <2>4. QED
    BY <1>10, <2>1, <2>2, <2>3
<1>12. \A x : x \in Range(Append(bytes, w)) <=> x = w \/ x \in Range(bytes)
  <2>0. bytes \in Seq(Boxes) /\ w \in Boxes
    BY <1>1, <1>3
  <2> HIDE DEF bytes, w
  <2>1. /\ DOMAIN Append(bytes, w) = 1 .. Len(bytes) + 1 /\ DOMAIN bytes = 1 .. Len(bytes)
        /\ \A i \in 1 .. Len(bytes) : Append(bytes, w)[i] = bytes[i]
        /\ Append(bytes, w)[Len(bytes) + 1] = w
    BY <2>0, AppendProperties, LenProperties
  <2>2. Len(bytes) \in Nat
    BY <2>0, LenProperties
  <2>3. QED
    BY <2>1, <2>2 DEF Range
<1>13. BoxesInOrder(n)
  <2>1. SUFFICES ASSUME ~n.initSent, n.writing = "media" \/ "media" \in Range(Append(bytes, w))
                 PROVE  "moov" \in Range(Append(bytes, w))
    BY <1>11 DEF BoxesInOrder
  <2>2. w = "moov" \/ w = "media" \/ "media" \in Range(bytes)
    BY <1>3, <1>10, <1>12, <2>1
  <2>3. QED
    BY <1>10, <1>12, <2>1, <2>2 DEF BoxesInOrder
<1>14. QED
  BY <1>9, <1>10, <1>13

(* What a read gives: an init and what follows it, or a segment.           *)
Given(s, m, o) ==
  /\ m.initSent => o \in {<<>>, <<Out("segment", s, m)>>}
  /\ ~m.initSent /\ Read(m).initSent =>
       o \in {<<Out("cache", s, m), Out("init", s, m)>>,
             <<Out("cache", s, m), Out("init", s, m), Out("segment", s, m)>>}
  /\ ~m.initSent /\ ~Read(m).initSent => o = <<>>

LEMMA ProducedIsGiven ==
  ASSUME NEW s \in Sources, NEW m \in Muxers, BoxesInOrder(m)
  PROVE  Given(s, m, Produced(s, m))
<1> DEFINE bytes == m.pending \o m.unread
           after == SelectSeq(bytes, LAMBDA b : b = "media")
<1>1. Read(m).initSent <=> m.initSent \/ "moov" \in Range(bytes)
  BY ReadIsMuxer
<1>2. Produced(s, m) =
        IF m.initSent THEN Segment(s, m, m.unread)
        ELSE IF "moov" \in Range(bytes)
             THEN InitCachedFirst(s, m) \o Segment(s, m, after)
             ELSE <<>>
  BY DEF Produced
<1> HIDE DEF bytes, after
<1>3. \A b : Segment(s, m, b) \in {<<>>, <<Out("segment", s, m)>>}
  BY DEF Segment
<1>4. InitCachedFirst(s, m) \o Segment(s, m, after) \in
        {<<Out("cache", s, m), Out("init", s, m)>>,
         <<Out("cache", s, m), Out("init", s, m), Out("segment", s, m)>>}
  <2> DEFINE c == Out("cache", s, m)
             i == Out("init", s, m)
             g == Out("segment", s, m)
  <2>1. InitCachedFirst(s, m) = <<c, i>>
    BY DEF InitCachedFirst
  <2> HIDE DEF c, i, g
  <2> DEFINE S == {c, i, g}
             t == <<c, i, g>>
             u == <<c, i>> \o <<g>>
  <2>2. <<c, i>> \in Seq(S) /\ <<g>> \in Seq(S) /\ t \in Seq(S)
    OBVIOUS
  <2>3. <<c, i>> \o <<>> = <<c, i>>
    BY <2>2, ConcatEmptySeq
  <2>4. u = t
    <3>1. /\ u \in Seq(S) /\ Len(u) = 3
          /\ u[1] = c /\ u[2] = i /\ u[3] = g
      BY <2>2, ConcatProperties
    <3>2. Len(t) = 3 /\ t[1] = c /\ t[2] = i /\ t[3] = g
      OBVIOUS
    <3> HIDE DEF t, u, S
    <3>3. \A k \in 1 .. Len(u) : u[k] = t[k]
      BY <3>1, <3>2
    <3>4. QED
      BY <2>2, <3>1, <3>2, <3>3, SeqEqual
  <2>5. QED
    BY <1>3, <2>1, <2>3, <2>4 DEF c, i, g
<1>5. QED
  BY <1>1, <1>2, <1>3, <1>4 DEF Given

LEMMA GivenIsOutput ==
  ASSUME NEW s \in Sources, NEW m \in Muxers, NEW o, Given(s, m, o)
  PROVE  o \in Seq(Output) /\ Len(o) <= 3
<1> DEFINE c == Out("cache", s, m)
           i == Out("init", s, m)
           g == Out("segment", s, m)
<1>1. m.epoch \in Epochs
  BY DEF Muxers
<1>2. c \in Output /\ i \in Output /\ g \in Output
  BY <1>1 DEF Out, Output
<1>3. m.initSent \in BOOLEAN
  BY DEF Muxers
<1>4. o \in {<<>>, <<g>>, <<c, i>>, <<c, i, g>>}
  BY <1>3 DEF Given
<1> HIDE DEF c, i, g
<1>5. \A x \in {<<>>, <<g>>, <<c, i>>, <<c, i, g>>} : x \in Seq(Output) /\ Len(x) <= 3
  <2>1. <<>> \in Seq(Output) /\ Len(<<>>) <= 3
    OBVIOUS
  <2>2. <<g>> \in Seq(Output) /\ Len(<<g>>) <= 3
    BY <1>2
  <2>3. <<c, i>> \in Seq(Output) /\ Len(<<c, i>>) <= 3
    BY <1>2
  <2>4. <<c, i, g>> \in Seq(Output) /\ Len(<<c, i, g>>) <= 3
    BY <1>2
  <2>5. QED
    BY <2>1, <2>2, <2>3, <2>4
<1>6. QED
  BY <1>4, <1>5

-------------------------------------------------------------------------------
(* The invariant of the feed, by the parts of the state it is about.       *)

(* A muxer and what is known of its frames; the step of Feed and Reset.    *)
Sound(m, f, lost, g) ==
  /\ m \in Muxers
  /\ m.epoch <= f + 1
  /\ m.proc # "running" \/ lost => m.epoch <= f
  /\ m.needsKeyframe => m.proc = "none"
  /\ m.proc = "running" /\ g => lost
  /\ BoxesInOrder(m)

FeedTyped ==
  /\ input \in Seq(Frames) /\ Len(input) <= InputCap /\ missed \in BOOLEAN
  /\ muxer \in [Sources -> Muxers]
  /\ faults \in 0 .. MaxFaults
  /\ gap \in [Sources -> BOOLEAN] /\ torn \in [Sources -> BOOLEAN]

ViewTyped ==
  /\ result \in Seq(Output) /\ Len(result) <= 3
  /\ inits \in [Sources -> Epochs]
  /\ session \in {"off", "joining", "on"}
  /\ queue \in Seq(Output) /\ Len(queue) <= QueueCap /\ lagged \in BOOLEAN
  /\ initSent \subseteq Sources
  /\ shown \in [Sources -> Epochs] /\ played \in [Sources -> Epochs]
  /\ lags \in 0 .. MaxLags

LEMMA FeedInvParts ==
  /\ FeedInv <=> /\ FeedTyped /\ ViewTyped
                 /\ \A s \in Sources : Sound(muxer[s], faults, missed, gap[s]) /\ ~torn[s]
  /\ FeedInv' <=> /\ FeedTyped' /\ ViewTyped'
                  /\ \A s \in Sources : Sound(muxer'[s], faults', missed', gap'[s]) /\ ~torn'[s]
  BY DEF FeedInv, TypeOK, FeedTyped, ViewTyped, MuxerSound, NoTornStream, Sound

LEMMA Bounds == InputCap \in Nat /\ QueueCap \in Nat /\ MaxFaults \in Nat /\ MaxLags \in Nat
  BY WebVideoAssumption

(* A step of one muxer keeps what is known of the others.                  *)
LEMMA OneMuxer ==
  ASSUME FeedInv, NEW s \in Sources, NEW n, NEW g \in BOOLEAN,
         muxer' = [muxer EXCEPT ![s] = n], gap' = [gap EXCEPT ![s] = g],
         torn' = [torn EXCEPT ![s] = FALSE], missed' = missed,
         input' \in Seq(Frames), Len(input') <= InputCap,
         faults' \in 0 .. MaxFaults, faults' >= faults,
         Sound(n, faults', missed, g)
  PROVE  /\ FeedTyped'
         /\ \A t \in Sources : Sound(muxer'[t], faults', missed', gap'[t]) /\ ~torn'[t]
<1>1. /\ FeedTyped /\ faults \in Nat /\ faults' \in Nat /\ missed \in BOOLEAN
      /\ \A t \in Sources : Sound(muxer[t], faults, missed, gap[t]) /\ ~torn[t]
  <2>1. FeedTyped /\ \A t \in Sources : Sound(muxer[t], faults, missed, gap[t]) /\ ~torn[t]
    BY FeedInvParts
  <2>2. QED
    BY <2>1, Bounds DEF FeedTyped
<1>2. n \in Muxers
  BY DEF Sound
<1>3. FeedTyped'
  BY <1>1, <1>2 DEF FeedTyped
<1>4. ASSUME NEW t \in Sources
      PROVE  Sound(muxer'[t], faults', missed', gap'[t]) /\ ~torn'[t]
  <2>1. CASE t = s
    <3>1. muxer'[t] = n /\ gap'[t] = g /\ torn'[t] = FALSE
      BY <1>1, <2>1 DEF FeedTyped
    <3>2. QED
      BY <2>1, <3>1
  <2>2. CASE t # s
    <3>1. muxer'[t] = muxer[t] /\ gap'[t] = gap[t] /\ torn'[t] = torn[t]
      BY <1>1, <2>2 DEF FeedTyped
    <3>2. Sound(muxer[t], faults, missed, gap[t]) /\ ~torn[t]
      BY <1>1
    <3>3. muxer[t].epoch \in Nat
      BY <3>2 DEF Sound, Muxers, Epochs
    <3>4. Sound(muxer[t], faults', missed, gap[t])
      BY <1>1, <3>2, <3>3 DEF Sound
    <3>5. QED
      BY <3>1, <3>2, <3>4
  <2>3. QED
    BY <2>1, <2>2
<1>5. QED
  BY <1>3, <1>4

LEMMA PublishPreserves ==
  ASSUME FeedInv, PublishSome PROVE FeedInv'
<1>1. /\ FeedTyped /\ ViewTyped
      /\ \A t \in Sources : Sound(muxer[t], faults, missed, gap[t]) /\ ~torn[t]
  BY FeedInvParts
<1>2. PICK f \in Frames : Publish(f)
  BY DEF PublishSome
<1>3. UNCHANGED <<muxer, result, inits, session, initSent, shown, played, queue, lagged, lags>>
  BY DEF PublishSome, viewer, channel
<1>4. ViewTyped'
  BY <1>1, <1>3 DEF ViewTyped
<1>5. CASE /\ Len(input) < InputCap /\ input' = Append(input, f)
           /\ UNCHANGED <<missed, faults, history>>
  <2>1. UNCHANGED <<missed, faults, gap, torn>>
    BY <1>5 DEF history
  <2>2. input' \in Seq(Frames) /\ Len(input') = Len(input) + 1 /\ Len(input) \in Nat
    BY <1>1, <1>5, AppendProperties, LenProperties DEF FeedTyped
  <2>3. FeedTyped'
    BY <1>1, <1>3, <1>5, <2>1, <2>2, Bounds DEF FeedTyped
  <2>4. QED
    BY <1>1, <1>3, <1>4, <2>1, <2>3, FeedInvParts
<1>6. CASE /\ Len(input) = InputCap /\ faults < MaxFaults
           /\ input' = Append(Tail(input), f) /\ missed' = TRUE /\ faults' = faults + 1
           /\ gap' = [gap EXCEPT ![Head(input).source] = TRUE]
           /\ UNCHANGED torn
  <2>1. input \in Seq(Frames) /\ input # <<>> /\ faults \in Nat
    BY <1>1, <1>6, WebVideoAssumption DEF FeedTyped
  <2>2. Tail(input) \in Seq(Frames) /\ Len(Tail(input)) = Len(input) - 1 /\ Len(input) \in Nat
    BY <2>1, HeadTailProperties, LenProperties
  <2>3. input' \in Seq(Frames) /\ Len(input') = InputCap
    <3>1. Append(Tail(input), f) \in Seq(Frames) /\ Len(Append(Tail(input), f)) = Len(Tail(input)) + 1
      BY <2>2, AppendProperties
    <3>2. QED
      BY <1>6, <2>2, <3>1
  <2>4. FeedTyped'
    <3>1. gap' \in [Sources -> BOOLEAN] /\ torn' \in [Sources -> BOOLEAN]
      BY <1>1, <1>6 DEF FeedTyped
    <3>2. faults' \in 0 .. MaxFaults /\ missed' \in BOOLEAN
      BY <1>6, <2>1, Bounds
    <3>3. input' \in Seq(Frames) /\ Len(input') <= InputCap
      BY <2>3, Bounds
    <3>4. muxer' \in [Sources -> Muxers]
      BY <1>1, <1>3 DEF FeedTyped
    <3>5. QED
      BY <3>1, <3>2, <3>3, <3>4 DEF FeedTyped
  <2>5. ASSUME NEW t \in Sources
        PROVE  Sound(muxer'[t], faults', missed', gap'[t]) /\ ~torn'[t]
    <3>1. Sound(muxer[t], faults, missed, gap[t]) /\ ~torn[t]
      BY <1>1
    <3>2. muxer[t].epoch \in Nat
      BY <3>1 DEF Sound, Muxers, Epochs
    <3>3. muxer'[t] = muxer[t] /\ torn'[t] = torn[t]
      BY <1>3, <1>6
    <3>4. Sound(muxer[t], faults + 1, TRUE, gap'[t])
      BY <2>1, <3>1, <3>2 DEF Sound
    <3>5. QED
      BY <1>6, <3>1, <3>3, <3>4
  <2>6. QED
    BY <1>4, <2>4, <2>5, FeedInvParts
<1>7. QED
  BY <1>2, <1>5, <1>6 DEF Publish

LEMMA ProcessPreserves ==
  ASSUME FeedInv, NEW s \in Sources, Write(s) \/ Crash(s) PROVE FeedInv'
<1>1. /\ FeedTyped /\ ViewTyped /\ Sound(muxer[s], faults, missed, gap[s]) /\ ~torn[s]
  BY FeedInvParts
<1>2. UNCHANGED <<input, missed, gap, torn, result, inits, session, initSent, shown, played,
                  queue, lagged, lags>>
  BY DEF Write, Crash, feed, viewer, channel, history
<1>3. ViewTyped'
  BY <1>1, <1>2 DEF ViewTyped
<1>4. /\ gap' = [gap EXCEPT ![s] = gap[s]] /\ torn' = [torn EXCEPT ![s] = FALSE]
      /\ gap[s] \in BOOLEAN
  <2>1. torn[s] = FALSE /\ gap[s] \in BOOLEAN
    BY <1>1 DEF FeedTyped
  <2>2. QED
    BY <1>1, <1>2, <2>1 DEF FeedTyped
<1>5. faults \in Nat /\ faults <= MaxFaults /\ muxer[s] \in Muxers
      /\ input' \in Seq(Frames) /\ Len(input') <= InputCap
  BY <1>1, <1>2, Bounds DEF FeedTyped
<1>6. CASE Write(s)
  <2> DEFINE m == muxer[s]
             n == [m EXCEPT !.unread = Append(m.unread, m.writing),
                            !.writing = NextBox[m.writing], !.fed = m.writing # "media"]
  <2>1. muxer' = [muxer EXCEPT ![s] = n] /\ faults' = faults
    <3>1. muxer' = [muxer EXCEPT
            ![s].unread = Append(@, m.writing), ![s].writing = NextBox[@],
            ![s].fed = m.writing # "media"]
      BY <1>6 DEF Write
    <3>2. QED
      BY <1>1, <1>6, <3>1 DEF Write, FeedTyped
  <2>2. /\ n \in Muxers /\ BoxesInOrder(n) /\ n.proc = m.proc /\ n.epoch = m.epoch
        /\ n.needsKeyframe = m.needsKeyframe
    BY <1>1, <1>5, WrittenIsMuxer DEF Sound
  <2> HIDE DEF n
  <2>3. Sound(n, faults, missed, gap[s])
    BY <1>1, <2>2 DEF Sound
  <2>4. faults' \in 0 .. MaxFaults /\ faults' >= faults /\ Sound(n, faults', missed, gap[s])
    BY <1>5, <2>1, <2>3, Bounds
  <2>5. FeedTyped' /\ \A t \in Sources : Sound(muxer'[t], faults', missed', gap'[t]) /\ ~torn'[t]
    BY <1>2, <1>4, <1>5, <2>1, <2>4, OneMuxer
  <2>6. QED
    BY <1>3, <2>5, FeedInvParts
<1>7. CASE Crash(s)
  <2> DEFINE m == muxer[s]
             n == [m EXCEPT !.proc = "exited"]
  <2>1. muxer' = [muxer EXCEPT ![s] = n] /\ faults' = faults + 1 /\ faults < MaxFaults
        /\ m.proc = "running"
    BY <1>1, <1>7 DEF Crash, FeedTyped
  <2>2. /\ n \in Muxers /\ n.proc = "exited" /\ n.epoch = m.epoch
        /\ n.needsKeyframe = m.needsKeyframe /\ n.initSent = m.initSent
        /\ n.pending = m.pending /\ n.unread = m.unread /\ n.writing = m.writing
    BY <1>5 DEF Muxers
  <2>3. BoxesInOrder(n) /\ m.epoch \in Nat
    BY <1>1, <1>5, <2>2 DEF Sound, BoxesInOrder, Muxers, Epochs
  <2> HIDE DEF n
  <2>4. Sound(n, faults + 1, missed, gap[s])
    BY <1>1, <1>5, <2>1, <2>2, <2>3 DEF Sound
  <2>5. faults' \in 0 .. MaxFaults /\ faults' >= faults
    BY <1>5, <2>1, Bounds
  <2>6. FeedTyped' /\ \A t \in Sources : Sound(muxer'[t], faults', missed', gap'[t]) /\ ~torn'[t]
    BY <1>2, <1>4, <1>5, <2>1, <2>4, <2>5, OneMuxer
  <2>7. QED
    BY <1>3, <2>6, FeedInvParts
<1>8. QED
  BY <1>6, <1>7

(* What a frame gives is output, and a process is not fed across a gap.    *)
LEMMA MuxFramePreserves ==
  ASSUME FeedInv, MuxFrame PROVE FeedInv'
<1> DEFINE f == Head(input)
           s == f.source
           m == muxer[s]
<1>1. /\ FeedTyped /\ ViewTyped
      /\ \A t \in Sources : Sound(muxer[t], faults, missed, gap[t]) /\ ~torn[t]
  BY FeedInvParts
<1>2. /\ ~missed /\ missed' = missed /\ input # <<>> /\ input' = Tail(input)
      /\ UNCHANGED <<inits, session, initSent, shown, played, queue, lagged, lags>>
  BY DEF MuxFrame, viewer, channel
<1>3. f \in Frames /\ input' \in Seq(Frames) /\ Len(input') <= InputCap
  <2>1. input \in Seq(Frames) /\ Len(input) <= InputCap /\ Len(input) \in Nat
    BY <1>1, LenProperties DEF FeedTyped
  <2>2. f \in Frames /\ Tail(input) \in Seq(Frames) /\ Len(Tail(input)) = Len(input) - 1
    BY <1>2, <2>1, HeadTailProperties
  <2>3. QED
    BY <1>2, <2>1, <2>2, Bounds
<1>4. s \in Sources /\ f.key \in BOOLEAN
  BY <1>3 DEF Frames
<1>5. \/ FindExited(s, m, f) \/ Skip(s, m, f) \/ StartFails(s, m, f) \/ Feed(s, m, f)
  BY DEF MuxFrame
<1> HIDE DEF f, s
<1>6. /\ m \in Muxers /\ m.epoch \in Nat /\ Sound(m, faults, missed, gap[s])
      /\ gap[s] \in BOOLEAN /\ torn[s] = FALSE
      /\ faults \in Nat /\ faults <= MaxFaults /\ MaxFaults \in Nat
  BY <1>1, <1>4, Bounds DEF Sound, Muxers, Epochs, FeedTyped
<1>7. torn' = torn => torn' = [torn EXCEPT ![s] = FALSE]
  BY <1>1, <1>4, <1>6 DEF FeedTyped
<1>8. result' \in Seq(Output) /\ Len(result') <= 3 => ViewTyped'
  BY <1>1, <1>2 DEF ViewTyped
<1>9. CASE FindExited(s, m, f)
  <2>1. /\ m.proc = "exited" /\ muxer' = [muxer EXCEPT ![s] = Reset(m)]
        /\ gap' = [gap EXCEPT ![s] = TRUE] /\ torn' = torn
        /\ result' = result /\ faults' = faults
    BY <1>9 DEF FindExited
  <2>2. Sound(Reset(m), faults', missed, TRUE)
    BY <1>6, <2>1, ResetIsMuxer DEF Sound
  <2>3. FeedTyped' /\ \A t \in Sources : Sound(muxer'[t], faults', missed', gap'[t]) /\ ~torn'[t]
    <3>1. faults' \in 0 .. MaxFaults /\ faults' >= faults
      BY <1>6, <2>1
    <3>2. torn' = [torn EXCEPT ![s] = FALSE]
      BY <1>7, <2>1
    <3>3. QED
      BY <1>2, <1>3, <1>4, <2>1, <2>2, <3>1, <3>2, OneMuxer
  <2>4. QED
    BY <1>1, <1>8, <2>1, <2>3, FeedInvParts DEF ViewTyped
<1>10. CASE Skip(s, m, f)
  <2>1. /\ m.proc # "exited" /\ Skips(m, f) /\ muxer' = muxer
        /\ gap' = [gap EXCEPT ![s] = TRUE] /\ torn' = torn
        /\ result' = result /\ faults' = faults
    BY <1>10 DEF Skip
  <2>2. m.proc = "none"
    BY <1>6, <2>1 DEF Skips, Sound
  <2>3. Sound(m, faults', missed, TRUE) /\ muxer' = [muxer EXCEPT ![s] = m]
    BY <1>1, <1>4, <1>6, <2>1, <2>2 DEF Sound, FeedTyped
  <2>4. FeedTyped' /\ \A t \in Sources : Sound(muxer'[t], faults', missed', gap'[t]) /\ ~torn'[t]
    <3>1. faults' \in 0 .. MaxFaults /\ faults' >= faults
      BY <1>6, <2>1
    <3>2. torn' = [torn EXCEPT ![s] = FALSE]
      BY <1>7, <2>1
    <3>3. QED
      BY <1>2, <1>3, <1>4, <2>1, <2>3, <3>1, <3>2, OneMuxer
  <2>5. QED
    BY <1>1, <1>8, <2>1, <2>4, FeedInvParts DEF ViewTyped
<1>11. CASE StartFails(s, m, f)
  <2> DEFINE n == [m EXCEPT !.needsKeyframe = FALSE]
  <2>1. /\ m.proc = "none" /\ muxer' = [muxer EXCEPT ![s] = n]
        /\ gap' = [gap EXCEPT ![s] = TRUE] /\ torn' = torn
        /\ result' = result /\ faults' = faults + 1 /\ faults < MaxFaults
    <3>1. muxer' = [muxer EXCEPT ![s].needsKeyframe = FALSE]
      BY <1>11 DEF StartFails
    <3>2. muxer' = [muxer EXCEPT ![s] = n]
      BY <1>1, <1>4, <3>1 DEF FeedTyped
    <3>3. QED
      BY <1>11, <3>2 DEF StartFails
  <2>2. /\ n \in Muxers /\ n.proc = m.proc /\ n.epoch = m.epoch /\ ~n.needsKeyframe
        /\ n.initSent = m.initSent /\ n.pending = m.pending /\ n.unread = m.unread
        /\ n.writing = m.writing
    BY <1>6 DEF Muxers
  <2> HIDE DEF n
  <2>3. BoxesInOrder(n)
    BY <1>6, <2>2 DEF BoxesInOrder, Sound
  <2>4. Sound(n, faults', missed, TRUE)
    BY <1>6, <2>1, <2>2, <2>3 DEF Sound
  <2>5. faults' \in 0 .. MaxFaults /\ faults' >= faults
    BY <1>6, <2>1
  <2>6. FeedTyped' /\ \A t \in Sources : Sound(muxer'[t], faults', missed', gap'[t]) /\ ~torn'[t]
    BY <1>2, <1>3, <1>4, <1>7, <2>1, <2>4, <2>5, OneMuxer
  <2>7. QED
    BY <1>1, <1>8, <2>1, <2>6, FeedInvParts DEF ViewTyped
<1>12. CASE Feed(s, m, f)
  <2> DEFINE h == Handed(m)
  <2>1. /\ m.proc # "exited" /\ ~Skips(m, f)
        /\ torn' = [torn EXCEPT ![s] = \/ torn[s]
                                       \/ m.proc = "running" /\ gap[s]
                                       \/ m.proc = "none" /\ ~f.key]
        /\ gap' = [gap EXCEPT ![s] = FALSE]
        /\ \/ /\ muxer' = [muxer EXCEPT ![s] = Read(h)] /\ result' = Produced(s, h)
              /\ faults' = faults
           \/ /\ faults < MaxFaults /\ faults' = faults + 1
              /\ muxer' = [muxer EXCEPT ![s] = Reset(h)]
              /\ result' \in {<<>>} \cup (IF h.initSent THEN {Produced(s, h)} ELSE {})
    BY <1>12 DEF Feed, Handed
  <2>2. m.proc = "none" => m.epoch + 1 \in Epochs
    BY <1>6 DEF Sound, Epochs
  <2>3. /\ h \in Muxers /\ BoxesInOrder(h)
        /\ h.proc = "running" /\ ~h.needsKeyframe
        /\ h.epoch = IF m.proc = "none" THEN m.epoch + 1 ELSE m.epoch
    BY <1>6, <2>1, <2>2, HandedIsMuxer DEF Sound
  <2> HIDE DEF h
  <2>4. h.epoch \in Nat /\ h.epoch <= faults + 1
    BY <1>6, <2>3 DEF Sound
  <2>5. ~(m.proc = "running" /\ gap[s]) /\ ~(m.proc = "none" /\ ~f.key)
    BY <1>2, <1>6, <2>1 DEF Sound, Skips
  <2>6. torn' = [torn EXCEPT ![s] = FALSE]
    BY <1>6, <2>1, <2>5
  <2>7. Given(s, h, Produced(s, h))
    BY <1>4, <2>3, ProducedIsGiven
  <2>8. Produced(s, h) \in Seq(Output) /\ Len(Produced(s, h)) <= 3
    BY <1>4, <2>3, <2>7, GivenIsOutput
  <2>9. <<>> \in Seq(Output) /\ Len(<<>>) <= 3
    OBVIOUS
  <2>10. ViewTyped'
    BY <1>8, <2>1, <2>8, <2>9
  <2>11. CASE muxer' = [muxer EXCEPT ![s] = Read(h)] /\ faults' = faults
    <3>1. Sound(Read(h), faults', missed, FALSE)
      BY <1>2, <1>6, <2>3, <2>4, <2>11, ReadIsMuxer DEF Sound
    <3>2. faults' \in 0 .. MaxFaults /\ faults' >= faults
      BY <1>6, <2>11
    <3>3. FeedTyped' /\ \A t \in Sources : Sound(muxer'[t], faults', missed', gap'[t]) /\ ~torn'[t]
      BY <1>2, <1>3, <1>4, <2>1, <2>6, <2>11, <3>1, <3>2, OneMuxer
    <3>4. QED
      BY <2>10, <3>3, FeedInvParts
  <2>12. CASE /\ muxer' = [muxer EXCEPT ![s] = Reset(h)]
              /\ faults' = faults + 1 /\ faults < MaxFaults
    <3>1. Sound(Reset(h), faults', missed, FALSE)
      BY <1>2, <1>6, <2>3, <2>4, <2>12, ResetIsMuxer DEF Sound
    <3>2. faults' \in 0 .. MaxFaults /\ faults' >= faults
      BY <1>6, <2>12
    <3>3. FeedTyped' /\ \A t \in Sources : Sound(muxer'[t], faults', missed', gap'[t]) /\ ~torn'[t]
      BY <1>2, <1>3, <1>4, <2>1, <2>6, <2>12, <3>1, <3>2, OneMuxer
    <3>4. QED
      BY <2>10, <3>3, FeedInvParts
  <2>13. QED
    BY <2>1, <2>11, <2>12
<1>13. QED
  BY <1>5, <1>9, <1>10, <1>11, <1>12

LEMMA LaggedPreserves ==
  ASSUME FeedInv, Lagged PROVE FeedInv'
<1>1. /\ FeedTyped /\ ViewTyped
      /\ \A t \in Sources : Sound(muxer[t], faults, missed, gap[t]) /\ ~torn[t]
  BY FeedInvParts
<1>2. /\ missed = TRUE /\ missed' = FALSE
      /\ muxer' = [s \in Sources |-> Reset(muxer[s])]
      /\ UNCHANGED <<input, faults, gap, torn, result, inits, session, initSent, shown,
                     played, queue, lagged, lags>>
  BY <1>1 DEF Lagged, ResetAll, viewer, channel, history, FeedTyped
<1>3. ViewTyped'
  BY <1>1, <1>2 DEF ViewTyped
<1>4. ASSUME NEW t \in Sources
      PROVE  Sound(muxer'[t], faults', missed', gap'[t]) /\ ~torn'[t]
  <2>1. Sound(muxer[t], faults, missed, gap[t]) /\ ~torn[t]
    BY <1>1
  <2>2. muxer'[t] = Reset(muxer[t])
    BY <1>2
  <2>3. /\ muxer[t] \in Muxers /\ muxer[t].epoch \in Nat /\ muxer[t].epoch <= faults
        /\ faults \in Nat
    BY <1>1, <1>2, <2>1, Bounds DEF Sound, Muxers, Epochs, FeedTyped
  <2>4. Sound(Reset(muxer[t]), faults, FALSE, gap[t])
    BY <2>3, ResetIsMuxer DEF Sound
  <2>5. QED
    BY <1>2, <2>1, <2>2, <2>4
<1>5. muxer' \in [Sources -> Muxers]
  BY <1>1, <1>2, ResetIsMuxer DEF FeedTyped
<1>6. FeedTyped'
  BY <1>1, <1>2, <1>5 DEF FeedTyped
<1>7. QED
  BY <1>3, <1>4, <1>6, FeedInvParts

-------------------------------------------------------------------------------
(* The view of the session, as far as types go.                            *)

LEMMA QueueSteps ==
  ASSUME FeedInv
  PROVE  /\ Len(queue) \in Nat
         /\ result # <<>> => /\ Head(result) \in Output /\ Tail(result) \in Seq(Output)
                             /\ Len(Tail(result)) <= 3
                             /\ Len(Tail(result)) = Len(result) - 1
         /\ queue # <<>> => /\ Head(queue) \in Output /\ Tail(queue) \in Seq(Output)
                            /\ Len(Tail(queue)) = Len(queue) - 1
         /\ Len(queue) = QueueCap => queue # <<>>
<1>1. ViewTyped
  BY FeedInvParts
<1>2. /\ queue \in Seq(Output) /\ Len(queue) \in Nat /\ Len(queue) <= QueueCap
      /\ result \in Seq(Output) /\ Len(result) \in Nat /\ Len(result) <= 3
  BY <1>1, LenProperties DEF ViewTyped
<1>3. result # <<>> => /\ Head(result) \in Output /\ Tail(result) \in Seq(Output)
                       /\ Len(Tail(result)) = Len(result) - 1
  BY <1>2, HeadTailProperties
<1>4. queue # <<>> => /\ Head(queue) \in Output /\ Tail(queue) \in Seq(Output)
                      /\ Len(Tail(queue)) = Len(queue) - 1
  BY <1>2, HeadTailProperties
<1>5. Len(queue) = QueueCap => queue # <<>>
  BY WebVideoAssumption
<1>6. QED
  BY <1>2, <1>3, <1>4, <1>5

LEMMA SendTyped ==
  ASSUME FeedInv, NEW o \in Output, Send(o)
  PROVE  queue' \in Seq(Output) /\ Len(queue') <= QueueCap /\ lagged' \in BOOLEAN
         /\ lags' \in 0 .. MaxLags
<1>1. ViewTyped /\ queue \in Seq(Output) /\ Len(queue) \in Nat /\ lags \in Nat
  BY FeedInvParts, QueueSteps, Bounds DEF ViewTyped
<1>2. CASE UNCHANGED channel
  BY <1>1, <1>2 DEF channel, ViewTyped
<1>3. CASE Len(queue) < QueueCap /\ queue' = Append(queue, o) /\ UNCHANGED <<lagged, lags>>
  <2>1. queue' \in Seq(Output) /\ Len(queue') = Len(queue) + 1
    BY <1>1, <1>3, AppendProperties
  <2>2. QED
    BY <1>1, <1>3, <2>1, Bounds DEF ViewTyped
<1>4. CASE /\ Len(queue) = QueueCap /\ lags < MaxLags
           /\ queue' = Append(Tail(queue), o) /\ lagged' = TRUE /\ lags' = lags + 1
  <2>1. Tail(queue) \in Seq(Output) /\ Len(Tail(queue)) = Len(queue) - 1
    BY <1>4, QueueSteps
  <2>2. queue' \in Seq(Output) /\ Len(queue') = Len(Tail(queue)) + 1
    BY <1>4, <2>1, AppendProperties
  <2>3. QED
    BY <1>1, <1>4, <2>1, <2>2, Bounds
<1>5. QED
  BY <1>2, <1>3, <1>4 DEF Send

LEMMA ViewPreserves ==
  ASSUME FeedInv, HandOn \/ Join \/ SendCached \/ Leave \/ Receive \/ SessionLagged
  PROVE  FeedInv'
<1>1. /\ FeedTyped /\ ViewTyped
      /\ \A t \in Sources : Sound(muxer[t], faults, missed, gap[t]) /\ ~torn[t]
  BY FeedInvParts
<1>2. UNCHANGED <<input, missed, muxer, faults, gap, torn>>
  BY DEF HandOn, Join, SendCached, Leave, Receive, SessionLagged, feed, history
<1>3. FeedTyped' /\ \A t \in Sources : Sound(muxer'[t], faults', missed', gap'[t]) /\ ~torn'[t]
  BY <1>1, <1>2 DEF FeedTyped
<1>4. 0 \in Epochs /\ <<>> \in Seq(Output) /\ Len(<<>>) <= QueueCap
  BY Bounds DEF Epochs
<1>5. CASE HandOn
  <2>1. /\ result # <<>> /\ result' = Tail(result)
        /\ UNCHANGED <<session, initSent, shown, played>>
    BY <1>5 DEF HandOn, viewer
  <2>2. Head(result) \in Output /\ result' \in Seq(Output) /\ Len(result') <= 3
    BY <2>1, QueueSteps
  <2>3. CASE /\ inits' = [inits EXCEPT ![Head(result).source] = Head(result).epoch]
             /\ UNCHANGED channel
    <3>1. Head(result).epoch \in Epochs
      BY <2>2 DEF Output
    <3>2. inits' \in [Sources -> Epochs]
      BY <1>1, <2>3, <3>1 DEF ViewTyped
    <3>3. ViewTyped'
      BY <1>1, <2>1, <2>2, <2>3, <3>2 DEF ViewTyped, channel
    <3>4. QED
      BY <1>3, <3>3, FeedInvParts
  <2>4. CASE Send(Head(result)) /\ UNCHANGED inits
    <3>1. /\ queue' \in Seq(Output) /\ Len(queue') <= QueueCap /\ lagged' \in BOOLEAN
          /\ lags' \in 0 .. MaxLags
      BY <2>2, <2>4, SendTyped
    <3>2. ViewTyped'
      BY <1>1, <2>1, <2>2, <2>4, <3>1 DEF ViewTyped
    <3>3. QED
      BY <1>3, <3>2, FeedInvParts
  <2>5. QED
    BY <1>5, <2>3, <2>4 DEF HandOn
<1>6. CASE Join \/ Leave
  <2>1. /\ session' \in {"off", "joining"} /\ queue' = <<>> /\ lagged' = FALSE
        /\ initSent' = {} /\ shown' = [s \in Sources |-> 0] /\ played' = [s \in Sources |-> 0]
        /\ UNCHANGED <<result, inits, lags>>
    BY <1>6 DEF Join, Leave
  <2>2. ViewTyped'
    BY <1>1, <1>4, <2>1 DEF ViewTyped
  <2>3. QED
    BY <1>3, <2>2, FeedInvParts
<1>7. CASE SendCached
  <2>1. ViewTyped'
    BY <1>1, <1>7 DEF SendCached, channel, ViewTyped
  <2>2. QED
    BY <1>3, <2>1, FeedInvParts
<1>8. CASE Receive
  <2> DEFINE o == Head(queue)
  <2>1. /\ queue # <<>> /\ queue' = Tail(queue)
        /\ ReceiveInit(o) \/ ReceiveSegment(o)
        /\ UNCHANGED <<result, inits, session, lagged, lags>>
    BY <1>8 DEF Receive
  <2>2. o \in Output /\ queue' \in Seq(Output) /\ Len(queue') <= QueueCap
    <3>1. /\ o \in Output /\ Tail(queue) \in Seq(Output)
          /\ Len(Tail(queue)) = Len(queue) - 1 /\ Len(queue) \in Nat /\ Len(queue) <= QueueCap
      BY <1>1, <2>1, QueueSteps DEF ViewTyped
    <3>2. QED
      BY <2>1, <3>1, Bounds
  <2>3. o.source \in Sources /\ o.epoch \in Epochs
    BY <2>2 DEF Output
  <2> HIDE DEF o
  <2>4. inits[o.source] \in Epochs
    BY <1>1, <2>3 DEF ViewTyped
  <2>5. /\ shown' \in [Sources -> Epochs] /\ played' \in [Sources -> Epochs]
        /\ initSent' \subseteq Sources
    BY <1>1, <2>1, <2>3, <2>4 DEF ReceiveInit, ReceiveSegment, ViewTyped
  <2>6. ViewTyped'
    BY <1>1, <2>1, <2>2, <2>5 DEF ViewTyped
  <2>7. QED
    BY <1>3, <2>6, FeedInvParts
<1>9. CASE SessionLagged
  <2>1. ViewTyped'
    BY <1>1, <1>9 DEF SessionLagged, ForgetInits, ViewTyped
  <2>2. QED
    BY <1>3, <2>1, FeedInvParts
<1>10. QED
  BY <1>5, <1>6, <1>7, <1>8, <1>9

LEMMA InitFeed == Init => FeedInv
<1> SUFFICES ASSUME Init PROVE FeedInv
  OBVIOUS
<1>1. /\ input = <<>> /\ missed = FALSE /\ muxer = [s \in Sources |-> NewMuxer]
      /\ result = <<>> /\ inits = [s \in Sources |-> 0]
      /\ session = "off" /\ queue = <<>> /\ lagged = FALSE /\ initSent = {}
      /\ shown = [s \in Sources |-> 0] /\ played = [s \in Sources |-> 0]
      /\ faults = 0 /\ lags = 0
      /\ gap = [s \in Sources |-> FALSE] /\ torn = [s \in Sources |-> FALSE]
  BY DEF Init
<1>2. /\ <<>> \in Seq(Frames) /\ <<>> \in Seq(Output) /\ Len(<<>>) = 0 /\ 0 \in Epochs
  BY Bounds DEF Epochs
<1>3. /\ NewMuxer \in Muxers /\ BoxesInOrder(NewMuxer)
      /\ NewMuxer.proc = "none" /\ NewMuxer.epoch = 0
  BY NewIsMuxer DEF NewMuxer
<1> HIDE DEF NewMuxer
<1>4. FeedTyped
  <2>1. muxer \in [Sources -> Muxers]
    BY <1>1, <1>3
  <2>2. Len(input) <= InputCap /\ faults \in 0 .. MaxFaults
    BY <1>1, <1>2, Bounds
  <2>3. QED
    BY <1>1, <1>2, <2>1, <2>2 DEF FeedTyped
<1>5. ViewTyped
  <2>1. Len(result) <= 3 /\ Len(queue) <= QueueCap /\ lags \in 0 .. MaxLags
    BY <1>1, <1>2, Bounds
  <2>2. QED
    BY <1>1, <1>2, <2>1 DEF ViewTyped
<1>6. ASSUME NEW s \in Sources PROVE Sound(muxer[s], faults, missed, gap[s]) /\ ~torn[s]
  BY <1>1, <1>3 DEF Sound
<1>7. QED
  BY <1>4, <1>5, <1>6, FeedInvParts

LEMMA NextFeed == FeedInv /\ [Next]_vars => FeedInv'
<1> SUFFICES ASSUME FeedInv, [Next]_vars PROVE FeedInv'
  OBVIOUS
<1>1. CASE UNCHANGED vars
  <2>1. UNCHANGED <<input, missed, muxer, result, inits, session, initSent, shown, played,
                    queue, lagged, lags, faults, gap, torn>>
    BY <1>1 DEF vars, feed, viewer, channel, history
  <2>2. QED
    BY <2>1, FeedInvParts DEF FeedTyped, ViewTyped
<1>2. CASE Next
  <2>1. CASE PublishSome
    BY <2>1, PublishPreserves
  <2>2. CASE MuxFrame
    BY <2>2, MuxFramePreserves
  <2>3. CASE Lagged
    BY <2>3, LaggedPreserves
  <2>4. CASE \E s \in Sources : Write(s) \/ Crash(s)
    BY <2>4, ProcessPreserves
  <2>5. CASE HandOn \/ Join \/ SendCached \/ Leave \/ Receive \/ SessionLagged
    BY <2>5, ViewPreserves
  <2>6. QED
    BY <1>2, <2>1, <2>2, <2>3, <2>4, <2>5 DEF Next
<1>3. QED
  BY <1>1, <1>2

LEMMA FeedInvariant == Spec => []FeedInv
<1>1. QED
  BY InitFeed, NextFeed, PTL DEF Spec

(* No process of FFmpeg is fed across a frame that was skipped or lost,    *)
(* however often processes crash or the muxer lags (fmp4.rs:411), and the  *)
(* state keeps its types.                                                  *)
THEOREM FeedIsSound == Spec => []FeedSound
<1>1. FeedInv => FeedSound
  BY DEF FeedInv, FeedSound
<1>2. QED
  BY <1>1, FeedInvariant, PTL

-------------------------------------------------------------------------------
(* What is on its way to the session.                                      *)

IsInit(o, s, e) == o.kind = "init" /\ o.source = s /\ o.epoch = e

(* The init that was just cached is what run sends next.                   *)
Announced ==
  {s \in Sources : result # <<>> /\ Head(result).kind = "init" /\ Head(result).source = s}

(* The queue q of the session, given the cached inits in and the sources   *)
(* whose init is announced: epochs do not go back nor beyond the cached    *)
(* init; between an older entry and a segment there is the init of the     *)
(* segment, and the cached init comes after all that is older.             *)
Ordered(q, in, ann) ==
  /\ \A i \in 1 .. Len(q) : q[i].kind # "cache" /\ q[i].epoch <= in[q[i].source]
  /\ \A i \in 1 .. Len(q) : \A j \in 1 .. i - 1 :
       q[j].source = q[i].source => q[j].epoch <= q[i].epoch
  /\ \A i \in 1 .. Len(q) : \A j \in 1 .. i - 1 :
       q[j].source = q[i].source /\ q[i].kind = "segment" /\ q[j].epoch < q[i].epoch
         => \E k \in j + 1 .. i - 1 : IsInit(q[k], q[i].source, q[i].epoch)
  /\ \A j \in 1 .. Len(q) :
       q[j].epoch < in[q[j].source] =>
         \/ q[j].source \in ann
         \/ \E k \in j + 1 .. Len(q) : IsInit(q[k], q[j].source, in[q[j].source])

(* The session played pl and showed sh of source s; if it counts on the    *)
(* init it was sent, what is newer comes after its init.                   *)
Follows(s, q, in, ann, pl, sh, counts) ==
  /\ pl <= sh /\ pl <= in[s]
  /\ \A i \in 1 .. Len(q) : q[i].source = s => pl <= q[i].epoch
  /\ counts /\ sh < in[s] =>
       s \in ann \/ \E k \in 1 .. Len(q) : IsInit(q[k], s, in[s])
  /\ counts => \A i \in 1 .. Len(q) :
       q[i].source = s /\ q[i].kind = "segment" /\ sh < q[i].epoch
         => \E k \in 1 .. i - 1 : IsInit(q[k], s, q[i].epoch)

Entries(q) ==
  /\ Len(q) \in Nat
  /\ \A i \in 1 .. Len(q) : q[i].epoch \in Nat /\ q[i].source \in Sources

IsTail(r, q) ==
  /\ Entries(q) /\ Entries(r) /\ Len(q) = Len(r) + 1
  /\ \A i \in 1 .. Len(r) : r[i] = q[i + 1]

IsAppend(r, q, o) ==
  /\ Entries(q) /\ Entries(r) /\ Len(r) = Len(q) + 1
  /\ \A i \in 1 .. Len(q) : r[i] = q[i]
  /\ r[Len(r)] = o

LEMMA OutputEntries ==
  ASSUME NEW q \in Seq(Output)
  PROVE  /\ Entries(q)
         /\ q # <<>> => IsTail(Tail(q), q) /\ Head(q) = q[1]
         /\ \A o \in Output : IsAppend(Append(q, o), q, o)
<1>1. ASSUME NEW r \in Seq(Output) PROVE Entries(r)
  <2>1. Len(r) \in Nat
    BY LenProperties
  <2>2. ASSUME NEW i \in 1 .. Len(r) PROVE r[i].epoch \in Nat /\ r[i].source \in Sources
    <3>1. r[i] \in Output
      BY ElementOfSeq
    <3>2. QED
      BY <3>1 DEF Output, Epochs
  <2>3. QED
    BY <2>1, <2>2 DEF Entries
<1>2. ASSUME q # <<>> PROVE IsTail(Tail(q), q) /\ Head(q) = q[1]
  <2>1. /\ Tail(q) \in Seq(Output) /\ Len(Tail(q)) = Len(q) - 1 /\ Head(q) = q[1]
        /\ \A i \in 1 .. Len(q) - 1 : Tail(q)[i] = q[i + 1]
    BY <1>2, HeadTailProperties
  <2>2. Entries(q) /\ Entries(Tail(q))
    BY <1>1, <2>1
  <2>3. Len(q) \in Nat
    BY <2>2 DEF Entries
  <2>4. QED
    BY <2>1, <2>2, <2>3 DEF IsTail
<1>3. ASSUME NEW o \in Output PROVE IsAppend(Append(q, o), q, o)
  <2>1. /\ Append(q, o) \in Seq(Output) /\ Len(Append(q, o)) = Len(q) + 1
        /\ \A i \in 1 .. Len(q) : Append(q, o)[i] = q[i]
        /\ Append(q, o)[Len(q) + 1] = o
    BY AppendProperties
  <2>2. Entries(q) /\ Entries(Append(q, o))
    BY <1>1, <2>1
  <2>3. QED
    BY <2>1, <2>2 DEF IsAppend
<1>4. QED
  BY <1>1, <1>2, <1>3

LEMMA TailOrdered ==
  ASSUME NEW q, NEW r, NEW in, NEW ann, IsTail(r, q), Ordered(q, in, ann)
  PROVE  Ordered(r, in, ann)
<1>1. /\ Len(r) \in Nat /\ Len(q) = Len(r) + 1
      /\ \A i \in 1 .. Len(r) : r[i] = q[i + 1] /\ i + 1 \in 1 .. Len(q)
  BY DEF IsTail, Entries
<1>2. \A i \in 1 .. Len(r) : r[i].kind # "cache" /\ r[i].epoch <= in[r[i].source]
  BY <1>1 DEF Ordered
<1>3. ASSUME NEW i \in 1 .. Len(r), NEW j \in 1 .. i - 1, r[j].source = r[i].source
      PROVE  /\ r[j].epoch <= r[i].epoch
             /\ r[i].kind = "segment" /\ r[j].epoch < r[i].epoch
                => \E k \in j + 1 .. i - 1 : IsInit(r[k], r[i].source, r[i].epoch)
  <2>1. /\ r[i] = q[i + 1] /\ r[j] = q[j + 1] /\ i + 1 \in 1 .. Len(q)
        /\ j + 1 \in 1 .. (i + 1) - 1
    BY <1>1
  <2>2. r[j].epoch <= r[i].epoch
    BY <1>3, <2>1 DEF Ordered
  <2>3. ASSUME r[i].kind = "segment", r[j].epoch < r[i].epoch
        PROVE  \E k \in j + 1 .. i - 1 : IsInit(r[k], r[i].source, r[i].epoch)
    <3>1. PICK k \in (j + 1) + 1 .. (i + 1) - 1 : IsInit(q[k], q[i + 1].source, q[i + 1].epoch)
      BY <1>3, <2>1, <2>3 DEF Ordered
    <3>2. k - 1 \in j + 1 .. i - 1 /\ k - 1 \in 1 .. Len(r) /\ (k - 1) + 1 = k
      BY <1>1, <3>1
    <3>3. r[k - 1] = q[k]
      BY <1>1, <3>2
    <3>4. QED
      BY <2>1, <3>1, <3>2, <3>3
  <2>4. QED
    BY <2>2, <2>3
<1>4. ASSUME NEW j \in 1 .. Len(r), r[j].epoch < in[r[j].source], r[j].source \notin ann
      PROVE  \E k \in j + 1 .. Len(r) : IsInit(r[k], r[j].source, in[r[j].source])
  <2>1. PICK k \in (j + 1) + 1 .. Len(q) : IsInit(q[k], r[j].source, in[r[j].source])
    BY <1>1, <1>4 DEF Ordered
  <2>2. k - 1 \in j + 1 .. Len(r) /\ r[k - 1] = q[k]
    BY <1>1, <2>1
  <2>3. QED
    BY <2>1, <2>2
<1>5. QED
  BY <1>2, <1>3, <1>4 DEF Ordered

(* An entry of the cached init's epoch is added: that init, or a segment   *)
(* when the init is no longer announced.                                   *)
LEMMA AppendOrdered ==
  ASSUME NEW q, NEW r, NEW o, NEW in, NEW ann, NEW ann2,
         IsAppend(r, q, o), Ordered(q, in, ann),
         o.epoch = in[o.source],
         \/ o.kind = "init" /\ ann \ {o.source} \subseteq ann2
         \/ o.kind = "segment" /\ o.source \notin ann /\ ann \subseteq ann2
  PROVE  Ordered(r, in, ann2)
<1>1. /\ Len(q) \in Nat /\ Len(r) = Len(q) + 1 /\ r[Len(r)] = o
      /\ \A i \in 1 .. Len(q) : r[i] = q[i] /\ i \in 1 .. Len(r)
      /\ \A i \in 1 .. Len(r) : i # Len(r) => i \in 1 .. Len(q)
      /\ \A i \in 1 .. Len(r) : \A j \in 1 .. i - 1 : j \in 1 .. Len(q) /\ j # Len(r)
      /\ o.epoch \in Nat
  BY DEF IsAppend, Entries
<1>2. ASSUME NEW i \in 1 .. Len(r)
      PROVE  r[i].kind # "cache" /\ r[i].epoch <= in[r[i].source]
  <2>1. CASE i = Len(r)
    BY <1>1, <2>1
  <2>2. CASE i # Len(r)
    BY <1>1, <2>2 DEF Ordered
  <2>3. QED
    BY <2>1, <2>2
<1>3. ASSUME NEW i \in 1 .. Len(r), NEW j \in 1 .. i - 1, r[j].source = r[i].source
      PROVE  /\ r[j].epoch <= r[i].epoch
             /\ r[i].kind = "segment" /\ r[j].epoch < r[i].epoch
                => \E k \in j + 1 .. i - 1 : IsInit(r[k], r[i].source, r[i].epoch)
  <2>1. j \in 1 .. Len(q) /\ r[j] = q[j]
    BY <1>1
  <2>2. CASE i = Len(r)
    <3>1. r[j].epoch <= r[i].epoch
      BY <1>1, <1>3, <2>1, <2>2 DEF Ordered
    <3>2. ASSUME r[i].kind = "segment", r[j].epoch < r[i].epoch
          PROVE  \E k \in j + 1 .. i - 1 : IsInit(r[k], r[i].source, r[i].epoch)
      <4>1. o.kind = "segment" /\ o.source \notin ann /\ q[j].source = o.source
            /\ q[j].epoch < in[q[j].source]
        BY <1>1, <1>3, <2>1, <2>2, <3>2
      <4>2. PICK k \in j + 1 .. Len(q) : IsInit(q[k], q[j].source, in[q[j].source])
        BY <2>1, <4>1 DEF Ordered
      <4>3. k \in j + 1 .. i - 1 /\ k \in 1 .. Len(q)
        BY <1>1, <2>1, <2>2, <4>2
      <4>4. QED
        BY <1>1, <2>2, <4>1, <4>2, <4>3
    <3>3. QED
      BY <3>1, <3>2
  <2>3. CASE i # Len(r)
    <3>1. i \in 1 .. Len(q) /\ r[i] = q[i]
      BY <1>1, <2>3
    <3>2. r[j].epoch <= r[i].epoch
      BY <1>3, <2>1, <3>1 DEF Ordered
    <3>3. ASSUME r[i].kind = "segment", r[j].epoch < r[i].epoch
          PROVE  \E k \in j + 1 .. i - 1 : IsInit(r[k], r[i].source, r[i].epoch)
      <4>1. PICK k \in j + 1 .. i - 1 : IsInit(q[k], q[i].source, q[i].epoch)
        BY <1>3, <2>1, <3>1, <3>3 DEF Ordered
      <4>2. k \in 1 .. Len(q)
        BY <1>1, <2>1, <3>1, <4>1
      <4>3. QED
        BY <1>1, <3>1, <4>1, <4>2
    <3>4. QED
      BY <3>2, <3>3
  <2>4. QED
    BY <2>2, <2>3
<1>4. ASSUME NEW j \in 1 .. Len(r), r[j].epoch < in[r[j].source], r[j].source \notin ann2
      PROVE  \E k \in j + 1 .. Len(r) : IsInit(r[k], r[j].source, in[r[j].source])
  <2>1. j # Len(r)
    BY <1>1, <1>4
  <2>2. j \in 1 .. Len(q) /\ r[j] = q[j] /\ Len(r) \in j + 1 .. Len(r)
    BY <1>1, <2>1
  <2>3. CASE r[j].source \in ann
    <3>1. o.kind = "init" /\ r[j].source = o.source
      BY <1>4, <2>3
    <3>2. IsInit(r[Len(r)], r[j].source, in[r[j].source])
      BY <1>1, <3>1 DEF IsInit
    <3>3. QED
      BY <2>2, <3>2
  <2>4. CASE r[j].source \notin ann
    <3>1. PICK k \in j + 1 .. Len(q) : IsInit(q[k], q[j].source, in[q[j].source])
      BY <1>4, <2>2, <2>4 DEF Ordered
    <3>2. k \in j + 1 .. Len(r) /\ k \in 1 .. Len(q)
      BY <1>1, <2>2, <3>1
    <3>3. QED
      BY <1>1, <2>2, <3>1, <3>2
  <2>5. QED
    BY <2>3, <2>4
<1>5. QED
  BY <1>2, <1>3, <1>4 DEF Ordered

(* A newer init is cached, and announced.                                  *)
LEMMA CacheOrdered ==
  ASSUME NEW q, Entries(q), NEW in, in \in [Sources -> Nat], NEW s \in Sources, NEW e \in Nat,
         in[s] <= e, NEW ann, Ordered(q, in, ann)
  PROVE  Ordered(q, [in EXCEPT ![s] = e], ann \cup {s})
<1> DEFINE in2 == [in EXCEPT ![s] = e]
<1>1. in2[s] = e /\ \A t \in Sources : t # s => in2[t] = in[t]
  OBVIOUS
<1> HIDE DEF in2
<1>2. ASSUME NEW i \in 1 .. Len(q)
      PROVE  q[i].kind # "cache" /\ q[i].epoch <= in2[q[i].source]
  <2>1. q[i].kind # "cache" /\ q[i].epoch <= in[q[i].source]
    BY DEF Ordered
  <2>2. q[i].epoch \in Nat /\ q[i].source \in Sources
    BY DEF Entries
  <2>3. in[q[i].source] \in Nat
    BY <2>2
  <2>4. QED
    BY <1>1, <2>1, <2>2, <2>3
<1>3. ASSUME NEW j \in 1 .. Len(q), q[j].epoch < in2[q[j].source], q[j].source \notin ann \cup {s}
      PROVE  \E k \in j + 1 .. Len(q) : IsInit(q[k], q[j].source, in2[q[j].source])
  <2>1. q[j].source \in Sources /\ q[j].source # s
    BY <1>3 DEF Entries
  <2>2. in2[q[j].source] = in[q[j].source]
    BY <1>1, <2>1
  <2>3. QED
    BY <1>3, <2>2 DEF Ordered
<1>4. Ordered(q, in2, ann \cup {s})
  BY <1>2, <1>3 DEF Ordered
<1>5. QED
  BY <1>4 DEF in2

-------------------------------------------------------------------------------
(* What the session counts on.                                             *)

(* The oldest entry is lost, which the session learns first.               *)
LEMMA LossFollows ==
  ASSUME NEW s, NEW q, NEW r, NEW in, NEW ann, NEW ann2, NEW pl, NEW sh, NEW counts,
         IsTail(r, q), Follows(s, q, in, ann, pl, sh, counts)
  PROVE  Follows(s, r, in, ann2, pl, sh, FALSE)
<1>1. \A i \in 1 .. Len(r) : r[i] = q[i + 1] /\ i + 1 \in 1 .. Len(q)
  BY DEF IsTail, Entries
<1>2. QED
  BY <1>1 DEF Follows

LEMMA AppendFollows ==
  ASSUME NEW s \in Sources, NEW q, NEW r, NEW o, NEW in, in \in [Sources -> Nat], NEW ann, NEW ann2,
         NEW pl, NEW sh, NEW counts,
         IsAppend(r, q, o), Follows(s, q, in, ann, pl, sh, counts),
         o.epoch = in[o.source],
         \/ o.kind = "init" /\ ann \ {o.source} \subseteq ann2
         \/ o.kind = "segment" /\ o.source \notin ann /\ ann \subseteq ann2
  PROVE  Follows(s, r, in, ann2, pl, sh, counts)
<1>1. /\ Len(q) \in Nat /\ Len(r) = Len(q) + 1 /\ r[Len(r)] = o
      /\ \A i \in 1 .. Len(q) : r[i] = q[i] /\ i \in 1 .. Len(r)
      /\ \A i \in 1 .. Len(r) : i # Len(r) => i \in 1 .. Len(q)
      /\ Len(r) \in 1 .. Len(r) /\ Len(r) - 1 = Len(q)
  BY DEF IsAppend, Entries
<1>2. pl <= sh /\ pl <= in[s]
  BY DEF Follows
<1>3. ASSUME NEW i \in 1 .. Len(r), r[i].source = s PROVE pl <= r[i].epoch
  <2>1. CASE i = Len(r)
    BY <1>1, <1>2, <1>3, <2>1
  <2>2. CASE i # Len(r)
    BY <1>1, <1>3, <2>2 DEF Follows
  <2>3. QED
    BY <2>1, <2>2
<1>4. ASSUME counts, sh < in[s], s \notin ann2
      PROVE  \E k \in 1 .. Len(r) : IsInit(r[k], s, in[s])
  <2>1. CASE s \in ann
    <3>1. o.kind = "init" /\ o.source = s
      BY <1>4, <2>1
    <3>2. IsInit(r[Len(r)], s, in[s])
      BY <1>1, <3>1 DEF IsInit
    <3>3. QED
      BY <1>1, <3>2
  <2>2. CASE s \notin ann
    <3>1. PICK k \in 1 .. Len(q) : IsInit(q[k], s, in[s])
      BY <1>4, <2>2 DEF Follows
    <3>2. QED
      BY <1>1, <3>1
  <2>3. QED
    BY <2>1, <2>2
<1>5. ASSUME counts, NEW i \in 1 .. Len(r), r[i].source = s, r[i].kind = "segment",
             sh < r[i].epoch
      PROVE  \E k \in 1 .. i - 1 : IsInit(r[k], s, r[i].epoch)
  <2>1. CASE i = Len(r)
    <3>1. o.kind = "segment" /\ o.source = s /\ s \notin ann /\ r[i].epoch = in[s]
      BY <1>1, <1>5, <2>1
    <3>2. PICK k \in 1 .. Len(q) : IsInit(q[k], s, in[s])
      BY <1>5, <3>1 DEF Follows
    <3>3. QED
      BY <1>1, <2>1, <3>1, <3>2
  <2>2. CASE i # Len(r)
    <3>1. i \in 1 .. Len(q) /\ r[i] = q[i]
      BY <1>1, <2>2
    <3>2. PICK k \in 1 .. i - 1 : IsInit(q[k], s, q[i].epoch)
      BY <1>5, <3>1 DEF Follows
    <3>3. k \in 1 .. Len(q)
      BY <1>1, <3>1, <3>2
    <3>4. QED
      BY <1>1, <3>1, <3>2, <3>3
  <2>3. QED
    BY <2>1, <2>2
<1>6. QED
  BY <1>2, <1>3, <1>4, <1>5 DEF Follows

LEMMA CacheFollows ==
  ASSUME NEW t \in Sources, NEW q, NEW in, in \in [Sources -> Nat], NEW s \in Sources,
         NEW e \in Nat, in[s] <= e, NEW ann, NEW pl \in Nat, NEW sh, NEW counts,
         Follows(t, q, in, ann, pl, sh, counts)
  PROVE  Follows(t, q, [in EXCEPT ![s] = e], ann \cup {s}, pl, sh, counts)
<1> DEFINE in2 == [in EXCEPT ![s] = e]
<1>1. in2[s] = e /\ \A u \in Sources : u # s => in2[u] = in[u]
  OBVIOUS
<1> HIDE DEF in2
<1>2. pl <= in[t] /\ in[t] \in Nat /\ in[s] \in Nat
  BY DEF Follows
<1>3. pl <= in2[t]
  BY <1>1, <1>2
<1>4. t # s => in2[t] = in[t]
  BY <1>1
<1>5. Follows(t, q, in2, ann \cup {s}, pl, sh, counts)
  BY <1>3, <1>4 DEF Follows
<1>6. QED
  BY <1>5 DEF in2

(* The session takes the oldest entry, which is not of its source s.       *)
LEMMA OtherFollows ==
  ASSUME NEW s, NEW q, NEW r, NEW in, NEW ann, NEW pl, NEW sh, NEW counts,
         IsTail(r, q), Follows(s, q, in, ann, pl, sh, counts), q[1].source # s
  PROVE  Follows(s, r, in, ann, pl, sh, counts)
<1>1. /\ Len(r) \in Nat /\ Len(q) = Len(r) + 1
      /\ \A i \in 1 .. Len(r) : r[i] = q[i + 1] /\ i + 1 \in 1 .. Len(q)
  BY DEF IsTail, Entries
<1>2. ASSUME NEW k \in 1 .. Len(q), NEW e, IsInit(q[k], s, e)
      PROVE  k - 1 \in 1 .. Len(r) /\ IsInit(r[k - 1], s, e)
  <2>1. k # 1
    BY <1>2 DEF IsInit
  <2>2. k - 1 \in 1 .. Len(r) /\ (k - 1) + 1 = k
    BY <1>1, <2>1
  <2>3. QED
    BY <1>1, <1>2, <2>2
<1>3. ASSUME counts, sh < in[s], s \notin ann
      PROVE  \E k \in 1 .. Len(r) : IsInit(r[k], s, in[s])
  <2>1. PICK k \in 1 .. Len(q) : IsInit(q[k], s, in[s])
    BY <1>3 DEF Follows
  <2>2. QED
    BY <1>2, <2>1
<1>4. ASSUME counts, NEW i \in 1 .. Len(r), r[i].source = s, r[i].kind = "segment",
             sh < r[i].epoch
      PROVE  \E k \in 1 .. i - 1 : IsInit(r[k], s, r[i].epoch)
  <2>1. r[i] = q[i + 1] /\ i + 1 \in 1 .. Len(q)
    BY <1>1
  <2>2. PICK k \in 1 .. (i + 1) - 1 : IsInit(q[k], s, q[i + 1].epoch)
    BY <1>4, <2>1 DEF Follows
  <2>3. k \in 1 .. Len(q)
    BY <1>1, <2>2
  <2>4. k - 1 \in 1 .. Len(r) /\ IsInit(r[k - 1], s, r[i].epoch)
    BY <1>2, <2>1, <2>2, <2>3
  <2>5. k - 1 \in 1 .. i - 1
    BY <2>2, <2>4
  <2>6. QED
    BY <2>4, <2>5
<1>5. QED
  BY <1>1, <1>3, <1>4 DEF Follows

(* It takes an init: what is newer comes after its own.                    *)
LEMMA InitTakenFollows ==
  ASSUME NEW s, NEW q, NEW r, NEW in, NEW ann, NEW pl, NEW sh, NEW counts,
         IsTail(r, q), Ordered(q, in, ann), Follows(s, q, in, ann, pl, sh, counts),
         q[1].source = s
  PROVE  Follows(s, r, in, ann, pl, q[1].epoch, TRUE)
<1>1. /\ Len(r) \in Nat /\ Len(q) = Len(r) + 1 /\ 1 \in 1 .. Len(q)
      /\ \A i \in 1 .. Len(r) : r[i] = q[i + 1] /\ i + 1 \in 1 .. Len(q)
      /\ \A i \in 1 .. Len(r) : 1 \in 1 .. (i + 1) - 1
  BY DEF IsTail, Entries
<1>2. pl <= q[1].epoch /\ pl <= in[s] /\ \A i \in 1 .. Len(r) : r[i].source = s => pl <= r[i].epoch
  BY <1>1 DEF Follows
<1>3. ASSUME NEW k \in 2 .. Len(q)
      PROVE  k - 1 \in 1 .. Len(r) /\ r[k - 1] = q[k]
  <2>1. k - 1 \in 1 .. Len(r) /\ (k - 1) + 1 = k
    BY <1>1
  <2>2. QED
    BY <1>1, <2>1
<1>4. ASSUME q[1].epoch < in[s], s \notin ann
      PROVE  \E k \in 1 .. Len(r) : IsInit(r[k], s, in[s])
  <2>1. PICK k \in 1 + 1 .. Len(q) : IsInit(q[k], s, in[s])
    BY <1>1, <1>4 DEF Ordered
  <2>2. k \in 2 .. Len(q)
    BY <2>1
  <2>3. QED
    BY <1>3, <2>1, <2>2
<1>5. ASSUME NEW i \in 1 .. Len(r), r[i].source = s, r[i].kind = "segment",
             q[1].epoch < r[i].epoch
      PROVE  \E k \in 1 .. i - 1 : IsInit(r[k], s, r[i].epoch)
  <2>1. r[i] = q[i + 1] /\ i + 1 \in 1 .. Len(q) /\ 1 \in 1 .. (i + 1) - 1
    BY <1>1
  <2>2. PICK k \in 1 + 1 .. (i + 1) - 1 : IsInit(q[k], s, q[i + 1].epoch)
    BY <1>5, <2>1 DEF Ordered
  <2>3. k \in 2 .. Len(q) /\ k - 1 \in 1 .. i - 1
    BY <1>1, <2>2
  <2>4. r[k - 1] = q[k]
    BY <1>3, <2>3
  <2>5. QED
    BY <2>1, <2>2, <2>3, <2>4
<1>6. QED
  BY <1>2, <1>4, <1>5 DEF Follows

(* It takes a segment and counts on an init.                               *)
LEMMA SegmentTakenFollows ==
  ASSUME NEW s, NEW q, NEW r, NEW in, NEW ann, NEW pl, NEW sh,
         IsTail(r, q), Ordered(q, in, ann), Follows(s, q, in, ann, pl, sh, TRUE),
         q[1].source = s, q[1].kind = "segment", sh \in Nat
  PROVE  Follows(s, r, in, ann, q[1].epoch, sh, TRUE)
<1>1. /\ Len(r) \in Nat /\ Len(q) = Len(r) + 1 /\ 1 \in 1 .. Len(q)
      /\ \A i \in 1 .. Len(r) : r[i] = q[i + 1] /\ i + 1 \in 1 .. Len(q)
      /\ \A i \in 1 .. Len(r) : 1 \in 1 .. (i + 1) - 1
      /\ q[1].epoch \in Nat
  BY DEF IsTail, Entries
<1>2. q[1].epoch <= sh
  <2>1. ~ \E k \in 1 .. 1 - 1 : IsInit(q[k], s, q[1].epoch)
    OBVIOUS
  <2>2. ~(sh < q[1].epoch)
    BY <1>1, <2>1 DEF Follows
  <2>3. QED
    BY <1>1, <2>2
<1>3. /\ q[1].epoch <= in[s]
      /\ \A i \in 1 .. Len(r) : r[i].source = s => q[1].epoch <= r[i].epoch
  BY <1>1 DEF Ordered
<1>4. ASSUME NEW k \in 1 .. Len(q), NEW e, IsInit(q[k], s, e)
      PROVE  k - 1 \in 1 .. Len(r) /\ IsInit(r[k - 1], s, e)
  <2>1. k # 1
    BY <1>4 DEF IsInit
  <2>2. k - 1 \in 1 .. Len(r) /\ (k - 1) + 1 = k
    BY <1>1, <2>1
  <2>3. QED
    BY <1>1, <1>4, <2>2
<1>5. ASSUME sh < in[s], s \notin ann
      PROVE  \E k \in 1 .. Len(r) : IsInit(r[k], s, in[s])
  <2>1. PICK k \in 1 .. Len(q) : IsInit(q[k], s, in[s])
    BY <1>5 DEF Follows
  <2>2. QED
    BY <1>4, <2>1
<1>6. ASSUME NEW i \in 1 .. Len(r), r[i].source = s, r[i].kind = "segment", sh < r[i].epoch
      PROVE  \E k \in 1 .. i - 1 : IsInit(r[k], s, r[i].epoch)
  <2>1. r[i] = q[i + 1] /\ i + 1 \in 1 .. Len(q)
    BY <1>1
  <2>2. PICK k \in 1 .. (i + 1) - 1 : IsInit(q[k], s, q[i + 1].epoch)
    BY <1>6, <2>1 DEF Follows
  <2>3. k \in 1 .. Len(q)
    BY <1>1, <2>2
  <2>4. k - 1 \in 1 .. Len(r) /\ IsInit(r[k - 1], s, r[i].epoch)
    BY <1>4, <2>1, <2>2, <2>3
  <2>5. k - 1 \in 1 .. i - 1
    BY <2>2, <2>4
  <2>6. QED
    BY <2>4, <2>5
<1>7. QED
  BY <1>2, <1>3, <1>5, <1>6 DEF Follows

(* It takes a segment after it was given the cached init.                  *)
LEMMA CachedTakenFollows ==
  ASSUME NEW s, NEW q, NEW r, NEW in, NEW ann,
         IsTail(r, q), Ordered(q, in, ann), q[1].source = s, in[s] \in Nat
  PROVE  Follows(s, r, in, ann, q[1].epoch, in[s], TRUE)
<1>1. /\ Len(r) \in Nat /\ Len(q) = Len(r) + 1 /\ 1 \in 1 .. Len(q)
      /\ \A i \in 1 .. Len(r) : r[i] = q[i + 1] /\ i + 1 \in 1 .. Len(q)
      /\ \A i \in 1 .. Len(r) : 1 \in 1 .. (i + 1) - 1
      /\ \A i \in 1 .. Len(r) : r[i].epoch \in Nat
  BY DEF IsTail, Entries
<1>2. /\ q[1].epoch <= in[s]
      /\ \A i \in 1 .. Len(r) : r[i].source = s => q[1].epoch <= r[i].epoch
      /\ \A i \in 1 .. Len(r) : r[i].source = s => r[i].epoch <= in[s]
  BY <1>1 DEF Ordered
<1>3. ~(in[s] < in[s]) /\ \A i \in 1 .. Len(r) : r[i].source = s => ~(in[s] < r[i].epoch)
  BY <1>1, <1>2
<1>4. QED
  BY <1>2, <1>3 DEF Follows

-------------------------------------------------------------------------------
(* The invariant of the view.                                              *)

(* What run has still to hand on is of one process: an init to cache and   *)
(* to send, and a segment.                                                 *)
Handing(res, in) ==
  res # <<>> =>
    /\ res[1].kind = "cache" =>
         in[res[1].source] <= res[1].epoch /\ Len(res) >= 2 /\ res[2].kind = "init"
    /\ res[1].kind # "cache" => res[1].epoch = in[res[1].source]
    /\ \A i \in 2 .. Len(res) :
         /\ res[i].source = res[1].source /\ res[i].epoch = res[1].epoch
         /\ res[i].kind # "cache"

CacheDue(s) == result # <<>> /\ Head(result).kind = "cache" /\ Head(result).source = s

InitsFollow(s) ==
  /\ inits[s] <= muxer[s].epoch
  /\ muxer[s].initSent => inits[s] = muxer[s].epoch \/ CacheDue(s)
  /\ CacheDue(s) => Head(result).epoch = muxer[s].epoch

Counts(s) == s \in initSent /\ ~lagged

SessionForm ==
  /\ session = "off" => queue = <<>>
  /\ session # "on" => initSent = {} /\ \A s \in Sources : played[s] = 0

StreamInv ==
  /\ Handing(result, inits)
  /\ \A s \in Sources : InitsFollow(s)
  /\ SessionForm
  /\ Ordered(queue, inits, Announced)
  /\ \A s \in Sources :
       Follows(s, queue, inits, Announced, played[s], shown[s], Counts(s))

LEMMA EmptyFollows ==
  ASSUME NEW in, NEW ann
  PROVE  /\ Ordered(<<>>, in, ann)
         /\ \A s : \A pl, sh : pl <= sh /\ pl <= in[s] => Follows(s, <<>>, in, ann, pl, sh, FALSE)
<1>1. \A i \in 1 .. Len(<<>>) : FALSE
  OBVIOUS
<1>2. Ordered(<<>>, in, ann)
  BY <1>1 DEF Ordered
<1>3. \A s : \A pl, sh : pl <= sh /\ pl <= in[s] => Follows(s, <<>>, in, ann, pl, sh, FALSE)
  BY <1>1 DEF Follows
<1>4. QED
  BY <1>2, <1>3

LEMMA EpochsAreNat ==
  ASSUME FeedInv
  PROVE  /\ inits \in [Sources -> Nat] /\ shown \in [Sources -> Nat]
         /\ played \in [Sources -> Nat]
         /\ queue \in Seq(Output) /\ result \in Seq(Output)
         /\ \A s \in Sources : muxer[s] \in Muxers /\ muxer[s].epoch \in Nat
         /\ result # <<>> => /\ Head(result) = result[1] /\ result[1] \in Output
                             /\ result[1].source \in Sources /\ result[1].epoch \in Nat
<1>1. FeedTyped /\ ViewTyped
  BY FeedInvParts
<1>2. Epochs \subseteq Nat
  BY DEF Epochs
<1>3. /\ inits \in [Sources -> Nat] /\ shown \in [Sources -> Nat]
      /\ played \in [Sources -> Nat]
      /\ queue \in Seq(Output) /\ result \in Seq(Output)
  BY <1>1, <1>2 DEF ViewTyped
<1>4. \A s \in Sources : muxer[s] \in Muxers /\ muxer[s].epoch \in Nat
  BY <1>1, <1>2 DEF FeedTyped, Muxers
<1>5. ASSUME result # <<>>
      PROVE  /\ Head(result) = result[1] /\ result[1] \in Output
             /\ result[1].source \in Sources /\ result[1].epoch \in Nat
  <2>1. Head(result) = result[1] /\ Head(result) \in Output
    BY <1>3, <1>5, OutputEntries, HeadTailProperties
  <2>2. QED
    BY <1>2, <2>1 DEF Output
<1>6. QED
  BY <1>3, <1>4, <1>5

(* Steps that leave queue, caches and session alone, and with them what    *)
(* run has to hand on, if it has anything.                                 *)
LEMMA StreamStays ==
  ASSUME StreamInv,
         UNCHANGED <<inits, session, queue, lagged, initSent, shown, played>>,
         \/ result' = result
         \/ result = <<>> /\ Announced' = {},
         Handing(result', inits), \A s \in Sources : InitsFollow(s)'
  PROVE  StreamInv'
<1>1. Announced' = Announced
  <2>1. result' = result => Announced' = Announced
    BY DEF Announced
  <2>2. result = <<>> => Announced = {}
    BY DEF Announced
  <2>3. QED
    BY <2>1, <2>2
<1>2. SessionForm'
  BY DEF StreamInv, SessionForm
<1>3. Ordered(queue', inits', Announced')
  BY <1>1 DEF StreamInv
<1>4. ASSUME NEW s \in Sources
      PROVE  Follows(s, queue', inits', Announced', played'[s], shown'[s], Counts(s)')
  <2>1. Counts(s)' = Counts(s)
    BY DEF Counts
  <2>2. Follows(s, queue, inits, Announced, played[s], shown[s], Counts(s))
    BY DEF StreamInv
  <2>3. QED
    BY <1>1, <2>1, <2>2
<1>5. Handing(result', inits')
  OBVIOUS
<1>6. QED
  BY <1>2, <1>3, <1>4, <1>5 DEF StreamInv

LEMMA FeedStepStream ==
  ASSUME FeedInv, StreamInv,
         PublishSome \/ Lagged \/ \E s \in Sources : Write(s) \/ Crash(s)
  PROVE  StreamInv'
<1>1. UNCHANGED <<result, inits, session, queue, lagged, initSent, shown, played>>
  BY DEF PublishSome, Lagged, Write, Crash, viewer, channel
<1>2. ASSUME NEW s \in Sources
      PROVE  /\ muxer'[s].epoch = muxer[s].epoch
             /\ muxer'[s].initSent => muxer[s].initSent
  <2>1. FeedTyped /\ \A t \in Sources : Sound(muxer[t], faults, missed, gap[t])
    BY FeedInvParts
  <2>2. muxer[s] \in Muxers
    BY <2>1 DEF FeedTyped
  <2>3. CASE PublishSome
    BY <2>3 DEF PublishSome
  <2>4. CASE Lagged
    <3>1. muxer'[s] = Reset(muxer[s])
      BY <2>4 DEF Lagged, ResetAll
    <3>2. QED
      BY <2>2, <3>1, ResetIsMuxer
  <2>5. ASSUME NEW t \in Sources, Write(t) \/ Crash(t)
        PROVE  /\ muxer'[s].epoch = muxer[s].epoch
               /\ muxer'[s].initSent => muxer[s].initSent
    <3>1. CASE Write(t)
      <4> DEFINE m == muxer[t]
                 n == [m EXCEPT !.unread = Append(m.unread, m.writing),
                                !.writing = NextBox[m.writing], !.fed = m.writing # "media"]
      <4>1. muxer' = [muxer EXCEPT ![t] = n]
        <5>1. muxer' = [muxer EXCEPT
                ![t].unread = Append(@, m.writing), ![t].writing = NextBox[@],
                ![t].fed = m.writing # "media"]
          BY <3>1 DEF Write
        <5>2. QED
          BY <2>1, <5>1 DEF FeedTyped
      <4>2. m \in Muxers /\ BoxesInOrder(m)
        BY <2>1 DEF Sound
      <4>3. n.epoch = m.epoch /\ n.initSent = m.initSent
        BY <4>2, WrittenIsMuxer
      <4> HIDE DEF n
      <4>4. muxer'[t] = n /\ (s # t => muxer'[s] = muxer[s])
        BY <2>1, <4>1 DEF FeedTyped
      <4>5. QED
        BY <4>3, <4>4
    <3>2. CASE Crash(t)
      <4>1. muxer' = [muxer EXCEPT ![t].proc = "exited"]
        BY <3>2 DEF Crash
      <4>2. muxer[t] \in Muxers
        BY <2>1 DEF FeedTyped
      <4>3. /\ muxer'[t] = [muxer[t] EXCEPT !.proc = "exited"]
            /\ s # t => muxer'[s] = muxer[s]
        BY <2>1, <4>1 DEF FeedTyped
      <4>4. QED
        BY <4>2, <4>3 DEF Muxers
    <3>3. QED
      BY <2>5, <3>1, <3>2
  <2>6. QED
    BY <2>3, <2>4, <2>5
<1>3. ASSUME NEW s \in Sources PROVE InitsFollow(s)'
  <2>1. CacheDue(s)' <=> CacheDue(s)
    BY <1>1 DEF CacheDue
  <2>2. InitsFollow(s)
    BY DEF StreamInv
  <2>3. QED
    BY <1>1, <1>2, <2>1, <2>2 DEF InitsFollow
<1>4. Handing(result', inits)
  BY <1>1 DEF StreamInv
<1>5. QED
  BY <1>1, <1>3, <1>4, StreamStays

(* What a frame gives fits the cached init, or brings one.                 *)
LEMMA GivenHands ==
  ASSUME NEW s \in Sources, NEW m \in Muxers, NEW o, Given(s, m, o),
         NEW in, in \in [Sources -> Nat], in[s] <= m.epoch,
         m.initSent => in[s] = m.epoch
  PROVE  /\ Handing(o, in)
         /\ o # <<>> => /\ o[1].kind # "init" /\ o[1].source = s /\ o[1].epoch = m.epoch
                        /\ Head(o) = o[1]
                        /\ o[1].kind = "cache" <=> ~m.initSent
         /\ o = <<>> /\ ~m.initSent => ~Read(m).initSent
<1> DEFINE c == Out("cache", s, m)
           i == Out("init", s, m)
           g == Out("segment", s, m)
<1>1. /\ c.kind = "cache" /\ c.source = s /\ c.epoch = m.epoch
      /\ i.kind = "init" /\ i.source = s /\ i.epoch = m.epoch
      /\ g.kind = "segment" /\ g.source = s /\ g.epoch = m.epoch
  BY DEF Out
<1>2. /\ m.initSent => o \in {<<>>, <<g>>}
      /\ ~m.initSent /\ Read(m).initSent => o \in {<<c, i>>, <<c, i, g>>}
      /\ ~m.initSent /\ ~Read(m).initSent => o = <<>>
      /\ m.initSent \in BOOLEAN
  BY DEF Given, Muxers
<1> HIDE DEF c, i, g
<1>3. CASE o = <<>>
  <2>1. ~(m.initSent = FALSE /\ Read(m).initSent)
    BY <1>2, <1>3
  <2>2. QED
    BY <1>3, <2>1 DEF Handing
<1>4. CASE o = <<g>> /\ m.initSent
  <2>1. Len(o) = 1 /\ o[1] = g /\ o # <<>> /\ Head(o) = g
    BY <1>4
  <2>2. Handing(o, in)
    BY <1>1, <1>4, <2>1 DEF Handing
  <2>3. QED
    BY <1>1, <1>4, <2>1, <2>2
<1>5. CASE o = <<c, i>> /\ ~m.initSent
  <2>1. Len(o) = 2 /\ o[1] = c /\ o[2] = i /\ o # <<>> /\ Head(o) = c
    BY <1>5
  <2>2. Handing(o, in)
    BY <1>1, <2>1 DEF Handing
  <2>3. QED
    BY <1>1, <1>5, <2>1, <2>2
<1>6. CASE o = <<c, i, g>> /\ ~m.initSent
  <2>1. Len(o) = 3 /\ o[1] = c /\ o[2] = i /\ o[3] = g /\ o # <<>> /\ Head(o) = c
    BY <1>6
  <2>2. Handing(o, in)
    BY <1>1, <2>1 DEF Handing
  <2>3. QED
    BY <1>1, <1>6, <2>1, <2>2
<1>7. QED
  BY <1>2, <1>3, <1>4, <1>5, <1>6

LEMMA MuxFrameStream ==
  ASSUME FeedInv, StreamInv, MuxFrame PROVE StreamInv'
<1> DEFINE f == Head(input)
           s == f.source
           m == muxer[s]
<1>1. /\ FeedTyped /\ \A t \in Sources : Sound(muxer[t], faults, missed, gap[t])
  BY FeedInvParts
<1>2. /\ result = <<>> /\ input # <<>>
      /\ UNCHANGED <<inits, session, queue, lagged, initSent, shown, played>>
  BY DEF MuxFrame, viewer, channel
<1>3. s \in Sources
  <2>1. f \in Frames
    BY <1>1, <1>2, HeadTailProperties DEF FeedTyped
  <2>2. QED
    BY <2>1 DEF Frames
<1>4. \/ FindExited(s, m, f) \/ Skip(s, m, f) \/ StartFails(s, m, f) \/ Feed(s, m, f)
  BY DEF MuxFrame
<1> HIDE DEF f, s
<1>5. /\ m \in Muxers /\ m.epoch \in Nat /\ Sound(m, faults, missed, gap[s])
      /\ inits \in [Sources -> Nat] /\ inits[s] \in Nat
      /\ inits[s] <= m.epoch /\ (m.initSent => inits[s] = m.epoch)
      /\ \A t \in Sources : ~CacheDue(t)
  <2>1. \A t \in Sources : ~CacheDue(t)
    BY <1>2 DEF CacheDue
  <2>2. InitsFollow(s)
    BY <1>3 DEF StreamInv
  <2>3. QED
    BY <1>1, <1>3, <2>1, <2>2, EpochsAreNat DEF InitsFollow
<1>6. ASSUME NEW n, muxer' = [muxer EXCEPT ![s] = n], result' = <<>>,
             n.epoch \in Nat, n.epoch >= m.epoch, n.initSent => n.epoch = m.epoch /\ m.initSent
      PROVE  StreamInv'
  <2>1. Announced' = {} /\ \A t \in Sources : ~CacheDue(t)'
    BY <1>6 DEF Announced, CacheDue
  <2>2. Handing(result', inits)
    BY <1>6 DEF Handing
  <2>3. ASSUME NEW t \in Sources PROVE InitsFollow(t)'
    <3>1. InitsFollow(t)
      BY DEF StreamInv
    <3>2. CASE t = s
      <4>1. muxer'[t] = n
        BY <1>1, <1>6, <3>2 DEF FeedTyped
      <4>2. inits[s] <= n.epoch
        BY <1>5, <1>6
      <4>3. QED
        BY <1>2, <1>5, <1>6, <2>1, <3>2, <4>1, <4>2 DEF InitsFollow
    <3>3. CASE t # s
      <4>1. muxer'[t] = muxer[t]
        BY <1>1, <1>6, <3>3 DEF FeedTyped
      <4>2. QED
        BY <1>2, <1>5, <2>1, <3>1, <4>1 DEF InitsFollow
    <3>4. QED
      BY <3>2, <3>3
  <2>4. QED
    BY <1>2, <2>1, <2>2, <2>3, StreamStays
<1>7. CASE FindExited(s, m, f)
  <2>1. muxer' = [muxer EXCEPT ![s] = Reset(m)] /\ result' = <<>>
    BY <1>2, <1>7 DEF FindExited
  <2> DEFINE n == Reset(m)
  <2>2. n.epoch = m.epoch /\ ~n.initSent
    BY <1>5, ResetIsMuxer
  <2> HIDE DEF n
  <2>3. n.epoch \in Nat /\ n.epoch >= m.epoch
    BY <1>5, <2>2
  <2>4. QED
    BY <1>6, <2>1, <2>2, <2>3 DEF n
<1>8. CASE Skip(s, m, f)
  <2>1. muxer' = [muxer EXCEPT ![s] = m] /\ result' = <<>>
    BY <1>1, <1>2, <1>3, <1>8 DEF Skip, FeedTyped
  <2>2. m.epoch >= m.epoch
    BY <1>5
  <2>3. QED
    BY <1>5, <1>6, <2>1, <2>2
<1>9. CASE StartFails(s, m, f)
  <2> DEFINE n == [m EXCEPT !.needsKeyframe = FALSE]
  <2>1. muxer' = [muxer EXCEPT ![s] = n] /\ result' = <<>>
    <3>1. muxer' = [muxer EXCEPT ![s].needsKeyframe = FALSE]
      BY <1>9 DEF StartFails
    <3>2. QED
      BY <1>1, <1>2, <1>3, <1>9, <3>1 DEF StartFails, FeedTyped
  <2>2. n.epoch = m.epoch /\ n.initSent = m.initSent
    BY <1>5 DEF Muxers
  <2> HIDE DEF n
  <2>3. n.epoch \in Nat /\ n.epoch >= m.epoch /\ (n.initSent => n.epoch = m.epoch /\ m.initSent)
    BY <1>5, <2>2
  <2>4. QED
    BY <1>6, <2>1, <2>3
<1>10. CASE Feed(s, m, f)
  <2> DEFINE h == Handed(m)
  <2>1. /\ m.proc # "exited"
        /\ \/ muxer' = [muxer EXCEPT ![s] = Read(h)] /\ result' = Produced(s, h)
           \/ /\ muxer' = [muxer EXCEPT ![s] = Reset(h)]
              /\ result' \in {<<>>} \cup (IF h.initSent THEN {Produced(s, h)} ELSE {})
    BY <1>10 DEF Feed, Handed
  <2>2. m.proc = "none" => m.epoch + 1 \in Epochs
    BY <1>1, <1>5, Bounds DEF Sound, Epochs, FeedTyped
  <2>3. /\ h \in Muxers /\ BoxesInOrder(h)
        /\ h.epoch = IF m.proc = "none" THEN m.epoch + 1 ELSE m.epoch
        /\ h.initSent => m.initSent /\ h.epoch = m.epoch
    BY <1>5, <2>1, <2>2, HandedIsMuxer DEF Sound
  <2> HIDE DEF h
  <2>4. /\ h.epoch \in Nat /\ h.epoch >= m.epoch /\ inits[s] <= h.epoch
        /\ h.initSent => inits[s] = h.epoch
    BY <1>5, <2>3
  <2>5. /\ Read(h).epoch = h.epoch /\ (h.initSent => Read(h).initSent)
        /\ Reset(h).epoch = h.epoch /\ ~Reset(h).initSent
    BY <2>3, ReadIsMuxer, ResetIsMuxer
  <2> DEFINE o == Produced(s, h)
  <2>6. /\ Handing(o, inits)
        /\ o # <<>> => /\ o[1].kind # "init" /\ o[1].source = s /\ o[1].epoch = h.epoch
                       /\ Head(o) = o[1]
                       /\ o[1].kind = "cache" <=> ~h.initSent
        /\ o = <<>> /\ ~h.initSent => ~Read(h).initSent
    <3>1. Given(s, h, o)
      BY <1>3, <2>3, ProducedIsGiven
    <3>2. QED
      BY <1>3, <1>5, <2>3, <2>4, <3>1, GivenHands
  <2> HIDE DEF o
  <2>7. CASE result' = <<>>
    <3>1. PICK n \in {Read(h), Reset(h)} :
            muxer' = [muxer EXCEPT ![s] = n] /\ (n.initSent => h.initSent)
      <4>1. CASE muxer' = [muxer EXCEPT ![s] = Read(h)] /\ result' = o
        BY <2>6, <2>7, <4>1
      <4>2. CASE muxer' = [muxer EXCEPT ![s] = Reset(h)]
        BY <2>5, <4>2
      <4>3. QED
        BY <2>1, <4>1, <4>2 DEF o
    <3>2. n.epoch = h.epoch
      BY <2>5, <3>1
    <3>3. n.initSent => n.epoch = m.epoch /\ m.initSent
      BY <2>3, <3>1, <3>2
    <3>4. QED
      BY <1>6, <2>4, <2>7, <3>1, <3>2, <3>3
  <2>8. CASE result' # <<>>
    <3>1. result' = o /\ o # <<>>
      BY <2>1, <2>8 DEF o
    <3>2. PICK n \in {Read(h), Reset(h)} :
            muxer' = [muxer EXCEPT ![s] = n] /\ (~h.initSent => n = Read(h))
      BY <2>1, <2>8
    <3>3. n.epoch = h.epoch
      BY <2>5, <3>2
    <3>4. /\ Announced' = {}
          /\ \A t \in Sources : CacheDue(t)' <=> t = s /\ ~h.initSent
          /\ Head(result').epoch = h.epoch
      <4>1. /\ o[1].kind # "init" /\ o[1].source = s /\ o[1].epoch = h.epoch
            /\ Head(o) = o[1] /\ (o[1].kind = "cache" <=> ~h.initSent)
        BY <2>6, <3>1
      <4>2. Announced' = {}
        BY <3>1, <4>1 DEF Announced
      <4>3. \A t \in Sources : CacheDue(t)' <=> t = s /\ ~h.initSent
        <5>1. ASSUME NEW t \in Sources
              PROVE  CacheDue(t)' <=> o # <<>> /\ Head(o).kind = "cache" /\ Head(o).source = t
          BY <3>1 DEF CacheDue
        <5>2. QED
          BY <3>1, <4>1, <5>1
      <4>4. QED
        BY <3>1, <4>1, <4>2, <4>3
    <3>5. ASSUME NEW t \in Sources PROVE InitsFollow(t)'
      <4>1. InitsFollow(t)
        BY DEF StreamInv
      <4>2. CASE t = s
        <5>1. muxer'[t] = n
          BY <1>1, <3>2, <4>2 DEF FeedTyped
        <5>2. CASE h.initSent
          BY <1>2, <2>4, <3>3, <3>4, <4>2, <5>1, <5>2 DEF InitsFollow
        <5>3. CASE ~h.initSent
          BY <1>2, <2>4, <3>3, <3>4, <4>2, <5>1, <5>3 DEF InitsFollow
        <5>4. QED
          BY <5>2, <5>3
      <4>3. CASE t # s
        <5>1. muxer'[t] = muxer[t]
          BY <1>1, <3>2, <4>3 DEF FeedTyped
        <5>2. QED
          BY <1>2, <1>5, <3>4, <4>1, <4>3, <5>1 DEF InitsFollow
      <4>4. QED
        BY <4>2, <4>3
    <3>6. QED
      BY <1>2, <2>6, <3>1, <3>4, <3>5, StreamStays
  <2>9. QED
    BY <2>7, <2>8
<1>11. QED
  BY <1>4, <1>7, <1>8, <1>9, <1>10

(* The first output is handed on: what is left, and whose init is next.    *)
LEMMA HandedOn ==
  ASSUME FeedInv, StreamInv, HandOn
  PROVE  /\ result # <<>> /\ IsTail(result', result)
         /\ Head(result) = result[1] /\ result[1] \in Output
         /\ result[1].source \in Sources /\ result[1].epoch \in Nat
         /\ result[1].kind # "cache" => Announced \ {result[1].source} = {}
         /\ result[1].kind # "init" => Announced = {}
         /\ \A s \in Sources : ~CacheDue(s)'
         /\ result[1].kind = "cache" =>
              /\ Announced' = {result[1].source}
              /\ Len(result') >= 1 /\ result'[1].kind = "init"
<1> DEFINE o == result[1]
           src == result[1].source
<1>1. result # <<>> /\ result' = Tail(result)
  BY DEF HandOn
<1>2. /\ result \in Seq(Output) /\ Head(result) = o /\ o \in Output
      /\ src \in Sources /\ o.epoch \in Nat
  BY <1>1, EpochsAreNat
<1>3. IsTail(result', result) /\ result' \in Seq(Output)
  BY <1>1, <1>2, OutputEntries, HeadTailProperties
<1>4. \A t \in Sources : t \in Announced <=> o.kind = "init" /\ src = t
  BY <1>1, <1>2 DEF Announced
<1>5. Announced \subseteq Sources
  BY DEF Announced
<1>6. result' # <<>> => Head(result') = result'[1] /\ Len(result') >= 1
  <2>1. ASSUME result' # <<>> PROVE Head(result') = result'[1] /\ Len(result') # 0
    BY <1>3, <2>1, OutputEntries, EmptySeq
  <2>2. Len(result') \in Nat
    BY <1>3 DEF IsTail, Entries
  <2>3. QED
    BY <2>1, <2>2
<1>7. \A i \in 2 .. Len(result) :
        result[i].source = src /\ result[i].epoch = o.epoch /\ result[i].kind # "cache"
  BY <1>1 DEF StreamInv, Handing
<1>8. Len(result') >= 1 => result'[1] = result[2] /\ result[2].kind # "cache" /\ result[2].source = src
  <2>1. /\ Len(result') \in Nat /\ Len(result) = Len(result') + 1
        /\ \A i \in 1 .. Len(result') : result'[i] = result[i + 1]
    BY <1>3 DEF IsTail, Entries
  <2>2. Len(result') >= 1 => 1 \in 1 .. Len(result') /\ 2 \in 2 .. Len(result)
    BY <2>1
  <2>3. QED
    BY <1>7, <2>1, <2>2
<1>9. \A s \in Sources : ~CacheDue(s)'
  BY <1>6, <1>8 DEF CacheDue
<1>10. ASSUME o.kind = "cache"
       PROVE  Announced' = {src} /\ Len(result') >= 1 /\ result'[1].kind = "init"
  <2>1. Len(result) >= 2 /\ result[2].kind = "init"
    BY <1>1, <1>10 DEF StreamInv, Handing
  <2>2. Len(result') >= 1
    BY <1>3, <2>1 DEF IsTail, Entries
  <2>3. result' # <<>>
    BY <2>2, EmptySeq
  <2>4. Head(result') = result'[1] /\ result'[1].kind = "init" /\ result'[1].source = src
    BY <1>6, <1>8, <2>1, <2>2, <2>3
  <2>5. Announced' = {t \in Sources : t = src}
    BY <2>3, <2>4 DEF Announced
  <2>6. QED
    BY <1>2, <2>2, <2>4, <2>5
<1>11. QED
  BY <1>1, <1>2, <1>3, <1>4, <1>5, <1>9, <1>10

LEMMA HandOnStream ==
  ASSUME FeedInv, StreamInv, HandOn PROVE StreamInv'
<1> DEFINE o == result[1]
           src == o.source
<1>1. /\ result # <<>> /\ IsTail(result', result)
      /\ Head(result) = o /\ o \in Output /\ src \in Sources /\ o.epoch \in Nat
      /\ o.kind # "cache" => Announced \ {src} = {}
      /\ o.kind # "init" => Announced = {}
      /\ \A s \in Sources : ~CacheDue(s)'
      /\ o.kind = "cache" =>
           Announced' = {src} /\ Len(result') >= 1 /\ result'[1].kind = "init"
  BY HandedOn
<1>2. /\ UNCHANGED <<muxer, session, initSent, shown, played>>
      /\ IF o.kind = "cache"
         THEN inits' = [inits EXCEPT ![src] = o.epoch] /\ UNCHANGED channel
         ELSE Send(o) /\ inits' = inits
  BY <1>1 DEF HandOn, viewer
<1>3. /\ inits \in [Sources -> Nat] /\ queue \in Seq(Output)
      /\ played \in [Sources -> Nat] /\ \A t \in Sources : muxer[t].epoch \in Nat
  BY EpochsAreNat
<1>4. /\ Len(result') \in Nat /\ Len(result) = Len(result') + 1
      /\ \A i \in 1 .. Len(result') : result'[i] = result[i + 1] /\ i + 1 \in 2 .. Len(result)
      /\ \A i \in 2 .. Len(result') : i \in 1 .. Len(result')
  BY <1>1 DEF IsTail, Entries
<1>5. \A i \in 1 .. Len(result') :
        result'[i].source = src /\ result'[i].epoch = o.epoch /\ result'[i].kind # "cache"
  <2>1. \A i \in 2 .. Len(result) :
          result[i].source = src /\ result[i].epoch = o.epoch /\ result[i].kind # "cache"
    BY <1>1 DEF StreamInv, Handing
  <2>2. QED
    BY <1>4, <2>1
<1>6. /\ o.kind = "cache" => inits[src] <= o.epoch
      /\ o.kind # "cache" => o.epoch = inits[src]
  BY <1>1 DEF StreamInv, Handing
<1>7. inits'[src] = o.epoch /\ \A t \in Sources : t # src => inits'[t] = inits[t]
  BY <1>1, <1>2, <1>3, <1>6
<1>8. Handing(result', inits')
  <2>1. CASE result' = <<>>
    BY <2>1 DEF Handing
  <2>2. CASE result' # <<>>
    <3>1. Len(result') >= 1
      <4>1. result' \in Seq(Output)
        BY <1>1, <1>3, EpochsAreNat, HeadTailProperties DEF HandOn
      <4>2. Len(result') # 0
        BY <2>2, <4>1, EmptySeq
      <4>3. QED
        BY <1>4, <4>2
    <3>2. 1 \in 1 .. Len(result')
      BY <1>4, <3>1
    <3>3. /\ result'[1].kind # "cache" /\ result'[1].source = src
          /\ result'[1].epoch = o.epoch
      BY <1>5, <3>2
    <3>4. QED
      BY <1>4, <1>5, <1>7, <3>3 DEF Handing
  <2>3. QED
    BY <2>1, <2>2
<1>9. ASSUME NEW t \in Sources PROVE InitsFollow(t)'
  <2>1. InitsFollow(t)
    BY DEF StreamInv
  <2>2. CASE t # src \/ o.kind # "cache"
    <3>1. inits'[t] = inits[t] /\ ~CacheDue(t)
      BY <1>1, <1>2, <1>7, <2>2 DEF CacheDue
    <3>2. QED
      BY <1>1, <1>2, <2>1, <3>1 DEF InitsFollow
  <2>3. CASE t = src /\ o.kind = "cache"
    <3>1. CacheDue(t)
      BY <1>1, <2>3 DEF CacheDue
    <3>2. inits'[t] = muxer[t].epoch
      BY <1>1, <1>7, <2>1, <2>3, <3>1 DEF InitsFollow
    <3>3. QED
      BY <1>1, <1>2, <1>3, <3>2 DEF InitsFollow
  <2>4. QED
    BY <2>2, <2>3
<1>10. /\ Ordered(queue, inits, Announced)
       /\ \A t \in Sources : Follows(t, queue, inits, Announced, played[t], shown[t], Counts(t))
       /\ SessionForm
  BY DEF StreamInv
<1>11. Entries(queue)
  BY <1>3, OutputEntries
<1>12. CASE o.kind = "cache"
  <2>1. UNCHANGED <<queue, lagged>> /\ inits' = [inits EXCEPT ![src] = o.epoch]
    BY <1>2, <1>12 DEF channel
  <2>2. Announced' = Announced \cup {src}
    BY <1>1, <1>12
  <2>3. Ordered(queue', inits', Announced')
    BY <1>1, <1>3, <1>6, <1>10, <1>11, <1>12, <2>1, <2>2, CacheOrdered
  <2>4. ASSUME NEW t \in Sources
        PROVE  Follows(t, queue', inits', Announced', played'[t], shown'[t], Counts(t)')
    <3>1. Counts(t)' = Counts(t)
      BY <1>2, <2>1 DEF Counts
    <3>2. Follows(t, queue, inits, Announced, played[t], shown[t], Counts(t)) /\ played[t] \in Nat
      BY <1>3, <1>10
    <3>3. Follows(t, queue, inits', Announced', played[t], shown[t], Counts(t))
      BY <1>1, <1>3, <1>6, <1>12, <2>1, <2>2, <3>2, CacheFollows
    <3>4. QED
      BY <1>2, <2>1, <3>1, <3>3
  <2>5. SessionForm'
    BY <1>2, <1>10, <2>1 DEF SessionForm
  <2>6. QED
    BY <1>8, <1>9, <2>3, <2>4, <2>5 DEF StreamInv
<1>13. CASE o.kind # "cache"
  <2>1. Send(o) /\ inits' = inits /\ o.epoch = inits[src]
    BY <1>2, <1>6, <1>13
  <2>2. \/ o.kind = "init" /\ Announced \ {src} \subseteq Announced'
        \/ o.kind = "segment" /\ src \notin Announced /\ Announced \subseteq Announced'
    BY <1>1, <1>13 DEF Output
  <2>3. CASE session = "off"
    <3>1. /\ queue' = queue /\ lagged' = lagged /\ queue = <<>>
          /\ \A t \in Sources : ~Counts(t)' /\ ~Counts(t)
      BY <1>2, <1>10, <2>1, <2>3 DEF Send, channel, SessionForm, Counts
    <3>2. Ordered(queue', inits', Announced')
      BY <3>1, EmptyFollows
    <3>3. ASSUME NEW t \in Sources
          PROVE  Follows(t, queue', inits', Announced', played'[t], shown'[t], Counts(t)')
      <4>1. played[t] <= shown[t] /\ played[t] <= inits[t]
        BY <1>10 DEF Follows
      <4>2. Counts(t)' = FALSE
        BY <3>1 DEF Counts
      <4>3. QED
        BY <1>2, <2>1, <3>1, <4>1, <4>2, EmptyFollows
    <3>4. SessionForm'
      BY <1>2, <1>10, <3>1 DEF SessionForm
    <3>5. QED
      BY <1>8, <1>9, <3>2, <3>3, <3>4 DEF StreamInv
  <2>4. CASE session # "off" /\ queue' = Append(queue, o) /\ lagged' = lagged
    <3>1. IsAppend(queue', queue, o)
      BY <1>1, <1>3, <2>4, OutputEntries
    <3>2. Ordered(queue', inits', Announced')
      BY <1>10, <2>1, <2>2, <3>1, AppendOrdered
    <3>3. ASSUME NEW t \in Sources
          PROVE  Follows(t, queue', inits', Announced', played'[t], shown'[t], Counts(t)')
      <4>1. Counts(t)' = Counts(t)
        BY <1>2, <2>4 DEF Counts
      <4>2. Follows(t, queue, inits, Announced, played[t], shown[t], Counts(t))
        BY <1>10
      <4>3. Follows(t, queue', inits, Announced', played[t], shown[t], Counts(t))
        BY <1>3, <2>1, <2>2, <3>1, <4>2, AppendFollows
      <4>4. QED
        BY <1>2, <2>1, <4>1, <4>3
    <3>4. SessionForm'
      BY <1>2, <1>10, <2>4 DEF SessionForm
    <3>5. QED
      BY <1>8, <1>9, <3>2, <3>3, <3>4 DEF StreamInv
  <2>5. CASE /\ session # "off" /\ Len(queue) = QueueCap
             /\ queue' = Append(Tail(queue), o) /\ lagged' = TRUE
    <3>1. Tail(queue) \in Seq(Output) /\ IsTail(Tail(queue), queue)
      BY <1>3, <2>5, QueueSteps, OutputEntries
    <3>2. IsAppend(queue', Tail(queue), o)
      BY <1>1, <2>5, <3>1, OutputEntries
    <3>3. Ordered(Tail(queue), inits, Announced)
      BY <1>10, <3>1, TailOrdered
    <3>4. Ordered(queue', inits', Announced')
      BY <2>1, <2>2, <3>2, <3>3, AppendOrdered
    <3>5. ASSUME NEW t \in Sources
          PROVE  Follows(t, queue', inits', Announced', played'[t], shown'[t], Counts(t)')
      <4>1. Counts(t)' = FALSE
        BY <2>5 DEF Counts
      <4>2. Follows(t, queue, inits, Announced, played[t], shown[t], Counts(t))
        BY <1>10
      <4>3. Follows(t, Tail(queue), inits, Announced, played[t], shown[t], FALSE)
        BY <3>1, <4>2, LossFollows
      <4>4. Follows(t, queue', inits, Announced', played[t], shown[t], FALSE)
        BY <1>3, <2>1, <2>2, <3>2, <4>3, AppendFollows
      <4>5. QED
        BY <1>2, <2>1, <4>1, <4>4
    <3>6. SessionForm'
      BY <1>2, <1>10, <2>5 DEF SessionForm
    <3>7. QED
      BY <1>8, <1>9, <3>4, <3>5, <3>6 DEF StreamInv
  <2>6. QED
    BY <2>1, <2>3, <2>4, <2>5 DEF Send
<1>14. QED
  BY <1>12, <1>13

LEMMA SessionStream ==
  ASSUME FeedInv, StreamInv, Join \/ SendCached \/ Leave \/ Receive \/ SessionLagged
  PROVE  StreamInv'
<1>1. UNCHANGED <<muxer, result, inits>>
  BY DEF Join, SendCached, Leave, Receive, SessionLagged
<1>2. Announced' = Announced /\ Handing(result', inits') /\ \A s \in Sources : InitsFollow(s)'
  BY <1>1 DEF StreamInv, Announced, InitsFollow, CacheDue
<1>3. /\ Ordered(queue, inits, Announced) /\ SessionForm
      /\ \A t \in Sources : Follows(t, queue, inits, Announced, played[t], shown[t], Counts(t))
  BY DEF StreamInv
<1>4. /\ inits \in [Sources -> Nat] /\ shown \in [Sources -> Nat] /\ played \in [Sources -> Nat]
      /\ queue \in Seq(Output)
  BY EpochsAreNat
<1>5. CASE Join \/ Leave
  <2>1. /\ queue' = <<>> /\ initSent' = {}
        /\ shown' = [s \in Sources |-> 0] /\ played' = [s \in Sources |-> 0]
    BY <1>5 DEF Join, Leave
  <2>2. Ordered(queue', inits', Announced')
    BY <2>1, EmptyFollows
  <2>3. ASSUME NEW t \in Sources
        PROVE  Follows(t, queue', inits', Announced', played'[t], shown'[t], Counts(t)')
    <3>1. played'[t] = 0 /\ shown'[t] = 0 /\ 0 <= inits'[t] /\ Counts(t)' = FALSE
      BY <1>1, <1>4, <2>1 DEF Counts
    <3>2. Follows(t, <<>>, inits', Announced', 0, 0, FALSE)
      <4>1. 0 <= 0 /\ \A i \in 1 .. Len(<<>>) : FALSE
        OBVIOUS
      <4>2. QED
        BY <3>1, <4>1 DEF Follows
    <3>3. QED
      BY <2>1, <3>1, <3>2
  <2>4. SessionForm'
    BY <2>1 DEF SessionForm
  <2>5. QED
    BY <1>2, <2>2, <2>3, <2>4 DEF StreamInv
<1>6. CASE SendCached
  <2>1. /\ session = "joining" /\ session' = "on" /\ shown' = inits
        /\ UNCHANGED <<queue, played>>
    BY <1>6 DEF SendCached, channel
  <2>2. Entries(queue)
    BY <1>4, OutputEntries
  <2>3. ASSUME NEW t \in Sources
        PROVE  Follows(t, queue, inits, Announced, played[t], inits[t], Counts(t)')
    <3>1. played[t] = 0 /\ inits[t] \in Nat
      BY <1>3, <1>4, <2>1 DEF SessionForm
    <3>2. \A i \in 1 .. Len(queue) : queue[i].source = t =>
            queue[i].epoch \in Nat /\ queue[i].epoch <= inits[t]
      BY <1>3, <2>2 DEF Ordered, Entries
    <3>3. \A i \in 1 .. Len(queue) : queue[i].source = t =>
            0 <= queue[i].epoch /\ ~(inits[t] < queue[i].epoch)
      BY <3>1, <3>2
    <3>4. 0 <= inits[t] /\ ~(inits[t] < inits[t])
      BY <3>1
    <3>5. QED
      BY <3>1, <3>3, <3>4 DEF Follows
  <2>4. SessionForm'
    BY <2>1 DEF SessionForm
  <2>5. QED
    BY <1>1, <1>2, <1>3, <2>1, <2>3, <2>4 DEF StreamInv
<1>7. CASE SessionLagged
  <2>1. /\ session = "on" /\ initSent' = {} /\ UNCHANGED <<session, queue, shown, played>>
    BY <1>7 DEF SessionLagged, ForgetInits
  <2>2. ASSUME NEW t \in Sources
        PROVE  Follows(t, queue', inits', Announced', played'[t], shown'[t], Counts(t)')
    <3>1. Counts(t)' = FALSE
      BY <2>1 DEF Counts
    <3>2. Follows(t, queue, inits, Announced, played[t], shown[t], FALSE)
      BY <1>3 DEF Follows
    <3>3. QED
      BY <1>1, <1>2, <2>1, <3>1, <3>2
  <2>3. SessionForm'
    BY <2>1 DEF SessionForm
  <2>4. QED
    BY <1>1, <1>2, <1>3, <2>1, <2>2, <2>3 DEF StreamInv
<1>8. CASE Receive
  <2> DEFINE o == queue[1]
             src == o.source
  <2>1. /\ session = "on" /\ ~lagged /\ queue # <<>> /\ queue' = Tail(queue)
        /\ ReceiveInit(Head(queue)) \/ ReceiveSegment(Head(queue))
        /\ UNCHANGED <<session, lagged>>
    BY <1>8 DEF Receive
  <2>2. IsTail(queue', queue) /\ Head(queue) = o
    BY <1>4, <2>1, OutputEntries
  <2>3. src \in Sources
    BY <2>2 DEF IsTail, Entries
  <2>4. \A t \in Sources : Counts(t) <=> t \in initSent
    BY <2>1 DEF Counts
  <2>5. \A t \in Sources : Counts(t)' <=> t \in initSent'
    BY <2>1 DEF Counts
  <2>6. Ordered(queue', inits, Announced)
    BY <1>3, <2>2, TailOrdered
  <2>7. ReceiveInit(o) \/ ReceiveSegment(o)
    BY <2>1, <2>2
  <2> HIDE DEF o
  <2>8. ASSUME NEW t \in Sources, t # src
        PROVE  Follows(t, queue', inits, Announced, played'[t], shown'[t], Counts(t)')
    <3>1. shown'[t] = shown[t] /\ played'[t] = played[t] /\ (t \in initSent' <=> t \in initSent)
      BY <1>4, <2>7, <2>8 DEF ReceiveInit, ReceiveSegment
    <3>2. Counts(t)' = Counts(t)
      BY <2>4, <2>5, <3>1 DEF Counts
    <3>3. Follows(t, queue, inits, Announced, played[t], shown[t], Counts(t)) /\ queue[1].source # t
      BY <1>3, <2>8 DEF o
    <3>4. Follows(t, queue', inits, Announced, played[t], shown[t], Counts(t))
      BY <2>2, <3>3, OtherFollows
    <3>5. QED
      BY <3>1, <3>2, <3>4
  <2>9. ASSUME NEW t \in Sources, t = src
        PROVE  Follows(t, queue', inits, Announced, played'[t], shown'[t], Counts(t)')
    <3>1. /\ Follows(t, queue, inits, Announced, played[t], shown[t], Counts(t))
          /\ queue[1].source = t /\ queue[1] = o
          /\ inits[t] \in Nat /\ shown[t] \in Nat
      BY <1>3, <1>4, <2>9 DEF o
    <3>2. CASE ReceiveInit(o)
      <4>1. /\ shown'[t] = o.epoch /\ played'[t] = played[t] /\ t \in initSent'
        BY <1>4, <2>9, <3>2 DEF ReceiveInit
      <4>2. Counts(t)' = TRUE
        BY <2>1, <4>1 DEF Counts
      <4>3. Follows(t, queue', inits, Announced, played[t], o.epoch, TRUE)
        BY <1>3, <2>2, <3>1, InitTakenFollows
      <4>4. QED
        BY <4>1, <4>2, <4>3
    <3>3. CASE /\ o.kind = "segment" /\ t \in initSent
               /\ played' = [played EXCEPT ![t] = o.epoch] /\ UNCHANGED <<shown, initSent>>
      <4>1. played'[t] = o.epoch /\ shown'[t] = shown[t]
        BY <1>4, <2>9, <3>3
      <4>2. Counts(t) = TRUE /\ Counts(t)' = TRUE
        BY <2>1, <3>3 DEF Counts
      <4>3. Follows(t, queue', inits, Announced, o.epoch, shown[t], TRUE)
        BY <1>3, <2>2, <3>1, <3>3, <4>2, SegmentTakenFollows
      <4>4. QED
        BY <4>1, <4>2, <4>3
    <3>4. CASE /\ o.kind = "segment" /\ t \notin initSent /\ inits[t] # 0
               /\ shown' = [shown EXCEPT ![t] = inits[t]]
               /\ initSent' = initSent \cup {t}
               /\ played' = [played EXCEPT ![t] = o.epoch]
      <4>1. played'[t] = o.epoch /\ shown'[t] = inits[t]
        BY <1>4, <2>9, <3>4
      <4>2. Counts(t)' = TRUE
        BY <2>1, <3>4 DEF Counts
      <4>3. Follows(t, queue', inits, Announced, o.epoch, inits[t], TRUE)
        BY <1>3, <2>2, <3>1, CachedTakenFollows
      <4>4. QED
        BY <4>1, <4>2, <4>3
    <3>5. CASE t \notin initSent /\ UNCHANGED <<shown, initSent, played>>
      <4>1. Counts(t)' = FALSE
        BY <3>5 DEF Counts
      <4>2. Follows(t, queue', inits, Announced, played[t], shown[t], FALSE)
        BY <2>2, <3>1, LossFollows
      <4>3. QED
        BY <3>5, <4>1, <4>2
    <3>6. QED
      BY <2>7, <2>9, <3>2, <3>3, <3>4, <3>5 DEF ReceiveSegment
  <2>10. \A t \in Sources :
           Follows(t, queue', inits', Announced', played'[t], shown'[t], Counts(t)')
    BY <1>1, <1>2, <2>8, <2>9
  <2>11. SessionForm'
    BY <2>1 DEF SessionForm
  <2>12. QED
    BY <1>1, <1>2, <2>6, <2>10, <2>11 DEF StreamInv
<1>9. QED
  BY <1>5, <1>6, <1>7, <1>8

LEMMA InitStream == Init => StreamInv
<1> SUFFICES ASSUME Init PROVE StreamInv
  OBVIOUS
<1>1. /\ result = <<>> /\ inits = [s \in Sources |-> 0] /\ queue = <<>> /\ initSent = {}
      /\ shown = [s \in Sources |-> 0] /\ played = [s \in Sources |-> 0]
      /\ \A s \in Sources : muxer[s].epoch = 0 /\ ~muxer[s].initSent
  BY DEF Init, NewMuxer
<1>2. Handing(result, inits) /\ SessionForm
  BY <1>1 DEF Handing, SessionForm
<1>3. \A s \in Sources : InitsFollow(s)
  BY <1>1 DEF InitsFollow, CacheDue
<1>4. Ordered(queue, inits, Announced)
  BY <1>1, EmptyFollows
<1>5. ASSUME NEW s \in Sources
      PROVE  Follows(s, queue, inits, Announced, played[s], shown[s], Counts(s))
  <2>1. played[s] = 0 /\ shown[s] = 0 /\ inits[s] = 0 /\ Counts(s) = FALSE
    BY <1>1 DEF Counts
  <2>2. Follows(s, <<>>, inits, Announced, 0, 0, FALSE)
    <3>1. 0 <= 0 /\ 0 <= inits[s] /\ \A i \in 1 .. Len(<<>>) : FALSE
      BY <2>1
    <3>2. QED
      BY <3>1 DEF Follows
  <2>3. QED
    BY <1>1, <2>1, <2>2
<1>6. QED
  BY <1>2, <1>3, <1>4, <1>5 DEF StreamInv

LEMMA NextStream == FeedInv /\ StreamInv /\ [Next]_vars => StreamInv'
<1> SUFFICES ASSUME FeedInv, StreamInv, [Next]_vars PROVE StreamInv'
  OBVIOUS
<1>1. CASE UNCHANGED vars
  <2>1. UNCHANGED <<muxer, result, inits, session, queue, lagged, initSent, shown, played>>
    BY <1>1 DEF vars, viewer, channel
  <2>2. \A s \in Sources : InitsFollow(s)'
    BY <2>1 DEF StreamInv, InitsFollow, CacheDue
  <2>3. Handing(result', inits)
    BY <2>1 DEF StreamInv
  <2>4. QED
    BY <2>1, <2>2, <2>3, StreamStays
<1>2. CASE Next
  <2>1. CASE PublishSome \/ Lagged \/ \E s \in Sources : Write(s) \/ Crash(s)
    BY <2>1, FeedStepStream
  <2>2. CASE MuxFrame
    BY <2>2, MuxFrameStream
  <2>3. CASE HandOn
    BY <2>3, HandOnStream
  <2>4. CASE Join \/ SendCached \/ Leave \/ Receive \/ SessionLagged
    BY <2>4, SessionStream
  <2>5. QED
    BY <1>2, <2>1, <2>2, <2>3, <2>4 DEF Next
<1>3. QED
  BY <1>1, <1>2

(* The browser never gets a segment of a newer process than the init it    *)
(* was given last: whatever its session lost, and however the muxer's task *)
(* and the session interleave, a new init went before (ws.rs:218-305).     *)
THEOREM SegmentsFollowInits == Spec => []SegmentNeverNewerThanInit
<1>1. StreamInv => SegmentNeverNewerThanInit
  BY DEF StreamInv, Follows, SegmentNeverNewerThanInit
<1>2. Spec => []StreamInv
  BY InitStream, NextStream, FeedInvariant, PTL DEF Spec
<1>3. QED
  BY <1>1, <1>2, PTL
===============================================================================
