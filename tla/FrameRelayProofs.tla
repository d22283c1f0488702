-------------------------- MODULE FrameRelayProofs --------------------------
(***************************************************************************)
(* The relay for any cameras, channels, limits, frames and clients: the    *)
(* bytes outstanding are those of the frame in hand, a camera is only      *)
(* disconnected for drops that went on, no burst passes twice the limit of *)
(* the mix of channels, and a client gets every frame since it joined, in  *)
(* order, or is told how many it missed.                                   *)
(*                                                                         *)
(* A handler works on its own limiter, frame and counters; what relates    *)
(* them is stated for one camera (CameraSound) and holds for the others    *)
(* because a step of one handler leaves theirs alone.                      *)
(***************************************************************************)
EXTENDS FrameRelay, SequenceTheorems, SumTheorems

AnyFrame == [camera : Cameras, n : Nat, ch : Channels, len : Lengths]
Check == [at : Nat, dropped : SUBSET Nat]
Limiter == [windows : [Channels -> Window], bytes_outstanding : Nat,
            total_dropped : Nat, abuse_seconds : Nat,
            last_drop_second : Nat \cup {NoSecond}]

Shape ==
  /\ now \in Nat
  /\ pc \in [Cameras -> {"new", "receiving", "broadcasting", "sent", "checking",
                         "abusive", "closed"}]
  /\ epoch \in [Cameras -> Nat]
  /\ limiter \in [Cameras -> Limiter]
  /\ frame \in [Cameras -> AnyFrame \cup {NoFrame}]
  /\ received \in [Cameras -> Nat]
  /\ dropSecs \in [Cameras -> SUBSET Nat]
  /\ checks \in [Cameras -> Seq(Check)]

(* A check that saw a drop in its own second or the one before.            *)
SawDrop(k) == {k.at, k.at - 1} \cap k.dropped # {}

(* The counter of abuse is a run of such checks, at the end of all checks. *)
RunOfDrops(c) ==
  LET n == limiter[c].abuse_seconds
  IN /\ n <= Len(checks[c])
     /\ \A i \in Len(checks[c]) - n + 1 .. Len(checks[c]) : SawDrop(checks[c][i])

CameraSound(c) ==
  /\ epoch[c] <= now
  /\ frame[c] # NoFrame <=> pc[c] \in {"broadcasting", "sent"}
  /\ limiter[c].bytes_outstanding = IF frame[c] = NoFrame THEN 0 ELSE frame[c].len
  /\ limiter[c].last_drop_second \in dropSecs[c] \cup {NoSecond}
  /\ RunOfDrops(c)
  /\ pc[c] = "abusive" => limiter[c].abuse_seconds >= AbuseThreshold

IInv == Shape /\ \A c \in Cameras : CameraSound(c)

-----------------------------------------------------------------------------
(* The limiter.                                                            *)

LEMMA SecondsAreNat ==
  ASSUME NEW t \in Nat
  PROVE  /\ t \div Second \in Nat
         /\ t >= Second => t \div Second >= 1
         /\ t < Second => t \div Second = 0
<1>1. Second \in Nat /\ Second > 0
  BY LimiterAssumption
<1>2. QED
  BY <1>1, Z3

LEMMA RecordIsWindow ==
  ASSUME NEW w \in Window, NEW t \in Nat
  PROVE  Record(w, t) \in Window
  BY DEF Record, Window

LEMMA RecordedLimiter ==
  ASSUME NEW l \in Limiter, NEW ch \in Channels, NEW len \in Nat, NEW t \in Nat
  PROVE  /\ Recorded(l, ch, len, t) \in Limiter
         /\ Recorded(l, ch, len, t).bytes_outstanding = l.bytes_outstanding
         /\ Recorded(l, ch, len, t).abuse_seconds = l.abuse_seconds
         /\ Recorded(l, ch, len, t).last_drop_second = l.last_drop_second
<1>1. CASE OverBudget(l, len)
  BY <1>1 DEF Recorded
<1>2. CASE ~OverBudget(l, len)
  <2>1. Record(l.windows[ch], t) \in Window
    BY RecordIsWindow DEF Limiter
  <2>2. QED
    BY <1>2, <2>1 DEF Recorded, Limiter
<1>3. QED
  BY <1>1, <1>2

LEMMA DroppedLimiter ==
  ASSUME NEW r \in Limiter, NEW sec \in Nat
  PROVE  LET k == [r EXCEPT !.total_dropped = @ + 1, !.last_drop_second = sec]
         IN /\ k \in Limiter /\ k.abuse_seconds = r.abuse_seconds
            /\ k.bytes_outstanding = r.bytes_outstanding
            /\ k.last_drop_second = sec
<1> DEFINE k1 == [r EXCEPT !.total_dropped = @ + 1]
           k  == [k1 EXCEPT !.last_drop_second = sec]
<1>1. k = [r EXCEPT !.total_dropped = @ + 1, !.last_drop_second = sec]
  OBVIOUS
<1>2. k1 \in Limiter /\ k1.abuse_seconds = r.abuse_seconds
      /\ k1.bytes_outstanding = r.bytes_outstanding
  BY DEF Limiter
<1> HIDE DEF k1
<1>3. k \in Limiter /\ k.abuse_seconds = k1.abuse_seconds
      /\ k.bytes_outstanding = k1.bytes_outstanding /\ k.last_drop_second = sec
  BY <1>2 DEF Limiter
<1>4. QED
  BY <1>1, <1>2, <1>3

(* A frame that is dropped marks its second, any other is outstanding.     *)
LEMMA CheckedLimiter ==
  ASSUME NEW l \in Limiter, NEW ch \in Channels, NEW len \in Nat, NEW t \in Nat
  PROVE  LET k == CheckFrame(l, ch, len, t)
         IN /\ k \in Limiter /\ k.abuse_seconds = l.abuse_seconds
            /\ Drops(l, ch, len, t) =>
                 /\ k.bytes_outstanding = l.bytes_outstanding
                 /\ k.last_drop_second = t \div Second
            /\ ~Drops(l, ch, len, t) =>
                 /\ k.bytes_outstanding = l.bytes_outstanding + len
                 /\ k.last_drop_second = l.last_drop_second
<1> DEFINE r == Recorded(l, ch, len, t)
<1>1. /\ r \in Limiter /\ r.bytes_outstanding = l.bytes_outstanding
      /\ r.abuse_seconds = l.abuse_seconds
      /\ r.last_drop_second = l.last_drop_second
  BY RecordedLimiter
<1>2. t \div Second \in Nat
  BY SecondsAreNat
<1> HIDE DEF r
<1>3. CASE Drops(l, ch, len, t)
  <2> DEFINE k == [r EXCEPT !.total_dropped = @ + 1, !.last_drop_second = t \div Second]
  <2>1. CheckFrame(l, ch, len, t) = k
    BY <1>3 DEF CheckFrame, r
  <2>2. /\ k \in Limiter /\ k.abuse_seconds = r.abuse_seconds
        /\ k.bytes_outstanding = r.bytes_outstanding
        /\ k.last_drop_second = t \div Second
    BY <1>1, <1>2, DroppedLimiter
  <2>3. QED
    BY <1>1, <1>3, <2>1, <2>2
<1>4. CASE ~Drops(l, ch, len, t)
  <2>1. CheckFrame(l, ch, len, t) = [r EXCEPT !.bytes_outstanding = @ + len]
    BY <1>4 DEF CheckFrame, r
  <2>2. QED
    BY <1>1, <1>4, <2>1 DEF Limiter
<1>5. QED
  BY <1>3, <1>4

LEMMA SentLimiter ==
  ASSUME NEW l \in Limiter, NEW len \in Nat
  PROVE  /\ FrameSent(l, len) \in Limiter
         /\ FrameSent(l, len).bytes_outstanding
              = IF l.bytes_outstanding < len THEN 0 ELSE l.bytes_outstanding - len
         /\ FrameSent(l, len).abuse_seconds = l.abuse_seconds
         /\ FrameSent(l, len).last_drop_second = l.last_drop_second
  BY DEF FrameSent, Limiter

(* What the check of abuse compares are its own second and the one before. *)
LEMMA RecentDropIsSeen ==
  ASSUME NEW l \in Limiter, NEW t \in Nat, NEW D \in SUBSET Nat,
         l.last_drop_second \in D \cup {NoSecond}, DroppedRecently(l, t)
  PROVE  SawDrop([at |-> t \div Second, dropped |-> D])
<1>1. Second \in Nat /\ Second > 0
  BY LimiterAssumption
<1>2. l.last_drop_second \in D
  BY <1>1, SecondsAreNat DEF DroppedRecently, NoSecond
<1>3. l.last_drop_second \in {t \div Second, t \div Second - 1}
  BY <1>1, SecondsAreNat DEF DroppedRecently
<1>4. QED
  BY <1>2, <1>3 DEF SawDrop

-----------------------------------------------------------------------------
(* The steps.                                                              *)

LEMMA Assumptions ==
  /\ Lengths \subseteq Nat /\ AbuseThreshold \in Nat /\ AbuseThreshold > 0
  /\ Second \in Nat /\ Second > 0 /\ NoFrame \notin AnyFrame
  BY RelayAssumption, LimiterAssumption DEF AnyFrame

LEMMA InitEstablishes == Init => IInv
<1> SUFFICES ASSUME Init PROVE IInv
  OBVIOUS
<1>1. NewLimiter \in Limiter /\ NewLimiter.abuse_seconds = 0
      /\ NewLimiter.bytes_outstanding = 0 /\ NewLimiter.last_drop_second = NoSecond
  BY DEF NewLimiter, Limiter, Window
<1>2. Shape
  BY <1>1 DEF Init, Shape
<1>3. ASSUME NEW c \in Cameras PROVE CameraSound(c)
  <2>1. Len(checks[c]) = 0
    BY DEF Init
  <2>2. RunOfDrops(c)
    BY <1>1, <2>1 DEF Init, RunOfDrops
  <2>3. QED
    BY <1>1, <2>2 DEF Init, CameraSound
<1>4. QED
  BY <1>2, <1>3 DEF IInv

(* What a camera's handler leaves alone stays sound.                       *)
LEMMA OthersStaySound ==
  ASSUME NEW c \in Cameras, CameraSound(c), Shape, now' \in Nat, now' >= now,
         pc'[c] = pc[c], epoch'[c] = epoch[c], limiter'[c] = limiter[c],
         frame'[c] = frame[c], dropSecs'[c] = dropSecs[c], checks'[c] = checks[c]
  PROVE  CameraSound(c)'
<1>1. RunOfDrops(c)'
  BY DEF CameraSound, RunOfDrops
<1>2. epoch[c] \in Nat
  BY DEF Shape
<1>3. QED
  BY <1>1, <1>2 DEF CameraSound, Shape

(* Time, the clients, and a camera's handler that begins or ends.          *)
LEMMA OtherStepsPreserve ==
  ASSUME IInv,
         \/ Tick
         \/ \E d \in Clients : \/ Subscribe(d) \/ OpenStream(d) \/ OpenStreamFails(d)
                               \/ TakeFrame(d) \/ Lag(d) \/ SendFrame(d) \/ SendFails(d)
         \/ UNCHANGED vars
  PROVE  IInv'
<1>1. /\ UNCHANGED <<pc, frame, limits, history>> /\ now' \in {now, now + 1}
  BY DEF Tick, Subscribe, OpenStream, OpenStreamFails, TakeFrame, Lag, SendFrame,
     SendFails, vars
<1>2. UNCHANGED <<pc, frame, epoch, limiter, received, dropSecs, checks>>
  BY <1>1 DEF limits, history
<1>3. now' \in Nat /\ now' >= now
  BY <1>1 DEF IInv, Shape
<1>4. Shape'
  BY <1>2, <1>3 DEF IInv, Shape
<1>5. ASSUME NEW c \in Cameras PROVE CameraSound(c)'
  BY <1>2, <1>3, OthersStaySound DEF IInv
<1>6. QED
  BY <1>4, <1>5 DEF IInv

LEMMA MovesPreserve ==
  ASSUME IInv, NEW c \in Cameras,
         ServeCamera(c) \/ BroadcastFrame(c) \/ CountFrame(c) \/ CameraLeaves(c)
  PROVE  IInv'
<1>1. /\ UNCHANGED <<now, frame, limiter, received, dropSecs, checks>>
      /\ \/ /\ pc[c] = "new" /\ pc' = [pc EXCEPT ![c] = "receiving"]
            /\ epoch' = [epoch EXCEPT ![c] = now]
         \/ /\ UNCHANGED epoch
            /\ \/ pc[c] = "broadcasting" /\ pc' = [pc EXCEPT ![c] = "sent"]
               \/ pc[c] = "checking" /\ pc' = [pc EXCEPT ![c] = "receiving"]
               \/ pc[c] = "receiving" /\ pc' = [pc EXCEPT ![c] = "closed"]
  BY DEF ServeCamera, BroadcastFrame, CountFrame, CameraLeaves, Goto, limits, history
<1>2. Shape'
  BY <1>1 DEF IInv, Shape
<1>3. ASSUME NEW d \in Cameras, d # c PROVE CameraSound(d)'
  <2>1. /\ pc'[d] = pc[d] /\ epoch'[d] = epoch[d] /\ limiter'[d] = limiter[d]
        /\ frame'[d] = frame[d] /\ dropSecs'[d] = dropSecs[d]
        /\ checks'[d] = checks[d] /\ now' = now /\ now \in Nat
    BY <1>1, <1>3 DEF IInv, Shape
  <2>2. QED
    BY <2>1, OthersStaySound DEF IInv
<1>4. CameraSound(c)'
  <2>1. RunOfDrops(c)'
    BY <1>1 DEF IInv, CameraSound, RunOfDrops
  <2>2. CameraSound(c) /\ now \in Nat
    BY DEF IInv, Shape
  <2>3. epoch'[c] <= now' /\ pc'[c] # "abusive"
        /\ (frame'[c] # NoFrame <=> pc'[c] \in {"broadcasting", "sent"})
    BY <1>1, <2>2 DEF IInv, Shape, CameraSound
  <2>4. QED
    BY <1>1, <2>1, <2>2, <2>3 DEF CameraSound
<1>5. QED
  BY <1>2, <1>3, <1>4 DEF IInv

LEMMA ReceiveFramePreserves ==
  ASSUME IInv, NEW c \in Cameras, NEW ch \in Channels, NEW len \in Lengths,
         ReceiveFrame(c, ch, len)
  PROVE  IInv'
<1> DEFINE t == Elapsed(c)
           l == limiter[c]
           k == CheckFrame(l, ch, len, t)
           f == [camera |-> c, n |-> received'[c], ch |-> ch, len |-> len]
<1>1. len \in Nat /\ CameraSound(c) /\ Shape
  BY Assumptions DEF IInv
<1>2. t \in Nat /\ t \div Second \in Nat
  <2>1. t \in Nat
    BY <1>1 DEF Elapsed, Shape, CameraSound
  <2>2. QED
    BY <2>1, SecondsAreNat
<1>3. l \in Limiter
  BY <1>1 DEF Shape
<1>4. /\ k \in Limiter /\ k.abuse_seconds = l.abuse_seconds
      /\ Drops(l, ch, len, t) =>
           /\ k.bytes_outstanding = l.bytes_outstanding
           /\ k.last_drop_second = t \div Second
      /\ ~Drops(l, ch, len, t) =>
           /\ k.bytes_outstanding = l.bytes_outstanding + len
           /\ k.last_drop_second = l.last_drop_second
  BY <1>1, <1>2, <1>3, CheckedLimiter
<1>5. /\ UNCHANGED <<now, epoch, checks>> /\ pc[c] = "receiving"
      /\ received' = [received EXCEPT ![c] = @ + 1]
      /\ limiter' = [limiter EXCEPT ![c] = k]
      /\ \/ /\ Drops(l, ch, len, t) /\ UNCHANGED frame
            /\ pc' = [pc EXCEPT ![c] = "checking"]
            /\ dropSecs' = [dropSecs EXCEPT ![c] = @ \cup {t \div Second}]
         \/ /\ ~Drops(l, ch, len, t) /\ UNCHANGED dropSecs
            /\ pc' = [pc EXCEPT ![c] = "broadcasting"]
            /\ frame' = [frame EXCEPT ![c] = f]
  BY DEF ReceiveFrame, Goto
<1>6. received' \in [Cameras -> Nat] /\ f \in AnyFrame /\ f # NoFrame /\ f.len = len
  <2>1. received' \in [Cameras -> Nat]
    BY <1>1, <1>5 DEF Shape
  <2>2. QED
    BY <2>1, Assumptions DEF AnyFrame
<1> HIDE DEF t, k, f
<1>7. Shape'
  <2>1. limiter' \in [Cameras -> Limiter]
    BY <1>1, <1>4, <1>5 DEF Shape
  <2>2. dropSecs' \in [Cameras -> SUBSET Nat]
    <3>1. dropSecs \in [Cameras -> SUBSET Nat]
      BY <1>1 DEF Shape
    <3>2. dropSecs[c] \cup {t \div Second} \in SUBSET Nat
      BY <1>2, <3>1
    <3>3. QED
      BY <1>5, <3>1, <3>2
  <2>3. frame' \in [Cameras -> AnyFrame \cup {NoFrame}]
    BY <1>1, <1>5, <1>6 DEF Shape
  <2>4. QED
    BY <1>1, <1>5, <1>6, <2>1, <2>2, <2>3 DEF Shape
<1>8. ASSUME NEW d \in Cameras, d # c PROVE CameraSound(d)'
  <2>1. /\ pc'[d] = pc[d] /\ epoch'[d] = epoch[d] /\ limiter'[d] = limiter[d]
        /\ frame'[d] = frame[d] /\ dropSecs'[d] = dropSecs[d]
        /\ checks'[d] = checks[d] /\ now' = now /\ now \in Nat
    BY <1>1, <1>5, <1>8 DEF Shape
  <2>2. QED
    BY <1>1, <2>1, OthersStaySound DEF IInv
<1>9. CameraSound(c)'
  <2>1. limiter'[c] = k /\ epoch'[c] <= now'
    BY <1>1, <1>5 DEF Shape, CameraSound
  <2>2. RunOfDrops(c)'
    BY <1>1, <1>4, <1>5, <2>1 DEF CameraSound, RunOfDrops
  <2>3. frame[c] = NoFrame /\ l.bytes_outstanding = 0
    BY <1>1, <1>5 DEF CameraSound
  <2>4. CASE Drops(l, ch, len, t)
    <3>1. /\ frame'[c] = NoFrame /\ pc'[c] = "checking"
          /\ dropSecs'[c] = dropSecs[c] \cup {t \div Second}
      BY <1>1, <1>5, <2>3, <2>4 DEF Shape
    <3>2. QED
      BY <1>4, <2>1, <2>2, <2>3, <2>4, <3>1 DEF CameraSound
  <2>5. CASE ~Drops(l, ch, len, t)
    <3>1. frame'[c] = f /\ pc'[c] = "broadcasting" /\ dropSecs'[c] = dropSecs[c]
      BY <1>1, <1>5, <2>5 DEF Shape
    <3>2. l.last_drop_second \in dropSecs[c] \cup {NoSecond}
      BY <1>1 DEF CameraSound
    <3>3. QED
      BY <1>1, <1>4, <1>6, <2>1, <2>2, <2>3, <2>5, <3>1, <3>2 DEF CameraSound
  <2>6. QED
    BY <2>4, <2>5
<1>10. QED
  BY <1>7, <1>8, <1>9 DEF IInv

LEMMA ReleaseFramePreserves ==
  ASSUME IInv, NEW c \in Cameras, ReleaseFrame(c)
  PROVE  IInv'
<1> DEFINE l == limiter[c]
           k == FrameSent(l, frame[c].len)
<1>1. CameraSound(c) /\ Shape
  BY DEF IInv
<1>2. /\ UNCHANGED <<now, epoch, received, dropSecs, checks>> /\ pc[c] = "sent"
      /\ pc' = [pc EXCEPT ![c] = "checking"]
      /\ limiter' = [limiter EXCEPT ![c] = k]
      /\ frame' = [frame EXCEPT ![c] = NoFrame]
  BY DEF ReleaseFrame, Goto, history
<1>3. frame[c] \in AnyFrame /\ l.bytes_outstanding = frame[c].len
  BY <1>1, <1>2 DEF Shape, CameraSound
<1>4. frame[c].len \in Nat /\ l \in Limiter
  BY <1>1, <1>3, Assumptions DEF AnyFrame, Shape
<1>5. /\ k \in Limiter /\ k.bytes_outstanding = 0
      /\ k.abuse_seconds = l.abuse_seconds
      /\ k.last_drop_second = l.last_drop_second
  BY <1>3, <1>4, SentLimiter
<1> HIDE DEF k
<1>6. Shape'
  BY <1>1, <1>2, <1>5 DEF Shape
<1>7. ASSUME NEW d \in Cameras, d # c PROVE CameraSound(d)'
  <2>1. /\ pc'[d] = pc[d] /\ epoch'[d] = epoch[d] /\ limiter'[d] = limiter[d]
        /\ frame'[d] = frame[d] /\ dropSecs'[d] = dropSecs[d]
        /\ checks'[d] = checks[d] /\ now' = now /\ now \in Nat
    BY <1>1, <1>2, <1>7 DEF Shape
  <2>2. QED
    BY <1>1, <2>1, OthersStaySound DEF IInv
<1>8. CameraSound(c)'
  <2>1. limiter'[c] = k /\ frame'[c] = NoFrame /\ pc'[c] = "checking"
    BY <1>1, <1>2 DEF Shape
  <2>2. RunOfDrops(c)'
    BY <1>1, <1>2, <1>5, <2>1 DEF CameraSound, RunOfDrops
  <2>3. QED
    BY <1>1, <1>2, <1>5, <2>1, <2>2 DEF CameraSound
<1>9. QED
  BY <1>6, <1>7, <1>8 DEF IInv

(* A run that is one longer after one check more began where it did.       *)
LEMMA EarlierInRun ==
  ASSUME NEW n \in Nat, NEW m \in Nat, m <= n,
         NEW i \in n + 1 - (m + 1) + 1 .. n + 1, i # n + 1
  PROVE  i \in n - m + 1 .. n /\ i \in 1 .. n
OBVIOUS

(* A check that saw a drop extends the run, any other empties it.          *)
LEMMA CheckAbusePreserves ==
  ASSUME IInv, NEW c \in Cameras, CheckAbuse(c)
  PROVE  IInv'
<1> DEFINE t == Elapsed(c)
           l == limiter[c]
           a == AbuseAfter(l, t)
           k == [l EXCEPT !.abuse_seconds = a]
           check == [at |-> t \div Second, dropped |-> dropSecs[c]]
           s == checks[c]
<1>1. CameraSound(c) /\ Shape
  BY DEF IInv
<1>2. /\ UNCHANGED <<now, epoch, received, dropSecs, frame>> /\ pc[c] = "checking"
      /\ limiter' = [limiter EXCEPT ![c].abuse_seconds = a]
      /\ checks' = [checks EXCEPT ![c] = Append(@, check)]
      /\ \/ Abusive(l, t) /\ pc' = [pc EXCEPT ![c] = "abusive"]
         \/ ~Abusive(l, t) /\ pc' = [pc EXCEPT ![c] = "receiving"]
  BY DEF CheckAbuse, Goto
<1>3. t \in Nat /\ t \div Second \in Nat
  <2>1. t \in Nat
    BY <1>1 DEF Elapsed, Shape, CameraSound
  <2>2. QED
    BY <2>1, SecondsAreNat
<1>4. /\ l \in Limiter /\ dropSecs[c] \in SUBSET Nat /\ s \in Seq(Check)
      /\ l.abuse_seconds \in Nat /\ l.last_drop_second \in dropSecs[c] \cup {NoSecond}
  BY <1>1 DEF Shape, CameraSound, Limiter
<1>5. check \in Check
  BY <1>3, <1>4 DEF Check
<1>6. /\ Append(s, check) \in Seq(Check) /\ Len(s) \in Nat
      /\ Len(Append(s, check)) = Len(s) + 1
      /\ Append(s, check)[Len(s) + 1] = check
      /\ \A i \in 1 .. Len(s) : Append(s, check)[i] = s[i]
  BY <1>4, <1>5, AppendProperties, LenProperties
<1>7. /\ a \in Nat
      /\ \/ DroppedRecently(l, t) /\ a = l.abuse_seconds + 1
         \/ ~DroppedRecently(l, t) /\ a = 0
  BY <1>4 DEF AbuseAfter
<1>8. DroppedRecently(l, t) => SawDrop(check)
  BY <1>3, <1>4, RecentDropIsSeen
<1>9. /\ k \in Limiter /\ k.abuse_seconds = a
      /\ k.bytes_outstanding = l.bytes_outstanding
      /\ k.last_drop_second = l.last_drop_second
  <2> HIDE DEF a
  <2>1. QED
    BY <1>4, <1>7 DEF Limiter
<1>10. limiter' = [limiter EXCEPT ![c] = k]
  BY <1>2
<1> HIDE DEF t, a, k, check
<1>11. Shape'
  <2>1. checks' \in [Cameras -> Seq(Check)]
    BY <1>1, <1>2, <1>6 DEF Shape
  <2>2. limiter' \in [Cameras -> Limiter]
    BY <1>1, <1>9, <1>10 DEF Shape
  <2>3. QED
    BY <1>1, <1>2, <2>1, <2>2 DEF Shape
<1>12. ASSUME NEW d \in Cameras, d # c PROVE CameraSound(d)'
  <2>1. /\ pc'[d] = pc[d] /\ epoch'[d] = epoch[d] /\ limiter'[d] = limiter[d]
        /\ frame'[d] = frame[d] /\ dropSecs'[d] = dropSecs[d]
        /\ checks'[d] = checks[d] /\ now' = now /\ now \in Nat
    BY <1>1, <1>2, <1>10, <1>12 DEF Shape
  <2>2. QED
    BY <1>1, <2>1, OthersStaySound DEF IInv
<1>13. CameraSound(c)'
  <2>1. limiter'[c] = k /\ checks'[c] = Append(s, check)
        /\ pc'[c] \in {"abusive", "receiving"}
        /\ (pc'[c] = "abusive" => Abusive(l, t))
    BY <1>1, <1>2, <1>10 DEF Shape
  <2>2. RunOfDrops(c)'
    <3>1. /\ l.abuse_seconds <= Len(s)
          /\ \A i \in Len(s) - l.abuse_seconds + 1 .. Len(s) : SawDrop(s[i])
      BY <1>1 DEF CameraSound, RunOfDrops
    <3>2. a <= Len(s) + 1
      BY <1>4, <1>6, <1>7, <3>1
    <3>3. ASSUME NEW i \in Len(s) + 1 - a + 1 .. Len(s) + 1
          PROVE  SawDrop(Append(s, check)[i])
      <4>1. DroppedRecently(l, t) /\ a = l.abuse_seconds + 1
        BY <1>6, <1>7
      <4>2. CASE i = Len(s) + 1
        BY <1>6, <1>8, <4>1, <4>2
      <4>3. CASE i # Len(s) + 1
        <5>1. i \in Len(s) - l.abuse_seconds + 1 .. Len(s) /\ i \in 1 .. Len(s)
          <6>1. Len(s) \in Nat /\ l.abuse_seconds \in Nat /\ l.abuse_seconds <= Len(s)
            BY <1>4, <1>6, <3>1
          <6>2. i \in Len(s) + 1 - (l.abuse_seconds + 1) + 1 .. Len(s) + 1
            BY <3>3, <4>1
          <6>3. QED
            BY <4>3, <6>1, <6>2, EarlierInRun
        <5>2. QED
          BY <1>6, <3>1, <5>1
      <4>4. QED
        BY <4>2, <4>3
    <3>4. limiter'[c].abuse_seconds = a /\ checks'[c] = Append(s, check)
      BY <1>9, <2>1
    <3>5. Len(checks'[c]) = Len(s) + 1
      BY <1>6, <3>4
    <3>6. ASSUME NEW i \in Len(checks'[c]) - a + 1 .. Len(checks'[c])
          PROVE  SawDrop(checks'[c][i])
      <4>1. i \in Len(s) + 1 - a + 1 .. Len(s) + 1
        BY <1>6, <1>7, <3>5, <3>6
      <4>2. SawDrop(Append(s, check)[i])
        BY <3>3, <4>1
      <4>3. QED
        BY <3>4, <4>2
    <3>7. QED
      BY <3>2, <3>4, <3>5, <3>6 DEF RunOfDrops, SawDrop
  <2>3. pc'[c] = "abusive" => k.abuse_seconds >= AbuseThreshold
    BY <1>9, <2>1 DEF Abusive, a
  <2>4. QED
    BY <1>1, <1>2, <1>9, <2>1, <2>2, <2>3 DEF CameraSound
<1>14. QED
  BY <1>11, <1>12, <1>13 DEF IInv

LEMMA Invariant == Spec => []IInv
<1>1. IInv /\ [Next]_vars => IInv'
  <2> SUFFICES ASSUME IInv, [Next]_vars PROVE IInv'
    OBVIOUS
  <2>1. ASSUME NEW c \in Cameras,
               ServeCamera(c) \/ BroadcastFrame(c) \/ CountFrame(c) \/ CameraLeaves(c)
        PROVE  IInv'
    BY <2>1, MovesPreserve
  <2>2. ASSUME NEW c \in Cameras, NEW ch \in Channels, NEW len \in Lengths,
               ReceiveFrame(c, ch, len)
        PROVE  IInv'
    BY <2>2, ReceiveFramePreserves
  <2>3. ASSUME NEW c \in Cameras, ReleaseFrame(c) PROVE IInv'
    BY <2>3, ReleaseFramePreserves
  <2>4. ASSUME NEW c \in Cameras, CheckAbuse(c) PROVE IInv'
    BY <2>4, CheckAbusePreserves
  <2>5. QED
    BY <2>1, <2>2, <2>3, <2>4, OtherStepsPreserve DEF Next
<1>2. QED
  BY <1>1, InitEstablishes, PTL DEF Spec

-----------------------------------------------------------------------------
(* The budget never leaks: whatever was dropped, broadcast or refused      *)
(* before, the bytes outstanding are those of the frame in hand            *)
(* (rate_limit.rs:176-215, router.rs:302-318).                             *)
THEOREM BudgetNeverLeaks == Spec => []OutstandingInHand
<1>1. IInv => OutstandingInHand
  BY DEF IInv, CameraSound, OutstandingInHand
<1>2. QED
  BY <1>1, Invariant, PTL

(* A camera is disconnected only when each of its last AbuseThreshold      *)
(* checks saw a drop (rate_limit.rs:228-242, router.rs:321-334).           *)
THEOREM DisconnectsAreEarned == Spec => []AbuseIsSustained
<1>1. ASSUME IInv, NEW c \in Cameras, pc[c] = "abusive"
      PROVE  /\ Len(checks[c]) >= AbuseThreshold
             /\ \A i \in Len(checks[c]) - AbuseThreshold + 1 .. Len(checks[c]) :
                  SawDrop(checks[c][i])
  <2>1. /\ RunOfDrops(c) /\ limiter[c].abuse_seconds >= AbuseThreshold
        /\ limiter[c].abuse_seconds \in Nat /\ Len(checks[c]) \in Nat
    BY <1>1, LenProperties DEF IInv, CameraSound, Shape, Limiter
  <2>2. QED
    BY <2>1, Assumptions DEF RunOfDrops
<1>2. IInv => AbuseIsSustained
  BY <1>1 DEF AbuseIsSustained, SawDrop
<1>3. QED
  BY <1>2, Invariant, PTL

-----------------------------------------------------------------------------
(* The windows.  A window of a channel begins at some time and counts the  *)
(* frames from then on; with the one that ended before it, it covers any   *)
(* stretch of a second that a frame can fall into.                         *)

Stretch(t) == t .. t + Second - 1

Taken(acc, ch, t) == Cardinality(Passed(acc, ch, Stretch(t)))

(* The window w of a channel, over the frames acc, with its limiter made   *)
(* at time e, at time n.                                                   *)
WindowSound(acc, ch, w, e, n) ==
  LET begin == e + w.start
  IN /\ begin <= n
     /\ \A i \in DOMAIN acc : acc[i].f.ch = ch => acc[i].at <= n /\ acc[i].at < begin + Second
     /\ Taken(acc, ch, begin) <= w.count /\ Taken(acc, ch, begin) <= Fps[ch]
     /\ Taken(acc, ch, begin - Second) <= Fps[ch]
     /\ \A t \in Nat : Taken(acc, ch, t) <= 2 * Fps[ch]

Acceptance == [f : AnyFrame, at : Nat]

LEMMA PassedIsFinite ==
  ASSUME NEW acc \in Seq(Acceptance), NEW ch, NEW T
  PROVE  /\ IsFiniteSet(Passed(acc, ch, T)) /\ Cardinality(Passed(acc, ch, T)) \in Nat
<1>1. IsFiniteSet(1 .. Len(acc)) /\ DOMAIN acc = 1 .. Len(acc)
  BY FS_Interval, LenProperties
<1>2. Passed(acc, ch, T) \in SUBSET (1 .. Len(acc))
  BY <1>1 DEF Passed
<1>3. QED
  BY <1>1, <1>2, FS_Subset, FS_CardinalityType

LEMMA AcceptedTimes ==
  ASSUME NEW acc \in Seq(Acceptance)
  PROVE  \A i \in DOMAIN acc : acc[i] \in Acceptance /\ acc[i].at \in Nat
<1>1. \A i \in DOMAIN acc : acc[i] \in Acceptance
  BY ElementOfSeq, LenProperties
<1>2. QED
  BY <1>1 DEF Acceptance

LEMMA FewerPass ==
  ASSUME NEW acc \in Seq(Acceptance), NEW ch, NEW T, NEW U,
         \A i \in DOMAIN acc : acc[i].f.ch = ch /\ acc[i].at \in T => acc[i].at \in U
  PROVE  Cardinality(Passed(acc, ch, T)) <= Cardinality(Passed(acc, ch, U))
<1>1. Passed(acc, ch, T) \in SUBSET Passed(acc, ch, U)
  BY DEF Passed
<1>2. QED
  BY <1>1, PassedIsFinite, FS_Subset

LEMMA NonePass ==
  ASSUME NEW acc, NEW ch, NEW T,
         \A i \in DOMAIN acc : acc[i].f.ch = ch => acc[i].at \notin T
  PROVE  Cardinality(Passed(acc, ch, T)) = 0
<1>1. Passed(acc, ch, T) = {}
  BY DEF Passed
<1>2. QED
  BY <1>1, FS_EmptySet

LEMMA PassInTwo ==
  ASSUME NEW acc \in Seq(Acceptance), NEW ch, NEW T, NEW U, NEW V,
         \A i \in DOMAIN acc : acc[i].f.ch = ch /\ acc[i].at \in T => acc[i].at \in U \cup V
  PROVE  Cardinality(Passed(acc, ch, T))
           <= Cardinality(Passed(acc, ch, U)) + Cardinality(Passed(acc, ch, V))
<1> DEFINE A == Passed(acc, ch, U)
           B == Passed(acc, ch, V)
<1>1. IsFiniteSet(A) /\ IsFiniteSet(B) /\ Cardinality(A) \in Nat /\ Cardinality(B) \in Nat
  BY PassedIsFinite
<1>2. Passed(acc, ch, T) \in SUBSET (A \cup B)
  BY DEF Passed
<1> HIDE DEF A, B
<1>3. IsFiniteSet(A \cup B) /\ Cardinality(A \cup B) = Cardinality(A) + Cardinality(B) - Cardinality(A \cap B)
  BY <1>1, FS_Union
<1>4. Cardinality(A \cap B) \in Nat
  BY <1>1, FS_Intersection, FS_CardinalityType
<1>5. Cardinality(Passed(acc, ch, T)) <= Cardinality(A \cup B)
  BY <1>2, <1>3, FS_Subset
<1>6. Cardinality(Passed(acc, ch, T)) \in Nat
  BY PassedIsFinite
<1>7. QED
  BY <1>1, <1>3, <1>4, <1>5, <1>6 DEF A, B

(* One frame more.                                                         *)
LEMMA OneMorePasses ==
  ASSUME NEW acc \in Seq(Acceptance), NEW a \in Acceptance, NEW ch, NEW T
  PROVE  /\ Append(acc, a) \in Seq(Acceptance)
         /\ a.f.ch # ch \/ a.at \notin T =>
              Passed(Append(acc, a), ch, T) = Passed(acc, ch, T)
         /\ Cardinality(Passed(Append(acc, a), ch, T)) <= Cardinality(Passed(acc, ch, T)) + 1
<1> DEFINE b == Append(acc, a)
           n == Len(acc)
<1>1. /\ b \in Seq(Acceptance) /\ n \in Nat /\ DOMAIN acc = 1 .. n /\ DOMAIN b = 1 .. n + 1
      /\ b[n + 1] = a /\ \A i \in 1 .. n : b[i] = acc[i]
  BY AppendProperties, LenProperties
<1>2. (1 .. n + 1) = (1 .. n) \cup {n + 1}
  BY <1>1
<1> HIDE DEF b
<1>3. a.f.ch # ch \/ a.at \notin T => Passed(b, ch, T) = Passed(acc, ch, T)
  BY <1>1, <1>2 DEF Passed
<1>4. Passed(b, ch, T) \in SUBSET (Passed(acc, ch, T) \cup {n + 1})
  BY <1>1, <1>2 DEF Passed
<1>5. /\ IsFiniteSet(Passed(acc, ch, T) \cup {n + 1})
      /\ Cardinality(Passed(acc, ch, T) \cup {n + 1}) <= Cardinality(Passed(acc, ch, T)) + 1
      /\ Cardinality(Passed(acc, ch, T) \cup {n + 1}) \in Nat
      /\ Cardinality(Passed(acc, ch, T)) \in Nat
  <2>1. IsFiniteSet(Passed(acc, ch, T)) /\ Cardinality(Passed(acc, ch, T)) \in Nat
    BY PassedIsFinite
  <2>2. /\ IsFiniteSet(Passed(acc, ch, T) \cup {n + 1})
        /\ Cardinality(Passed(acc, ch, T) \cup {n + 1})
             \in {Cardinality(Passed(acc, ch, T)), Cardinality(Passed(acc, ch, T)) + 1}
    BY <2>1, FS_AddElement
  <2>3. QED
    BY <2>1, <2>2
<1>6. Cardinality(Passed(b, ch, T)) <= Cardinality(Passed(acc, ch, T) \cup {n + 1})
  BY <1>4, <1>5, FS_Subset
<1>7. Cardinality(Passed(b, ch, T)) \in Nat
  BY <1>1, PassedIsFinite
<1>8. QED
  BY <1>1, <1>3, <1>5, <1>6, <1>7 DEF b

LEMMA TakenIsNat ==
  ASSUME NEW acc \in Seq(Acceptance), NEW ch, NEW t
  PROVE  Taken(acc, ch, t) \in Nat
  BY PassedIsFinite DEF Taken

LEMMA FpsIsNat == ASSUME NEW ch \in Channels PROVE Fps[ch] \in Nat
  BY LimiterAssumption

(* A window that has expired: the frames it counted are the last before    *)
(* the one that begins.                                                    *)
LEMMA WindowExpires ==
  ASSUME NEW acc \in Seq(Acceptance), NEW ch \in Channels, NEW w \in Window,
         NEW e \in Nat, NEW n \in Nat, WindowSound(acc, ch, w, e, n),
         n >= e + w.start + Second
  PROVE  WindowSound(acc, ch, [count |-> 0, start |-> n - e], e, n)
<1> DEFINE begin == e + w.start
<1>1. begin \in Nat /\ Second \in Nat /\ Second > 0 /\ n >= begin + Second /\ e + (n - e) = n
  BY Assumptions DEF Window
<1>2. \A i \in DOMAIN acc : acc[i].at \in Nat
  BY AcceptedTimes
<1>3. \A i \in DOMAIN acc : acc[i].f.ch = ch => acc[i].at < begin + Second /\ acc[i].at <= n
  BY DEF WindowSound
<1> HIDE DEF begin
<1>4. Taken(acc, ch, n) = 0
  BY <1>1, <1>2, <1>3, NonePass DEF Taken, Stretch
<1>5. Taken(acc, ch, n - Second) <= Fps[ch]
  <2>1. \A i \in DOMAIN acc : acc[i].f.ch = ch /\ acc[i].at \in Stretch(n - Second)
                                => acc[i].at \in Stretch(begin)
    BY <1>1, <1>2, <1>3 DEF Stretch
  <2>2. Taken(acc, ch, n - Second) <= Taken(acc, ch, begin)
    BY <2>1, FewerPass DEF Taken
  <2>3. Taken(acc, ch, begin) <= Fps[ch]
    BY DEF WindowSound, begin
  <2>4. QED
    BY <2>2, <2>3, TakenIsNat, FpsIsNat
<1>6. \A i \in DOMAIN acc : acc[i].f.ch = ch => acc[i].at <= n /\ acc[i].at < n + Second
  BY <1>1, <1>2, <1>3
<1>7. \A t \in Nat : Taken(acc, ch, t) <= 2 * Fps[ch]
  BY DEF WindowSound
<1>8. Fps[ch] >= 0
  BY FpsIsNat
<1>9. QED
  BY <1>1, <1>4, <1>5, <1>6, <1>7, <1>8 DEF WindowSound

(* A frame is counted, whether it passes or not ...                        *)
LEMMA WindowCounts ==
  ASSUME NEW acc \in Seq(Acceptance), NEW ch \in Channels, NEW w \in Window,
         NEW e \in Nat, NEW n \in Nat, WindowSound(acc, ch, w, e, n)
  PROVE  WindowSound(acc, ch, [count |-> w.count + 1, start |-> w.start], e, n)
<1>1. w.count \in Nat /\ e + w.start \in Nat
  BY DEF Window
<1>2. Taken(acc, ch, e + w.start) \in Nat
  BY TakenIsNat
<1>3. QED
  BY <1>1, <1>2 DEF WindowSound

(* ... and one that passes is within the limit of its window.              *)
LEMMA WindowTakes ==
  ASSUME NEW acc \in Seq(Acceptance), NEW a \in Acceptance, NEW ch \in Channels,
         NEW w \in Window, NEW e \in Nat, NEW n \in Nat, WindowSound(acc, ch, w, e, n),
         n < e + w.start + Second, a.f.ch = ch, a.at = n, w.count + 1 <= Fps[ch]
  PROVE  WindowSound(Append(acc, a), ch, [count |-> w.count + 1, start |-> w.start], e, n)
<1> DEFINE begin == e + w.start
           b == Append(acc, a)
<1>1. /\ begin \in Nat /\ Second \in Nat /\ Second > 0 /\ w.count \in Nat
      /\ begin <= n /\ n < begin + Second /\ Fps[ch] \in Nat
  BY Assumptions, FpsIsNat DEF Window, WindowSound
<1>2. b \in Seq(Acceptance) /\ \A i \in DOMAIN b : b[i].at \in Nat
  <2>1. b \in Seq(Acceptance)
    BY OneMorePasses
  <2>2. QED
    BY <2>1, AcceptedTimes
<1>3. \A i \in DOMAIN b : b[i].f.ch = ch => b[i].at <= n /\ b[i].at < begin + Second
  <2>1. /\ DOMAIN b = 1 .. Len(acc) + 1 /\ b[Len(acc) + 1] = a /\ DOMAIN acc = 1 .. Len(acc)
        /\ \A i \in 1 .. Len(acc) : b[i] = acc[i]
    BY AppendProperties, LenProperties
  <2>2. \A i \in DOMAIN acc : acc[i].f.ch = ch => acc[i].at <= n /\ acc[i].at < begin + Second
    BY DEF WindowSound
  <2> HIDE DEF b, begin
  <2>3. ASSUME NEW i \in 1 .. Len(acc) + 1, b[i].f.ch = ch
        PROVE  b[i].at <= n /\ b[i].at < begin + Second
    <3>1. CASE i = Len(acc) + 1
      BY <1>1, <2>1, <3>1
    <3>2. CASE i # Len(acc) + 1
      <4>1. i \in 1 .. Len(acc)
        BY <3>2, LenProperties
      <4>2. QED
        BY <2>1, <2>2, <2>3, <4>1
    <3>3. QED
      BY <3>1, <3>2
  <2>4. QED
    BY <2>1, <2>3
<1>4. /\ Taken(acc, ch, begin) <= w.count /\ Taken(acc, ch, begin - Second) <= Fps[ch]
      /\ \A t \in Nat : Taken(acc, ch, t) <= 2 * Fps[ch]
  BY DEF WindowSound
<1>5. \A t : /\ Taken(acc, ch, t) \in Nat /\ Taken(b, ch, t) \in Nat
             /\ Taken(b, ch, t) <= Taken(acc, ch, t) + 1
             /\ n \notin Stretch(t) => Taken(b, ch, t) = Taken(acc, ch, t)
  <2> TAKE t
  <2>1. Taken(acc, ch, t) \in Nat /\ Taken(b, ch, t) \in Nat
    BY <1>2, TakenIsNat
  <2>2. /\ n \notin Stretch(t) => Passed(b, ch, Stretch(t)) = Passed(acc, ch, Stretch(t))
        /\ Taken(b, ch, t) <= Taken(acc, ch, t) + 1
    BY OneMorePasses DEF Taken
  <2>3. QED
    BY <2>1, <2>2 DEF Taken
<1> HIDE DEF begin, b
<1>6. Taken(b, ch, begin) <= w.count + 1 /\ Taken(b, ch, begin) <= Fps[ch]
  <2>1. Taken(b, ch, begin) <= w.count + 1
    BY <1>1, <1>4, <1>5
  <2>2. QED
    BY <1>1, <1>5, <2>1
<1>7. Taken(b, ch, begin - Second) <= Fps[ch]
  <2>1. n \notin Stretch(begin - Second)
    BY <1>1 DEF Stretch
  <2>2. QED
    BY <1>4, <1>5, <2>1
<1>8. ASSUME NEW t \in Nat PROVE Taken(b, ch, t) <= 2 * Fps[ch]
  <2>1. CASE n \notin Stretch(t)
    BY <1>4, <1>5, <2>1
  <2>2. CASE n \in Stretch(t)
    <3>1. ASSUME NEW i \in DOMAIN b, b[i].f.ch = ch, b[i].at \in Stretch(t)
          PROVE  b[i].at \in Stretch(begin - Second) \cup Stretch(begin)
      <4> DEFINE x == b[i].at
      <4>1. x \in Nat /\ x < begin + Second
        BY <1>2, <1>3, <3>1
      <4>2. x >= t /\ n <= t + Second - 1
        BY <1>1, <2>2, <3>1, <4>1 DEF Stretch
      <4> HIDE DEF x
      <4>3. x \in Stretch(begin - Second) \cup Stretch(begin)
        BY <1>1, <4>1, <4>2 DEF Stretch
      <4>4. QED
        BY <4>3 DEF x
    <3>2. Taken(b, ch, t) <= Taken(b, ch, begin - Second) + Taken(b, ch, begin)
      BY <1>2, <3>1, PassInTwo DEF Taken
    <3>3. /\ Taken(b, ch, begin - Second) \in Nat /\ Taken(b, ch, begin) \in Nat
          /\ Taken(b, ch, t) \in Nat /\ Fps[ch] \in Nat
      BY <1>1, <1>5
    <3>4. Taken(b, ch, t) <= Fps[ch] + Fps[ch]
      BY <1>6, <1>7, <3>2, <3>3
    <3>5. QED
      BY <3>3, <3>4
  <2>3. QED
    BY <2>1, <2>2
<1>9. QED
  BY <1>1, <1>3, <1>6, <1>7, <1>8 DEF WindowSound, begin, b

(* A frame of another channel.                                             *)
LEMMA WindowOfOthers ==
  ASSUME NEW acc \in Seq(Acceptance), NEW a \in Acceptance, NEW ch \in Channels,
         NEW w, NEW e, NEW n, WindowSound(acc, ch, w, e, n), a.f.ch # ch
  PROVE  WindowSound(Append(acc, a), ch, w, e, n)
<1> DEFINE b == Append(acc, a)
<1>1. \A t : Taken(b, ch, t) = Taken(acc, ch, t)
  BY OneMorePasses DEF Taken
<1>2. /\ DOMAIN b = 1 .. Len(acc) + 1 /\ b[Len(acc) + 1] = a /\ DOMAIN acc = 1 .. Len(acc)
      /\ \A i \in 1 .. Len(acc) : b[i] = acc[i]
  BY AppendProperties, LenProperties
<1> HIDE DEF b
<1>3. \A i \in DOMAIN b : b[i].f.ch = ch => i \in DOMAIN acc /\ b[i] = acc[i]
  <2>1. \A i \in 1 .. Len(acc) + 1 : i \in 1 .. Len(acc) \/ i = Len(acc) + 1
    BY LenProperties
  <2>2. QED
    BY <1>2, <2>1
<1>4. QED
  BY <1>1, <1>3 DEF WindowSound, b

LEMMA WindowRecords ==
  ASSUME NEW acc \in Seq(Acceptance), NEW a \in Acceptance, NEW ch \in Channels,
         NEW w \in Window, NEW e \in Nat, NEW n \in Nat, n - e \in Nat,
         WindowSound(acc, ch, w, e, n), a.f.ch = ch, a.at = n
  PROVE  /\ WindowSound(acc, ch, Record(w, n - e), e, n)
         /\ Record(w, n - e).count <= Fps[ch] =>
              WindowSound(Append(acc, a), ch, Record(w, n - e), e, n)
<1>1. /\ Second \in Nat /\ Second > 0 /\ w.count \in Nat /\ w.start \in Nat
      /\ w = [count |-> w.count, start |-> w.start]
  BY Assumptions DEF Window
<1>2. CASE n - e - w.start >= Second
  <2> DEFINE v == [count |-> 0, start |-> n - e]
  <2>1. Record(w, n - e) = [count |-> 0 + 1, start |-> n - e]
    BY <1>2 DEF Record
  <2>2. v \in Window /\ v.count = 0 /\ v.start = n - e
    BY DEF Window
  <2>3. WindowSound(acc, ch, v, e, n)
    BY <1>1, <1>2, WindowExpires
  <2> HIDE DEF v
  <2>4. WindowSound(acc, ch, [count |-> v.count + 1, start |-> v.start], e, n)
    BY <2>2, <2>3, WindowCounts
  <2>5. n < e + v.start + Second
    BY <1>1, <2>2
  <2>6. v.count + 1 <= Fps[ch] =>
          WindowSound(Append(acc, a), ch, [count |-> v.count + 1, start |-> v.start], e, n)
    BY <2>2, <2>3, <2>5, WindowTakes
  <2>7. QED
    BY <2>1, <2>2, <2>4, <2>6
<1>3. CASE ~(n - e - w.start >= Second)
  <2>1. Record(w, n - e) = [count |-> w.count + 1, start |-> w.start]
    BY <1>1, <1>3 DEF Record
  <2>2. n < e + w.start + Second
    BY <1>1, <1>3
  <2>3. QED
    BY <2>1, <2>2, WindowCounts, WindowTakes
<1>4. QED
  BY <1>2, <1>3

LEMMA CheckedWindows ==
  ASSUME NEW l \in Limiter, NEW ch \in Channels, NEW len \in Nat, NEW t \in Nat
  PROVE  LET k == CheckFrame(l, ch, len, t)
             r == Record(l.windows[ch], t)
         IN /\ k.windows = l.windows \/ k.windows = [l.windows EXCEPT ![ch] = r]
            /\ ~Drops(l, ch, len, t) =>
                 k.windows = [l.windows EXCEPT ![ch] = r] /\ r.count <= Fps[ch]
<1> DEFINE k == CheckFrame(l, ch, len, t)
           r == Recorded(l, ch, len, t)
           w == Record(l.windows[ch], t)
<1>1. r \in Limiter /\ w \in Window /\ Fps[ch] \in Nat
  BY RecordedLimiter, RecordIsWindow, FpsIsNat DEF Limiter
<1>2. /\ OverBudget(l, len) => r = l
      /\ ~OverBudget(l, len) => r.windows = [l.windows EXCEPT ![ch] = w]
  BY DEF Recorded, Limiter
<1>3. Drops(l, ch, len, t) <=> OverBudget(l, len) \/ r.windows[ch].count > Fps[ch]
  BY DEF Drops
<1> HIDE DEF r, w
<1>4. k.windows = r.windows
  BY <1>1 DEF CheckFrame, Limiter, r
<1>5. ~OverBudget(l, len) => r.windows[ch] = w
  BY <1>2 DEF Limiter
<1>6. w.count \in Nat
  BY <1>1 DEF Window
<1>7. QED
  BY <1>1, <1>2, <1>3, <1>4, <1>5, <1>6 DEF w

-----------------------------------------------------------------------------
(* The windows of all cameras.                                             *)

WindowsSound(c) ==
  /\ pc[c] = "new" => accepted[c] = <<>> /\ limiter[c].windows = NewLimiter.windows
  /\ \A ch \in Channels :
       WindowSound(accepted[c], ch, limiter[c].windows[ch], epoch[c], now)

Windowed == /\ accepted \in [Cameras -> Seq(Acceptance)]
            /\ \A c \in Cameras : WindowsSound(c)

LEMMA NoFrameYet ==
  ASSUME NEW ch \in Channels, NEW w \in Window, NEW e \in Nat, NEW n \in Nat,
         e + w.start <= n
  PROVE  WindowSound(<<>>, ch, w, e, n)
<1>1. \A t : Taken(<<>>, ch, t) = 0
  <2> TAKE t
  <2>1. DOMAIN <<>> = {}
    OBVIOUS
  <2>2. QED
    BY <2>1, NonePass DEF Taken
<1>2. w.count >= 0 /\ Fps[ch] \in Nat /\ DOMAIN <<>> = {}
  BY FpsIsNat DEF Window
<1>3. QED
  BY <1>1, <1>2 DEF WindowSound

LEMMA WindowKeeps ==
  ASSUME NEW acc \in Seq(Acceptance), NEW ch, NEW w, NEW e, NEW n \in Nat, NEW m \in Nat,
         e + w.start \in Nat, n <= m, WindowSound(acc, ch, w, e, n)
  PROVE  WindowSound(acc, ch, w, e, m)
<1>1. \A i \in DOMAIN acc : acc[i].at \in Nat
  BY AcceptedTimes
<1>2. QED
  BY <1>1 DEF WindowSound

LEMMA WindowsStay ==
  ASSUME NEW c \in Cameras, Shape, Windowed, now' \in Nat, now' >= now,
         epoch'[c] = epoch[c], limiter'[c].windows = limiter[c].windows,
         accepted'[c] = accepted[c], pc'[c] = "new" => pc[c] = "new"
  PROVE  WindowsSound(c)'
<1>1. /\ now \in Nat /\ epoch[c] \in Nat /\ accepted[c] \in Seq(Acceptance)
      /\ limiter[c] \in Limiter /\ WindowsSound(c)
  BY DEF Shape, Windowed
<1>2. ASSUME NEW ch \in Channels
      PROVE  WindowSound(accepted[c], ch, limiter[c].windows[ch], epoch[c], now')
  <2>1. epoch[c] + limiter[c].windows[ch].start \in Nat
    BY <1>1 DEF Limiter, Window
  <2>2. WindowSound(accepted[c], ch, limiter[c].windows[ch], epoch[c], now)
    BY <1>1 DEF WindowsSound
  <2>3. QED
    BY <1>1, <2>1, <2>2, WindowKeeps
<1>3. pc'[c] = "new" => accepted[c] = <<>> /\ limiter[c].windows = NewLimiter.windows
  BY <1>1 DEF WindowsSound
<1>4. NewLimiter.windows' = NewLimiter.windows
  BY DEF NewLimiter
<1>5. QED
  BY <1>2, <1>3, <1>4 DEF WindowsSound

LEMMA InitWindowed == Init => Windowed
<1> SUFFICES ASSUME Init PROVE Windowed
  OBVIOUS
<1>1. accepted \in [Cameras -> Seq(Acceptance)]
  BY EmptySeq DEF Init
<1>2. ASSUME NEW c \in Cameras PROVE WindowsSound(c)
  <2>1. /\ accepted[c] = <<>> /\ limiter[c] = NewLimiter /\ epoch[c] = 0 /\ now = 0
    BY <1>2 DEF Init
  <2>2. ASSUME NEW ch \in Channels
        PROVE  WindowSound(accepted[c], ch, limiter[c].windows[ch], epoch[c], now)
    <3>1. NewLimiter.windows[ch] = [count |-> 0, start |-> 0]
      BY <2>2 DEF NewLimiter
    <3>2. limiter[c].windows[ch] \in Window /\ epoch[c] + limiter[c].windows[ch].start <= now
      BY <2>1, <3>1 DEF Window
    <3>3. QED
      BY <2>1, <3>2, NoFrameYet
  <2>3. QED
    BY <2>1, <2>2 DEF WindowsSound
<1>3. QED
  BY <1>1, <1>2 DEF Windowed

(* Most steps leave the windows and what was accepted alone.               *)
LEMMA OthersKeepWindows ==
  ASSUME IInv, Windowed,
         \/ Tick \/ UNCHANGED vars
         \/ \E c \in Cameras : \/ BroadcastFrame(c) \/ ReleaseFrame(c) \/ CountFrame(c)
                               \/ CheckAbuse(c) \/ CameraLeaves(c)
         \/ \E d \in Clients : \/ Subscribe(d) \/ OpenStream(d) \/ OpenStreamFails(d)
                               \/ TakeFrame(d) \/ Lag(d) \/ SendFrame(d) \/ SendFails(d)
  PROVE  Windowed'
<1>1. Shape /\ now \in Nat /\ limiter \in [Cameras -> Limiter]
      /\ pc \in [Cameras -> {"new", "receiving", "broadcasting", "sent", "checking",
                             "abusive", "closed"}]
  BY DEF IInv, Shape
<1>2. UNCHANGED <<epoch, accepted>> /\ now' \in {now, now + 1}
  BY DEF Tick, Subscribe, OpenStream, OpenStreamFails, TakeFrame, Lag, SendFrame,
     SendFails, vars, BroadcastFrame, ReleaseFrame, CountFrame, CheckAbuse, CameraLeaves,
     limits, history
<1>3. \/ UNCHANGED limiter
      \/ \E c \in Cameras : \E k : /\ limiter' = [limiter EXCEPT ![c] = k]
                                    /\ k.windows = limiter[c].windows
  <2>1. ASSUME NEW c \in Cameras, ReleaseFrame(c)
        PROVE  \E k : /\ limiter' = [limiter EXCEPT ![c] = k]
                      /\ k.windows = limiter[c].windows
    <3>1. limiter' = [limiter EXCEPT ![c] = FrameSent(limiter[c], frame[c].len)]
      BY <2>1 DEF ReleaseFrame
    <3>2. FrameSent(limiter[c], frame[c].len).windows = limiter[c].windows
      BY <1>1 DEF FrameSent, Limiter
    <3>3. QED
      BY <3>1, <3>2
  <2>2. ASSUME NEW c \in Cameras, CheckAbuse(c)
        PROVE  \E k : /\ limiter' = [limiter EXCEPT ![c] = k]
                      /\ k.windows = limiter[c].windows
    <3> DEFINE k == [limiter[c] EXCEPT !.abuse_seconds = AbuseAfter(limiter[c], Elapsed(c))]
    <3>1. limiter' = [limiter EXCEPT ![c] = k]
      BY <2>2 DEF CheckAbuse
    <3>2. k.windows = limiter[c].windows
      BY <1>1 DEF Limiter
    <3>3. QED
      BY <3>1, <3>2
  <2>3. \/ UNCHANGED limiter
        \/ \E c \in Cameras : ReleaseFrame(c) \/ CheckAbuse(c)
    BY DEF Tick, Subscribe, OpenStream, OpenStreamFails, TakeFrame, Lag, SendFrame,
       SendFails, vars, BroadcastFrame, CountFrame, CameraLeaves, limits
  <2>4. QED
    BY <2>1, <2>2, <2>3
<1>4. \/ UNCHANGED pc
      \/ \E c \in Cameras, s \in {"sent", "checking", "receiving", "abusive", "closed"} :
           pc' = [pc EXCEPT ![c] = s]
  BY DEF Tick, Subscribe, OpenStream, OpenStreamFails, TakeFrame, Lag, SendFrame,
     SendFails, vars, BroadcastFrame, ReleaseFrame, CountFrame, CheckAbuse, CameraLeaves, Goto
<1>5. ASSUME NEW c \in Cameras PROVE WindowsSound(c)'
  <2>1. limiter'[c].windows = limiter[c].windows
    BY <1>1, <1>3
  <2>2. pc'[c] = "new" => pc[c] = "new"
    BY <1>1, <1>4
  <2>3. now' \in Nat /\ now' >= now
    BY <1>1, <1>2
  <2>4. QED
    BY <1>1, <1>2, <2>1, <2>2, <2>3, WindowsStay
<1>6. QED
  BY <1>2, <1>5 DEF Windowed

LEMMA ServeCameraKeepsWindows ==
  ASSUME IInv, Windowed, NEW c \in Cameras, ServeCamera(c)
  PROVE  Windowed'
<1>1. /\ UNCHANGED <<now, limiter, accepted>> /\ pc[c] = "new"
      /\ pc' = [pc EXCEPT ![c] = "receiving"] /\ epoch' = [epoch EXCEPT ![c] = now]
  BY DEF ServeCamera, Goto, history
<1>2. Shape /\ now \in Nat
  BY DEF IInv, Shape
<1>3. ASSUME NEW d \in Cameras, d # c PROVE WindowsSound(d)'
  <2>1. /\ epoch'[d] = epoch[d] /\ limiter'[d] = limiter[d] /\ accepted'[d] = accepted[d]
        /\ pc'[d] = pc[d] /\ now' = now
    BY <1>1, <1>2, <1>3 DEF Shape
  <2>2. QED
    BY <1>2, <2>1, WindowsStay
<1>4. WindowsSound(c)'
  <2>1. /\ accepted'[c] = <<>> /\ limiter'[c].windows = NewLimiter.windows
        /\ epoch'[c] = now' /\ pc'[c] = "receiving" /\ now' \in Nat
    BY <1>1, <1>2 DEF Windowed, WindowsSound, Shape
  <2>2. ASSUME NEW ch \in Channels
        PROVE  WindowSound(accepted'[c], ch, limiter'[c].windows[ch], epoch'[c], now')
    <3>1. NewLimiter.windows[ch] = [count |-> 0, start |-> 0]
      BY <2>2 DEF NewLimiter
    <3>2. limiter'[c].windows[ch] = [count |-> 0, start |-> 0]
      BY <2>1, <3>1
    <3>3. /\ limiter'[c].windows[ch] \in Window
          /\ epoch'[c] + limiter'[c].windows[ch].start <= now'
      <4>1. limiter'[c].windows[ch].start = 0 /\ limiter'[c].windows[ch] \in Window
        BY <3>2 DEF Window
      <4>2. epoch'[c] + 0 <= now'
        BY <2>1
      <4>3. QED
        BY <4>1, <4>2
    <3>4. QED
      BY <2>1, <3>3, NoFrameYet
  <2>3. QED
    BY <2>1, <2>2 DEF WindowsSound
<1>5. QED
  BY <1>1, <1>3, <1>4 DEF Windowed

LEMMA ReceiveFrameKeepsWindows ==
  ASSUME IInv, Windowed, NEW c \in Cameras, NEW ch \in Channels, NEW len \in Lengths,
         ReceiveFrame(c, ch, len)
  PROVE  Windowed'
<1> DEFINE t == Elapsed(c)
           l == limiter[c]
           k == CheckFrame(l, ch, len, t)
           r == Record(l.windows[ch], t)
           f == [camera |-> c, n |-> received'[c], ch |-> ch, len |-> len]
           a == [f |-> f, at |-> now]
           acc == accepted[c]
<1>1. /\ Shape /\ now \in Nat /\ epoch[c] \in Nat /\ t \in Nat /\ t = now - epoch[c]
      /\ l \in Limiter /\ len \in Nat
      /\ acc \in Seq(Acceptance) /\ WindowsSound(c)
  BY Assumptions DEF IInv, Shape, CameraSound, Elapsed, Windowed
<1>2. /\ UNCHANGED <<now, epoch>> /\ pc[c] = "receiving"
      /\ received' = [received EXCEPT ![c] = @ + 1]
      /\ limiter' = [limiter EXCEPT ![c] = k]
      /\ \/ /\ Drops(l, ch, len, t) /\ UNCHANGED accepted
            /\ pc' = [pc EXCEPT ![c] = "checking"]
         \/ /\ ~Drops(l, ch, len, t)
            /\ pc' = [pc EXCEPT ![c] = "broadcasting"]
            /\ accepted' = [accepted EXCEPT ![c] = Append(@, a)]
  BY DEF ReceiveFrame, Goto
<1>3. a \in Acceptance /\ a.f.ch = ch /\ a.at = now
  <2>1. received'[c] \in Nat
    BY <1>1, <1>2 DEF Shape
  <2>2. QED
    BY <1>1, <2>1 DEF Acceptance, AnyFrame
<1>4. /\ k.windows = l.windows \/ k.windows = [l.windows EXCEPT ![ch] = r]
      /\ ~Drops(l, ch, len, t) =>
           k.windows = [l.windows EXCEPT ![ch] = r] /\ r.count <= Fps[ch]
  BY <1>1, CheckedWindows
<1>5. l.windows \in [Channels -> Window]
  BY <1>1 DEF Limiter
<1>6. /\ WindowSound(acc, ch, l.windows[ch], epoch[c], now)
      /\ WindowSound(acc, ch, r, epoch[c], now)
      /\ r.count <= Fps[ch] => WindowSound(Append(acc, a), ch, r, epoch[c], now)
  <2>1. l.windows[ch] \in Window
    BY <1>5
  <2>2. WindowSound(acc, ch, l.windows[ch], epoch[c], now)
    BY <1>1 DEF WindowsSound
  <2> HIDE DEF t, l, a, acc
  <2>3. QED
    BY <1>1, <1>3, <2>1, <2>2, WindowRecords
<1>7. ASSUME NEW g \in Channels, g # ch
      PROVE  /\ WindowSound(acc, g, l.windows[g], epoch[c], now)
             /\ WindowSound(Append(acc, a), g, l.windows[g], epoch[c], now)
  <2>1. WindowSound(acc, g, l.windows[g], epoch[c], now)
    BY <1>1 DEF WindowsSound
  <2> HIDE DEF a, acc
  <2>2. QED
    BY <1>1, <1>3, <1>7, <2>1, WindowOfOthers
<1>8. Append(acc, a) \in Seq(Acceptance)
  BY <1>1, <1>3, AppendProperties
<1> HIDE DEF t, k, r, f, a
<1>9. ASSUME NEW d \in Cameras, d # c PROVE WindowsSound(d)'
  <2>1. /\ epoch'[d] = epoch[d] /\ limiter'[d] = limiter[d] /\ accepted'[d] = accepted[d]
        /\ pc'[d] = pc[d] /\ now' = now
    BY <1>1, <1>2, <1>9 DEF Shape, Windowed
  <2>2. QED
    BY <1>1, <2>1, WindowsStay
<1>10. WindowsSound(c)'
  <2>1. limiter'[c] = k /\ epoch'[c] = epoch[c] /\ now' = now /\ pc'[c] # "new"
    BY <1>1, <1>2 DEF Shape
  <2>2. \/ accepted'[c] = acc
        \/ accepted'[c] = Append(acc, a) /\ ~Drops(l, ch, len, t)
    BY <1>2 DEF Windowed
  <2>3. ASSUME NEW g \in Channels
        PROVE  WindowSound(accepted'[c], g, k.windows[g], epoch[c], now)
    <3>1. CASE g = ch
      <4>1. k.windows[ch] = l.windows[ch] \/ k.windows[ch] = r
        BY <1>4, <1>5
      <4>2. ~Drops(l, ch, len, t) => k.windows[ch] = r /\ r.count <= Fps[ch]
        BY <1>4, <1>5
      <4>3. QED
        BY <1>6, <2>2, <3>1, <4>1, <4>2
    <3>2. CASE g # ch
      <4>1. k.windows[g] = l.windows[g]
        BY <1>4, <1>5, <3>2
      <4>2. QED
        BY <1>7, <2>2, <3>2, <4>1
    <3>3. QED
      BY <3>1, <3>2
  <2>4. QED
    BY <2>1, <2>3 DEF WindowsSound
<1>11. accepted' \in [Cameras -> Seq(Acceptance)]
  BY <1>2, <1>8 DEF Windowed
<1>12. QED
  BY <1>9, <1>10, <1>11 DEF Windowed

LEMMA WindowsInvariant == Spec => []Windowed
<1>1. IInv /\ Windowed /\ [Next]_vars => Windowed'
  <2> SUFFICES ASSUME IInv, Windowed, [Next]_vars PROVE Windowed'
    OBVIOUS
  <2>1. ASSUME NEW c \in Cameras, ServeCamera(c) PROVE Windowed'
    BY <2>1, ServeCameraKeepsWindows
  <2>2. ASSUME NEW c \in Cameras, NEW ch \in Channels, NEW len \in Lengths,
               ReceiveFrame(c, ch, len)
        PROVE  Windowed'
    BY <2>2, ReceiveFrameKeepsWindows
  <2>3. QED
    BY <2>1, <2>2, OthersKeepWindows DEF Next
<1>2. QED
  BY <1>1, InitWindowed, Invariant, PTL DEF Spec

(* No stretch of a second, wherever it starts, has more than twice the     *)
(* limit of a channel (rate_limit.rs:74-90, 186-198).                      *)
THEOREM BurstsAreBounded == Spec => []BurstBounded
<1>1. Windowed => BurstBounded
  BY DEF Windowed, WindowsSound, WindowSound, BurstBounded, Taken, Stretch
<1>2. QED
  BY <1>1, WindowsInvariant, PTL

-----------------------------------------------------------------------------
(* The way through the ring.                                               *)

Total == SumFunctionOnSet([c \in Cameras |-> Sent(c)], Cameras)

AllReceived == SumFunctionOnSet(received, Cameras)

InHand(d) == IF client[d] = "sending" THEN 1 ELSE 0

Ranges ==
  /\ now \in 0 .. MaxTime /\ epoch \in [Cameras -> 0 .. MaxTime]
  /\ \A c \in Cameras : limiter[c].bytes_outstanding <= MemoryBudget
  /\ unchecked \in [Cameras -> 0 .. AbuseEvery - 1]
  /\ stats \in [frames_received : Nat, frames_broadcast : Nat]
  /\ AllReceived <= MaxFrames

ClientShape ==
  /\ client \in [Clients -> {"new", "opening", "receiving", "sending", "gone"}]
  /\ cursor \in [Clients -> Nat \ {0}] /\ joined \in [Clients -> Nat]
  /\ forwarded \in [Clients -> Seq(AnyFrame)] /\ missed \in [Clients -> Nat]

(* The frames of a camera are numbered as they come; the one in hand is    *)
(* the last that was accepted.                                             *)
Numbered(c) ==
  LET acc == accepted[c]
  IN /\ \A i \in 1 .. Len(acc) : acc[i].f.camera = c /\ acc[i].f.n \in 1 .. received[c]
     /\ \A i, j \in 1 .. Len(acc) : i < j => acc[i].f.n < acc[j].f.n
     /\ frame[c] # NoFrame => Len(acc) > 0 /\ frame[c] = acc[Len(acc)].f

InOrder(s) ==
  \A i, j \in 1 .. Len(s) : i < j /\ s[i].camera = s[j].camera => s[i].n < s[j].n

(* What is in the ring was accepted and is no longer in hand.              *)
RingSound ==
  /\ ring \in Seq(AnyFrame) /\ InOrder(ring)
  /\ \A i \in 1 .. Len(ring) :
       \E k \in 1 .. Sent(ring[i].camera) : accepted[ring[i].camera][k].f = ring[i]

(* What a client was sent lies before the frame it takes next, or holds.   *)
Follows(d) ==
  /\ cursor[d] <= Len(ring) + 1 /\ cursor[d] - InHand(d) >= 1
  /\ client[d] = "new" => forwarded[d] = <<>> /\ missed[d] = 0
  /\ Subscribed(d) =>
       Total - joined[d] = Len(forwarded[d]) + missed[d] + (Len(ring) + 1 - cursor[d]) + InHand(d)
  /\ \A i \in 1 .. Len(forwarded[d]) :
       \E p \in 1 .. cursor[d] - InHand(d) - 1 : ring[p] = forwarded[d][i]
  /\ InOrder(forwarded[d])

CamerasNumbered == \A c \in Cameras : Numbered(c)
ClientsFollow == \A d \in Clients : Follows(d)

RInv == Ranges /\ ClientShape /\ RingSound /\ CamerasNumbered /\ ClientsFollow

LEMMA RelayBounds ==
  /\ IsFiniteSet(Cameras) /\ RingCapacity \in Nat /\ RingCapacity > 0
  /\ AbuseEvery \in Nat /\ AbuseEvery > 0 /\ MaxFrames \in Nat /\ MaxTime \in Nat
  /\ MemoryBudget \in Nat
  BY RelayAssumption, LimiterAssumption

LEMMA SentIsNat ==
  ASSUME Windowed, CamerasNumbered, IInv, NEW c \in Cameras
  PROVE  /\ Sent(c) \in Nat /\ Sent(c) <= Len(accepted[c]) /\ Len(accepted[c]) \in Nat
         /\ pc[c] # "broadcasting" => Sent(c) = Len(accepted[c])
         /\ pc[c] = "broadcasting" => Sent(c) = Len(accepted[c]) - 1
<1>1. accepted[c] \in Seq(Acceptance) /\ Len(accepted[c]) \in Nat
  BY LenProperties DEF Windowed
<1>2. pc[c] = "broadcasting" => Len(accepted[c]) > 0
  BY DEF IInv, CameraSound, CamerasNumbered, Numbered
<1>3. CASE pc[c] = "broadcasting"
  <2>1. Sent(c) = Len(accepted[c]) - 1
    BY <1>3 DEF Sent
  <2>2. QED
    BY <1>1, <1>2, <1>3, <2>1
<1>4. CASE pc[c] # "broadcasting"
  <2>1. Sent(c) = Len(accepted[c]) - 0
    BY <1>4 DEF Sent
  <2>2. QED
    BY <1>1, <1>4, <2>1
<1>5. QED
  BY <1>3, <1>4

LEMMA TotalIsSum == FoldFunction(+,0,[c \in Cameras |-> Sent(c)]) = Total
<1>1. DOMAIN [c \in Cameras |-> Sent(c)] = Cameras
  OBVIOUS
<1>2. QED
  BY <1>1, FoldIsSum DEF Total

LEMMA NextTotalIsSum == Total' = SumFunctionOnSet([c \in Cameras |-> Sent(c)'], Cameras)
  BY DEF Total, Sent

LEMMA ReceivedIsSum == ASSUME IInv PROVE FoldFunction(+,0,received) = AllReceived
<1>1. DOMAIN received = Cameras
  BY DEF IInv, Shape
<1>2. QED
  BY <1>1, FoldIsSum DEF AllReceived

LEMMA TotalIsNat ==
  ASSUME Windowed, CamerasNumbered, IInv
  PROVE  Total \in Nat
<1> DEFINE f == [c \in Cameras |-> Sent(c)]
<1>1. \A c \in Cameras : f[c] \in Nat
  BY SentIsNat
<1> HIDE DEF f
<1>2. SumFunctionOnSet(f, Cameras) \in Nat
  BY <1>1, RelayBounds, SumIsNat
<1>3. QED
  BY <1>2, Zenon DEF f, Total

LEMMA TotalStays ==
  ASSUME \A c \in Cameras : Sent(c)' = Sent(c)
  PROVE  Total' = Total
<1>1. [c \in Cameras |-> Sent(c)'] = [c \in Cameras |-> Sent(c)]
  OBVIOUS
<1>2. QED
  BY <1>1, NextTotalIsSum DEF Total

LEMMA TotalGrows ==
  ASSUME Windowed, CamerasNumbered, IInv, NEW c \in Cameras, Sent(c)' = Sent(c) + 1,
         \A e \in Cameras : e # c => Sent(e)' = Sent(e)
  PROVE  Total' = Total + 1
<1> DEFINE f == [e \in Cameras |-> Sent(e)]
           g == [e \in Cameras |-> Sent(e)']
<1>1. /\ \A e \in Cameras : f[e] \in Int
      /\ g[c] = f[c] + 1 /\ g[c] \in Int
      /\ \A e \in Cameras : e # c => f[e] = g[e]
  BY SentIsNat
<1> HIDE DEF f, g
<1>2. SumFunctionOnSet(g, Cameras) = SumFunctionOnSet(f, Cameras) - f[c] + g[c]
  BY <1>1, RelayBounds, SumOfChanged
<1>3. SumFunctionOnSet(f, Cameras) \in Int
  BY <1>1, RelayBounds, SumIsInt
<1>4. SumFunctionOnSet(g, Cameras) = SumFunctionOnSet(f, Cameras) + 1
  BY <1>1, <1>2, <1>3
<1>5. QED
  BY <1>4, NextTotalIsSum DEF f, g, Total

(* What is received by one camera is received by all.                      *)
LEMMA ReceivedInAll ==
  ASSUME IInv, Ranges, NEW c \in Cameras
  PROVE  received[c] <= MaxFrames
<1>1. \A e \in Cameras : received[e] \in Nat
  BY DEF IInv, Shape
<1>3. SumFunctionOnSet(received, Cameras) <= MaxFrames
  BY DEF Ranges, AllReceived
<1>4. received[c] <= SumFunctionOnSet(received, Cameras)
  BY <1>1, RelayBounds, SumHasParts
<1>5. SumFunctionOnSet(received, Cameras) \in Nat
  BY <1>1, RelayBounds, SumIsNat
<1>6. QED
  BY <1>1, <1>3, <1>4, <1>5, RelayBounds

LEMMA ReceivedGrows ==
  ASSUME IInv, NEW c \in Cameras, received' = [received EXCEPT ![c] = @ + 1],
         AllReceived < MaxFrames
  PROVE  AllReceived' <= MaxFrames
<1>1. received \in [Cameras -> Nat] /\ received' \in [Cameras -> Nat]
  BY DEF IInv, Shape
<1> DEFINE f == received
           g == received'
<1>2. /\ \A e \in Cameras : f[e] \in Int
      /\ g[c] \in Int /\ g[c] = f[c] + 1
      /\ \A e \in Cameras : e # c => f[e] = g[e]
  BY <1>1
<1> HIDE DEF f, g
<1>3. SumFunctionOnSet(g, Cameras) = SumFunctionOnSet(f, Cameras) - f[c] + g[c]
  BY <1>2, RelayBounds, SumOfChanged
<1>4. SumFunctionOnSet(f, Cameras) \in Int
  BY <1>2, RelayBounds, SumIsInt
<1>5. AllReceived = SumFunctionOnSet(f, Cameras) /\ AllReceived' = SumFunctionOnSet(g, Cameras)
  BY DEF AllReceived, f, g
<1>6. QED
  BY <1>2, <1>3, <1>4, <1>5, RelayBounds

-----------------------------------------------------------------------------
(* The cameras' steps and the relay.                                       *)

(* As long as no frame goes into the ring and no client moves.             *)
LEMMA RelayStays ==
  ASSUME RInv, Windowed, IInv,
         UNCHANGED <<ring, client, cursor, joined, forwarded, missed>>,
         \A c \in Cameras : Sent(c)' = Sent(c),
         \A c \in Cameras : \A k \in 1 .. Sent(c) : accepted'[c][k] = accepted[c][k]
  PROVE  ClientShape' /\ RingSound' /\ ClientsFollow'
<1>1. ClientShape'
  BY DEF RInv, ClientShape
<1>2. RingSound'
  <2>1. \A i \in 1 .. Len(ring) : ring[i] \in AnyFrame /\ ring[i].camera \in Cameras
    <3>1. \A i \in 1 .. Len(ring) : ring[i] \in AnyFrame
      BY ElementOfSeq DEF RInv, RingSound
    <3>2. QED
      BY <3>1 DEF AnyFrame
  <2>2. ASSUME NEW i \in 1 .. Len(ring)
        PROVE  \E k \in 1 .. Sent(ring[i].camera)' : accepted'[ring[i].camera][k].f = ring[i]
    <3>1. PICK k \in 1 .. Sent(ring[i].camera) : accepted[ring[i].camera][k].f = ring[i]
      BY DEF RInv, RingSound
    <3>2. ring[i].camera \in Cameras
      BY <2>1
    <3>3. QED
      BY <3>1, <3>2
  <2>3. QED
    BY <2>2 DEF RInv, RingSound, InOrder
<1>3. ASSUME NEW d \in Clients PROVE Follows(d)'
  <2>1. Total' = Total
    BY TotalStays
  <2>2. Follows(d)
    BY DEF RInv, ClientsFollow
  <2>3. QED
    BY <2>1, <2>2 DEF Follows, InHand, Subscribed, InOrder
<1>4. QED
  BY <1>1, <1>2, <1>3 DEF ClientsFollow

LEMMA OtherCamerasNumbered ==
  ASSUME NEW c \in Cameras, Numbered(c), accepted'[c] = accepted[c],
         received'[c] = received[c], frame'[c] \in {frame[c], NoFrame}
  PROVE  Numbered(c)'
  BY DEF Numbered

(* The steps of a handler that touch neither what was accepted nor what a  *)
(* frame in hand is.                                                       *)
LEMMA QuietStepsRelay ==
  ASSUME RInv, Windowed, IInv,
         \/ Tick
         \/ \E c \in Cameras : \/ ServeCamera(c) \/ ReleaseFrame(c) \/ CountFrame(c)
                               \/ CheckAbuse(c) \/ CameraLeaves(c)
  PROVE  ClientShape' /\ RingSound' /\ ClientsFollow' /\ CamerasNumbered'
<1>1. UNCHANGED <<ring, client, cursor, joined, forwarded, missed, accepted, received>>
  BY DEF Tick, ServeCamera, ReleaseFrame, CountFrame, CheckAbuse, CameraLeaves, history,
         ringVars, clientVars
<1>2. \A c \in Cameras : pc'[c] = "broadcasting" <=> pc[c] = "broadcasting"
  <2>1. \/ UNCHANGED pc
        \/ \E c \in Cameras, s \in {"receiving", "checking", "abusive", "closed"} :
             pc[c] # "broadcasting" /\ pc' = [pc EXCEPT ![c] = s]
    BY DEF Tick, ServeCamera, ReleaseFrame, CountFrame, CheckAbuse, CameraLeaves, Goto
  <2>2. DOMAIN pc = Cameras
    BY DEF IInv, Shape
  <2>3. QED
    BY <2>1, <2>2
<1>3. \A c \in Cameras : frame'[c] \in {frame[c], NoFrame}
  <2>1. UNCHANGED frame \/ \E c \in Cameras : frame' = [frame EXCEPT ![c] = NoFrame]
    BY DEF Tick, ServeCamera, ReleaseFrame, CountFrame, CheckAbuse, CameraLeaves
  <2>2. DOMAIN frame = Cameras
    BY DEF IInv, Shape
  <2>3. QED
    BY <2>1, <2>2
<1>4. \A c \in Cameras : Sent(c)' = Sent(c)
  BY <1>1, <1>2 DEF Sent
<1>5. CamerasNumbered'
  <2>1. ASSUME NEW c \in Cameras PROVE Numbered(c)'
    BY <1>1, <1>3, OtherCamerasNumbered DEF RInv, CamerasNumbered
  <2>2. QED
    BY <2>1 DEF CamerasNumbered
<1>6. QED
  BY <1>1, <1>4, <1>5, RelayStays

LEMMA QuietStepsRanges ==
  ASSUME RInv, Windowed, IInv, IInv',
         \/ Tick
         \/ \E c \in Cameras : \/ ServeCamera(c) \/ ReleaseFrame(c) \/ CountFrame(c)
                               \/ CheckAbuse(c) \/ CameraLeaves(c)
         \/ UNCHANGED vars
  PROVE  Ranges'
<1>1. /\ Ranges /\ limiter \in [Cameras -> Limiter]
      /\ \A c \in Cameras : limiter[c].bytes_outstanding \in Nat
  BY DEF RInv, IInv, Shape, Limiter
<1>2. UNCHANGED <<stats, received>>
  BY DEF Tick, ServeCamera, ReleaseFrame, CountFrame, CheckAbuse, CameraLeaves, history,
         ringVars, vars
<1>3. now' \in 0 .. MaxTime
  <2>1. now' = now \/ (now < MaxTime /\ now' = now + 1)
    BY DEF Tick, ServeCamera, ReleaseFrame, CountFrame, CheckAbuse, CameraLeaves, vars
  <2>2. now \in 0 .. MaxTime
    BY <1>1 DEF Ranges
  <2>3. QED
    BY <2>1, <2>2, RelayBounds
<1>4. epoch' \in [Cameras -> 0 .. MaxTime]
  BY <1>1 DEF Tick, ServeCamera, ReleaseFrame, CountFrame, CheckAbuse,
     CameraLeaves, vars, limits, Ranges
<1>5. unchecked' \in [Cameras -> 0 .. AbuseEvery - 1]
  <2>1. \/ UNCHANGED unchecked
        \/ \E c \in Cameras : \/ unchecked[c] + 1 < AbuseEvery
                                 /\ unchecked' = [unchecked EXCEPT ![c] = unchecked[c] + 1]
                              \/ unchecked' = [unchecked EXCEPT ![c] = 0]
    BY DEF Tick, ServeCamera, ReleaseFrame, CountFrame, CheckAbuse, CameraLeaves, vars, limits
  <2>2. unchecked \in [Cameras -> 0 .. AbuseEvery - 1]
    BY <1>1 DEF Ranges
  <2>3. 0 \in 0 .. AbuseEvery - 1
    BY RelayBounds
  <2>4. \A c \in Cameras : unchecked[c] + 1 < AbuseEvery => unchecked[c] + 1 \in 0 .. AbuseEvery - 1
    BY <2>2, RelayBounds
  <2>5. QED
    BY <2>1, <2>2, <2>3, <2>4
<1>6. \A c \in Cameras : limiter'[c].bytes_outstanding <= MemoryBudget
  <2>1. ASSUME NEW c \in Cameras, ReleaseFrame(c)
        PROVE  \A e \in Cameras : limiter'[e].bytes_outstanding <= MemoryBudget
    <3>1. limiter' = [limiter EXCEPT ![c] = FrameSent(limiter[c], frame[c].len)]
      BY <2>1 DEF ReleaseFrame
    <3>2. limiter'[c].bytes_outstanding = 0
      <4>1. frame'[c] = NoFrame
        BY <2>1 DEF ReleaseFrame, IInv, Shape
      <4>2. QED
        BY <4>1 DEF IInv, CameraSound
    <3>3. QED
      BY <1>1, <3>1, <3>2, RelayBounds DEF Ranges
  <2>2. ASSUME NEW c \in Cameras, CheckAbuse(c)
        PROVE  \A e \in Cameras : limiter'[e].bytes_outstanding <= MemoryBudget
    <3> DEFINE k == [limiter[c] EXCEPT !.abuse_seconds = AbuseAfter(limiter[c], Elapsed(c))]
    <3>1. limiter' = [limiter EXCEPT ![c] = k]
      BY <2>2 DEF CheckAbuse
    <3>2. k.bytes_outstanding = limiter[c].bytes_outstanding
      BY <1>1 DEF Limiter
    <3> HIDE DEF k
    <3>3. QED
      BY <1>1, <3>1, <3>2 DEF Ranges
  <2>3. \/ UNCHANGED limiter
        \/ \E c \in Cameras : ReleaseFrame(c) \/ CheckAbuse(c)
    BY DEF Tick, ServeCamera, CountFrame, CameraLeaves, vars, limits
  <2>4. QED
    BY <1>1, <2>1, <2>2, <2>3 DEF Ranges
<1>7. AllReceived' <= MaxFrames
  BY <1>1, <1>2 DEF Ranges, AllReceived
<1>8. QED
  BY <1>1, <1>2, <1>3, <1>4, <1>5, <1>6, <1>7 DEF Ranges

(* A frame that comes is numbered; one that passes is in hand.             *)
LEMMA ReceiveFrameRelay ==
  ASSUME RInv, Windowed, IInv, NEW c \in Cameras, NEW ch \in Channels, NEW len \in Lengths,
         ReceiveFrame(c, ch, len)
  PROVE  ClientShape' /\ RingSound' /\ ClientsFollow' /\ CamerasNumbered'
<1> DEFINE t == Elapsed(c)
           f == [camera |-> c, n |-> received'[c], ch |-> ch, len |-> len]
           a == [f |-> f, at |-> now]
           acc == accepted[c]
<1>1. /\ acc \in Seq(Acceptance) /\ Len(acc) \in Nat /\ frame[c] = NoFrame /\ pc[c] = "receiving"
      /\ received[c] \in Nat /\ DOMAIN pc = Cameras /\ DOMAIN accepted = Cameras
      /\ DOMAIN frame = Cameras /\ DOMAIN received = Cameras /\ Numbered(c)
  <2>1. pc[c] = "receiving"
    BY DEF ReceiveFrame, Goto
  <2>2. QED
    BY <2>1, LenProperties DEF IInv, Shape, CameraSound, Windowed, RInv, CamerasNumbered
<1>2. /\ UNCHANGED <<ring, client, cursor, joined, forwarded, missed>>
      /\ received' = [received EXCEPT ![c] = @ + 1]
      /\ \/ /\ UNCHANGED <<frame, accepted>> /\ pc' = [pc EXCEPT ![c] = "checking"]
         \/ /\ pc' = [pc EXCEPT ![c] = "broadcasting"]
            /\ frame' = [frame EXCEPT ![c] = f]
            /\ accepted' = [accepted EXCEPT ![c] = Append(@, a)]
  BY DEF ReceiveFrame, Goto, ringVars, clientVars
<1>3. f.camera = c /\ f.n = received[c] + 1 /\ received'[c] = received[c] + 1
  BY <1>1, <1>2
<1>4. a.f = f
  OBVIOUS
<1> HIDE DEF t, f, a
<1>5. /\ Len(Append(acc, a)) = Len(acc) + 1 /\ Append(acc, a)[Len(acc) + 1] = a
      /\ \A i \in 1 .. Len(acc) : Append(acc, a)[i] = acc[i]
  BY <1>1, AppendProperties
<1>6. \A e \in Cameras : e # c => /\ accepted'[e] = accepted[e] /\ frame'[e] = frame[e]
                                  /\ received'[e] = received[e] /\ pc'[e] = pc[e]
  BY <1>1, <1>2
<1>7. \/ accepted'[c] = acc /\ frame'[c] = NoFrame /\ pc'[c] = "checking"
      \/ accepted'[c] = Append(acc, a) /\ frame'[c] = f /\ pc'[c] = "broadcasting"
  BY <1>1, <1>2
<1> HIDE DEF acc
<1>8. Sent(c)' = Len(acc) /\ Sent(c) = Len(acc)
  <2>1. Sent(c) = Len(acc) - 0
    BY <1>1 DEF Sent, acc
  <2>2. CASE accepted'[c] = acc /\ pc'[c] = "checking"
    BY <1>1, <2>1, <2>2 DEF Sent
  <2>3. CASE accepted'[c] = Append(acc, a) /\ pc'[c] = "broadcasting"
    <3>1. Sent(c)' = Len(acc) + 1 - 1
      BY <1>5, <2>3 DEF Sent
    <3>2. QED
      BY <1>1, <2>1, <3>1
  <2>4. QED
    BY <1>7, <2>2, <2>3
<1>9. \A e \in Cameras : Sent(e)' = Sent(e)
  BY <1>6, <1>8 DEF Sent
<1>10. \A e \in Cameras : \A k \in 1 .. Sent(e) : accepted'[e][k] = accepted[e][k]
  BY <1>5, <1>6, <1>7, <1>8 DEF acc
<1>11. Numbered(c)'
  <2>1. CASE accepted'[c] = acc /\ frame'[c] = NoFrame
    <3>1. \A i \in 1 .. Len(acc) : acc[i].f.n \in 1 .. received[c] => acc[i].f.n \in 1 .. received[c] + 1
      BY <1>1
    <3>2. QED
      BY <1>1, <1>3, <2>1, <3>1 DEF Numbered, acc
  <2>2. CASE accepted'[c] = Append(acc, a) /\ frame'[c] = f
    <3> DEFINE b == Append(acc, a)
    <3>1. /\ Len(b) = Len(acc) + 1 /\ Len(b) > 0 /\ f = b[Len(b)].f
      BY <1>1, <1>4, <1>5
    <3>2. ASSUME NEW i \in 1 .. Len(acc) + 1
          PROVE  /\ b[i].f.camera = c /\ b[i].f.n \in 1 .. received[c] + 1
                 /\ i # Len(acc) + 1 => b[i].f.n \in 1 .. received[c] /\ b[i] = acc[i]
      <4>1. CASE i = Len(acc) + 1
        BY <1>1, <1>3, <1>4, <1>5, <4>1
      <4>2. CASE i # Len(acc) + 1
        <5>1. i \in 1 .. Len(acc)
          BY <1>1, <4>2
        <5>2. acc[i].f.camera = c /\ acc[i].f.n \in 1 .. received[c]
          BY <1>1, <5>1 DEF Numbered, acc
        <5>3. QED
          BY <1>1, <1>5, <5>1, <5>2
      <4>3. QED
        BY <4>1, <4>2
    <3>3. ASSUME NEW i \in 1 .. Len(acc) + 1, NEW j \in 1 .. Len(acc) + 1, i < j
          PROVE  b[i].f.n < b[j].f.n
      <4>1. i \in 1 .. Len(acc)
        BY <1>1, <3>3
      <4>2. CASE j = Len(acc) + 1
        <5>1. b[j].f.n = received[c] + 1
          BY <1>3, <1>4, <1>5, <4>2
        <5>2. b[i].f.n \in 1 .. received[c]
          BY <1>1, <3>2, <4>1
        <5>3. QED
          BY <1>1, <5>1, <5>2
      <4>3. CASE j # Len(acc) + 1
        <5>1. j \in 1 .. Len(acc)
          BY <1>1, <4>3
        <5>2. acc[i].f.n < acc[j].f.n
          BY <1>1, <3>3, <4>1, <5>1 DEF Numbered, acc
        <5>3. QED
          BY <1>5, <4>1, <5>1, <5>2
      <4>4. QED
        BY <4>2, <4>3
    <3> HIDE DEF b
    <3>4. accepted'[c] = b
      BY <2>2 DEF b
    <3>5. QED
      BY <1>3, <2>2, <3>1, <3>2, <3>3, <3>4 DEF Numbered
  <2>3. QED
    BY <1>7, <2>1, <2>2
<1>12. CamerasNumbered'
  <2>1. ASSUME NEW e \in Cameras, e # c PROVE Numbered(e)'
    BY <1>6, <2>1, OtherCamerasNumbered DEF RInv, CamerasNumbered
  <2>2. QED
    BY <1>11, <2>1 DEF CamerasNumbered
<1>13. QED
  BY <1>2, <1>9, <1>10, <1>12, RelayStays

(* A frame that is broadcast is the last of its camera in the ring, and    *)
(* each subscriber has one more to take; without any, the ring stays.      *)
LEMMA BroadcastFrameRelay ==
  ASSUME RInv, Windowed, IInv, NEW c \in Cameras, BroadcastFrame(c)
  PROVE  Ranges' /\ ClientShape' /\ RingSound' /\ ClientsFollow' /\ CamerasNumbered'
<1> DEFINE acc == accepted[c]
           f == frame[c]
           n == Len(ring)
           Now(e) == Len(accepted'[e]) - (IF pc'[e] = "broadcasting" THEN 1 ELSE 0)
<1>1. /\ UNCHANGED <<now, frame, epoch, limiter, unchecked, received, accepted>>
      /\ UNCHANGED <<client, cursor, joined, forwarded, missed>>
      /\ pc[c] = "broadcasting" /\ pc' = [pc EXCEPT ![c] = "sent"]
      /\ \/ /\ ring' = Append(ring, f)
            /\ stats' = [frames_received |-> stats.frames_received + 1,
                         frames_broadcast |-> stats.frames_broadcast + 1]
         \/ /\ ~\E d \in Clients : Subscribed(d)
            /\ stats' = [stats EXCEPT !.frames_received = @ + 1]
            /\ UNCHANGED ring
  BY DEF BroadcastFrame, Goto, limits, history, clientVars
<1>2. Ranges'
  <2>1. stats \in [frames_received : Nat, frames_broadcast : Nat]
    BY DEF RInv, Ranges
  <2>2. stats' \in [frames_received : Nat, frames_broadcast : Nat]
    BY <1>1, <2>1
  <2>3. QED
    BY <1>1, <2>2 DEF RInv, Ranges, AllReceived
<1>3. ClientShape'
  BY <1>1 DEF RInv, ClientShape
<1>4. ASSUME NEW e \in Cameras PROVE Numbered(e)'
  BY <1>1, OtherCamerasNumbered DEF RInv, CamerasNumbered
<1>5. /\ acc \in Seq(Acceptance) /\ Len(acc) \in Nat /\ f # NoFrame /\ f \in AnyFrame
      /\ Numbered(c) /\ Len(acc) > 0 /\ f = acc[Len(acc)].f
      /\ ring \in Seq(AnyFrame) /\ n \in Nat
  <2>1. f # NoFrame
    BY <1>1 DEF IInv, CameraSound
  <2>2. f \in AnyFrame
    BY <2>1 DEF IInv, Shape
  <2>3. Numbered(c)
    BY DEF RInv, CamerasNumbered
  <2>4. QED
    BY <2>1, <2>2, <2>3, LenProperties DEF Windowed, Numbered, RInv, RingSound
<1>6. Sent(c) = Len(acc) - 1 /\ Sent(c)' = Len(acc)
  <2>1. Sent(c) = Len(acc) - 1
    BY <1>1, SentIsNat DEF RInv
  <2>2. pc'[c] = "sent"
    BY <1>1 DEF IInv, Shape
  <2>3. Sent(c)' = Len(acc) - 0
    BY <1>1, <2>2 DEF Sent
  <2>4. QED
    BY <1>5, <2>1, <2>3
<1>7. \A e \in Cameras : e # c => Sent(e)' = Sent(e)
  BY <1>1 DEF Sent, IInv, Shape
<1>8. Total' = Total + 1
  BY <1>5, <1>6, <1>7, TotalGrows DEF RInv
<1>9. \A i \in 1 .. n : /\ ring[i] \in AnyFrame /\ ring[i].camera \in Cameras
                        /\ ring[i].n \in Nat
  <2>1. \A i \in 1 .. n : ring[i] \in AnyFrame
    BY <1>5, ElementOfSeq
  <2>2. QED
    BY <2>1 DEF AnyFrame
<1>10. \A e \in Cameras : Sent(e) \in Nat /\ Sent(e)' \in Nat /\ Sent(e) <= Sent(e)'
  <2>1. \A e \in Cameras : Sent(e) \in Nat
    BY SentIsNat DEF RInv
  <2>2. QED
    BY <1>5, <1>6, <1>7, <2>1
<1>a. \A e \in Cameras : Now(e) = Sent(e)'
  BY DEF Sent
<1>b. \A e \in Cameras : Sent(e) \in Nat /\ Now(e) \in Nat /\ Sent(e) <= Now(e)
  BY <1>10, <1>a
<1> HIDE DEF Now
<1>11. ASSUME NEW i \in 1 .. n
       PROVE  /\ \E k \in 1 .. Now(ring[i].camera) : accepted[ring[i].camera][k].f = ring[i]
              /\ ring[i].camera = c => ring[i].n < f.n
  <2>1. PICK k \in 1 .. Sent(ring[i].camera) : accepted[ring[i].camera][k].f = ring[i]
    BY DEF RInv, RingSound
  <2> DEFINE e == ring[i].camera
  <2>2. k \in 1 .. Now(e)
    <3>1. e \in Cameras /\ k \in 1 .. Sent(e)
      BY <1>9, <2>1
    <3>2. Sent(e) \in Nat /\ Now(e) \in Nat /\ Sent(e) <= Now(e)
      BY <1>b, <3>1
    <3>3. QED
      BY <3>1, <3>2
  <2>3. ASSUME ring[i].camera = c PROVE ring[i].n < f.n
    <3>1. k \in 1 .. Len(acc) /\ Len(acc) \in 1 .. Len(acc) /\ k < Len(acc)
      BY <1>5, <1>6, <2>1, <2>3
    <3>2. acc[k].f.n < acc[Len(acc)].f.n
      BY <1>5, <3>1 DEF Numbered
    <3>3. QED
      BY <1>5, <2>1, <2>3, <3>2
  <2>4. QED
    BY <2>1, <2>2, <2>3
<1>12. f.camera = c /\ \E k \in 1 .. Now(c) : accepted[c][k].f = f
  <2>1. Len(acc) \in 1 .. Len(acc)
    BY <1>5
  <2>2. acc[Len(acc)].f.camera = c
    BY <1>5, <2>1 DEF Numbered
  <2>3. QED
    BY <1>5, <1>6, <1>a, <2>1, <2>2
<1>13. CASE ring' = Append(ring, f)
  <2>1. /\ ring' \in Seq(AnyFrame) /\ Len(ring') = n + 1 /\ ring'[n + 1] = f
        /\ \A i \in 1 .. n : ring'[i] = ring[i]
    BY <1>5, <1>13, AppendProperties
  <2>2. \A i \in 1 .. n + 1 : i \in 1 .. n \/ i = n + 1
    BY <1>5
  <2> HIDE DEF n, f
  <2>3. RingSound'
    <3>1. ASSUME NEW i \in 1 .. n + 1
          PROVE  \E k \in 1 .. Now(ring'[i].camera) : accepted'[ring'[i].camera][k].f = ring'[i]
      BY <1>1, <1>11, <1>12, <2>1, <2>2
    <3>2. InOrder(ring)
      BY DEF RInv, RingSound
    <3>3. ASSUME NEW i \in 1 .. n + 1, NEW j \in 1 .. n + 1, i < j,
                 ring'[i].camera = ring'[j].camera
          PROVE  ring'[i].n < ring'[j].n
      <4>1. i \in 1 .. n
        BY <1>5, <3>3
      <4>2. CASE j = n + 1
        BY <1>11, <1>12, <2>1, <3>3, <4>1, <4>2
      <4>3. CASE j # n + 1
        <5>1. j \in 1 .. n
          BY <2>2, <4>3
        <5>2. ring[i].n < ring[j].n
          BY <2>1, <3>2, <3>3, <4>1, <5>1 DEF InOrder, n
        <5>3. QED
          BY <2>1, <4>1, <5>1, <5>2
      <4>4. QED
        BY <4>2, <4>3
    <3>4. InOrder(ring')
      BY <2>1, <3>3 DEF InOrder
    <3>5. QED
      BY <2>1, <3>1, <3>4 DEF RingSound, Now, Sent, InOrder
  <2>4. ASSUME NEW d \in Clients PROVE Follows(d)'
    <3>1. /\ Follows(d) /\ cursor[d] \in Nat /\ joined[d] \in Nat /\ missed[d] \in Nat
          /\ Len(forwarded[d]) \in Nat /\ InHand(d) \in Nat /\ Total \in Int
      <4>1. InHand(d) \in Nat
        BY DEF InHand
      <4>2. Total \in Nat
        BY TotalIsNat DEF RInv
      <4>3. QED
        BY <4>1, <4>2, LenProperties DEF RInv, ClientsFollow, ClientShape
    <3>2. InHand(d)' = InHand(d) /\ (Subscribed(d)' <=> Subscribed(d))
      BY <1>1 DEF InHand, Subscribed
    <3>3. cursor[d] <= n + 1 /\ cursor[d] - InHand(d) >= 1
      BY <3>1 DEF Follows, n
    <3>4. \A p \in 1 .. cursor[d] - InHand(d) - 1 : p \in 1 .. n
      BY <1>5, <3>1, <3>3
    <3>5. \A i \in 1 .. Len(forwarded[d]) :
            \E p \in 1 .. cursor[d] - InHand(d) - 1 : ring'[p] = forwarded[d][i]
      BY <2>1, <3>1, <3>4 DEF Follows
    <3>6. Subscribed(d) =>
            Total' - joined[d] = Len(forwarded[d]) + missed[d] + (n + 1 + 1 - cursor[d]) + InHand(d)
      <4>1. Subscribed(d) =>
              Total - joined[d] = Len(forwarded[d]) + missed[d] + (n + 1 - cursor[d]) + InHand(d)
        BY <3>1 DEF Follows, n
      <4>2. ASSUME Subscribed(d)
            PROVE  Total' - joined[d] = Len(forwarded[d]) + missed[d] + (n + 1 + 1 - cursor[d]) + InHand(d)
        <5> DEFINE t == Total
                   j == joined[d]
                   a == Len(forwarded[d]) + missed[d]
                   k == cursor[d]
                   h == InHand(d)
        <5>1. /\ t \in Int /\ j \in Int /\ a \in Int /\ k \in Int /\ h \in Int
              /\ t - j = a + (n + 1 - k) + h
          BY <3>1, <4>1, <4>2
        <5>2. n \in Int
          BY <1>5 DEF n
        <5>3. Total' = t + 1
          BY <1>8
        <5> HIDE DEF t, j, a, k, h
        <5>4. (t + 1) - j = a + (n + 1 + 1 - k) + h
          BY <5>1, <5>2
        <5>5. QED
          BY <5>3, <5>4 DEF j, a, k, h
      <4>3. QED
        BY <4>2
    <3>7. cursor[d] <= n + 1 + 1
      BY <1>5, <3>1, <3>3
    <3>8. /\ client[d] = "new" => forwarded[d] = <<>> /\ missed[d] = 0
          /\ InOrder(forwarded[d])
      BY <3>1 DEF Follows
    <3>9. QED
      BY <1>1, <2>1, <3>2, <3>3, <3>5, <3>6, <3>7, <3>8 DEF Follows, InOrder
  <2>5. QED
    BY <1>2, <1>3, <1>4, <2>3, <2>4 DEF CamerasNumbered, ClientsFollow
<1>14. CASE ring' = ring /\ ~\E d \in Clients : Subscribed(d)
  <2>1. RingSound'
    BY <1>1, <1>11, <1>14 DEF RInv, RingSound, InOrder, Now, Sent
  <2>2. ASSUME NEW d \in Clients PROVE Follows(d)'
    <3>1. InHand(d)' = InHand(d) /\ ~Subscribed(d)'
      BY <1>1, <1>14 DEF InHand, Subscribed
    <3>2. QED
      BY <1>1, <1>14, <3>1 DEF Follows, InOrder, RInv, ClientsFollow
  <2>3. QED
    BY <1>2, <1>3, <1>4, <2>1, <2>2 DEF CamerasNumbered, ClientsFollow
<1>15. QED
  BY <1>1, <1>13, <1>14

-----------------------------------------------------------------------------
(* The clients' steps.                                                     *)

LEMMA ClientTypes ==
  ASSUME RInv, Windowed, IInv, NEW d \in Clients
  PROVE  /\ Follows(d) /\ cursor[d] \in Nat /\ joined[d] \in Nat /\ missed[d] \in Nat
         /\ forwarded[d] \in Seq(AnyFrame) /\ Len(forwarded[d]) \in Nat
         /\ InHand(d) \in {0, 1} /\ Total \in Nat
         /\ ring \in Seq(AnyFrame) /\ Len(ring) \in Nat
<1>1. InHand(d) \in {0, 1}
  BY DEF InHand
<1>2. Total \in Nat
  BY TotalIsNat DEF RInv
<1>3. QED
  BY <1>1, <1>2, LenProperties DEF RInv, ClientsFollow, ClientShape, RingSound

(* A step of one client is nothing to the others and to the cameras.       *)
LEMMA OneClientMoves ==
  ASSUME RInv, Windowed, IInv, NEW d \in Clients,
         UNCHANGED <<now, pc, frame, limits, history, ringVars>>, ClientShape', Follows(d)',
         \A e \in Clients : e # d =>
           /\ client'[e] = client[e] /\ cursor'[e] = cursor[e] /\ joined'[e] = joined[e]
           /\ forwarded'[e] = forwarded[e] /\ missed'[e] = missed[e]
  PROVE  RInv'
<1>1. UNCHANGED <<now, pc, frame, epoch, limiter, unchecked, received, accepted, ring, stats>>
  BY DEF limits, history, ringVars
<1>2. Ranges' /\ CamerasNumbered'
  BY <1>1 DEF RInv, Ranges, CamerasNumbered, Numbered, AllReceived
<1>3. \A c \in Cameras : Sent(c)' = Sent(c)
  BY <1>1 DEF Sent
<1>4. Total' = Total
  BY <1>3, TotalStays
<1>5. RingSound'
  BY <1>1 DEF RInv, RingSound, InOrder, Sent
<1>6. ASSUME NEW e \in Clients, e # d PROVE Follows(e)'
  <2>1. Follows(e)
    BY DEF RInv, ClientsFollow
  <2>2. InHand(e)' = InHand(e) /\ (Subscribed(e)' <=> Subscribed(e))
    BY <1>6 DEF InHand, Subscribed
  <2>3. /\ client'[e] = client[e] /\ cursor'[e] = cursor[e] /\ joined'[e] = joined[e]
        /\ forwarded'[e] = forwarded[e] /\ missed'[e] = missed[e] /\ ring' = ring
    BY <1>1, <1>6
  <2>4. InOrder(forwarded[e])'
    BY <2>1, <2>3 DEF Follows, InOrder
  <2>5. QED
    BY <1>4, <2>1, <2>2, <2>3, <2>4 DEF Follows
<1>7. QED
  BY <1>2, <1>5, <1>6 DEF RInv, ClientsFollow

LEMMA MoveFacts ==
  ASSUME RInv, NEW d \in Clients, NEW from,
         NEW to \in {"new", "opening", "receiving", "sending", "gone"}, Move(d, from, to)
  PROVE  /\ client[d] = from /\ client'[d] = to
         /\ client' \in [Clients -> {"new", "opening", "receiving", "sending", "gone"}]
         /\ \A e \in Clients : e # d => client'[e] = client[e]
  BY DEF Move, RInv, ClientShape

LEMMA SubscribeRelay ==
  ASSUME RInv, Windowed, IInv, NEW d \in Clients, Subscribe(d)
  PROVE  RInv'
<1>1. /\ client[d] = "new" /\ client'[d] = "opening"
      /\ client' \in [Clients -> {"new", "opening", "receiving", "sending", "gone"}]
      /\ \A e \in Clients : e # d => client'[e] = client[e]
  BY MoveFacts DEF Subscribe
<1>2. /\ cursor' = [cursor EXCEPT ![d] = Len(ring) + 1]
      /\ joined' = [joined EXCEPT ![d] = Total]
      /\ UNCHANGED <<now, pc, frame, limits, history, ringVars, forwarded, missed>>
  BY TotalIsSum DEF Subscribe
<1>3. /\ Follows(d) /\ Total \in Nat /\ Len(ring) \in Nat
      /\ cursor \in [Clients -> Nat \ {0}] /\ joined \in [Clients -> Nat]
  BY ClientTypes DEF RInv, ClientShape
<1>4. Len(ring) + 1 \in Nat \ {0}
  BY <1>3
<1>5. ClientShape' /\ cursor'[d] = Len(ring) + 1 /\ joined'[d] = Total
  BY <1>1, <1>2, <1>3, <1>4 DEF RInv, ClientShape
<1>6. Total' = Total /\ ring' = ring
  <2>1. UNCHANGED <<pc, accepted, ring>>
    BY <1>2 DEF history, ringVars
  <2>2. QED
    BY <2>1, TotalStays DEF Sent
<1>7. Follows(d)'
  <2>1. forwarded'[d] = <<>> /\ missed'[d] = 0
    BY <1>1, <1>2, <1>3 DEF Follows
  <2>2. InHand(d)' = 0 /\ Len(<<>>) = 0
    BY <1>1 DEF InHand
  <2>3. InOrder(<<>>)
    BY DEF InOrder
  <2>4. Total' - joined'[d] = 0 + 0 + (Len(ring) + 1 - cursor'[d]) + 0
    BY <1>3, <1>5, <1>6
  <2>5. QED
    BY <1>1, <1>3, <1>5, <1>6, <2>1, <2>2, <2>3, <2>4 DEF Follows, InOrder
<1>8. \A e \in Clients : e # d =>
           /\ client'[e] = client[e] /\ cursor'[e] = cursor[e] /\ joined'[e] = joined[e]
           /\ forwarded'[e] = forwarded[e] /\ missed'[e] = missed[e]
  BY <1>1, <1>2, <1>3
<1>9. QED
  BY <1>2, <1>5, <1>7, <1>8, OneClientMoves

(* Nothing but where the client is.                                        *)
LEMMA ClientStageRelay ==
  ASSUME RInv, Windowed, IInv, NEW d \in Clients,
         OpenStream(d) \/ OpenStreamFails(d) \/ SendFails(d)
  PROVE  RInv'
<1>1. /\ client[d] # "new" /\ client'[d] \in {"receiving", "gone"}
      /\ client[d] = "sending" => client'[d] = "gone"
      /\ client[d] \in {"opening", "sending"}
      /\ client' \in [Clients -> {"new", "opening", "receiving", "sending", "gone"}]
      /\ \A e \in Clients : e # d => client'[e] = client[e]
  BY MoveFacts DEF OpenStream, OpenStreamFails, SendFails
<1>2. UNCHANGED <<now, pc, frame, limits, history, ringVars, cursor, joined, forwarded, missed>>
  BY DEF OpenStream, OpenStreamFails, SendFails
<1>3. /\ Follows(d) /\ cursor[d] \in Nat /\ InHand(d) \in {0, 1}
  BY ClientTypes
<1>4. ClientShape'
  BY <1>1, <1>2 DEF RInv, ClientShape
<1>5. Total' = Total /\ ring' = ring
  <2>1. UNCHANGED <<pc, accepted, ring>>
    BY <1>2 DEF history, ringVars
  <2>2. QED
    BY <2>1, TotalStays DEF Sent
<1>6. Follows(d)'
  <2>1. InHand(d)' = 0
    BY <1>1 DEF InHand
  <2>2. Subscribed(d)' => Subscribed(d) /\ InHand(d) = 0
    BY <1>1 DEF Subscribed, InHand
  <2>3. \A p \in 1 .. cursor[d] - InHand(d) - 1 : p \in 1 .. cursor[d] - 0 - 1
    BY <1>3
  <2>4. cursor[d] - 0 >= 1
    BY <1>3 DEF Follows
  <2>5. QED
    BY <1>1, <1>2, <1>3, <1>5, <2>1, <2>2, <2>3, <2>4 DEF Follows, InOrder
<1>7. QED
  BY <1>1, <1>2, <1>4, <1>6, OneClientMoves

LEMMA OldestIs ==
  ASSUME Len(ring) \in Nat
  PROVE  Oldest \in Nat /\ Oldest >= 1 /\ Oldest <= Len(ring) + 1
<1>1. CASE Len(ring) > RingCapacity
  <2>1. Oldest = Len(ring) - RingCapacity + 1
    BY <1>1 DEF Oldest
  <2>2. QED
    BY <1>1, <2>1, RelayBounds
<1>2. CASE ~(Len(ring) > RingCapacity)
  BY <1>2 DEF Oldest
<1>3. QED
  BY <1>1, <1>2

LEMMA TakeFrameRelay ==
  ASSUME RInv, Windowed, IInv, NEW d \in Clients, TakeFrame(d)
  PROVE  RInv'
<1>1. /\ client[d] = "receiving" /\ client'[d] = "sending"
      /\ client' \in [Clients -> {"new", "opening", "receiving", "sending", "gone"}]
      /\ \A e \in Clients : e # d => client'[e] = client[e]
  BY MoveFacts DEF TakeFrame
<1>2. /\ cursor' = [cursor EXCEPT ![d] = @ + 1] /\ cursor[d] \in Oldest .. Len(ring)
      /\ UNCHANGED <<now, pc, frame, limits, history, ringVars, joined, forwarded, missed>>
  BY DEF TakeFrame
<1>3. /\ Follows(d) /\ cursor[d] \in Nat /\ Len(ring) \in Nat /\ joined[d] \in Nat
      /\ missed[d] \in Nat /\ Len(forwarded[d]) \in Nat /\ Total \in Nat
      /\ cursor \in [Clients -> Nat \ {0}]
  BY ClientTypes DEF RInv, ClientShape
<1>4. cursor[d] + 1 \in Nat \ {0} /\ cursor[d] >= 1 /\ cursor[d] <= Len(ring)
  BY <1>2, <1>3, OldestIs
<1>5. ClientShape' /\ cursor'[d] = cursor[d] + 1
  BY <1>1, <1>2, <1>3, <1>4 DEF RInv, ClientShape
<1>6. Total' = Total /\ ring' = ring
  <2>1. UNCHANGED <<pc, accepted, ring>>
    BY <1>2 DEF history, ringVars
  <2>2. QED
    BY <2>1, TotalStays DEF Sent
<1>7. Follows(d)'
  <2>1. InHand(d)' = 1 /\ InHand(d) = 0
    BY <1>1 DEF InHand
  <2>2. Subscribed(d)
    BY <1>1 DEF Subscribed
  <2>3. cursor'[d] - 1 - 1 = cursor[d] - 0 - 1
    BY <1>3, <1>5
  <2>4. Total' - joined'[d] = Len(forwarded'[d]) + missed'[d] + (Len(ring') + 1 - cursor'[d]) + 1
    <3> DEFINE t == Total
               j == joined[d]
               a == Len(forwarded[d])
               m == missed[d]
               k == cursor[d]
               n == Len(ring)
    <3>1. /\ t \in Int /\ j \in Int /\ a \in Int /\ m \in Int /\ k \in Int /\ n \in Int
          /\ t - j = a + m + (n + 1 - k) + 0
      BY <1>3, <2>1, <2>2 DEF Follows
    <3>2. /\ Total' = t /\ joined'[d] = j /\ Len(forwarded'[d]) = a /\ missed'[d] = m
          /\ cursor'[d] = k + 1 /\ Len(ring') = n
      BY <1>2, <1>5, <1>6
    <3> HIDE DEF t, j, a, m, k, n
    <3>3. t - j = a + m + (n + 1 - (k + 1)) + 1
      BY <3>1
    <3>4. QED
      BY <3>2, <3>3
  <2>5. cursor'[d] <= Len(ring') + 1 /\ cursor'[d] - 1 >= 1
    BY <1>3, <1>4, <1>5, <1>6
  <2>6. \A i \in 1 .. Len(forwarded'[d]) :
          \E p \in 1 .. cursor'[d] - 1 - 1 : ring'[p] = forwarded'[d][i]
    BY <1>2, <1>3, <1>6, <2>1, <2>3 DEF Follows
  <2>7. InOrder(forwarded[d])
    BY <1>3 DEF Follows
  <2>8. QED
    BY <1>1, <1>2, <2>1, <2>4, <2>5, <2>6, <2>7 DEF Follows, InOrder
<1>8. \A e \in Clients : e # d =>
           /\ client'[e] = client[e] /\ cursor'[e] = cursor[e] /\ joined'[e] = joined[e]
           /\ forwarded'[e] = forwarded[e] /\ missed'[e] = missed[e]
  BY <1>1, <1>2, <1>3
<1>9. QED
  BY <1>2, <1>5, <1>7, <1>8, OneClientMoves

LEMMA LagRelay ==
  ASSUME RInv, Windowed, IInv, NEW d \in Clients, Lag(d)
  PROVE  RInv'
<1>1. /\ client[d] = "receiving" /\ cursor[d] < Oldest
      /\ missed' = [missed EXCEPT ![d] = @ + (Oldest - cursor[d])]
      /\ cursor' = [cursor EXCEPT ![d] = Oldest]
      /\ UNCHANGED <<now, pc, frame, limits, history, ringVars, client, joined, forwarded>>
  BY DEF Lag
<1>2. /\ Follows(d) /\ cursor[d] \in Nat /\ Len(ring) \in Nat /\ joined[d] \in Nat
      /\ missed[d] \in Nat /\ Len(forwarded[d]) \in Nat /\ Total \in Nat
      /\ cursor \in [Clients -> Nat \ {0}] /\ missed \in [Clients -> Nat]
  BY ClientTypes DEF RInv, ClientShape
<1>3. Oldest \in Nat /\ Oldest >= 1 /\ Oldest <= Len(ring) + 1
  BY <1>2, OldestIs
<1>4. ClientShape' /\ cursor'[d] = Oldest /\ missed'[d] = missed[d] + (Oldest - cursor[d])
  <2>1. missed[d] + (Oldest - cursor[d]) \in Nat /\ Oldest \in Nat \ {0}
    BY <1>1, <1>2, <1>3
  <2>2. QED
    BY <1>1, <1>2, <2>1 DEF RInv, ClientShape
<1>5. Total' = Total /\ ring' = ring
  <2>1. UNCHANGED <<pc, accepted, ring>>
    BY <1>1 DEF history, ringVars
  <2>2. QED
    BY <2>1, TotalStays DEF Sent
<1>6. Follows(d)'
  <2>1. InHand(d)' = 0 /\ InHand(d) = 0 /\ Subscribed(d) /\ client'[d] # "new"
    BY <1>1 DEF InHand, Subscribed
  <2>2. Total' - joined'[d] = Len(forwarded'[d]) + missed'[d] + (Len(ring') + 1 - cursor'[d]) + 0
    <3> DEFINE t == Total
               j == joined[d]
               a == Len(forwarded[d])
               m == missed[d]
               k == cursor[d]
               n == Len(ring)
               o == Oldest
    <3>1. /\ t \in Int /\ j \in Int /\ a \in Int /\ m \in Int /\ k \in Int /\ n \in Int
          /\ o \in Int /\ t - j = a + m + (n + 1 - k) + 0
      BY <1>2, <1>3, <2>1 DEF Follows
    <3>2. /\ Total' = t /\ joined'[d] = j /\ Len(forwarded'[d]) = a
          /\ missed'[d] = m + (o - k) /\ cursor'[d] = o /\ Len(ring') = n
      BY <1>1, <1>4, <1>5
    <3> HIDE DEF t, j, a, m, k, n, o
    <3>3. t - j = a + (m + (o - k)) + (n + 1 - o) + 0
      BY <3>1
    <3>4. QED
      BY <3>2, <3>3
  <2>3. cursor'[d] <= Len(ring') + 1 /\ cursor'[d] - 0 >= 1
    BY <1>3, <1>4, <1>5
  <2>4. \A p \in 1 .. cursor[d] - 0 - 1 : p \in 1 .. cursor'[d] - 0 - 1
    BY <1>1, <1>2, <1>3, <1>4
  <2>5. \A i \in 1 .. Len(forwarded'[d]) :
          \E p \in 1 .. cursor'[d] - 0 - 1 : ring'[p] = forwarded'[d][i]
    BY <1>1, <1>2, <1>5, <2>1, <2>4 DEF Follows
  <2>6. InOrder(forwarded[d])
    BY <1>2 DEF Follows
  <2>7. QED
    BY <1>1, <2>1, <2>2, <2>3, <2>5, <2>6 DEF Follows, InOrder
<1>7. \A e \in Clients : e # d =>
           /\ client'[e] = client[e] /\ cursor'[e] = cursor[e] /\ joined'[e] = joined[e]
           /\ forwarded'[e] = forwarded[e] /\ missed'[e] = missed[e]
  BY <1>1, <1>2
<1>8. QED
  BY <1>1, <1>4, <1>6, <1>7, OneClientMoves

(* The frame in hand comes after all that the client was sent: it lies     *)
(* further back in the ring, and the ring has a camera's frames in order.  *)
LEMMA SendFrameRelay ==
  ASSUME RInv, Windowed, IInv, NEW d \in Clients, SendFrame(d)
  PROVE  RInv'
<1> DEFINE fs == forwarded[d]
           x == ring[cursor[d] - 1]
           gs == Append(fs, x)
<1>1. /\ client[d] = "sending" /\ client'[d] = "receiving"
      /\ client' \in [Clients -> {"new", "opening", "receiving", "sending", "gone"}]
      /\ \A e \in Clients : e # d => client'[e] = client[e]
  BY MoveFacts DEF SendFrame
<1>2. /\ forwarded' = [forwarded EXCEPT ![d] = Append(@, x)]
      /\ UNCHANGED <<now, pc, frame, limits, history, ringVars, cursor, joined, missed>>
  BY DEF SendFrame
<1>3. /\ Follows(d) /\ cursor[d] \in Nat /\ Len(ring) \in Nat /\ joined[d] \in Nat
      /\ missed[d] \in Nat /\ Len(fs) \in Nat /\ Total \in Nat /\ fs \in Seq(AnyFrame)
      /\ forwarded \in [Clients -> Seq(AnyFrame)] /\ ring \in Seq(AnyFrame)
  BY ClientTypes DEF RInv, ClientShape
<1>4. InHand(d) = 1 /\ InHand(d)' = 0 /\ Subscribed(d) /\ client'[d] # "new"
  BY <1>1 DEF InHand, Subscribed
<1>5. /\ cursor[d] - 1 \in 1 .. Len(ring) /\ cursor[d] - 1 >= 1
      /\ \A i \in 1 .. Len(fs) : \E p \in 1 .. cursor[d] - 1 - 1 : ring[p] = fs[i]
      /\ InOrder(fs)
  <2>1. cursor[d] - 1 >= 1 /\ cursor[d] <= Len(ring) + 1
    BY <1>3, <1>4 DEF Follows
  <2>2. \A i \in 1 .. Len(fs) : \E p \in 1 .. cursor[d] - 1 - 1 : ring[p] = fs[i]
    BY <1>3, <1>4 DEF Follows
  <2>3. InOrder(fs)
    BY <1>3 DEF Follows
  <2>4. QED
    BY <1>3, <2>1, <2>2, <2>3
<1>6. x \in AnyFrame
  BY <1>3, <1>5, ElementOfSeq
<1>7. /\ gs \in Seq(AnyFrame) /\ Len(gs) = Len(fs) + 1 /\ gs[Len(fs) + 1] = x
      /\ \A i \in 1 .. Len(fs) : gs[i] = fs[i]
  BY <1>3, <1>6, AppendProperties
<1>8. forwarded'[d] = gs /\ \A e \in Clients : e # d => forwarded'[e] = forwarded[e]
  BY <1>2, <1>3
<1>9. ClientShape'
  BY <1>1, <1>2, <1>3, <1>7 DEF RInv, ClientShape
<1>10. Total' = Total /\ ring' = ring
  <2>1. UNCHANGED <<pc, accepted, ring>>
    BY <1>2 DEF history, ringVars
  <2>2. QED
    BY <2>1, TotalStays DEF Sent
<1> HIDE DEF gs
<1>11. ASSUME NEW i \in 1 .. Len(gs)
       PROVE  \E p \in 1 .. cursor[d] - 0 - 1 :
                ring[p] = gs[i] /\ (i # Len(gs) => p < cursor[d] - 1)
  <2>1. CASE i = Len(gs)
    BY <1>3, <1>5, <1>7, <2>1
  <2>2. CASE i # Len(gs)
    <3>1. i \in 1 .. Len(fs) /\ gs[i] = fs[i]
      BY <1>3, <1>7, <2>2
    <3>2. PICK p \in 1 .. cursor[d] - 1 - 1 : ring[p] = fs[i]
      BY <1>5, <3>1
    <3>3. p \in 1 .. cursor[d] - 0 - 1 /\ p < cursor[d] - 1
      BY <1>3, <3>2
    <3>4. QED
      BY <3>1, <3>2, <3>3
  <2>3. QED
    BY <2>1, <2>2
<1>12. InOrder(gs)
  <2>1. ASSUME NEW i \in 1 .. Len(gs), NEW j \in 1 .. Len(gs), i < j,
               gs[i].camera = gs[j].camera
        PROVE  gs[i].n < gs[j].n
    <3>1. i \in 1 .. Len(fs) /\ gs[i] = fs[i]
      BY <1>3, <1>7, <2>1
    <3>2. CASE j = Len(gs)
      <4>1. gs[j] = x
        BY <1>7, <3>2
      <4>2. PICK p \in 1 .. cursor[d] - 1 - 1 : ring[p] = fs[i]
        BY <1>5, <3>1
      <4>3. p \in 1 .. Len(ring) /\ p < cursor[d] - 1
        BY <1>3, <1>5, <4>2
      <4>4. InOrder(ring)
        BY DEF RInv, RingSound
      <4>5. ring[p].camera = ring[cursor[d] - 1].camera
        BY <2>1, <3>1, <4>1, <4>2
      <4>6. ring[p].n < ring[cursor[d] - 1].n
        BY <1>5, <4>3, <4>4, <4>5 DEF InOrder
      <4>7. QED
        BY <3>1, <4>1, <4>2, <4>6
    <3>3. CASE j # Len(gs)
      <4>1. j \in 1 .. Len(fs) /\ gs[j] = fs[j]
        BY <1>3, <1>7, <3>3
      <4>2. QED
        BY <1>5, <2>1, <3>1, <4>1 DEF InOrder
    <3>4. QED
      BY <3>2, <3>3
  <2>2. QED
    BY <2>1 DEF InOrder
<1>13. Follows(d)'
  <2>1. Total' - joined'[d] = Len(gs) + missed'[d] + (Len(ring') + 1 - cursor'[d]) + 0
    <3> DEFINE t == Total
               j == joined[d]
               a == Len(fs)
               m == missed[d]
               k == cursor[d]
               n == Len(ring)
    <3>1. /\ t \in Int /\ j \in Int /\ a \in Int /\ m \in Int /\ k \in Int /\ n \in Int
          /\ t - j = a + m + (n + 1 - k) + 1
      BY <1>3, <1>4 DEF Follows
    <3>2. /\ Total' = t /\ joined'[d] = j /\ Len(gs) = a + 1 /\ missed'[d] = m
          /\ cursor'[d] = k /\ Len(ring') = n
      BY <1>2, <1>7, <1>10
    <3> HIDE DEF t, j, a, m, k, n
    <3>3. t - j = (a + 1) + m + (n + 1 - k) + 0
      BY <3>1
    <3>4. QED
      BY <3>2, <3>3
  <2>2. cursor'[d] = cursor[d] /\ cursor[d] <= Len(ring) + 1 /\ cursor[d] - 0 >= 1
    BY <1>2, <1>3 DEF Follows, ClientShape, RInv
  <2>3. \A i \in 1 .. Len(gs) : \E p \in 1 .. cursor[d] - 0 - 1 : ring[p] = gs[i]
    BY <1>11
  <2> HIDE DEF fs, x
  <2>4. QED
    BY <1>4, <1>8, <1>10, <1>12, <2>1, <2>2, <2>3 DEF Follows, InOrder
<1>14. QED
  BY <1>1, <1>2, <1>8, <1>9, <1>13, OneClientMoves

-----------------------------------------------------------------------------
(* What the relay promises.                                                *)

LEMMA InitRelay == Init => RInv
<1> SUFFICES ASSUME Init PROVE RInv
  OBVIOUS
<1>1. IInv /\ Windowed
  BY InitEstablishes, InitWindowed
<1>2. Ranges
  <2>1. \A c \in Cameras : received[c] = 0
    BY DEF Init
  <2>2. SumFunctionOnSet(received, Cameras) = 0
    BY <2>1, RelayBounds, SumOfZeros
  <2>3. \A c \in Cameras : limiter[c].bytes_outstanding = 0
    BY DEF Init, NewLimiter
  <2>4. AllReceived <= MaxFrames
    BY <2>2, RelayBounds DEF AllReceived
  <2>5. stats \in [frames_received : Nat, frames_broadcast : Nat]
    BY DEF Init
  <2>6. /\ now \in 0 .. MaxTime /\ epoch \in [Cameras -> 0 .. MaxTime]
        /\ unchecked \in [Cameras -> 0 .. AbuseEvery - 1]
    BY RelayBounds DEF Init
  <2>7. QED
    BY <2>3, <2>4, <2>5, <2>6, RelayBounds DEF Ranges
<1>3. ClientShape
  BY EmptySeq DEF Init, ClientShape
<1>4. RingSound
  BY EmptySeq DEF Init, RingSound, InOrder
<1>5. CamerasNumbered
  <2>1. ASSUME NEW c \in Cameras PROVE accepted[c] = <<>> /\ frame[c] = NoFrame
    BY DEF Init
  <2>2. QED
    BY <2>1 DEF CamerasNumbered, Numbered
<1>6. ClientsFollow
  <2>1. ASSUME NEW d \in Clients
        PROVE  /\ client[d] = "new" /\ cursor[d] = 1 /\ forwarded[d] = <<>>
               /\ missed[d] = 0 /\ Len(ring) = 0 /\ Len(<<>>) = 0
    BY DEF Init
  <2>2. \A d \in Clients : InHand(d) = 0 /\ ~Subscribed(d)
    BY <2>1 DEF InHand, Subscribed
  <2>3. QED
    BY <2>1, <2>2 DEF ClientsFollow, Follows, InOrder
<1>7. QED
  BY <1>2, <1>3, <1>4, <1>5, <1>6 DEF RInv

(* A frame that passes fits the budget; any other leaves it alone.         *)
LEMMA ReceiveFrameRanges ==
  ASSUME RInv, Windowed, IInv, NEW c \in Cameras, NEW ch \in Channels, NEW len \in Lengths,
         ReceiveFrame(c, ch, len)
  PROVE  Ranges'
<1> DEFINE t == Elapsed(c)
           l == limiter[c]
           k == CheckFrame(l, ch, len, t)
<1>1. Ranges /\ len \in Nat /\ l \in Limiter /\ l.bytes_outstanding \in Nat
      /\ DOMAIN limiter = Cameras
  BY Assumptions DEF RInv, IInv, Shape, Limiter
<1>2. t \in Nat
  BY DEF IInv, Shape, CameraSound, Elapsed
<1>3. /\ UNCHANGED <<now, epoch, unchecked, stats>>
      /\ received' = [received EXCEPT ![c] = @ + 1]
      /\ limiter' = [limiter EXCEPT ![c] = k]
  BY DEF ReceiveFrame, ringVars
<1>4. AllReceived' <= MaxFrames
  <2>1. AllReceived < MaxFrames
    BY ReceivedIsSum DEF ReceiveFrame
  <2>2. QED
    BY <1>3, <2>1, ReceivedGrows
<1>5. k.bytes_outstanding <= MemoryBudget
  <2>1. l.bytes_outstanding <= MemoryBudget
    BY <1>1 DEF Ranges
  <2> HIDE DEF t, l
  <2>2. /\ Drops(l, ch, len, t) => k.bytes_outstanding = l.bytes_outstanding
        /\ ~Drops(l, ch, len, t) => k.bytes_outstanding = l.bytes_outstanding + len
    BY <1>1, <1>2, CheckedLimiter
  <2>3. ~Drops(l, ch, len, t) => ~(l.bytes_outstanding + len > MemoryBudget)
    BY DEF Drops, OverBudget
  <2>4. QED
    BY <1>1, <2>1, <2>2, <2>3, RelayBounds
<1> HIDE DEF k
<1>6. \A e \in Cameras : limiter'[e].bytes_outstanding <= MemoryBudget
  BY <1>1, <1>3, <1>5 DEF Ranges
<1>7. QED
  BY <1>1, <1>3, <1>4, <1>6 DEF Ranges

LEMMA RelayInvariant == Spec => [](IInv /\ Windowed /\ RInv)
<1>1. IInv /\ IInv' /\ Windowed /\ RInv /\ [Next]_vars => RInv'
  <2> SUFFICES ASSUME IInv, IInv', Windowed, RInv, [Next]_vars PROVE RInv'
    OBVIOUS
  <2>1. ASSUME \/ Tick
               \/ \E c \in Cameras : \/ ServeCamera(c) \/ ReleaseFrame(c) \/ CountFrame(c)
                                     \/ CheckAbuse(c) \/ CameraLeaves(c)
        PROVE  RInv'
    BY <2>1, QuietStepsRelay, QuietStepsRanges DEF RInv
  <2>2. ASSUME NEW c \in Cameras, NEW ch \in Channels, NEW len \in Lengths,
               ReceiveFrame(c, ch, len)
        PROVE  RInv'
    BY <2>2, ReceiveFrameRelay, ReceiveFrameRanges DEF RInv
  <2>3. ASSUME NEW c \in Cameras, BroadcastFrame(c) PROVE RInv'
    BY <2>3, BroadcastFrameRelay DEF RInv
  <2>4. ASSUME NEW d \in Clients, Subscribe(d) PROVE RInv'
    BY <2>4, SubscribeRelay
  <2>5. ASSUME NEW d \in Clients, OpenStream(d) \/ OpenStreamFails(d) \/ SendFails(d)
        PROVE  RInv'
    BY <2>5, ClientStageRelay
  <2>6. ASSUME NEW d \in Clients, TakeFrame(d) PROVE RInv'
    BY <2>6, TakeFrameRelay
  <2>7. ASSUME NEW d \in Clients, Lag(d) PROVE RInv'
    BY <2>7, LagRelay
  <2>8. ASSUME NEW d \in Clients, SendFrame(d) PROVE RInv'
    BY <2>8, SendFrameRelay
  <2>9. ASSUME UNCHANGED vars PROVE RInv'
    <3>1. UNCHANGED <<pc, frame, ring, client, cursor, joined, forwarded, missed, accepted,
                      received>>
      BY <2>9 DEF vars, history, ringVars, clientVars
    <3>2. \A c \in Cameras : Sent(c)' = Sent(c)
      BY <3>1 DEF Sent
    <3>3. ClientShape' /\ RingSound' /\ ClientsFollow'
      BY <3>1, <3>2, RelayStays
    <3>4. CamerasNumbered'
      BY <3>1 DEF RInv, CamerasNumbered, Numbered
    <3>5. QED
      BY <2>9, <3>3, <3>4, QuietStepsRanges DEF RInv
  <2>10. QED
    BY <2>1, <2>2, <2>3, <2>4, <2>5, <2>6, <2>7, <2>8, <2>9 DEF Next
<1>2. QED
  BY <1>1, InitRelay, Invariant, WindowsInvariant, PTL DEF Spec

LEMMA TypesHold == ASSUME IInv, Windowed, RInv PROVE TypeOK
<1>1. \A c \in Cameras : received[c] \in Nat /\ received[c] <= MaxFrames
  BY ReceivedInAll DEF RInv, IInv, Shape
<1>2. ASSUME NEW c \in Cameras, NEW i \in 1 .. Len(accepted[c]), accepted[c][i].f \in AnyFrame
      PROVE  accepted[c][i].f \in Frame
  <2>1. accepted[c][i].f.n \in 1 .. received[c]
    BY DEF RInv, CamerasNumbered, Numbered
  <2>2. accepted[c][i].f.n \in 1 .. MaxFrames
    BY <1>1, <2>1, RelayBounds
  <2>3. QED
    BY <1>2, <2>2 DEF AnyFrame, Frame
<1>3. frame \in [Cameras -> Frame \cup {NoFrame}]
  <2>1. ASSUME NEW c \in Cameras PROVE frame[c] \in Frame \cup {NoFrame}
    <3>1. frame[c] \in AnyFrame \cup {NoFrame} /\ Len(accepted[c]) \in Nat
      BY LenProperties DEF IInv, Shape, Windowed
    <3>2. ASSUME frame[c] # NoFrame PROVE frame[c] \in Frame
      <4>1. Len(accepted[c]) > 0 /\ frame[c] = accepted[c][Len(accepted[c])].f
        BY <3>2 DEF RInv, CamerasNumbered, Numbered
      <4>2. Len(accepted[c]) \in 1 .. Len(accepted[c])
        BY <3>1, <4>1
      <4>3. QED
        BY <1>2, <3>1, <3>2, <4>1, <4>2
    <3>3. QED
      BY <3>2
  <2>2. QED
    BY <2>1 DEF IInv, Shape
<1>4. ring \in Seq(Frame)
  <2>1. ring \in Seq(AnyFrame) /\ Len(ring) \in Nat
    BY LenProperties DEF RInv, RingSound
  <2>2. ASSUME NEW i \in 1 .. Len(ring) PROVE ring[i] \in Frame
    <3>1. ring[i] \in AnyFrame
      BY <2>1, ElementOfSeq
    <3>2. ring[i].camera \in Cameras
      BY <3>1 DEF AnyFrame
    <3>3. PICK k \in 1 .. Sent(ring[i].camera) : accepted[ring[i].camera][k].f = ring[i]
      BY DEF RInv, RingSound
    <3>4. k \in 1 .. Len(accepted[ring[i].camera])
      BY <3>2, <3>3, SentIsNat DEF RInv
    <3>5. QED
      BY <1>2, <3>1, <3>2, <3>3, <3>4
  <2>3. QED
    BY <2>1, <2>2, SeqDef, LenProperties
<1>5. limiter \in [Cameras ->
        [windows : [Channels -> Window], bytes_outstanding : 0 .. MemoryBudget,
         total_dropped : Nat, abuse_seconds : Nat,
         last_drop_second : Nat \cup {NoSecond}]]
  <2>1. ASSUME NEW c \in Cameras
        PROVE  limiter[c] \in
          [windows : [Channels -> Window], bytes_outstanding : 0 .. MemoryBudget,
           total_dropped : Nat, abuse_seconds : Nat,
           last_drop_second : Nat \cup {NoSecond}]
    <3>1. limiter[c] \in Limiter /\ limiter[c].bytes_outstanding <= MemoryBudget
      BY DEF IInv, Shape, RInv, Ranges
    <3>2. limiter[c].bytes_outstanding \in 0 .. MemoryBudget
      BY <3>1, RelayBounds DEF Limiter
    <3>3. QED
      BY <3>1, <3>2 DEF Limiter
  <2>2. QED
    BY <2>1 DEF IInv, Shape
<1>6. \A field \in DOMAIN stats : stats[field] \in Nat
  BY DEF RInv, Ranges
<1>7. QED
  BY <1>3, <1>4, <1>5, <1>6 DEF TypeOK, IInv, Shape, RInv, Ranges, ClientShape

LEMMA NoneIsSkipped == ASSUME IInv, Windowed, RInv PROVE NothingSkipped
<1>1. ASSUME NEW d \in Clients, Subscribed(d)
      PROVE  Total - joined[d] =
               Len(forwarded[d]) + missed[d] + (Len(ring) + 1 - cursor[d])
                 + (IF client[d] = "sending" THEN 1 ELSE 0)
  BY <1>1 DEF RInv, ClientsFollow, Follows, InHand
<1>2. QED
  BY <1>1, TotalIsSum, Zenon DEF NothingSkipped

LEMMA OrderIsKept == ASSUME IInv, Windowed, RInv PROVE ForwardedInOrder
<1> SUFFICES ASSUME NEW d \in Clients, NEW i \in DOMAIN forwarded[d],
                    NEW j \in DOMAIN forwarded[d]
             PROVE  LET f == forwarded[d][i]
                        g == forwarded[d][j]
                    IN /\ \E k \in DOMAIN accepted[f.camera] : accepted[f.camera][k].f = f
                       /\ (i < j /\ f.camera = g.camera) => f.n < g.n
  BY DEF ForwardedInOrder
<1> DEFINE f == forwarded[d][i]
<1>1. /\ i \in 1 .. Len(forwarded[d]) /\ j \in 1 .. Len(forwarded[d]) /\ Follows(d)
      /\ cursor[d] \in Nat /\ InHand(d) \in {0, 1} /\ Len(ring) \in Nat
      /\ forwarded[d] \in Seq(AnyFrame)
  BY ClientTypes, LenProperties
<1>2. PICK p \in 1 .. cursor[d] - InHand(d) - 1 : ring[p] = f
  BY <1>1 DEF Follows
<1>3. p \in 1 .. Len(ring)
  BY <1>1, <1>2 DEF Follows
<1>4. PICK k \in 1 .. Sent(f.camera) : accepted[f.camera][k].f = f
  BY <1>2, <1>3 DEF RInv, RingSound
<1>5. f.camera \in Cameras
  <2>1. f \in AnyFrame
    BY <1>1, ElementOfSeq
  <2>2. QED
    BY <2>1 DEF AnyFrame
<1>6. k \in 1 .. Len(accepted[f.camera])
  BY <1>4, <1>5, SentIsNat DEF RInv
<1>7. k \in DOMAIN accepted[f.camera]
  BY <1>5, <1>6, LenProperties DEF Windowed
<1>8. (i < j /\ f.camera = forwarded[d][j].camera) => f.n < forwarded[d][j].n
  BY <1>1 DEF Follows, InOrder
<1>9. QED
  BY <1>4, <1>7, <1>8

(* From its subscription on, every frame the limits let pass is sent to a  *)
(* client, is on its way or was reported to it as missed, in the order of  *)
(* each camera and no frame twice (router.rs:259-279, 421-446).            *)
THEOREM ClientsGetTheirDue == Spec => []ForwardingExact
<1>1. IInv /\ Windowed /\ RInv => ForwardingExact
  BY TypesHold, NoneIsSkipped, OrderIsKept DEF ForwardingExact
<1>2. QED
  BY <1>1, RelayInvariant, PTL
=============================================================================
