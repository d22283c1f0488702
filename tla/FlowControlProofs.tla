--------------------------- MODULE FlowControlProofs ---------------------------
(***************************************************************************)
(* How the camera's side keeps up with a connection that is too slow, for  *)
(* any sizes of channels and buffers.                                      *)
(*                                                                         *)
(* The encoder follows the rate controller for any throughputs, periods    *)
(* and number of sessions, although the channel between them drops         *)
(* commands when it is full: what restarts are still to come is over       *)
(* before the controller changes the tier again, so that a command is only *)
(* dropped behind another one of the same rate.                            *)
(*                                                                         *)
(* The backpressure sender accounts for every frame and keeps the newest   *)
(* keyframe: frames are in one of three places only, the frame in hand is  *)
(* newer than all of them, and the buffer's index is that of its last      *)
(* keyframe.                                                               *)
(*                                                                         *)
(* The demuxer serves every subscriber that is still there, for any number *)
(* of subscribers, of callers and of frames: who is in a place of the      *)
(* tables is who is to get frames, and what is owed to a subscriber has    *)
(* arrived or is what a call still has to send to it.                      *)
(***************************************************************************)
EXTENDS BitrateControl, Backpressure, Demuxer, SumTheorems, SequenceTheorems

(* Part 1: the rate controller and the encoder.                            *)

(* Restarts are short, compared with the time between two changes, and the *)
(* channel takes the command of a change and that of a new session.        *)
ShortRestarts ==
  /\ QueueCap >= 2
  /\ RestartTime < Cooldown + DowngradeAfter
  /\ RestartTime + RestartTime < Cooldown + UpgradeAfter

Rates == {Rate(t) : t \in Tiers}

(* What the encoder is at after the commands q, and how long it restarts   *)
(* for until then.                                                         *)
Final(b, q) == IF q = <<>> THEN b ELSE q[Len(q)]

Work(b, q, r) ==
  (IF r = None THEN 0 ELSE RestartTime - r)
    + (IF q # <<>> /\ q[1] # b THEN RestartTime ELSE 0)
    + (IF q # <<>> /\ q[1] # q[Len(q)] THEN RestartTime ELSE 0)

(* A session's first command may come behind one other; every other        *)
(* command finds the channel empty.                                        *)
QueueSound(b, q, r) ==
  /\ \A i \in 2 .. Len(q) : q[i] = q[Len(q)]
  /\ Work(b, q, r) <= RestartTime + RestartTime
  /\ Final(b, q) # Rate(Minimum) => Len(q) <= 1 /\ Work(b, q, r) <= RestartTime

(* Most the last change can have left to do, and for how long it has been. *)
Bound(t) == IF t = Minimum THEN RestartTime + RestartTime ELSE RestartTime

Timed(b, q, r, t, ch, dn, up) ==
  q # <<>> \/ r # None =>
    /\ ch + Work(b, q, r) <= Bound(t)
    /\ dn # None => Cooldown + dn + Work(b, q, r) <= Bound(t)
    /\ up # None => Cooldown + up + Work(b, q, r) <= Bound(t)

(* A pressure begins after the cooldown, and since it began every          *)
(* evaluation has spoken for the change.                                   *)
PressuresSound ==
  /\ changed < Cooldown => downSince = None /\ upSince = None
  /\ tier = High => upSince = None
  /\ downSince <= sinceGood /\ upSince <= sinceBad

CommandsTyped == commands \in Seq(Rates)

Pressed == TypeOK /\ CommandsTyped /\ PressuresSound

IInv ==
  /\ Pressed
  /\ QueueSound(bitrate, commands, restarting)
  /\ connected =>
       /\ Final(bitrate, commands) = Rate(tier)
       /\ Timed(bitrate, commands, restarting, tier, changed, downSince, upSince)

-----------------------------------------------------------------------------
LEMMA Constants ==
  /\ DowngradeAfter \in Nat /\ UpgradeAfter \in Nat /\ Cooldown \in Nat
  /\ QueueCap \in Nat /\ RestartTime \in Nat /\ MaxSessions \in Nat /\ MaxFailures \in Nat
<1>1. {DowngradeAfter, UpgradeAfter, Cooldown, QueueCap, RestartTime, MaxSessions,
       MaxFailures} \subseteq Nat
  BY BitrateAssumption
<1>2. QED
  BY <1>1, Zenon

LEMMA OlderBounded ==
  ASSUME NEW bound \in Nat, NEW age \in None .. bound
  PROVE  /\ Older(age, bound) \in None .. bound
         /\ Older(age, bound) = None <=> age = None
         /\ age \in 0 .. bound => Older(age, bound) \in 0 .. bound
         /\ Older(age, bound) <= age + 1
         /\ age <= Older(age, bound)
  BY DEF Older, None

(* Ages of different pasts keep their order.                               *)
LEMMA OlderOrdered ==
  ASSUME NEW bound \in Nat, NEW a \in None .. bound, NEW b \in 0 .. bound, a <= b
  PROVE  Older(a, bound) <= Older(b, bound)
  BY DEF Older, None

LEMMA StartBounded ==
  ASSUME NEW bound \in Nat, NEW age \in None .. bound
  PROVE  Start(age) \in 0 .. bound /\ (age # None => Start(age) = age)
  BY DEF Start, None

(* What Last of EncoderFollows is.                                         *)
LEMMA LastIsFinal ==
  ASSUME NEW b \in Rates, NEW q \in Seq(Rates)
  PROVE  Last(<<b>> \o q) = Final(b, q)
<1>1. <<b>> \in Seq(Rates) /\ Len(<<b>>) = 1 /\ <<b>>[1] = b
  OBVIOUS
<1>2. /\ <<b>> \o q \in Seq(Rates) /\ Len(<<b>> \o q) = 1 + Len(q)
      /\ \A i \in 1 .. Len(<<b>>) + Len(q) :
           (<<b>> \o q)[i] = IF i <= Len(<<b>>) THEN <<b>>[i] ELSE q[i - Len(<<b>>)]
  BY <1>1, ConcatProperties
<1>3. Len(q) \in Nat /\ (q = <<>> <=> Len(q) = 0)
  BY EmptySeq
<1>4. Last(<<b>> \o q) = (<<b>> \o q)[1 + Len(q)]
  BY <1>2 DEF Last
<1>5. CASE q = <<>>
  BY <1>1, <1>2, <1>3, <1>4, <1>5 DEF Final
<1>6. CASE q # <<>>
  <2>1. 1 + Len(q) \in 1 .. Len(<<b>>) + Len(q) /\ ~(1 + Len(q) <= Len(<<b>>))
        /\ 1 + Len(q) - Len(<<b>>) = Len(q)
    BY <1>1, <1>3, <1>6
  <2>2. (<<b>> \o q)[1 + Len(q)] = q[Len(q)]
    BY <1>2, <2>1
  <2>3. QED
    BY <1>4, <1>6, <2>2 DEF Final
<1>7. QED
  BY <1>5, <1>6

(* The channel after try_send.                                             *)
LEMMA Requested ==
  ASSUME NEW q \in Seq(Rates), NEW x \in Rates, Len(q) < QueueCap
  PROVE  LET p == Append(q, x) IN
         /\ p \in Seq(Rates) /\ Len(p) = Len(q) + 1 /\ p # <<>> /\ p[Len(p)] = x
         /\ \A i \in 1 .. Len(q) : p[i] = q[i]
<1> DEFINE p == Append(q, x)
<1>1. /\ p \in Seq(Rates) /\ Len(p) = Len(q) + 1 /\ p[Len(p)] = x
      /\ \A i \in 1 .. Len(q) : p[i] = q[i]
  BY AppendProperties
<1>2. Len(q) \in Nat
  OBVIOUS
<1> HIDE DEF p
<1>3. p # <<>>
  BY <1>1, <1>2, EmptySeq
<1>4. QED
  BY <1>1, <1>3 DEF p

-----------------------------------------------------------------------------
(* The queue and the encoder.                                              *)

LEMMA WorkIsNat ==
  ASSUME NEW b, NEW q, NEW r \in None .. RestartTime
  PROVE  /\ Work(b, q, r) \in Nat /\ Work(b, q, None) \in Nat
         /\ Work(b, q, None) <= Work(b, q, r)
         /\ r # None => Work(b, q, r) = Work(b, q, None) + RestartTime - r
  BY Constants DEF Work, None

(* An idle encoder and an empty channel have nothing to do.                *)
LEMMA Drained ==
  ASSUME NEW b
  PROVE  Work(b, <<>>, None) = 0 /\ Final(b, <<>>) = b
  BY Constants DEF Work, Final, None

(* The task takes a command: what is left does not become more.            *)
LEMMA Taken ==
  ASSUME NEW b \in Rates, NEW q \in Seq(Rates), q # <<>>, QueueSound(b, q, None),
         NEW c, NEW r, c = q[1], r = IF c = b THEN None ELSE 0
  PROVE  /\ QueueSound(c, Tail(q), r) /\ Tail(q) \in Seq(Rates) /\ c \in Rates
         /\ Final(c, Tail(q)) = Final(b, q)
         /\ Work(c, Tail(q), r) <= Work(b, q, None)
<1> DEFINE p == Tail(q)
           n == Len(q)
<1>1. n \in Nat /\ n >= 1 /\ c \in Rates
  <2>1. Len(q) # 0
    BY EmptySeq
  <2>2. Len(q) \in Nat
    OBVIOUS
  <2>3. QED
    BY <2>1, <2>2, ElementOfSeq
<1>2. /\ p \in Seq(Rates) /\ Len(p) = n - 1
      /\ \A i \in 1 .. n - 1 : p[i] = q[i + 1]
  BY HeadTailProperties
<1> HIDE DEF p
<1>3. p = <<>> <=> n = 1
  BY <1>1, <1>2, EmptySeq
<1>4. n # 1 => p[Len(p)] = q[n] /\ p[1] = q[2] /\ q[2] = q[n]
  BY <1>1, <1>2 DEF QueueSound
<1>5. Final(c, p) = Final(b, q)
  BY <1>3, <1>4 DEF Final
<1>6. Work(c, p, r) <= Work(b, q, None)
  <2>1. CASE n = 1
    BY <1>3, <2>1, Constants DEF Work, None
  <2>2. CASE n # 1
    BY <1>3, <1>4, <2>2, Constants DEF Work, None
  <2>3. QED
    BY <2>1, <2>2
<1>7. \A i \in 2 .. Len(p) : p[i] = p[Len(p)]
  <2>1. ASSUME NEW i \in 2 .. Len(p) PROVE p[i] = p[Len(p)]
    <3>1. i + 1 \in 2 .. n /\ i \in 1 .. n - 1 /\ n # 1
      BY <1>1, <1>2
    <3>2. QED
      BY <1>2, <1>4, <3>1 DEF QueueSound
  <2>2. QED
    BY <2>1
<1>8. Work(c, p, r) \in Int /\ Work(b, q, None) \in Int
  BY Constants DEF Work, None
<1>9. QueueSound(c, p, r)
  <2>1. /\ Work(b, q, None) <= RestartTime + RestartTime
        /\ Final(b, q) # Rate(Minimum) => n <= 1 /\ Work(b, q, None) <= RestartTime
    BY DEF QueueSound
  <2>2. Work(c, p, r) <= RestartTime + RestartTime
    BY <1>6, <1>8, <2>1, Constants
  <2>3. Final(c, p) # Rate(Minimum) => Len(p) <= 1 /\ Work(c, p, r) <= RestartTime
    BY <1>1, <1>2, <1>5, <1>6, <1>8, <2>1, Constants
  <2>4. QED
    BY <1>7, <2>2, <2>3 DEF QueueSound
<1>10. QED
  BY <1>1, <1>2, <1>5, <1>6, <1>9 DEF p

(* A session starts: its command goes behind the last one, or is dropped   *)
(* behind one of the same rate.                                            *)
LEMMA Restarting ==
  ASSUME ShortRestarts, NEW b \in Rates, NEW q \in Seq(Rates),
         NEW r \in None .. RestartTime, QueueSound(b, q, r), Len(q) <= QueueCap,
         NEW x \in Rates, x = Rate(Minimum), NEW p,
         p = IF Len(q) < QueueCap THEN Append(q, x) ELSE q
  PROVE  /\ p \in Seq(Rates) /\ Len(p) <= QueueCap
         /\ QueueSound(b, p, r) /\ Final(b, p) = x
<1> DEFINE n == Len(q)
<1>1. n \in Nat /\ QueueCap \in Nat /\ QueueCap >= 2 /\ (q = <<>> <=> n = 0)
  BY Constants, EmptySeq DEF ShortRestarts
<1>2. /\ \A i \in 2 .. n : q[i] = q[n]
      /\ Work(b, q, r) <= RestartTime + RestartTime
      /\ Final(b, q) # x => n <= 1 /\ Work(b, q, r) <= RestartTime
  BY DEF QueueSound
<1>3. CASE n = QueueCap
  <2>1. p = q /\ Final(b, q) = x
    BY <1>1, <1>2, <1>3
  <2>2. QED
    BY <1>1, <1>3, <2>1
<1>4. CASE n # QueueCap
  <2>1. p = Append(q, x) /\ n < QueueCap
    BY <1>1, <1>4
  <2>2. /\ p \in Seq(Rates) /\ Len(p) = n + 1 /\ p # <<>> /\ p[Len(p)] = x
        /\ \A i \in 1 .. n : p[i] = q[i]
    BY <2>1, Requested
  <2>3. Final(b, p) = x
    BY <2>2 DEF Final
  <2>4. CASE n = 0
    <3>1. q = <<>> /\ p[1] = x /\ Len(p) = 1
      BY <1>1, <2>2, <2>4
    <3>2. Work(b, p, r) <= RestartTime + RestartTime
      BY <2>2, <3>1, Constants DEF Work, None
    <3>3. \A i \in 2 .. Len(p) : p[i] = p[Len(p)]
      BY <3>1
    <3>4. QED
      BY <1>1, <2>2, <2>3, <3>1, <3>2, <3>3 DEF QueueSound
  <2>5. CASE n # 0
    <3>1. p[1] = q[1] /\ q # <<>> /\ p[n] = q[n] /\ Final(b, q) = q[n]
      BY <1>1, <2>2, <2>5 DEF Final
    <3>2. CASE q[n] = x
      <4>1. Work(b, p, r) = Work(b, q, r)
        BY <2>2, <3>1, <3>2 DEF Work
      <4>2. \A i \in 2 .. Len(p) : p[i] = p[Len(p)]
        BY <1>1, <1>2, <2>2, <3>2
      <4>3. QED
        BY <1>1, <1>2, <2>1, <2>2, <2>3, <4>1, <4>2 DEF QueueSound
    <3>3. CASE q[n] # x
      <4>1. n = 1 /\ Work(b, q, r) <= RestartTime
        <5>1. Final(b, q) # x
          BY <3>1, <3>3
        <5>2. n <= 1 /\ Work(b, q, r) <= RestartTime
          BY <1>2, <5>1
        <5>3. n = 1
          <6>1. n \in Nat /\ n # 0
            BY <1>1, <2>5
          <6>2. n <= 1
            BY <5>2
          <6> HIDE DEF n
          <6>3. QED
            BY <6>1, <6>2
        <5>4. QED
          BY <5>2, <5>3
      <4>2. Work(b, p, r) <= RestartTime + RestartTime
        BY <2>2, <3>1, <4>1, Constants DEF Work, None
      <4>3. \A i \in 2 .. Len(p) : p[i] = p[Len(p)]
        BY <2>2, <4>1
      <4>4. QED
        BY <1>1, <2>1, <2>2, <2>3, <4>2, <4>3 DEF QueueSound
    <3>4. QED
      BY <3>2, <3>3
  <2>6. QED
    BY <2>4, <2>5
<1>5. QED
  BY <1>3, <1>4

(* The tier changes: the channel is empty.                                 *)
LEMMA Changed ==
  ASSUME ShortRestarts, NEW b \in Rates, NEW x \in Rates, NEW p,
         p = IF Len(<<>>) < QueueCap THEN Append(<<>>, x) ELSE <<>>
  PROVE  /\ p \in Seq(Rates) /\ Len(p) <= QueueCap
         /\ QueueSound(b, p, None) /\ Final(b, p) = x
         /\ Work(b, p, None) <= RestartTime
<1>1. QueueCap \in Nat /\ QueueCap >= 2 /\ Len(<<>>) = 0 /\ <<>> \in Seq(Rates)
  BY Constants DEF ShortRestarts
<1>2. p = Append(<<>>, x)
  BY <1>1
<1>3. p \in Seq(Rates) /\ Len(p) = 1 /\ p # <<>> /\ p[1] = x
  BY <1>1, <1>2, Requested
<1>4. Work(b, p, None) <= RestartTime /\ Work(b, p, None) <= RestartTime + RestartTime
  BY <1>3, Constants DEF Work, None
<1>5. QED
  BY <1>1, <1>3, <1>4 DEF QueueSound, Final

(* A second passes: a restart that goes on has a second less to go.        *)
LEMMA Passes ==
  ASSUME NEW b, NEW q, NEW r \in None .. RestartTime, r < RestartTime,
         q = <<>> \/ r # None, QueueSound(b, q, r)
  PROVE  /\ QueueSound(b, q, Older(r, RestartTime))
         /\ r # None => Work(b, q, Older(r, RestartTime)) = Work(b, q, r) - 1
         /\ r = None => Older(r, RestartTime) = None
<1>1. CASE r = None
  BY <1>1 DEF Older
<1>2. CASE r # None
  <2>1. /\ Older(r, RestartTime) = r + 1 /\ r + 1 # None /\ r + 1 \in None .. RestartTime
        /\ r \in Nat
    BY <1>2, Constants DEF Older, None
  <2>2. /\ Work(b, q, r) = Work(b, q, None) + RestartTime - r
        /\ Work(b, q, r + 1) = Work(b, q, None) + RestartTime - (r + 1)
        /\ Work(b, q, None) \in Nat
    BY <1>2, <2>1, WorkIsNat
  <2>3. Work(b, q, r + 1) = Work(b, q, r) - 1 /\ Work(b, q, r) \in Int
    BY <2>1, <2>2, Constants
  <2>4. QueueSound(b, q, r + 1)
    BY <2>3, Constants DEF QueueSound
  <2>5. QED
    BY <1>2, <2>1, <2>3, <2>4
<1>3. QED
  BY <1>1, <1>2

(* A restart ends.                                                         *)
LEMMA Done ==
  ASSUME NEW b, NEW q, NEW r \in None .. RestartTime, QueueSound(b, q, r)
  PROVE  QueueSound(b, q, None)
<1>1. Work(b, q, None) \in Nat /\ Work(b, q, r) \in Nat /\ Work(b, q, None) <= Work(b, q, r)
  BY WorkIsNat
<1>2. QED
  BY <1>1, Constants DEF QueueSound

(* With less to do the same times hold.                                    *)
LEMMA TimedLess ==
  ASSUME NEW b, NEW q, NEW r, NEW b2, NEW q2, NEW r2, NEW t \in Tiers,
         NEW ch \in Nat, NEW dn \in Int, NEW up \in Int,
         Work(b, q, r) \in Nat, Work(b2, q2, r2) \in Nat,
         Work(b2, q2, r2) <= Work(b, q, r), q # <<>> \/ r # None,
         Timed(b, q, r, t, ch, dn, up)
  PROVE  Timed(b2, q2, r2, t, ch, dn, up)
<1>1. Bound(t) \in Nat
  BY Constants DEF Bound
<1>2. QED
  BY <1>1, Constants DEF Timed

-----------------------------------------------------------------------------
(* The invariant.                                                          *)

LEMMA RatesOfTiers ==
  /\ Tiers = {1, 2, 3, 4} /\ Minimum \in Tiers /\ High \in Tiers
  /\ \A t \in Tiers : Rate(t) \in Rates /\ Bound(t) \in Nat
  /\ Rate(Minimum) \in Rates
<1>1. Tiers = {1, 2, 3, 4} /\ Minimum \in Tiers /\ High \in Tiers
  BY DEF Tiers, Minimum, High
<1>2. \A t \in Tiers : Rate(t) \in Rates
  BY DEF Rates
<1>3. \A t \in Tiers : Bound(t) \in Nat
  BY Constants DEF Bound
<1>4. QED
  BY <1>1, <1>2, <1>3

(* The types, in the form the steps need.                                  *)
LEMMA Typed ==
  ASSUME TypeOK, CommandsTyped
  PROVE  /\ tier \in Tiers /\ changed \in 0 .. Cooldown /\ changed \in Nat
         /\ downSince \in None .. DowngradeAfter /\ upSince \in None .. UpgradeAfter
         /\ downSince \in Int /\ upSince \in Int
         /\ commands \in Seq(Rates) /\ Len(commands) <= QueueCap /\ Len(commands) \in Nat
         /\ bitrate \in Rates /\ restarting \in None .. RestartTime
         /\ sinceGood \in 0 .. DowngradeAfter /\ sinceBad \in 0 .. UpgradeAfter
<1>1. bitrate \in Rates
  BY DEF TypeOK, Rates
<1>2. commands \in Seq(Rates) /\ Len(commands) \in Nat
  BY DEF CommandsTyped
<1>3. /\ changed \in 0 .. Cooldown /\ changed \in Nat
      /\ downSince \in Int /\ upSince \in Int
  BY Constants DEF TypeOK, None
<1>4. QED
  BY <1>1, <1>2, <1>3 DEF TypeOK

(* The channel's part of TypeOK.                                           *)
LEMMA TypedCommands ==
  ASSUME NEW q \in Seq(Rates)
  PROVE  \A i \in DOMAIN q : \E t \in Tiers : q[i] = Rate(t)
<1>1. \A i \in DOMAIN q : q[i] \in Rates
  BY ElementOfSeq
<1>2. QED
  BY <1>1 DEF Rates

LEMMA InitEstablishes == Init => IInv
<1> SUFFICES ASSUME Init PROVE IInv
  OBVIOUS
<1>1. /\ commands = <<>> /\ restarting = None /\ connected = FALSE /\ bitrate = Rate(High)
      /\ tier = High /\ changed = 0 /\ downSince = None /\ upSince = None
      /\ sinceGood = 0 /\ sinceBad = 0
  BY DEF Init
<1>2. CommandsTyped
  BY <1>1 DEF CommandsTyped
<1>3. TypeOK
  <2>1. \A i \in DOMAIN commands : \E t \in Tiers : commands[i] = Rate(t)
    BY <1>2, TypedCommands DEF CommandsTyped
  <2>2. Len(commands) <= QueueCap
    BY <1>1, Constants
  <2>3. bitrate \in {Rate(t) : t \in Tiers}
    BY <1>1, RatesOfTiers DEF Rates
  <2>4. /\ link \in Measured /\ connected \in BOOLEAN /\ evaluated \in BOOLEAN
        /\ running \in BOOLEAN /\ sessions = 0 /\ failures = 0
    BY DEF Init
  <2>5. /\ 0 \in 0 .. MaxSessions /\ 0 \in 0 .. MaxFailures /\ 0 \in 0 .. Cooldown
        /\ None \in None .. DowngradeAfter /\ None \in None .. UpgradeAfter
        /\ None \in None .. RestartTime /\ 0 \in 0 .. DowngradeAfter
        /\ 0 \in 0 .. UpgradeAfter
    BY Constants DEF None
  <2>6. QED
    BY <1>1, <2>1, <2>2, <2>3, <2>4, <2>5, RatesOfTiers, Zenon DEF TypeOK
<1>4. PressuresSound
  BY <1>1 DEF PressuresSound, None
<1>5. QueueSound(bitrate, commands, restarting)
  <2>1. Work(bitrate, <<>>, None) = 0
    BY Drained
  <2>2. QED
    BY <1>1, <2>1, Constants DEF QueueSound
<1>6. QED
  BY <1>1, <1>2, <1>3, <1>4, <1>5 DEF IInv, Pressed

LEMMA SessionStartsStep ==
  ASSUME ShortRestarts, IInv, SessionStarts PROVE IInv'
<1>1. TypeOK /\ CommandsTyped /\ QueueSound(bitrate, commands, restarting)
  BY DEF IInv, Pressed
<1>2. /\ bitrate \in Rates /\ commands \in Seq(Rates) /\ Len(commands) <= QueueCap
      /\ restarting \in None .. RestartTime /\ Rate(Minimum) \in Rates
  BY <1>1, Typed, RatesOfTiers
<1>3. /\ tier' = Minimum /\ changed' = 0 /\ downSince' = None /\ upSince' = None
      /\ sinceGood' = 0 /\ sinceBad' = 0 /\ connected' = TRUE /\ evaluated' = TRUE
      /\ sessions < MaxSessions /\ sessions' = sessions + 1
      /\ commands' = IF Len(commands) < QueueCap THEN Append(commands, Rate(Minimum))
                     ELSE commands
      /\ UNCHANGED <<link, bitrate, running, restarting, failures>>
  BY DEF SessionStarts, Request, encoder
<1>4. /\ commands' \in Seq(Rates) /\ Len(commands') <= QueueCap
      /\ QueueSound(bitrate, commands', restarting)
      /\ Final(bitrate, commands') = Rate(Minimum)
  BY <1>1, <1>2, <1>3, Restarting
<1>5. TypeOK'
  <2>1. \A i \in DOMAIN commands' : \E t \in Tiers : commands'[i] = Rate(t)
    BY <1>4, TypedCommands
  <2>2. sessions' \in 0 .. MaxSessions
    BY <1>1, <1>3, Constants DEF TypeOK
  <2>3. /\ changed' \in 0 .. Cooldown /\ downSince' \in None .. DowngradeAfter
        /\ upSince' \in None .. UpgradeAfter /\ sinceGood' \in 0 .. DowngradeAfter
        /\ sinceBad' \in 0 .. UpgradeAfter
    BY <1>3, Constants DEF None
  <2>4. tier' \in Tiers /\ connected' \in BOOLEAN /\ evaluated' \in BOOLEAN
    BY <1>3, RatesOfTiers
  <2>5. /\ link' \in Measured /\ running' \in BOOLEAN /\ failures' \in 0 .. MaxFailures
        /\ bitrate' \in {Rate(t) : t \in Tiers} /\ restarting' \in None .. RestartTime
    BY <1>1, <1>3 DEF TypeOK
  <2>6. QED
    BY <1>4, <2>1, <2>2, <2>3, <2>4, <2>5 DEF TypeOK
<1>6. PressuresSound'
  BY <1>3 DEF PressuresSound, None
<1>7. Timed(bitrate, commands', restarting, Minimum, 0, None, None)
  <2>1. Work(bitrate, commands', restarting) \in Nat
    BY <1>2, WorkIsNat
  <2>2. 0 + Work(bitrate, commands', restarting) <= Bound(Minimum)
    BY <1>4, <2>1 DEF QueueSound, Bound
  <2>3. QED
    BY <2>2 DEF Timed
<1>8. QED
  BY <1>3, <1>4, <1>5, <1>6, <1>7 DEF IInv, Pressed, CommandsTyped

(* Steps that leave the controller, the channel and the restarts alone.    *)
LEMMA OtherStep ==
  ASSUME IInv, SessionLost \/ LinkChanges \/ EncoderDies PROVE IInv'
<1>1. /\ UNCHANGED <<sessions, tier, changed, downSince, upSince, evaluated, commands,
                     bitrate, restarting, sinceGood, sinceBad>>
      /\ connected' => connected
  BY DEF SessionLost, LinkChanges, EncoderDies, session, abr, encoder, history
<1>2. link' \in Measured /\ connected' \in BOOLEAN /\ running' \in BOOLEAN
  BY DEF SessionLost, LinkChanges, EncoderDies, session, abr, encoder, history, IInv,
         Pressed, TypeOK
<1>3. failures' \in 0 .. MaxFailures
  BY Constants DEF SessionLost, LinkChanges, EncoderDies, encoder, IInv, Pressed, TypeOK
<1>4. TypeOK'
  BY <1>1, <1>2, <1>3 DEF IInv, Pressed, TypeOK
<1>5. CommandsTyped' /\ PressuresSound'
  BY <1>1 DEF IInv, Pressed, CommandsTyped, PressuresSound
<1>6. QED
  BY <1>1, <1>4, <1>5 DEF IInv, Pressed

LEMMA TickStep ==
  ASSUME IInv, Tick PROVE IInv'
<1>1. TypeOK /\ CommandsTyped /\ PressuresSound /\ QueueSound(bitrate, commands, restarting)
  BY DEF IInv, Pressed
<1>2. /\ tier \in Tiers /\ changed \in None .. Cooldown /\ changed \in 0 .. Cooldown
      /\ downSince \in None .. DowngradeAfter /\ upSince \in None .. UpgradeAfter
      /\ restarting \in None .. RestartTime
      /\ sinceGood \in 0 .. DowngradeAfter /\ sinceBad \in 0 .. UpgradeAfter
      /\ sinceGood \in None .. DowngradeAfter /\ sinceBad \in None .. UpgradeAfter
  BY <1>1, Typed, Constants DEF None
<1>3. /\ restarting < RestartTime /\ (commands = <<>> \/ restarting # None)
      /\ changed' = Older(changed, Cooldown)
      /\ downSince' = Older(downSince, DowngradeAfter)
      /\ upSince' = Older(upSince, UpgradeAfter)
      /\ restarting' = Older(restarting, RestartTime)
      /\ sinceGood' = Older(sinceGood, DowngradeAfter)
      /\ sinceBad' = Older(sinceBad, UpgradeAfter)
      /\ evaluated' = FALSE
      /\ UNCHANGED <<link, sessions, connected, tier, commands, bitrate, running, failures>>
  BY DEF Tick, session
<1>4. /\ changed' \in 0 .. Cooldown /\ changed' <= changed + 1 /\ changed <= changed'
      /\ downSince' \in None .. DowngradeAfter /\ downSince' <= downSince + 1
      /\ downSince' = None <=> downSince = None
      /\ upSince' \in None .. UpgradeAfter /\ upSince' <= upSince + 1
      /\ upSince' = None <=> upSince = None
      /\ restarting' \in None .. RestartTime
      /\ sinceGood' \in 0 .. DowngradeAfter /\ sinceBad' \in 0 .. UpgradeAfter
  BY <1>2, <1>3, Constants, OlderBounded
<1>5. TypeOK' /\ CommandsTyped'
  <2>1. evaluated' \in BOOLEAN
    BY <1>3
  <2>2. QED
    BY <1>1, <1>3, <1>4, <2>1 DEF TypeOK, CommandsTyped
<1>6. PressuresSound'
  <2>1. downSince' <= sinceGood' /\ upSince' <= sinceBad'
    BY <1>1, <1>2, <1>3, Constants, OlderOrdered DEF PressuresSound
  <2>2. changed' < Cooldown => downSince' = None /\ upSince' = None
    BY <1>1, <1>2, <1>4, Constants DEF PressuresSound
  <2>3. tier' = High => upSince' = None
    BY <1>1, <1>3, <1>4 DEF PressuresSound
  <2>4. QED
    BY <2>1, <2>2, <2>3 DEF PressuresSound
<1>7. /\ QueueSound(bitrate, commands, restarting')
      /\ restarting # None =>
           Work(bitrate, commands, restarting') = Work(bitrate, commands, restarting) - 1
      /\ restarting = None => restarting' = None
  BY <1>1, <1>2, <1>3, Passes
<1>8. ASSUME connected
      PROVE  Timed(bitrate, commands, restarting', tier, changed', downSince', upSince')
  <2>1. Timed(bitrate, commands, restarting, tier, changed, downSince, upSince)
    BY <1>8 DEF IInv
  <2>2. CASE restarting = None
    BY <1>3, <1>7, <2>2 DEF Timed
  <2>3. CASE restarting # None
    <3>1. /\ Work(bitrate, commands, restarting') = Work(bitrate, commands, restarting) - 1
          /\ Work(bitrate, commands, restarting) \in Nat
          /\ Bound(tier) \in Nat
      BY <1>2, <1>7, <2>3, WorkIsNat, RatesOfTiers
    <3>2. /\ changed + Work(bitrate, commands, restarting) <= Bound(tier)
          /\ downSince # None =>
               Cooldown + downSince + Work(bitrate, commands, restarting) <= Bound(tier)
          /\ upSince # None =>
               Cooldown + upSince + Work(bitrate, commands, restarting) <= Bound(tier)
      BY <2>1, <2>3 DEF Timed
    <3>3. /\ changed \in Int /\ changed' \in Int /\ downSince \in Int /\ downSince' \in Int
          /\ upSince \in Int /\ upSince' \in Int
      BY <1>2, <1>4, Constants DEF None
    <3>4. /\ changed' + Work(bitrate, commands, restarting') <= Bound(tier)
          /\ downSince' # None =>
               Cooldown + downSince' + Work(bitrate, commands, restarting') <= Bound(tier)
          /\ upSince' # None =>
               Cooldown + upSince' + Work(bitrate, commands, restarting') <= Bound(tier)
      BY <1>4, <3>1, <3>2, <3>3, Constants
    <3>5. QED
      BY <3>4 DEF Timed
  <2>4. QED
    BY <2>2, <2>3
<1>9. connected => Final(bitrate, commands) = Rate(tier)
  BY DEF IInv
<1>10. QED
  BY <1>3, <1>5, <1>6, <1>7, <1>8, <1>9 DEF IInv, Pressed

LEMMA TakeCommandStep ==
  ASSUME IInv, TakeCommand PROVE IInv'
<1> DEFINE c == commands[1]
           r == IF c = bitrate THEN None ELSE 0
<1>1. TypeOK /\ CommandsTyped /\ PressuresSound /\ QueueSound(bitrate, commands, restarting)
  BY DEF IInv, Pressed
<1>2. /\ bitrate \in Rates /\ commands \in Seq(Rates) /\ Len(commands) <= QueueCap
      /\ tier \in Tiers /\ changed \in Nat /\ downSince \in Int /\ upSince \in Int
      /\ restarting \in None .. RestartTime
  BY <1>1, Typed
<1>3. /\ restarting = None /\ commands # <<>> /\ commands' = Tail(commands)
      /\ Head(commands) = c
      /\ UNCHANGED <<link, sessions, connected, tier, changed, downSince, upSince, evaluated,
                     failures, sinceGood, sinceBad>>
  BY <1>2, HeadTailProperties DEF TakeCommand, encoder, session, abr, history
<1>4. bitrate' = c /\ restarting' = r /\ running' \in BOOLEAN
  BY <1>1, <1>3 DEF TakeCommand, encoder, TypeOK
<1>5. c = commands[1] /\ r = IF c = bitrate THEN None ELSE 0
  OBVIOUS
<1> HIDE DEF c, r
<1>6. /\ QueueSound(c, commands', r) /\ commands' \in Seq(Rates) /\ c \in Rates
      /\ Final(c, commands') = Final(bitrate, commands)
      /\ Work(c, commands', r) <= Work(bitrate, commands, None)
  BY <1>1, <1>2, <1>3, <1>5, Taken
<1>7. r \in None .. RestartTime /\ Len(commands') <= QueueCap
  <2>1. r \in None .. RestartTime
    BY <1>5, Constants DEF None
  <2>2. Len(commands') = Len(commands) - 1 /\ Len(commands) \in Nat
    BY <1>2, <1>3, HeadTailProperties
  <2>3. QED
    BY <1>2, <2>1, <2>2, Constants
<1>8. TypeOK' /\ CommandsTyped'
  <2>1. \A i \in DOMAIN commands' : \E t \in Tiers : commands'[i] = Rate(t)
    BY <1>6, TypedCommands
  <2>2. bitrate' \in {Rate(t) : t \in Tiers}
    BY <1>4, <1>6 DEF Rates
  <2>3. QED
    BY <1>1, <1>3, <1>4, <1>6, <1>7, <2>1, <2>2 DEF TypeOK, CommandsTyped
<1>9. PressuresSound'
  BY <1>1, <1>3 DEF PressuresSound
<1>10. ASSUME connected
       PROVE  /\ Final(c, commands') = Rate(tier)
              /\ Timed(c, commands', r, tier, changed, downSince, upSince)
  <2>1. /\ Timed(bitrate, commands, restarting, tier, changed, downSince, upSince)
        /\ Final(bitrate, commands) = Rate(tier)
    BY <1>10 DEF IInv
  <2>2. Work(c, commands', r) \in Nat /\ Work(bitrate, commands, None) \in Nat
    BY <1>2, <1>7, WorkIsNat
  <2>3. Timed(c, commands', r, tier, changed, downSince, upSince)
    BY <1>2, <1>3, <1>6, <2>1, <2>2, TimedLess
  <2>4. QED
    BY <1>6, <2>1, <2>3
<1>11. QED
  BY <1>3, <1>4, <1>6, <1>8, <1>9, <1>10 DEF IInv, Pressed

LEMMA RestartEndsStep ==
  ASSUME IInv, Restarted \/ RestartFails PROVE IInv'
<1>1. TypeOK /\ CommandsTyped /\ PressuresSound /\ QueueSound(bitrate, commands, restarting)
  BY DEF IInv, Pressed
<1>2. /\ tier \in Tiers /\ changed \in Nat /\ downSince \in Int /\ upSince \in Int
      /\ restarting \in None .. RestartTime
  BY <1>1, Typed
<1>3. /\ restarting # None /\ restarting' = None
      /\ UNCHANGED <<link, sessions, connected, tier, changed, downSince, upSince, evaluated,
                     commands, bitrate, sinceGood, sinceBad>>
  BY DEF Restarted, RestartFails, session, abr, history
<1>4. running' \in BOOLEAN /\ failures' \in 0 .. MaxFailures
  <2>1. running' = running \/ running' = TRUE
    BY DEF Restarted, RestartFails
  <2>2. failures' = failures \/ (failures < MaxFailures /\ failures' = failures + 1)
    BY DEF Restarted, RestartFails, session, abr, history
  <2>3. running \in BOOLEAN /\ failures \in 0 .. MaxFailures
    BY <1>1 DEF TypeOK
  <2>4. running' \in BOOLEAN
    BY <2>1, <2>3, Zenon
  <2>5. QED
    BY <2>2, <2>3, <2>4, Constants
<1>5. TypeOK' /\ CommandsTyped'
  <2>1. None \in None .. RestartTime
    BY Constants DEF None
  <2>2. QED
    BY <1>1, <1>3, <1>4, <2>1 DEF TypeOK, CommandsTyped
<1>6. PressuresSound'
  BY <1>1, <1>3 DEF PressuresSound
<1>7. QueueSound(bitrate, commands, None)
  BY <1>1, <1>2, Done
<1>8. ASSUME connected
      PROVE  /\ Final(bitrate, commands) = Rate(tier)
             /\ Timed(bitrate, commands, None, tier, changed, downSince, upSince)
  <2>1. /\ Timed(bitrate, commands, restarting, tier, changed, downSince, upSince)
        /\ Final(bitrate, commands) = Rate(tier)
    BY <1>8 DEF IInv
  <2>2. /\ Work(bitrate, commands, restarting) \in Nat /\ Work(bitrate, commands, None) \in Nat
        /\ Work(bitrate, commands, None) <= Work(bitrate, commands, restarting)
    BY <1>2, WorkIsNat
  <2>3. Timed(bitrate, commands, None, tier, changed, downSince, upSince)
    BY <1>2, <1>3, <2>1, <2>2, TimedLess
  <2>4. QED
    BY <2>1, <2>3
<1>9. QED
  BY <1>3, <1>5, <1>6, <1>7, <1>8 DEF IInv, Pressed

(* When the controller changes the tier, the encoder has caught up.        *)
LEMMA ChangesWhenDrained ==
  ASSUME ShortRestarts, IInv, connected, changed = Cooldown,
         \/ tier > Minimum /\ Start(downSince) >= DowngradeAfter
         \/ Start(upSince) >= UpgradeAfter
  PROVE  commands = <<>> /\ restarting = None
<1>1. TypeOK /\ CommandsTyped
  BY DEF IInv, Pressed
<1>2. /\ tier \in Tiers /\ restarting \in None .. RestartTime
      /\ downSince \in None .. DowngradeAfter /\ upSince \in None .. UpgradeAfter
  BY <1>1, Typed
<1>3. Timed(bitrate, commands, restarting, tier, changed, downSince, upSince)
  BY DEF IInv
<1> DEFINE w == Work(bitrate, commands, restarting)
<1>4. w \in Nat
  BY <1>2, WorkIsNat
<1>5. SUFFICES ASSUME commands # <<>> \/ restarting # None PROVE FALSE
  OBVIOUS
<1>6. /\ Cooldown + w <= Bound(tier)
      /\ downSince # None => Cooldown + downSince + w <= Bound(tier)
      /\ upSince # None => Cooldown + upSince + w <= Bound(tier)
  BY <1>3, <1>5 DEF Timed
<1> HIDE DEF w
<1>7. CASE tier > Minimum /\ Start(downSince) >= DowngradeAfter
  <2>1. Bound(tier) = RestartTime
    BY <1>2, <1>7, RatesOfTiers DEF Bound, Minimum
  <2>2. CASE downSince = None
    BY <1>4, <1>6, <1>7, <2>1, <2>2, Constants DEF Start, ShortRestarts
  <2>3. CASE downSince # None
    <3>1. Start(downSince) = downSince /\ downSince \in Int
      BY <1>2, <2>3, Constants DEF Start, None
    <3>2. QED
      BY <1>4, <1>6, <1>7, <2>1, <2>3, <3>1, Constants DEF ShortRestarts
  <2>4. QED
    BY <2>2, <2>3
<1>8. CASE Start(upSince) >= UpgradeAfter
  <2>1. Bound(tier) <= RestartTime + RestartTime /\ Bound(tier) \in Nat
    BY Constants DEF Bound
  <2>2. CASE upSince = None
    BY <1>4, <1>6, <1>8, <2>1, <2>2, Constants DEF Start, ShortRestarts
  <2>3. CASE upSince # None
    <3>1. Start(upSince) = upSince /\ upSince \in Int
      BY <1>2, <2>3, Constants DEF Start, None
    <3>2. QED
      BY <1>4, <1>6, <1>8, <2>1, <2>3, <3>1, Constants DEF ShortRestarts
  <2>4. QED
    BY <2>2, <2>3
<1>9. QED
  BY <1>7, <1>8

(* An evaluation that changes no tier: a pressure goes on, begins after    *)
(* the cooldown, or ends.                                                  *)
LEMMA TierHeld ==
  ASSUME IInv, connected, evaluated' = TRUE,
         UNCHANGED <<link, session, encoder, tier, changed, commands>>,
         downSince' \in {None, downSince} \/ (downSince' = 0 /\ changed = Cooldown),
         upSince' \in {None, upSince} \/ (upSince' = 0 /\ changed = Cooldown /\ tier # High),
         sinceGood' = sinceGood \/ (sinceGood' = 0 /\ downSince' = None),
         sinceBad' = sinceBad \/ (sinceBad' = 0 /\ upSince' = None)
  PROVE  IInv'
<1>1. TypeOK /\ CommandsTyped /\ PressuresSound
  BY DEF IInv, Pressed
<1>2. /\ tier \in Tiers /\ changed \in 0 .. Cooldown
      /\ downSince \in None .. DowngradeAfter /\ upSince \in None .. UpgradeAfter
      /\ sinceGood \in 0 .. DowngradeAfter /\ sinceBad \in 0 .. UpgradeAfter
      /\ restarting \in None .. RestartTime
  BY <1>1, Typed
<1>3. UNCHANGED <<sessions, connected, bitrate, running, restarting, failures>>
  BY DEF session, encoder
<1>4. /\ downSince' \in None .. DowngradeAfter /\ upSince' \in None .. UpgradeAfter
      /\ sinceGood' \in 0 .. DowngradeAfter /\ sinceBad' \in 0 .. UpgradeAfter
  BY <1>2, Constants DEF None
<1>5. TypeOK' /\ CommandsTyped'
  <2>1. evaluated' \in BOOLEAN
    OBVIOUS
  <2>2. QED
    BY <1>1, <1>3, <1>4, <2>1 DEF TypeOK, CommandsTyped
<1>6. PressuresSound'
  <2>1. downSince' <= sinceGood'
    BY <1>1, <1>2, Constants DEF PressuresSound, None
  <2>2. upSince' <= sinceBad'
    BY <1>1, <1>2, Constants DEF PressuresSound, None
  <2>3. changed < Cooldown => downSince' = None /\ upSince' = None
    BY <1>1, <1>2, Constants DEF PressuresSound
  <2>4. tier = High => upSince' = None
    BY <1>1 DEF PressuresSound
  <2>5. QED
    BY <2>1, <2>2, <2>3, <2>4 DEF PressuresSound
<1>7. Timed(bitrate, commands, restarting, tier, changed, downSince, upSince)
  BY DEF IInv
<1>8. Timed(bitrate, commands, restarting, tier, changed, downSince', upSince')
  <2>1. Work(bitrate, commands, restarting) \in Nat
    BY <1>2, WorkIsNat
  <2>2. CASE commands = <<>> /\ restarting = None
    BY <2>2 DEF Timed
  <2>3. CASE ~(commands = <<>> /\ restarting = None)
    <3>1. /\ changed + Work(bitrate, commands, restarting) <= Bound(tier)
          /\ downSince # None =>
               Cooldown + downSince + Work(bitrate, commands, restarting) <= Bound(tier)
          /\ upSince # None =>
               Cooldown + upSince + Work(bitrate, commands, restarting) <= Bound(tier)
      BY <1>7, <2>3 DEF Timed
    <3>2. downSince' # None =>
            Cooldown + downSince' + Work(bitrate, commands, restarting) <= Bound(tier)
      BY <2>1, <3>1, Constants
    <3>3. upSince' # None =>
            Cooldown + upSince' + Work(bitrate, commands, restarting) <= Bound(tier)
      BY <2>1, <3>1, Constants
    <3>4. QED
      BY <3>1, <3>2, <3>3 DEF Timed
  <2>4. QED
    BY <2>2, <2>3
<1>9. QED
  BY <1>3, <1>5, <1>6, <1>8 DEF IInv, Pressed

(* An evaluation that changes the tier.                                    *)
LEMMA TierChanges ==
  ASSUME ShortRestarts, IInv, connected, changed = Cooldown,
         \/ tier > Minimum /\ Start(downSince) >= DowngradeAfter
         \/ Start(upSince) >= UpgradeAfter,
         evaluated' = TRUE, UNCHANGED <<link, session, encoder>>,
         NEW t \in Tiers, ChangeTo(t), downSince' = None, upSince' = None
  PROVE  IInv'
<1>1. commands = <<>> /\ restarting = None
  BY ChangesWhenDrained
<1>2. TypeOK /\ CommandsTyped
  BY DEF IInv, Pressed
<1>3. bitrate \in Rates /\ Rate(t) \in Rates
  BY <1>2, Typed, RatesOfTiers
<1>4. /\ tier' = t /\ changed' = 0 /\ sinceGood' = 0 /\ sinceBad' = 0
      /\ commands' = IF Len(<<>>) < QueueCap THEN Append(<<>>, Rate(t)) ELSE <<>>
      /\ UNCHANGED <<link, sessions, connected, bitrate, running, restarting, failures>>
  BY <1>1 DEF ChangeTo, Request, session, encoder
<1>5. /\ commands' \in Seq(Rates) /\ Len(commands') <= QueueCap
      /\ QueueSound(bitrate, commands', None) /\ Final(bitrate, commands') = Rate(t)
      /\ Work(bitrate, commands', None) <= RestartTime
  BY <1>3, <1>4, Changed
<1>6. TypeOK'
  <2>1. \A i \in DOMAIN commands' : \E u \in Tiers : commands'[i] = Rate(u)
    BY <1>5, TypedCommands
  <2>2. /\ changed' \in 0 .. Cooldown /\ downSince' \in None .. DowngradeAfter
        /\ upSince' \in None .. UpgradeAfter /\ sinceGood' \in 0 .. DowngradeAfter
        /\ sinceBad' \in 0 .. UpgradeAfter
    BY <1>4, Constants DEF None
  <2>3. evaluated' \in BOOLEAN
    OBVIOUS
  <2>4. QED
    BY <1>2, <1>4, <1>5, <2>1, <2>2, <2>3 DEF TypeOK
<1>7. PressuresSound'
  BY <1>4 DEF PressuresSound, None
<1>8. Timed(bitrate, commands', None, t, 0, None, None)
  <2>1. Work(bitrate, commands', None) \in Nat
    BY Constants DEF Work, None
  <2>2. 0 + Work(bitrate, commands', None) <= Bound(t)
    BY <1>5, <2>1, Constants DEF Bound
  <2>3. QED
    BY <2>2 DEF Timed
<1>9. QED
  BY <1>1, <1>4, <1>5, <1>6, <1>7, <1>8 DEF IInv, Pressed, CommandsTyped

LEMMA HoldEffect ==
  ASSUME NEW m, Hold(m), UNCHANGED <<link, session, encoder>>
  PROVE  /\ sinceGood' = sinceGood \/ sinceGood' = 0
         /\ sinceBad' = sinceBad \/ sinceBad' = 0
         /\ Congested(tier, m) => sinceGood' = sinceGood
         /\ Headroom(tier, m) => sinceBad' = sinceBad
         /\ UNCHANGED <<link, session, encoder, tier, changed, commands>>
  BY DEF Hold

LEMMA EvaluateStep ==
  ASSUME ShortRestarts, IInv, Evaluate PROVE IInv'
<1>1. TypeOK /\ CommandsTyped /\ PressuresSound
  BY DEF IInv, Pressed
<1>2. /\ tier \in Tiers /\ changed \in 0 .. Cooldown
      /\ downSince \in None .. DowngradeAfter /\ upSince \in None .. UpgradeAfter
  BY <1>1, Typed
<1>3. connected /\ evaluated' = TRUE /\ UNCHANGED <<link, session, encoder>>
  BY DEF Evaluate
<1>4. PICK m \in Reports :
        \/ changed < Cooldown /\ Hold(m) /\ UNCHANGED <<downSince, upSince>>
        \/ changed = Cooldown /\ (Congestion(m) \/ NoCongestion(m))
  BY DEF Evaluate
<1>5. Start(downSince) = downSince \/ (Start(downSince) = 0 /\ downSince = None)
  BY <1>2, Constants DEF Start, None
<1>6. Start(upSince) = upSince \/ (Start(upSince) = 0 /\ upSince = None)
  BY <1>2, Constants DEF Start, None
<1>7. CASE changed < Cooldown /\ Hold(m) /\ UNCHANGED <<downSince, upSince>>
  <2>1. downSince = None /\ upSince = None
    BY <1>1, <1>7 DEF PressuresSound
  <2>2. downSince' = None /\ upSince' = None
    BY <1>7, <2>1
  <2>3. QED
    BY <1>3, <1>7, <2>2, HoldEffect, TierHeld
<1>8. CASE changed = Cooldown /\ Congestion(m)
  <2>1. CASE Start(downSince) >= DowngradeAfter /\ HasLower
    <3>1. downSince' = None /\ upSince' = None /\ ChangeTo(tier - 1)
      BY <1>8, <2>1 DEF Congestion, Release
    <3>2. tier - 1 \in Tiers /\ tier > Minimum
      BY <1>2, <2>1 DEF HasLower, Tiers, Minimum
    <3>3. QED
      BY <1>3, <1>8, <2>1, <3>1, <3>2, TierChanges
  <2>2. CASE ~(Start(downSince) >= DowngradeAfter /\ HasLower)
    <3>1. /\ downSince' = Start(downSince) /\ upSince' = None /\ Hold(m) /\ Congested(tier, m)
      BY <1>8, <2>2 DEF Congestion, Release
    <3>2. /\ sinceGood' = sinceGood /\ (sinceBad' = sinceBad \/ sinceBad' = 0)
          /\ UNCHANGED <<link, session, encoder, tier, changed, commands>>
      BY <1>3, <3>1, HoldEffect
    <3>3. downSince' \in {None, downSince} \/ (downSince' = 0 /\ changed = Cooldown)
      BY <1>5, <1>8, <3>1
    <3>4. QED
      BY <1>3, <3>1, <3>2, <3>3, TierHeld
  <2>3. QED
    BY <2>1, <2>2
<1>9. CASE changed = Cooldown /\ NoCongestion(m)
  <2>1. downSince' = None
    BY <1>9 DEF NoCongestion, Release
  <2>2. CASE tier = High
    <3>1. upSince' = upSince /\ upSince = None /\ Hold(m)
      BY <1>1, <1>9, <2>2 DEF NoCongestion, PressuresSound
    <3>2. QED
      BY <1>3, <2>1, <3>1, HoldEffect, TierHeld
  <2>3. CASE tier # High /\ ~Headroom(tier, m)
    <3>1. upSince' = None /\ Hold(m)
      BY <1>9, <2>3 DEF NoCongestion, Release
    <3>2. QED
      BY <1>3, <2>1, <3>1, HoldEffect, TierHeld
  <2>4. CASE tier # High /\ Headroom(tier, m) /\ Start(upSince) >= UpgradeAfter
    <3>1. upSince' = None /\ ChangeTo(tier + 1)
      BY <1>9, <2>4 DEF NoCongestion
    <3>2. tier + 1 \in Tiers
      BY <1>2, <2>4 DEF Tiers, High
    <3>3. QED
      BY <1>3, <1>9, <2>1, <2>4, <3>1, <3>2, TierChanges
  <2>5. CASE tier # High /\ Headroom(tier, m) /\ ~(Start(upSince) >= UpgradeAfter)
    <3>1. upSince' = Start(upSince) /\ Hold(m)
      BY <1>9, <2>5 DEF NoCongestion
    <3>2. /\ sinceBad' = sinceBad /\ (sinceGood' = sinceGood \/ sinceGood' = 0)
          /\ UNCHANGED <<link, session, encoder, tier, changed, commands>>
      BY <1>3, <2>5, <3>1, HoldEffect
    <3>3. upSince' \in {None, upSince} \/ (upSince' = 0 /\ changed = Cooldown /\ tier # High)
      BY <1>6, <1>9, <2>5, <3>1
    <3>4. QED
      BY <1>3, <2>1, <3>2, <3>3, TierHeld
  <2>6. QED
    BY <2>2, <2>3, <2>4, <2>5
<1>10. QED
  BY <1>4, <1>7, <1>8, <1>9

(* The controller, the channel and the encoder's task keep the invariant   *)
(* (abr.rs:169-233, camera.rs:481-486).                                    *)
THEOREM Invariant == ASSUME ShortRestarts PROVE Spec => []IInv
<1>1. IInv /\ [Next]_vars => IInv'
  <2> SUFFICES ASSUME IInv, [Next]_vars PROVE IInv'
    OBVIOUS
  <2>1. CASE UNCHANGED vars
    BY <2>1 DEF vars, session, abr, encoder, history, IInv, Pressed, TypeOK, CommandsTyped,
                PressuresSound
  <2>2. CASE Next
    BY <2>2, SessionStartsStep, OtherStep, TickStep, EvaluateStep, TakeCommandStep,
       RestartEndsStep DEF Next
  <2>3. QED
    BY <2>1, <2>2
<1>2. QED
  BY <1>1, InitEstablishes, PTL DEF Spec

(* The encoder is, or will be after the commands under way, at the tier of *)
(* the controller, although try_send drops commands (camera.rs:481-486,    *)
(* 577-580): with restarts that are short, two places in the channel are   *)
(* enough.                                                                 *)
THEOREM EncoderStaysInStep == ASSUME ShortRestarts PROVE Spec => []EncoderInStep
<1>1. IInv => EncoderInStep
  <2> SUFFICES ASSUME IInv PROVE EncoderInStep
    OBVIOUS
  <2>1. TypeOK /\ CommandsTyped /\ (connected => Final(bitrate, commands) = Rate(tier))
    BY DEF IInv, Pressed
  <2>2. Last(<<bitrate>> \o commands) = Final(bitrate, commands)
    BY <2>1, Typed, LastIsFinal
  <2>3. QED
    BY <2>1, <2>2 DEF EncoderInStep, EncoderFollows
<1>2. QED
  BY <1>1, Invariant, PTL

(* A tier is left only after a pressure of the full length, across         *)
(* cooldowns, changed links and new sessions (abr.rs:169-233).             *)
THEOREM ChangesAreSustained == ASSUME ShortRestarts PROVE Spec => TierChangesSustained
<1> DEFINE Sustained == /\ tier' = tier - 1 /\ connected /\ connected' => sinceGood >= DowngradeAfter
                        /\ tier' = tier + 1 => sinceBad >= UpgradeAfter
<1>1. IInv /\ [Next]_vars => [Sustained]_vars
  <2> SUFFICES ASSUME IInv, Next PROVE Sustained
    BY Zenon
  <2>1. TypeOK /\ CommandsTyped /\ PressuresSound
    BY DEF IInv, Pressed
  <2>2. /\ tier \in Tiers /\ sinceGood \in 0 .. DowngradeAfter /\ sinceBad \in 0 .. UpgradeAfter
        /\ downSince \in None .. DowngradeAfter /\ upSince \in None .. UpgradeAfter
    BY <2>1, Typed
  <2>3. tier \in Int /\ tier > 0
    BY <2>2 DEF Tiers
  <2>4. Start(downSince) <= sinceGood /\ Start(upSince) <= sinceBad
    BY <2>1, <2>2, Constants DEF PressuresSound, Start, None
  <2>5. CASE tier' = tier
    BY <2>3, <2>5
  <2>6. CASE SessionStarts
    BY <2>3, <2>6 DEF SessionStarts, Minimum
  <2>7. CASE Evaluate
    <3>1. PICK m \in Reports :
            \/ changed < Cooldown /\ Hold(m) /\ UNCHANGED <<downSince, upSince>>
            \/ changed = Cooldown /\ (Congestion(m) \/ NoCongestion(m))
      BY <2>7 DEF Evaluate
    <3>2. \/ tier' = tier
          \/ tier' = tier - 1 /\ Start(downSince) >= DowngradeAfter
          \/ tier' = tier + 1 /\ Start(upSince) >= UpgradeAfter
      BY <3>1 DEF Congestion, NoCongestion, Hold, ChangeTo
    <3>3. Start(downSince) \in Int /\ Start(upSince) \in Int
      BY <2>2, Constants DEF Start, None
    <3>4. QED
      BY <2>2, <2>3, <2>4, <3>2, <3>3, Constants
  <2>8. SessionLost \/ LinkChanges \/ Tick \/ TakeCommand \/ Restarted \/ RestartFails
          \/ EncoderDies => tier' = tier
    BY DEF SessionLost, LinkChanges, Tick, TakeCommand, Restarted, RestartFails, EncoderDies,
           abr, session, encoder, history
  <2>9. QED
    BY <2>5, <2>6, <2>7, <2>8 DEF Next
<1>2. QED
  BY <1>1, Invariant, PTL DEF Spec, TierChangesSustained

-----------------------------------------------------------------------------
(* Part 2: the backpressure sender and its buffer.                         *)

Buffers ==
  [frames : Seq(Frame), capacity : Nat, last_keyframe_idx : Nat,
   frames_received : Nat, frames_dropped : Nat,
   keyframes_received : Nat, keyframes_dropped : Nat]

(* k is where the last keyframe of s is, or 0 when there is none.          *)
LastKeyAt(s, k) ==
  /\ k \in 0 .. Len(s)
  /\ k # NoIndex => s[k].key
  /\ \A i \in 1 .. Len(s) : s[i].key => i <= k

WithinCapacity(b) ==
  \/ Len(b.frames) <= b.capacity
  \/ b.capacity = 0 /\ Len(b.frames) = 1 /\ b.frames[1].key

GoodBuffer(b) ==
  b \in Buffers /\ LastKeyAt(b.frames, b.last_keyframe_idx) /\ WithinCapacity(b)

(* No frame is in two places, or twice in one.                             *)
Apart ==
  /\ IsInjective(delivered) /\ IsInjective(channel) /\ IsInjective(buffer.frames)
  /\ Range(delivered) \cap Range(channel) = {}
  /\ Range(delivered) \cap Range(buffer.frames) = {}
  /\ Range(channel) \cap Range(buffer.frames) = {}

(* The frame that is being sent is newer than those that were sent.        *)
InHand == pc \in {"flushing", "sending"}

Newest ==
  /\ \A f \in Kept : f.n <= offered
  /\ InHand => frame.n = offered /\ \A f \in Kept : f.n < offered

Accounted ==
  pc # "failed" =>
    offered = Len(delivered) + Len(channel) + Len(buffer.frames)
                + buffer.frames_dropped + (IF pc = "idle" THEN 0 ELSE 1)

SenderTyped ==
  /\ pc \in {"idle", "flushing", "sending", "failed"}
  /\ frame \in Frame
  /\ channel \in Seq(Frame) /\ Len(channel) <= ChannelCapacity
  /\ open \in BOOLEAN
  /\ delivered \in Seq(Frame)
  /\ offered \in 0 .. MaxFrames

SenderInv == SenderTyped /\ GoodBuffer(buffer) /\ Apart /\ Newest /\ Accounted

-----------------------------------------------------------------------------
(* Sequences without repetitions.                                          *)

LEMMA SequenceRange ==
  ASSUME NEW S, NEW s \in Seq(S)
  PROVE  /\ Range(s) = {s[i] : i \in 1 .. Len(s)} /\ Range(s) \subseteq S
         /\ Len(s) \in Nat /\ DOMAIN s = 1 .. Len(s)
<1>1. Len(s) \in Nat /\ s \in [1 .. Len(s) -> S] /\ DOMAIN s = 1 .. Len(s)
  BY LenProperties
<1>2. QED
  BY <1>1 DEF Range

LEMMA AppendKeepsApart ==
  ASSUME NEW S, NEW s \in Seq(S), NEW x \in S
  PROVE  /\ Range(Append(s, x)) = Range(s) \cup {x}
         /\ IsInjective(s) /\ x \notin Range(s) => IsInjective(Append(s, x))
         /\ Append(s, x) \in Seq(S) /\ Len(Append(s, x)) = Len(s) + 1
<1> DEFINE t == Append(s, x)
<1>1. /\ t \in Seq(S) /\ Len(t) = Len(s) + 1
      /\ \A i \in 1 .. Len(s) : t[i] = s[i]
      /\ t[Len(s) + 1] = x
  BY AppendProperties
<1>2. Len(s) \in Nat /\ DOMAIN s = 1 .. Len(s)
  BY SequenceRange
<1> HIDE DEF t
<1>3. DOMAIN t = 1 .. Len(s) + 1
  BY <1>1, SequenceRange
<1>4. \A i \in DOMAIN t : i \in DOMAIN s \/ i = Len(s) + 1
  BY <1>2, <1>3
<1>5. \A i \in DOMAIN s : i \in DOMAIN t /\ t[i] = s[i]
  BY <1>1, <1>2, <1>3
<1>6. Len(s) + 1 \in DOMAIN t
  BY <1>2, <1>3
<1>7. Range(t) = Range(s) \cup {x}
  BY <1>1, <1>4, <1>5, <1>6 DEF Range
<1>8. ASSUME IsInjective(s), x \notin Range(s) PROVE IsInjective(t)
  <2>1. \A i \in DOMAIN s : s[i] # x
    BY <1>8 DEF Range
  <2>2. QED
    BY <1>1, <1>4, <1>5, <1>8, <2>1 DEF IsInjective
<1>9. QED
  BY <1>1, <1>7, <1>8 DEF t

LEMMA RemoveAtFacts ==
  ASSUME NEW S, NEW s \in Seq(S), NEW i \in 1 .. Len(s)
  PROVE  LET t == RemoveAt(s, i) IN
         /\ t \in Seq(S) /\ Len(t) = Len(s) - 1
         /\ \A j \in 1 .. Len(t) : t[j] = IF j < i THEN s[j] ELSE s[j + 1]
<1> DEFINE a == SubSeq(s, 1, i - 1)  z == SubSeq(s, i + 1, Len(s))  t == RemoveAt(s, i)
<1>1. Len(s) \in Nat /\ i \in Nat /\ i >= 1 /\ i <= Len(s)
  BY LenProperties
<1>2. a \in Seq(S) /\ Len(a) = i - 1 /\ \A j \in 1 .. i - 1 : a[j] = s[j]
  BY <1>1, SubSeqProperties
<1>3. z \in Seq(S) /\ Len(z) = Len(s) - i /\ \A j \in 1 .. Len(s) - i : z[j] = s[i + j]
  BY <1>1, SubSeqProperties
<1>4. t = a \o z
  BY DEF RemoveAt
<1> HIDE DEF a, z, t
<1>5. /\ t \in Seq(S) /\ Len(t) = Len(a) + Len(z)
      /\ \A j \in 1 .. Len(a) + Len(z) : t[j] = IF j <= Len(a) THEN a[j] ELSE z[j - Len(a)]
  BY <1>2, <1>3, <1>4, ConcatProperties
<1>6. Len(t) = Len(s) - 1
  BY <1>1, <1>2, <1>3, <1>5
<1>7. ASSUME NEW j \in 1 .. Len(t) PROVE t[j] = IF j < i THEN s[j] ELSE s[j + 1]
  <2>1. CASE j < i
    <3>1. j \in 1 .. i - 1 /\ j \in 1 .. Len(a) + Len(z) /\ j <= Len(a)
      BY <1>1, <1>2, <1>3, <1>6, <2>1
    <3>2. QED
      BY <1>2, <1>5, <2>1, <3>1
  <2>2. CASE ~(j < i)
    <3>1. /\ j \in 1 .. Len(a) + Len(z) /\ ~(j <= Len(a)) /\ j - Len(a) \in 1 .. Len(s) - i
          /\ i + (j - Len(a)) = j + 1
      BY <1>1, <1>2, <1>3, <1>6, <2>2
    <3>2. QED
      BY <1>3, <1>5, <2>2, <3>1
  <2>3. QED
    BY <2>1, <2>2
<1>8. QED
  BY <1>5, <1>6, <1>7 DEF t

LEMMA RemoveKeepsApart ==
  ASSUME NEW S, NEW s \in Seq(S), NEW i \in 1 .. Len(s), IsInjective(s)
  PROVE  /\ Range(RemoveAt(s, i)) = Range(s) \ {s[i]} /\ IsInjective(RemoveAt(s, i))
         /\ s[i] \in Range(s)
<1> DEFINE t == RemoveAt(s, i)
<1>1. /\ t \in Seq(S) /\ Len(t) = Len(s) - 1
      /\ \A j \in 1 .. Len(t) : t[j] = IF j < i THEN s[j] ELSE s[j + 1]
  BY RemoveAtFacts
<1>2. Len(s) \in Nat /\ DOMAIN s = 1 .. Len(s) /\ Range(s) = {s[k] : k \in 1 .. Len(s)}
  BY SequenceRange
<1> HIDE DEF t
<1>3. DOMAIN t = 1 .. Len(s) - 1
  BY <1>1, SequenceRange
<1> DEFINE from(j) == IF j < i THEN j ELSE j + 1
<1>4. \A j \in DOMAIN t : t[j] = s[from(j)] /\ from(j) \in DOMAIN s /\ from(j) # i
  BY <1>1, <1>2, <1>3
<1>5. \A j, k \in DOMAIN t : from(j) = from(k) => j = k
  BY <1>2, <1>3
<1>6. \A k \in DOMAIN s : k # i => \E j \in DOMAIN t : from(j) = k
  <2>1. ASSUME NEW k \in DOMAIN s, k # i PROVE \E j \in DOMAIN t : from(j) = k
    <3>1. CASE k < i
      <4>1. k \in DOMAIN t /\ from(k) = k
        BY <1>2, <1>3, <3>1
      <4>2. QED
        BY <4>1
    <3>2. CASE ~(k < i)
      <4>1. k - 1 \in DOMAIN t /\ from(k - 1) = k
        BY <1>2, <1>3, <2>1, <3>2
      <4>2. QED
        BY <4>1
    <3>3. QED
      BY <3>1, <3>2
  <2>2. QED
    BY <2>1
<1> HIDE DEF from
<1>7. IsInjective(t)
  BY <1>4, <1>5 DEF IsInjective
<1>8. Range(t) = Range(s) \ {s[i]}
  <2>1. ASSUME NEW x \in Range(t) PROVE x \in Range(s) /\ x # s[i]
    BY <1>2, <1>4 DEF Range, IsInjective
  <2>2. ASSUME NEW x \in Range(s), x # s[i] PROVE x \in Range(t)
    <3>1. PICK k \in DOMAIN s : x = s[k]
      BY DEF Range
    <3>2. PICK j \in DOMAIN t : from(j) = k
      BY <1>6, <2>2, <3>1
    <3>3. QED
      BY <1>4, <3>1, <3>2 DEF Range
  <2>3. QED
    BY <2>1, <2>2
<1>9. s[i] \in Range(s)
  BY <1>2 DEF Range
<1>10. QED
  BY <1>7, <1>8, <1>9 DEF t

LEMMA TailKeepsApart ==
  ASSUME NEW S, NEW s \in Seq(S), s # <<>>, IsInjective(s)
  PROVE  /\ Range(Tail(s)) = Range(s) \ {Head(s)} /\ IsInjective(Tail(s))
         /\ Head(s) \in Range(s) /\ Head(s) \in S /\ Head(s) = s[1]
         /\ Tail(s) \in Seq(S) /\ Len(Tail(s)) = Len(s) - 1 /\ Len(s) >= 1
<1> DEFINE t == Tail(s)
<1>1. /\ Len(s) \in Nat /\ DOMAIN s = 1 .. Len(s) /\ Len(s) >= 1 /\ Head(s) = s[1] /\ Head(s) \in S
      /\ t \in Seq(S) /\ Len(t) = Len(s) - 1 /\ \A j \in 1 .. Len(t) : t[j] = s[j + 1]
  BY SequenceRange, HeadTailProperties
<1>2. DOMAIN t = 1 .. Len(s) - 1 /\ 1 \in DOMAIN s
  BY <1>1, SequenceRange
<1> HIDE DEF t
<1>3. \A j \in DOMAIN t : t[j] = s[j + 1] /\ j + 1 \in DOMAIN s /\ j + 1 # 1
  BY <1>1, <1>2
<1>4. \A j, k \in DOMAIN t : j + 1 = k + 1 => j = k
  BY <1>2
<1>5. \A k \in DOMAIN s : k # 1 => k - 1 \in DOMAIN t /\ (k - 1) + 1 = k
  BY <1>1, <1>2
<1>6. IsInjective(t)
  BY <1>3, <1>4 DEF IsInjective
<1>7. Range(t) = Range(s) \ {s[1]}
  <2>1. ASSUME NEW x \in Range(t) PROVE x \in Range(s) /\ x # s[1]
    BY <1>2, <1>3 DEF Range, IsInjective
  <2>2. ASSUME NEW x \in Range(s), x # s[1] PROVE x \in Range(t)
    <3>1. PICK k \in DOMAIN s : x = s[k]
      BY DEF Range
    <3>2. k - 1 \in DOMAIN t /\ t[k - 1] = s[k]
      BY <1>3, <1>5, <2>2, <3>1
    <3>3. QED
      BY <3>1, <3>2 DEF Range
  <2>3. QED
    BY <2>1, <2>2
<1>8. s[1] \in Range(s)
  BY <1>2 DEF Range
<1>9. QED
  BY <1>1, <1>6, <1>7, <1>8 DEF t

LEMMA RangeSize ==
  ASSUME NEW S, NEW s \in Seq(S), IsInjective(s)
  PROVE  IsFiniteSet(Range(s)) /\ Cardinality(Range(s)) = Len(s)
<1>1. Len(s) \in Nat /\ s \in [1 .. Len(s) -> S] /\ DOMAIN s = 1 .. Len(s)
  BY LenProperties
<1>2. s \in Bijection(1 .. Len(s), Range(s))
  BY <1>1 DEF Bijection, Injection, Surjection, IsInjective, Range
<1>3. IsFiniteSet(1 .. Len(s)) /\ Cardinality(1 .. Len(s)) = Len(s)
  BY <1>1, FS_Interval
<1>4. QED
  BY <1>2, <1>3, FS_Bijection DEF ExistsBijection

-----------------------------------------------------------------------------
(* The buffer.                                                             *)

LEMMA LastKeySelected ==
  ASSUME NEW s \in Seq(Frame), NEW k, LastKeyAt(s, k)
  PROVE  k = SelectLastInSeq(s, LAMBDA f : f.key)
<1> DEFINE I == {i \in 1 .. Len(s) : s[i].key}
<1>1. Len(s) \in Nat
  BY LenProperties
<1>2. CASE k = 0
  <2>1. I = {}
    BY <1>1, <1>2 DEF LastKeyAt
  <2>2. QED
    BY <1>2, <2>1 DEF SelectLastInSeq
<1>3. CASE k # 0
  <2>1. k \in I /\ \A i \in I : k >= i
    BY <1>1, <1>3 DEF LastKeyAt, NoIndex
  <2>2. \A m \in I : (\A i \in I : m >= i) => m = k
    BY <1>1, <2>1
  <2>3. Max(I) = k
    BY <2>1, <2>2 DEF Max
  <2>4. QED
    BY <2>1, <2>3 DEF SelectLastInSeq
<1>4. QED
  BY <1>2, <1>3

LEMMA DroppableFound ==
  ASSUME NEW b, b.frames \in Seq(Frame)
  PROVE  \/ FindDroppable(b) = 0 /\ \A i \in 1 .. Len(b.frames) : b.frames[i].key
         \/ /\ FindDroppable(b) \in 1 .. Len(b.frames) /\ FindDroppable(b) # 0
            /\ ~b.frames[FindDroppable(b)].key
<1> DEFINE s == b.frames
           I == {i \in 1 .. Len(s) : ~s[i].key}
<1>1. Len(s) \in Nat
  BY LenProperties
<1>2. FindDroppable(b) = IF I # {} THEN Min(I) ELSE 0
  BY DEF FindDroppable, SelectInSeq
<1>3. CASE I = {}
  BY <1>2, <1>3
<1>4. CASE I # {}
  <2>1. I \subseteq Nat
    BY <1>1
  <2>2. PICK m \in I : \A i \in I : m <= i
    BY <1>4, <2>1, LeastElement
  <2>3. Min(I) \in I
    <3> HIDE DEF I
    <3>1. \E x \in I : \A y \in I : x <= y
      BY <2>2
    <3>2. QED
      BY <3>1 DEF Min
  <2>4. FindDroppable(b) \in I
    BY <1>2, <1>4, <2>3
  <2>5. QED
    BY <1>1, <2>4
<1>5. QED
  BY <1>3, <1>4

(* What a push does, seen from outside: the frame is added, it replaces    *)
(* another one, or it is refused.                                          *)
Added(b, f, r) ==
  /\ r.frames = Append(b.frames, f) /\ r.frames_dropped = b.frames_dropped
  /\ r.keyframes_dropped = b.keyframes_dropped

Replaced(b, f, r) ==
  \E i \in 1 .. Len(b.frames) :
    /\ r.frames = Append(RemoveAt(b.frames, i), f)
    /\ r.frames_dropped = b.frames_dropped + 1
    /\ IF b.frames[i].key
       THEN f.key /\ \A j \in 1 .. Len(b.frames) : b.frames[j].key
       ELSE r.keyframes_dropped = b.keyframes_dropped

Refused(b, f, r) ==
  /\ r.frames = b.frames /\ r.frames_dropped = b.frames_dropped + 1
  /\ ~f.key /\ r.keyframes_dropped = b.keyframes_dropped

LEMMA BufferFields ==
  ASSUME NEW b \in Buffers
  PROVE  /\ b.frames \in Seq(Frame) /\ b.capacity \in Nat /\ b.last_keyframe_idx \in Nat
         /\ b.frames_received \in Nat /\ b.frames_dropped \in Nat
         /\ b.keyframes_received \in Nat /\ b.keyframes_dropped \in Nat
         /\ Len(b.frames) \in Nat
  BY LenProperties DEF Buffers

LEMMA ReceivedGood ==
  ASSUME NEW b, GoodBuffer(b), NEW f \in Frame
  PROVE  LET r == Received(b, f) IN
         /\ GoodBuffer(r) /\ r.frames = b.frames /\ r.capacity = b.capacity
         /\ r.last_keyframe_idx = b.last_keyframe_idx
         /\ r.frames_dropped = b.frames_dropped /\ r.keyframes_dropped = b.keyframes_dropped
<1> DEFINE r == Received(b, f)
<1>1. b \in Buffers
  BY DEF GoodBuffer
<1>2. /\ r.frames = b.frames /\ r.capacity = b.capacity
      /\ r.last_keyframe_idx = b.last_keyframe_idx
      /\ r.frames_dropped = b.frames_dropped /\ r.keyframes_dropped = b.keyframes_dropped
  BY <1>1 DEF Received, Buffers
<1>3. AsCount(f.key) \in Nat
  BY DEF AsCount
<1>4. b.frames_received + 1 \in Nat /\ b.keyframes_received + AsCount(f.key) \in Nat
  BY <1>1, <1>3, BufferFields
<1>5. r \in Buffers
  BY <1>1, <1>4 DEF Received, Buffers
<1>6. QED
  BY <1>2, <1>5 DEF GoodBuffer, WithinCapacity

LEMMA PushBackGood ==
  ASSUME NEW b \in Buffers, LastKeyAt(b.frames, b.last_keyframe_idx), NEW f \in Frame
  PROVE  LET r == PushBack(b, f) IN
         /\ r \in Buffers /\ LastKeyAt(r.frames, r.last_keyframe_idx)
         /\ r.frames = Append(b.frames, f) /\ r.capacity = b.capacity
         /\ r.frames_dropped = b.frames_dropped /\ r.keyframes_dropped = b.keyframes_dropped
<1> DEFINE r == PushBack(b, f)
<1>1. b.frames \in Seq(Frame) /\ Len(b.frames) \in Nat /\ b.last_keyframe_idx \in Nat
  BY BufferFields
<1>2. /\ r.frames = Append(b.frames, f)
      /\ r.last_keyframe_idx = IF f.key THEN Len(b.frames) + 1 ELSE b.last_keyframe_idx
      /\ r.capacity = b.capacity
      /\ r.frames_dropped = b.frames_dropped /\ r.keyframes_dropped = b.keyframes_dropped
  BY DEF PushBack, Buffers
<1>3. /\ r.frames \in Seq(Frame) /\ Len(r.frames) = Len(b.frames) + 1
      /\ \A i \in 1 .. Len(b.frames) : r.frames[i] = b.frames[i]
      /\ r.frames[Len(b.frames) + 1] = f
  BY <1>1, <1>2, AppendProperties
<1>4. r \in Buffers
  <2>1. Append(b.frames, f) \in Seq(Frame)
    BY <1>2, <1>3
  <2>2. (IF f.key THEN Len(b.frames) + 1 ELSE b.last_keyframe_idx) \in Nat
    BY <1>1
  <2>3. QED
    BY <2>1, <2>2 DEF PushBack, Buffers
<1> HIDE DEF r
<1>5. LastKeyAt(r.frames, r.last_keyframe_idx)
  <2>1. CASE f.key
    BY <1>1, <1>2, <1>3, <2>1 DEF LastKeyAt
  <2>2. CASE ~f.key
    <3>1. \A i \in 1 .. Len(r.frames) : i \in 1 .. Len(b.frames) \/ i = Len(b.frames) + 1
      BY <1>1, <1>3
    <3>2. QED
      BY <1>1, <1>2, <1>3, <2>2, <3>1 DEF LastKeyAt, NoIndex
  <2>3. QED
    BY <2>1, <2>2
<1>6. QED
  BY <1>2, <1>4, <1>5 DEF r

(* The index moves with the frames behind the one that goes.               *)
LEMMA IndexMoves ==
  ASSUME NEW s \in Seq(Frame), NEW t \in Seq(Frame), NEW i \in 1 .. Len(s), NEW k,
         Len(t) = Len(s) - 1,
         \A j \in 1 .. Len(t) : t[j] = IF j < i THEN s[j] ELSE s[j + 1],
         LastKeyAt(s, k), i = 1 \/ ~s[i].key
  PROVE  LastKeyAt(t, IndexAfter(k, i))
<1>1. Len(s) \in Nat /\ k \in 0 .. Len(s) /\ i \in 1 .. Len(s)
  BY LenProperties DEF LastKeyAt
<1>2. /\ k # 0 => s[k].key
      /\ \A j \in 1 .. Len(s) : s[j].key => j <= k
  BY DEF LastKeyAt, NoIndex
<1>3. \A j \in 1 .. Len(t) : \/ j < i /\ t[j] = s[j] /\ j \in 1 .. Len(s)
                             \/ j >= i /\ t[j] = s[j + 1] /\ j + 1 \in 1 .. Len(s)
  BY <1>1
<1>4. CASE i < k
  <2>1. k - 1 \in 1 .. Len(t) /\ k - 1 >= i /\ (k - 1) + 1 = k
    BY <1>1, <1>4
  <2>2. t[k - 1] = s[k]
    BY <1>1, <2>1
  <2>3. ASSUME NEW j \in 1 .. Len(t), t[j].key PROVE j <= k - 1
    BY <1>1, <1>2, <1>3, <1>4, <2>3
  <2>4. QED
    BY <1>1, <1>2, <1>4, <2>1, <2>2, <2>3 DEF LastKeyAt, IndexAfter
<1>5. CASE i = k
  <2>1. k = 1
    BY <1>1, <1>2, <1>5
  <2>2. ASSUME NEW j \in 1 .. Len(t) PROVE ~t[j].key
    BY <1>1, <1>2, <1>3, <1>5, <2>1
  <2>3. QED
    BY <1>1, <1>5, <2>2 DEF LastKeyAt, IndexAfter, NoIndex
<1>6. CASE i > k
  <2>1. k # 0 => k \in 1 .. Len(t) /\ t[k] = s[k]
    BY <1>1, <1>6
  <2>2. ASSUME NEW j \in 1 .. Len(t), t[j].key PROVE j <= k
    BY <1>1, <1>2, <1>3, <1>6, <2>2
  <2>3. k \in 0 .. Len(t)
    BY <1>1, <1>6
  <2>4. IndexAfter(k, i) = k
    BY <1>1, <1>6 DEF IndexAfter
  <2>5. QED
    BY <1>2, <2>1, <2>2, <2>3, <2>4 DEF LastKeyAt, NoIndex
<1>7. QED
  BY <1>1, <1>4, <1>5, <1>6

LEMMA DropAtGood ==
  ASSUME NEW b \in Buffers, LastKeyAt(b.frames, b.last_keyframe_idx),
         NEW i \in 1 .. Len(b.frames), i = 1 \/ ~b.frames[i].key
  PROVE  LET r == DropAt(b, i) IN
         /\ r \in Buffers /\ LastKeyAt(r.frames, r.last_keyframe_idx)
         /\ r.frames = RemoveAt(b.frames, i) /\ r.capacity = b.capacity
         /\ Len(r.frames) = Len(b.frames) - 1
         /\ r.frames_dropped = b.frames_dropped + 1
         /\ ~b.frames[i].key => r.keyframes_dropped = b.keyframes_dropped
<1> DEFINE r == DropAt(b, i)
<1>1. b.frames \in Seq(Frame) /\ Len(b.frames) \in Nat /\ b.last_keyframe_idx \in Nat
      /\ b.frames_dropped \in Nat /\ b.keyframes_dropped \in Nat
  BY BufferFields
<1>2. /\ r.frames = RemoveAt(b.frames, i) /\ r.capacity = b.capacity
      /\ r.frames_dropped = b.frames_dropped + 1
      /\ r.keyframes_dropped = b.keyframes_dropped + AsCount(b.frames[i].key)
      /\ r.last_keyframe_idx = IndexAfter(b.last_keyframe_idx, i)
  BY DEF DropAt, Buffers
<1>3. /\ RemoveAt(b.frames, i) \in Seq(Frame) /\ Len(RemoveAt(b.frames, i)) = Len(b.frames) - 1
      /\ \A j \in 1 .. Len(RemoveAt(b.frames, i)) :
           RemoveAt(b.frames, i)[j] = IF j < i THEN b.frames[j] ELSE b.frames[j + 1]
  BY <1>1, RemoveAtFacts
<1>4. LastKeyAt(RemoveAt(b.frames, i), IndexAfter(b.last_keyframe_idx, i))
  BY <1>1, <1>3, IndexMoves
<1>5. IndexAfter(b.last_keyframe_idx, i) \in Nat
  BY <1>1, <1>3, <1>4 DEF LastKeyAt
<1>6. AsCount(b.frames[i].key) \in Nat /\ (~b.frames[i].key => AsCount(b.frames[i].key) = 0)
  BY DEF AsCount
<1>7. b.frames_dropped + 1 \in Nat /\ b.keyframes_dropped + AsCount(b.frames[i].key) \in Nat
  BY <1>1, <1>6
<1>8. r \in Buffers
  BY <1>3, <1>5, <1>7 DEF DropAt, Buffers
<1>9. ~b.frames[i].key => r.keyframes_dropped = b.keyframes_dropped
  BY <1>1, <1>2, <1>6
<1> HIDE DEF r
<1>10. QED
  BY <1>2, <1>3, <1>4, <1>8, <1>9 DEF r

LEMMA PopGood ==
  ASSUME NEW b, GoodBuffer(b), b.frames # <<>>
  PROVE  LET r == Pop(b) IN
         /\ GoodBuffer(r) /\ r.frames = Tail(b.frames) /\ r.capacity = b.capacity
         /\ Len(r.frames) = Len(b.frames) - 1
         /\ r.frames_dropped = b.frames_dropped /\ r.keyframes_dropped = b.keyframes_dropped
         /\ Len(r.frames) < b.capacity \/ (r.frames = <<>> /\ Head(b.frames).key)
<1> DEFINE r == Pop(b)  s == b.frames  t == Tail(b.frames)
<1>0. b \in Buffers /\ LastKeyAt(s, b.last_keyframe_idx) /\ WithinCapacity(b)
  BY DEF GoodBuffer
<1>1. s \in Seq(Frame) /\ Len(s) \in Nat /\ b.last_keyframe_idx \in Nat /\ b.capacity \in Nat
  BY <1>0, BufferFields
<1>2. /\ r.frames = t /\ r.capacity = b.capacity
      /\ r.frames_dropped = b.frames_dropped /\ r.keyframes_dropped = b.keyframes_dropped
      /\ r.last_keyframe_idx = IndexAfter(b.last_keyframe_idx, 1)
  BY <1>0 DEF Pop, Buffers
<1>3. /\ t \in Seq(Frame) /\ Len(t) = Len(s) - 1 /\ Head(s) = s[1] /\ Len(s) >= 1
      /\ \A j \in 1 .. Len(t) : t[j] = s[j + 1]
  BY <1>1, HeadTailProperties
<1> HIDE DEF s, t
<1>4. LastKeyAt(t, IndexAfter(b.last_keyframe_idx, 1))
  <2>1. 1 \in 1 .. Len(s) /\ \A j \in 1 .. Len(t) : ~(j < 1)
    BY <1>1, <1>3
  <2>2. \A j \in 1 .. Len(t) : t[j] = IF j < 1 THEN s[j] ELSE s[j + 1]
    BY <1>3, <2>1
  <2>3. QED
    BY <1>0, <1>1, <1>3, <2>1, <2>2, IndexMoves DEF s
<1>5. IndexAfter(b.last_keyframe_idx, 1) \in Nat
  BY <1>1, <1>3, <1>4 DEF LastKeyAt
<1>6. r \in Buffers
  BY <1>0, <1>3, <1>5 DEF Pop, Buffers, t
<1> HIDE DEF r
<1>7. Len(t) < b.capacity \/ (Len(t) = 0 /\ Head(s).key)
  BY <1>0, <1>1, <1>3 DEF WithinCapacity, s
<1>8. Len(t) = 0 => t = <<>>
  BY <1>3
<1>9. WithinCapacity(r)
  BY <1>1, <1>2, <1>3, <1>7 DEF WithinCapacity
<1>10. QED
  BY <1>2, <1>3, <1>4, <1>6, <1>7, <1>8, <1>9 DEF GoodBuffer, r, s, t

LEMMA PushGood ==
  ASSUME NEW b, GoodBuffer(b), NEW f \in Frame
  PROVE  LET r == Push(b, f) IN
         /\ GoodBuffer(r) /\ r.capacity = b.capacity
         /\ Added(b, f, r) \/ Replaced(b, f, r) \/ Refused(b, f, r)
         /\ Len(b.frames) < b.capacity \/ (b.frames = <<>> /\ f.key) => Added(b, f, r)
<1> DEFINE o == Received(b, f)  r == Push(b, f)
<1>1. /\ GoodBuffer(o) /\ o.frames = b.frames /\ o.capacity = b.capacity
      /\ o.last_keyframe_idx = b.last_keyframe_idx
      /\ o.frames_dropped = b.frames_dropped /\ o.keyframes_dropped = b.keyframes_dropped
  BY ReceivedGood
<1>2. /\ o \in Buffers /\ LastKeyAt(o.frames, o.last_keyframe_idx) /\ WithinCapacity(b)
      /\ b \in Buffers
  BY <1>1 DEF GoodBuffer
<1>3. /\ b.frames \in Seq(Frame) /\ Len(b.frames) \in Nat /\ b.capacity \in Nat
      /\ b.frames_dropped \in Nat
  BY <1>2, BufferFields
<1>4. /\ FindDroppable(o) = FindDroppable(b)
      /\ \/ FindDroppable(b) = 0 /\ \A i \in 1 .. Len(b.frames) : b.frames[i].key
         \/ /\ FindDroppable(b) \in 1 .. Len(b.frames) /\ FindDroppable(b) # 0
            /\ ~b.frames[FindDroppable(b)].key
  BY <1>1, <1>3, DroppableFound DEF FindDroppable
<1>5. b.frames = <<>> <=> Len(b.frames) = 0
  BY <1>3
<1> HIDE DEF o
<1>6. CASE Len(b.frames) < b.capacity
  <2>1. r = PushBack(o, f)
    BY <1>3, <1>6 DEF Push, o
  <2>2. /\ r \in Buffers /\ LastKeyAt(r.frames, r.last_keyframe_idx)
        /\ r.frames = Append(b.frames, f) /\ r.capacity = b.capacity
        /\ r.frames_dropped = b.frames_dropped /\ r.keyframes_dropped = b.keyframes_dropped
    BY <1>1, <1>2, <2>1, PushBackGood
  <2> HIDE DEF r
  <2>3. Len(r.frames) = Len(b.frames) + 1
    BY <1>3, <2>2, AppendProperties
  <2>4. WithinCapacity(r)
    BY <1>3, <1>6, <2>2, <2>3 DEF WithinCapacity
  <2>5. QED
    BY <2>2, <2>4 DEF GoodBuffer, Added, r
<1>7. CASE Len(b.frames) >= b.capacity /\ Keeps(b, f) /\ b.frames = <<>>
  <2>1. f.key /\ b.capacity = 0 /\ FindDroppable(b) = 0
    BY <1>3, <1>4, <1>5, <1>7 DEF Keeps
  <2>2. r = PushBack(MakeRoom(o, f), f)
    BY <1>3, <1>7 DEF Push, o
  <2>3. MakeRoom(o, f) = o
    BY <1>1, <1>4, <1>7, <2>1 DEF MakeRoom
  <2>4. /\ r \in Buffers /\ LastKeyAt(r.frames, r.last_keyframe_idx)
        /\ r.frames = Append(b.frames, f) /\ r.capacity = b.capacity
        /\ r.frames_dropped = b.frames_dropped /\ r.keyframes_dropped = b.keyframes_dropped
    BY <1>1, <1>2, <2>2, <2>3, PushBackGood
  <2> HIDE DEF r
  <2>5. Len(r.frames) = 1 /\ r.frames[1] = f
    BY <1>3, <1>5, <1>7, <2>4, AppendProperties
  <2>6. QED
    BY <2>1, <2>4, <2>5 DEF GoodBuffer, WithinCapacity, Added, r
<1>8. CASE Len(b.frames) >= b.capacity /\ Keeps(b, f) /\ b.frames # <<>>
  <2> DEFINE i == IF FindDroppable(b) # 0 THEN FindDroppable(b) ELSE 1
             m == MakeRoom(o, f)
  <2>1. r = PushBack(m, f)
    BY <1>3, <1>8 DEF Push, o
  <2>2. m = DropAt(o, i)
    BY <1>1, <1>4, <1>8 DEF MakeRoom
  <2>3. i \in 1 .. Len(b.frames)
    BY <1>3, <1>4, <1>5, <1>8
  <2>4. IF b.frames[i].key
        THEN /\ f.key /\ i = 1 /\ \A j \in 1 .. Len(b.frames) : b.frames[j].key
        ELSE b.capacity # 0 \/ Len(b.frames) # 1 \/ ~b.frames[1].key
    <3>1. CASE FindDroppable(b) # 0
      BY <1>4, <3>1, <2>3
    <3>2. CASE FindDroppable(b) = 0
      BY <1>3, <1>4, <1>8, <2>3, <3>2 DEF Keeps
    <3>3. QED
      BY <3>1, <3>2
  <2>5. i = 1 \/ ~b.frames[i].key
    BY <2>4
  <2> HIDE DEF i, m
  <2>6. /\ m \in Buffers /\ LastKeyAt(m.frames, m.last_keyframe_idx)
        /\ m.frames = RemoveAt(b.frames, i) /\ m.capacity = b.capacity
        /\ Len(m.frames) = Len(b.frames) - 1
        /\ m.frames_dropped = b.frames_dropped + 1
        /\ ~b.frames[i].key => m.keyframes_dropped = b.keyframes_dropped
    BY <1>1, <1>2, <2>2, <2>3, <2>5, DropAtGood
  <2>7. /\ r \in Buffers /\ LastKeyAt(r.frames, r.last_keyframe_idx)
        /\ r.frames = Append(m.frames, f) /\ r.capacity = m.capacity
        /\ r.frames_dropped = m.frames_dropped /\ r.keyframes_dropped = m.keyframes_dropped
    BY <2>1, <2>6, PushBackGood
  <2> HIDE DEF r
  <2>8. m.frames \in Seq(Frame)
    BY <2>6, BufferFields
  <2>9. Len(r.frames) = Len(m.frames) + 1 /\ r.frames[Len(m.frames) + 1] = f
    BY <2>7, <2>8, AppendProperties
  <2>10. Len(r.frames) = Len(b.frames) /\ (Len(b.frames) = 1 => r.frames[1] = f)
    BY <1>3, <2>6, <2>9
  <2>11. WithinCapacity(r)
    <3>1. CASE Len(b.frames) <= b.capacity
      BY <2>6, <2>7, <2>10, <3>1 DEF WithinCapacity
    <3>2. CASE b.capacity = 0 /\ Len(b.frames) = 1 /\ b.frames[1].key
      <4>1. i = 1
        BY <2>3, <3>2
      <4>2. f.key
        BY <2>4, <3>2, <4>1
      <4>3. QED
        BY <2>6, <2>7, <2>10, <3>2, <4>2 DEF WithinCapacity
    <3>3. QED
      BY <1>2, <3>1, <3>2 DEF WithinCapacity
  <2>12. Replaced(b, f, r)
    BY <2>3, <2>4, <2>6, <2>7 DEF Replaced
  <2>13. ~(Len(b.frames) < b.capacity)
    BY <1>3, <1>8
  <2>14. QED
    BY <1>8, <2>6, <2>7, <2>11, <2>12, <2>13 DEF GoodBuffer, r
<1>9. CASE Len(b.frames) >= b.capacity /\ ~Keeps(b, f)
  <2>1. r = [o EXCEPT !.frames_dropped = @ + 1]
    BY <1>3, <1>9 DEF Push, o, Keeps
  <2>2. ~f.key /\ ~(Len(b.frames) < b.capacity)
    BY <1>9 DEF Keeps
  <2>3. o.frames_dropped + 1 \in Nat
    BY <1>1, <1>3
  <2>4. r \in Buffers
    BY <1>2, <2>1, <2>3 DEF Buffers
  <2>5. /\ r.frames = b.frames /\ r.capacity = b.capacity
        /\ r.last_keyframe_idx = b.last_keyframe_idx
        /\ r.frames_dropped = b.frames_dropped + 1
        /\ r.keyframes_dropped = b.keyframes_dropped
    BY <1>1, <1>2, <2>1 DEF Buffers
  <2> HIDE DEF r
  <2>6. GoodBuffer(r)
    BY <1>1, <1>2, <2>4, <2>5 DEF GoodBuffer, WithinCapacity
  <2>7. QED
    BY <2>2, <2>5, <2>6 DEF Refused, r
<1>10. QED
  BY <1>3, <1>6, <1>7, <1>8, <1>9

-----------------------------------------------------------------------------
(* The sender.                                                             *)

LEMMA SenderBegins == SenderInit => SenderInv
<1> SUFFICES ASSUME SenderInit PROVE SenderInv
  OBVIOUS
<1>1. PICK capacity \in Capacities : buffer = EmptyBuffer(capacity)
  BY DEF SenderInit
<1>2. /\ buffer \in Buffers /\ buffer.frames = <<>> /\ buffer.last_keyframe_idx = 0
      /\ buffer.frames_dropped = 0 /\ buffer.capacity \in Nat /\ Len(buffer.frames) = 0
      /\ DOMAIN buffer.frames = {} /\ Range(buffer.frames) = {}
  BY <1>1, CapacitiesAssumption DEF EmptyBuffer, Buffers, NoIndex, Range
<1>3. /\ channel = <<>> /\ Len(channel) = 0 /\ DOMAIN channel = {} /\ Range(channel) = {}
      /\ delivered = <<>> /\ Len(delivered) = 0 /\ DOMAIN delivered = {}
      /\ Range(delivered) = {} /\ offered = 0 /\ pc = "idle"
  BY DEF SenderInit, Range
<1>4. SenderTyped
  BY <1>3, CapacitiesAssumption DEF SenderTyped, SenderInit, Frame
<1>5. GoodBuffer(buffer)
  BY <1>2 DEF GoodBuffer, LastKeyAt, WithinCapacity, NoIndex
<1>6. Apart
  BY <1>2, <1>3 DEF Apart, IsInjective
<1>7. Newest
  BY <1>2, <1>3 DEF Newest, InHand, Kept
<1>8. Accounted
  BY <1>2, <1>3 DEF Accounted
<1>9. QED
  BY <1>4, <1>5, <1>6, <1>7, <1>8 DEF SenderInv

(* What the accounts need to know of numbers.                              *)
LEMMA SenderNumbers ==
  ASSUME SenderInv
  PROVE  /\ Len(delivered) \in Nat /\ Len(channel) \in Nat /\ Len(buffer.frames) \in Nat
         /\ buffer.frames_dropped \in Nat /\ offered \in Nat /\ MaxFrames \in Nat
         /\ ChannelCapacity \in Nat
         /\ delivered \in Seq(Frame) /\ channel \in Seq(Frame) /\ buffer.frames \in Seq(Frame)
         /\ \A f \in Kept : f \in Frame /\ f.n \in Nat
<1>1. /\ delivered \in Seq(Frame) /\ channel \in Seq(Frame) /\ buffer.frames \in Seq(Frame)
      /\ buffer.frames_dropped \in Nat /\ offered \in Nat /\ MaxFrames \in Nat
      /\ ChannelCapacity \in Nat
  BY CapacitiesAssumption, BufferFields DEF SenderInv, SenderTyped, GoodBuffer
<1>2. /\ Range(delivered) \subseteq Frame /\ Range(channel) \subseteq Frame
      /\ Range(buffer.frames) \subseteq Frame
      /\ Len(delivered) \in Nat /\ Len(channel) \in Nat /\ Len(buffer.frames) \in Nat
  BY <1>1, SequenceRange
<1>3. \A f \in Kept : f \in Frame
  BY <1>2 DEF Kept
<1>4. QED
  BY <1>1, <1>2, <1>3 DEF Frame

(* The frame in hand goes into the buffer, or another one out of it.       *)
LEMMA PushApart ==
  ASSUME NEW b, GoodBuffer(b), IsInjective(b.frames), NEW f \in Frame, f \notin Range(b.frames)
  PROVE  LET r == Push(b, f) IN
         /\ IsInjective(r.frames) /\ Range(r.frames) \subseteq Range(b.frames) \cup {f}
         /\ r.frames_dropped \in Nat
         /\ Len(r.frames) + r.frames_dropped = Len(b.frames) + b.frames_dropped + 1
         /\ Added(b, f, r) => /\ Range(r.frames) = Range(b.frames) \cup {f}
                              /\ r.frames_dropped = b.frames_dropped
         /\ \A x \in Range(b.frames) \ Range(r.frames) : x.key => f.key
<1> DEFINE r == Push(b, f)
<1>1. /\ GoodBuffer(r)
      /\ Added(b, f, r) \/ Replaced(b, f, r) \/ Refused(b, f, r)
  BY PushGood
<1> HIDE DEF r
<1>0. b \in Buffers /\ r \in Buffers
  BY <1>1 DEF GoodBuffer
<1>2. /\ b.frames \in Seq(Frame) /\ Len(b.frames) \in Nat /\ b.frames_dropped \in Nat
      /\ r.frames_dropped \in Nat
  BY <1>0, BufferFields
<1>3. CASE Added(b, f, r)
  <2>1. /\ Range(r.frames) = Range(b.frames) \cup {f} /\ IsInjective(r.frames)
        /\ Len(r.frames) = Len(b.frames) + 1
    BY <1>2, <1>3, AppendKeepsApart DEF Added
  <2>2. r.frames_dropped = b.frames_dropped
    BY <1>3 DEF Added
  <2>3. Len(r.frames) + r.frames_dropped = Len(b.frames) + b.frames_dropped + 1
    BY <1>2, <2>1, <2>2
  <2>4. \A x \in Range(b.frames) \ Range(r.frames) : x.key => f.key
    BY <2>1
  <2>5. QED
    BY <1>2, <2>1, <2>2, <2>3, <2>4 DEF r
<1>4. CASE Replaced(b, f, r)
  <2>1. PICK i \in 1 .. Len(b.frames) :
          /\ r.frames = Append(RemoveAt(b.frames, i), f)
          /\ r.frames_dropped = b.frames_dropped + 1
          /\ b.frames[i].key => f.key
    BY <1>4 DEF Replaced
  <2> DEFINE m == RemoveAt(b.frames, i)
  <2>2. m \in Seq(Frame) /\ Len(m) = Len(b.frames) - 1
    BY <1>2, RemoveAtFacts
  <2>3. /\ Range(m) = Range(b.frames) \ {b.frames[i]} /\ IsInjective(m)
    BY <1>2, RemoveKeepsApart
  <2>4. r.frames = Append(m, f)
    BY <2>1
  <2> HIDE DEF m
  <2>5. /\ Range(r.frames) = Range(m) \cup {f} /\ IsInjective(r.frames)
        /\ Len(r.frames) = Len(m) + 1
    BY <2>2, <2>3, <2>4, AppendKeepsApart
  <2>6. Len(r.frames) = Len(b.frames)
    BY <1>2, <2>2, <2>5
  <2>7. r.frames_dropped # b.frames_dropped
    BY <1>2, <2>1
  <2>8. \A x \in Range(b.frames) \ Range(r.frames) : x.key => f.key
    BY <2>1, <2>3, <2>5
  <2>9. QED
    BY <1>2, <2>1, <2>3, <2>5, <2>6, <2>7, <2>8 DEF Added, r
<1>5. CASE Refused(b, f, r)
  <2>1. r.frames_dropped # b.frames_dropped
    BY <1>2, <1>5 DEF Refused
  <2>2. QED
    BY <1>2, <1>5, <2>1 DEF Refused, Added, r
<1>6. QED
  BY <1>1, <1>3, <1>4, <1>5

(* What a step may do to what was sent: the two action properties.         *)
NewestKeyStays ==
  \A f \in Kept :
    (f.key /\ f \notin Kept' /\ pc' # "failed") => (frame.key /\ frame.n > f.n)

KeysGoLast ==
  buffer'.keyframes_dropped > buffer.keyframes_dropped =>
    \A i \in DOMAIN buffer.frames : buffer.frames[i].key

GoodStep == SenderInv' /\ NewestKeyStays /\ KeysGoLast

(* A step that only moves frames between the places, and counts nothing.   *)
LEMMA SameKept ==
  ASSUME SenderInv, Kept' \subseteq Kept, Kept' = Kept \/ pc' = "failed",
         offered' = offered, frame' = frame, InHand' => InHand
  PROVE  Newest' /\ NewestKeyStays
<1>1. Newest
  BY DEF SenderInv
<1>2. Newest'
  BY <1>1 DEF Newest, InHand
<1>3. NewestKeyStays
  BY DEF NewestKeyStays
<1>4. QED
  BY <1>2, <1>3

LEMMA SameDrops ==
  ASSUME SenderInv, buffer'.keyframes_dropped = buffer.keyframes_dropped
  PROVE  KeysGoLast
<1>1. buffer.keyframes_dropped \in Nat
  BY BufferFields DEF SenderInv, GoodBuffer
<1>2. QED
  BY <1>1 DEF KeysGoLast

LEMMA OfferGood ==
  ASSUME SenderInv, NEW isKey \in BOOLEAN, Offer(isKey)
  PROVE  GoodStep
<1>1. /\ pc = "idle" /\ pc' = "flushing" /\ offered < MaxFrames /\ offered' = offered + 1
      /\ frame' = [n |-> offered', key |-> isKey]
      /\ buffer' = buffer /\ channel' = channel /\ open' = open /\ delivered' = delivered
  BY DEF Offer
<1>2. /\ offered \in Nat /\ MaxFrames \in Nat /\ \A f \in Kept : f.n \in Nat /\ f.n <= offered
      /\ Len(delivered) \in Nat /\ Len(channel) \in Nat /\ Len(buffer.frames) \in Nat
      /\ buffer.frames_dropped \in Nat
  BY SenderNumbers DEF SenderInv, Newest
<1>3. frame' \in Frame /\ frame'.n = offered' /\ offered' \in 0 .. MaxFrames
  BY <1>1, <1>2 DEF Frame
<1>4. SenderTyped'
  BY <1>1, <1>3 DEF SenderInv, SenderTyped
<1>5. GoodBuffer(buffer')
  BY <1>1 DEF SenderInv
<1>6. Apart'
  BY <1>1 DEF SenderInv, Apart
<1>7. Kept' = Kept
  BY <1>1 DEF Kept
<1>8. \A f \in Kept' : f.n < offered' /\ f.n <= offered'
  BY <1>1, <1>2, <1>7
<1>9. Newest'
  BY <1>3, <1>8 DEF Newest
<1>10. Accounted'
  <2> DEFINE d == Len(delivered)  c == Len(channel)  b == Len(buffer.frames)
             x == buffer.frames_dropped
  <2>1. offered = d + c + b + x + 0
    BY <1>1 DEF SenderInv, Accounted
  <2>2. offered \in Nat /\ d \in Nat /\ c \in Nat /\ b \in Nat /\ x \in Nat
    BY <1>2
  <2> HIDE DEF d, c, b, x
  <2>3. offered + 1 = d + c + b + x + 1
    BY <2>1, <2>2
  <2>4. QED
    BY <1>1, <2>3 DEF Accounted, d, c, b, x
<1>11. NewestKeyStays
  BY <1>7 DEF NewestKeyStays
<1>12. KeysGoLast
  BY <1>1, SameDrops
<1>13. QED
  BY <1>4, <1>5, <1>6, <1>9, <1>10, <1>11, <1>12 DEF GoodStep, SenderInv

(* What every step of the buffer's first frame starts from.                *)
LEMMA FirstFrame ==
  ASSUME SenderInv, buffer.frames # <<>>
  PROVE  LET h == Head(buffer.frames)  r == Pop(buffer) IN
         /\ GoodBuffer(r) /\ IsInjective(r.frames)
         /\ h \in Frame /\ h \in Range(buffer.frames) /\ h \notin Range(r.frames)
         /\ Range(r.frames) = Range(buffer.frames) \ {h}
         /\ Len(r.frames) = Len(buffer.frames) - 1
         /\ r.frames_dropped = buffer.frames_dropped
         /\ r.keyframes_dropped = buffer.keyframes_dropped
         /\ Len(r.frames) < r.capacity \/ (r.frames = <<>> /\ h.key)
<1> DEFINE h == Head(buffer.frames)  r == Pop(buffer)
<1>1. /\ GoodBuffer(buffer) /\ IsInjective(buffer.frames) /\ buffer.frames \in Seq(Frame)
  BY SenderNumbers DEF SenderInv, Apart
<1>2. /\ GoodBuffer(r) /\ r.frames = Tail(buffer.frames) /\ r.capacity = buffer.capacity
      /\ Len(r.frames) = Len(buffer.frames) - 1
      /\ r.frames_dropped = buffer.frames_dropped
      /\ r.keyframes_dropped = buffer.keyframes_dropped
      /\ Len(r.frames) < buffer.capacity \/ (r.frames = <<>> /\ h.key)
  BY <1>1, PopGood
<1>3. /\ Range(Tail(buffer.frames)) = Range(buffer.frames) \ {h} /\ IsInjective(Tail(buffer.frames))
      /\ h \in Range(buffer.frames) /\ h \in Frame
  BY <1>1, TailKeepsApart
<1> HIDE DEF h, r
<1>4. QED
  BY <1>2, <1>3 DEF h, r

LEMMA FlushOneGood ==
  ASSUME SenderInv, FlushOne
  PROVE  GoodStep
<1> DEFINE h == Head(buffer.frames)
<1>1. /\ pc = "flushing" /\ pc' = pc /\ buffer.frames # <<>> /\ Len(channel) < ChannelCapacity
      /\ channel' = Append(channel, h) /\ buffer' = Pop(buffer)
      /\ frame' = frame /\ open' = open /\ delivered' = delivered /\ offered' = offered
  BY DEF FlushOne, HasRoom
<1>2. /\ GoodBuffer(buffer') /\ IsInjective(buffer'.frames)
      /\ h \in Frame /\ h \in Range(buffer.frames) /\ h \notin Range(buffer'.frames)
      /\ Range(buffer'.frames) = Range(buffer.frames) \ {h}
      /\ Len(buffer'.frames) = Len(buffer.frames) - 1
      /\ buffer'.frames_dropped = buffer.frames_dropped
      /\ buffer'.keyframes_dropped = buffer.keyframes_dropped
  BY <1>1, FirstFrame
<1> HIDE DEF h
<1>3. Apart
  BY DEF SenderInv
<1>4. /\ Len(delivered) \in Nat /\ Len(channel) \in Nat /\ Len(buffer.frames) \in Nat
      /\ buffer.frames_dropped \in Nat /\ ChannelCapacity \in Nat /\ channel \in Seq(Frame)
  BY SenderNumbers
<1>5. h \notin Range(channel) /\ h \notin Range(delivered)
  BY <1>2, <1>3 DEF Apart
<1>6. /\ Range(channel') = Range(channel) \cup {h} /\ IsInjective(channel')
      /\ channel' \in Seq(Frame) /\ Len(channel') = Len(channel) + 1
  BY <1>1, <1>2, <1>3, <1>4, <1>5, AppendKeepsApart DEF Apart
<1>7. Len(channel') <= ChannelCapacity
  BY <1>1, <1>4, <1>6
<1>8. SenderTyped'
  BY <1>1, <1>6, <1>7 DEF SenderInv, SenderTyped
<1>9. Apart'
  BY <1>1, <1>2, <1>3, <1>5, <1>6 DEF Apart
<1>10. Kept' = Kept
  BY <1>1, <1>2, <1>6 DEF Kept
<1>11. Accounted'
  <2> DEFINE d == Len(delivered)  c == Len(channel)  b == Len(buffer.frames)
             x == buffer.frames_dropped
  <2>1. offered = d + c + b + x + 1
    BY <1>1 DEF SenderInv, Accounted
  <2>2. d \in Nat /\ c \in Nat /\ b \in Nat /\ x \in Nat
    BY <1>4
  <2>3. Len(channel') = c + 1 /\ Len(buffer'.frames) = b - 1 /\ buffer'.frames_dropped = x
    BY <1>2, <1>6
  <2> HIDE DEF d, c, b, x
  <2>4. offered = d + (c + 1) + (b - 1) + x + 1
    BY <2>1, <2>2
  <2>5. offered = Len(delivered) + Len(channel') + Len(buffer'.frames)
                    + buffer'.frames_dropped + 1
    BY <2>3, <2>4 DEF d
  <2>6. QED
    BY <1>1, <2>5 DEF Accounted
<1>12. Newest' /\ NewestKeyStays
  BY <1>1, <1>10, SameKept DEF InHand
<1>13. KeysGoLast
  BY <1>2, SameDrops
<1>14. QED
  BY <1>2, <1>8, <1>9, <1>11, <1>12, <1>13 DEF GoodStep, SenderInv

LEMMA FlushBlockedGood ==
  ASSUME SenderInv, FlushBlocked
  PROVE  GoodStep
<1> DEFINE h == Head(buffer.frames)  q == Pop(buffer)
<1>1. /\ pc = "flushing" /\ pc' = "sending" /\ buffer.frames # <<>>
      /\ buffer' = Push(q, h) /\ channel' = channel
      /\ frame' = frame /\ open' = open /\ delivered' = delivered /\ offered' = offered
  BY DEF FlushBlocked, PutBack
<1>2. /\ GoodBuffer(q) /\ IsInjective(q.frames)
      /\ h \in Frame /\ h \in Range(buffer.frames) /\ h \notin Range(q.frames)
      /\ Range(q.frames) = Range(buffer.frames) \ {h}
      /\ Len(q.frames) = Len(buffer.frames) - 1
      /\ q.frames_dropped = buffer.frames_dropped
      /\ q.keyframes_dropped = buffer.keyframes_dropped
      /\ Len(q.frames) < q.capacity \/ (q.frames = <<>> /\ h.key)
  BY <1>1, FirstFrame
<1> HIDE DEF h, q
<1>3. GoodBuffer(buffer') /\ Added(q, h, buffer')
  BY <1>1, <1>2, PushGood
<1>4. /\ IsInjective(buffer'.frames) /\ Range(buffer'.frames) = Range(q.frames) \cup {h}
      /\ buffer'.frames_dropped = q.frames_dropped
      /\ Len(buffer'.frames) + buffer'.frames_dropped = Len(q.frames) + q.frames_dropped + 1
  BY <1>1, <1>2, <1>3, PushApart
<1>5. buffer'.keyframes_dropped = buffer.keyframes_dropped
  BY <1>2, <1>3 DEF Added
<1>6. Range(buffer'.frames) = Range(buffer.frames)
  BY <1>2, <1>4
<1>7. SenderTyped'
  BY <1>1 DEF SenderInv, SenderTyped
<1>8. Apart'
  BY <1>1, <1>4, <1>6 DEF SenderInv, Apart
<1>9. Kept' = Kept
  BY <1>1, <1>6 DEF Kept
<1>10. Accounted'
  <2>1. offered = Len(delivered) + Len(channel) + Len(buffer.frames) + buffer.frames_dropped + 1
    BY <1>1 DEF SenderInv, Accounted
  <2>2. /\ Len(delivered) \in Nat /\ Len(channel) \in Nat /\ Len(buffer.frames) \in Nat
        /\ buffer.frames_dropped \in Nat
    BY SenderNumbers
  <2>3. buffer'.frames \in Seq(Frame) /\ Len(buffer'.frames) \in Nat
    BY <1>3, BufferFields DEF GoodBuffer
  <2>4. Len(buffer'.frames) = Len(buffer.frames)
    BY <1>2, <1>4, <2>2, <2>3
  <2>5. QED
    BY <1>1, <1>2, <1>4, <2>1, <2>4 DEF Accounted
<1>11. Newest' /\ NewestKeyStays
  BY <1>1, <1>9, SameKept DEF InHand
<1>12. KeysGoLast
  BY <1>5, SameDrops
<1>13. QED
  BY <1>3, <1>7, <1>8, <1>10, <1>11, <1>12 DEF GoodStep, SenderInv

LEMMA FlushFailsGood ==
  ASSUME SenderInv, FlushFails
  PROVE  GoodStep
<1> DEFINE h == Head(buffer.frames)
<1>1. /\ pc' = "failed" /\ buffer.frames # <<>> /\ buffer' = Pop(buffer) /\ channel' = channel
      /\ frame' = frame /\ open' = open /\ delivered' = delivered /\ offered' = offered
  BY DEF FlushFails
<1>2. /\ GoodBuffer(buffer') /\ IsInjective(buffer'.frames)
      /\ Range(buffer'.frames) = Range(buffer.frames) \ {h}
      /\ buffer'.keyframes_dropped = buffer.keyframes_dropped
  BY <1>1, FirstFrame
<1> HIDE DEF h
<1>3. SenderTyped'
  BY <1>1 DEF SenderInv, SenderTyped
<1>4. Apart'
  BY <1>1, <1>2 DEF SenderInv, Apart
<1>5. Kept' \subseteq Kept
  BY <1>1, <1>2 DEF Kept
<1>6. Accounted'
  BY <1>1 DEF Accounted
<1>7. Newest' /\ NewestKeyStays
  BY <1>1, <1>5, SameKept DEF InHand
<1>8. KeysGoLast
  BY <1>2, SameDrops
<1>9. QED
  BY <1>2, <1>3, <1>4, <1>6, <1>7, <1>8 DEF GoodStep, SenderInv

LEMMA FlushDoneGood ==
  ASSUME SenderInv, FlushDone
  PROVE  GoodStep
<1>1. /\ pc = "flushing" /\ pc' = "sending" /\ buffer' = buffer /\ channel' = channel
      /\ frame' = frame /\ open' = open /\ delivered' = delivered /\ offered' = offered
  BY DEF FlushDone
<1>2. SenderTyped' /\ GoodBuffer(buffer') /\ Apart' /\ Accounted'
  BY <1>1 DEF SenderInv, SenderTyped, Apart, Accounted
<1>3. Kept' = Kept
  BY <1>1 DEF Kept
<1>4. Newest' /\ NewestKeyStays /\ KeysGoLast
  BY <1>1, <1>3, SameKept, SameDrops DEF InHand
<1>5. QED
  BY <1>2, <1>4 DEF GoodStep, SenderInv

(* The frame in hand is in none of the three places.                       *)
LEMMA InHandIsNew ==
  ASSUME SenderInv, pc = "sending"
  PROVE  /\ frame \in Frame /\ frame.n = offered
         /\ \A f \in Kept : f.n \in Nat /\ f.n < frame.n
         /\ frame \notin Range(delivered) /\ frame \notin Range(channel)
         /\ frame \notin Range(buffer.frames)
<1>1. frame \in Frame /\ frame.n = offered /\ \A f \in Kept : f.n < frame.n
  BY DEF SenderInv, SenderTyped, Newest, InHand
<1>2. offered \in Nat /\ \A f \in Kept : f.n \in Nat
  BY SenderNumbers
<1>3. ~(frame.n < frame.n)
  BY <1>1, <1>2
<1>4. frame \notin Kept
  BY <1>1, <1>3
<1>5. QED
  BY <1>1, <1>2, <1>4 DEF Kept

LEMMA SendDirectGood ==
  ASSUME SenderInv, SendDirect
  PROVE  GoodStep
<1>1. /\ pc = "sending" /\ pc' = "idle" /\ Len(channel) < ChannelCapacity
      /\ channel' = Append(channel, frame) /\ buffer' = buffer
      /\ frame' = frame /\ open' = open /\ delivered' = delivered /\ offered' = offered
  BY DEF SendDirect, HasRoom
<1>2. /\ frame \in Frame /\ frame.n = offered /\ \A f \in Kept : f.n \in Nat /\ f.n < frame.n
      /\ frame \notin Range(delivered) /\ frame \notin Range(channel)
      /\ frame \notin Range(buffer.frames)
  BY <1>1, InHandIsNew
<1>3. Apart
  BY DEF SenderInv
<1>4. /\ Len(delivered) \in Nat /\ Len(channel) \in Nat /\ Len(buffer.frames) \in Nat
      /\ buffer.frames_dropped \in Nat /\ ChannelCapacity \in Nat /\ channel \in Seq(Frame)
      /\ offered \in Nat
  BY SenderNumbers
<1>5. /\ Range(channel') = Range(channel) \cup {frame} /\ IsInjective(channel')
      /\ channel' \in Seq(Frame) /\ Len(channel') = Len(channel) + 1
  BY <1>1, <1>2, <1>3, <1>4, AppendKeepsApart DEF Apart
<1>6. Len(channel') <= ChannelCapacity
  BY <1>1, <1>4, <1>5
<1>7. SenderTyped'
  BY <1>1, <1>5, <1>6 DEF SenderInv, SenderTyped
<1>8. GoodBuffer(buffer')
  BY <1>1 DEF SenderInv
<1>9. Apart'
  BY <1>1, <1>2, <1>3, <1>5 DEF Apart
<1>10. Kept' = Kept \cup {frame}
  BY <1>1, <1>5 DEF Kept
<1>11. Newest'
  <2>1. \A f \in Kept' : f.n <= offered
    BY <1>2, <1>4, <1>10
  <2>2. QED
    BY <1>1, <2>1 DEF Newest, InHand
<1>12. Accounted'
  <2> DEFINE d == Len(delivered)  c == Len(channel)  b == Len(buffer.frames)
             x == buffer.frames_dropped
  <2>1. offered = d + c + b + x + 1
    BY <1>1 DEF SenderInv, Accounted
  <2>2. d \in Nat /\ c \in Nat /\ b \in Nat /\ x \in Nat
    BY <1>4
  <2>3. Len(channel') = c + 1
    BY <1>5
  <2> HIDE DEF d, c, b, x
  <2>4. offered = d + (c + 1) + b + x + 0
    BY <2>1, <2>2
  <2>5. offered = Len(delivered) + Len(channel') + Len(buffer.frames)
                    + buffer.frames_dropped + 0
    BY <2>3, <2>4 DEF d, b, x
  <2>6. QED
    BY <1>1, <2>5 DEF Accounted
<1>13. NewestKeyStays
  BY <1>10 DEF NewestKeyStays
<1>14. KeysGoLast
  BY <1>1, SameDrops
<1>15. QED
  BY <1>7, <1>8, <1>9, <1>11, <1>12, <1>13, <1>14 DEF GoodStep, SenderInv

LEMMA BufferFrameGood ==
  ASSUME SenderInv, BufferFrame
  PROVE  GoodStep
<1>1. /\ pc = "sending" /\ pc' = "idle" /\ buffer' = Push(buffer, frame) /\ channel' = channel
      /\ frame' = frame /\ open' = open /\ delivered' = delivered /\ offered' = offered
  BY DEF BufferFrame
<1>2. /\ frame \in Frame /\ frame.n = offered /\ \A f \in Kept : f.n \in Nat /\ f.n < frame.n
      /\ frame \notin Range(delivered) /\ frame \notin Range(channel)
      /\ frame \notin Range(buffer.frames)
  BY <1>1, InHandIsNew
<1>3. Apart /\ GoodBuffer(buffer) /\ IsInjective(buffer.frames)
  BY DEF SenderInv, Apart
<1>4. /\ Len(delivered) \in Nat /\ Len(channel) \in Nat /\ Len(buffer.frames) \in Nat
      /\ buffer.frames_dropped \in Nat /\ offered \in Nat /\ buffer.frames \in Seq(Frame)
  BY SenderNumbers
<1>5. /\ GoodBuffer(buffer')
      /\ \/ Added(buffer, frame, buffer')
         \/ Replaced(buffer, frame, buffer')
         \/ Refused(buffer, frame, buffer')
  BY <1>1, <1>2, <1>3, PushGood
<1>6. /\ IsInjective(buffer'.frames)
      /\ Range(buffer'.frames) \subseteq Range(buffer.frames) \cup {frame}
      /\ Len(buffer'.frames) + buffer'.frames_dropped
           = Len(buffer.frames) + buffer.frames_dropped + 1
      /\ \A x \in Range(buffer.frames) \ Range(buffer'.frames) : x.key => frame.key
  BY <1>1, <1>2, <1>3, PushApart
<1>7. SenderTyped'
  BY <1>1 DEF SenderInv, SenderTyped
<1>8. Apart'
  BY <1>1, <1>2, <1>3, <1>6 DEF Apart
<1>9. /\ Kept' \subseteq Kept \cup {frame}
      /\ Kept \ Kept' \subseteq Range(buffer.frames) \ Range(buffer'.frames)
  BY <1>1, <1>6 DEF Kept
<1>10. Newest'
  <2>1. \A f \in Kept' : f.n <= offered
    BY <1>2, <1>4, <1>9
  <2>2. QED
    BY <1>1, <2>1 DEF Newest, InHand
<1>11. Accounted'
  <2> DEFINE d == Len(delivered)  c == Len(channel)  b == Len(buffer.frames)
             x == buffer.frames_dropped  e == Len(buffer'.frames)  y == buffer'.frames_dropped
  <2>1. offered = d + c + b + x + 1
    BY <1>1 DEF SenderInv, Accounted
  <2>2. d \in Nat /\ c \in Nat /\ b \in Nat /\ x \in Nat /\ offered \in Nat
    BY <1>4
  <2>3. buffer' \in Buffers
    BY <1>5 DEF GoodBuffer
  <2>4. e \in Nat /\ y \in Nat
    BY <2>3, BufferFields
  <2>5. e + y = b + x + 1
    BY <1>6
  <2> HIDE DEF d, c, b, x, e, y
  <2>6. offered = d + c + e + y + 0
    BY <2>1, <2>2, <2>4, <2>5
  <2>7. QED
    BY <1>1, <2>6 DEF Accounted, d, c, e, y
<1>12. NewestKeyStays
  <2>1. \A f \in Kept \ Kept' : f.key => frame.key
    BY <1>6, <1>9
  <2>2. \A f \in Kept : frame.n > f.n
    BY <1>2, <1>4
  <2>3. QED
    BY <2>1, <2>2 DEF NewestKeyStays
<1>13. KeysGoLast
  <2>1. DOMAIN buffer.frames = 1 .. Len(buffer.frames)
    BY <1>4, SequenceRange
  <2>2. CASE buffer'.keyframes_dropped = buffer.keyframes_dropped
    BY <2>2, SameDrops
  <2>3. CASE \A i \in DOMAIN buffer.frames : buffer.frames[i].key
    BY <2>3 DEF KeysGoLast
  <2>4. QED
    BY <1>5, <2>1, <2>2, <2>3 DEF Added, Replaced, Refused
<1>14. QED
  BY <1>5, <1>7, <1>8, <1>10, <1>11, <1>12, <1>13 DEF GoodStep, SenderInv

LEMMA ReceiveGood ==
  ASSUME SenderInv, Receive
  PROVE  GoodStep
<1> DEFINE h == Head(channel)
<1>1. /\ pc' = pc /\ channel # <<>> /\ channel' = Tail(channel) /\ buffer' = buffer
      /\ delivered' = Append(delivered, h) /\ frame' = frame /\ open' = open
      /\ offered' = offered
  BY DEF Receive
<1>2. Apart
  BY DEF SenderInv
<1>3. /\ Len(delivered) \in Nat /\ Len(channel) \in Nat /\ Len(buffer.frames) \in Nat
      /\ buffer.frames_dropped \in Nat /\ ChannelCapacity \in Nat
      /\ channel \in Seq(Frame) /\ delivered \in Seq(Frame)
  BY SenderNumbers
<1>4. /\ Range(channel') = Range(channel) \ {h} /\ IsInjective(channel')
      /\ h \in Range(channel) /\ h \in Frame
      /\ channel' \in Seq(Frame) /\ Len(channel') = Len(channel) - 1 /\ Len(channel) >= 1
  BY <1>1, <1>2, <1>3, TailKeepsApart DEF Apart
<1> HIDE DEF h
<1>5. h \notin Range(delivered) /\ h \notin Range(buffer.frames)
  BY <1>2, <1>4 DEF Apart
<1>6. /\ Range(delivered') = Range(delivered) \cup {h} /\ IsInjective(delivered')
      /\ delivered' \in Seq(Frame) /\ Len(delivered') = Len(delivered) + 1
  BY <1>1, <1>2, <1>3, <1>4, <1>5, AppendKeepsApart DEF Apart
<1>7. Len(channel) <= ChannelCapacity
  BY DEF SenderInv, SenderTyped
<1>8. Len(channel') <= ChannelCapacity
  BY <1>3, <1>4, <1>7
<1>9. SenderTyped'
  BY <1>1, <1>4, <1>6, <1>8 DEF SenderInv, SenderTyped
<1>10. GoodBuffer(buffer')
  BY <1>1 DEF SenderInv
<1>11. Apart'
  BY <1>1, <1>2, <1>4, <1>5, <1>6 DEF Apart
<1>12. Kept' = Kept
  BY <1>1, <1>4, <1>6 DEF Kept
<1>13. Accounted'
  <2> DEFINE d == Len(delivered)  c == Len(channel)  b == Len(buffer.frames)
             x == buffer.frames_dropped  w == IF pc = "idle" THEN 0 ELSE 1
  <2>1. pc # "failed" => offered = d + c + b + x + w
    BY DEF SenderInv, Accounted
  <2>2. d \in Nat /\ c \in Nat /\ b \in Nat /\ x \in Nat /\ c >= 1 /\ w \in Nat
    BY <1>3, <1>4
  <2>3. Len(channel') = c - 1 /\ Len(delivered') = d + 1
    BY <1>4, <1>6
  <2> HIDE DEF d, c, b, x, w
  <2>4. pc # "failed" => offered = (d + 1) + (c - 1) + b + x + w
    BY <2>1, <2>2
  <2>5. QED
    BY <1>1, <2>3, <2>4 DEF Accounted, b, x, w
<1>14. Newest' /\ NewestKeyStays
  BY <1>1, <1>12, SameKept DEF InHand
<1>15. KeysGoLast
  BY <1>1, SameDrops
<1>16. QED
  BY <1>9, <1>10, <1>11, <1>13, <1>14, <1>15 DEF GoodStep, SenderInv

(* The steps that move no frame.                                           *)
LEMMA StillGood ==
  ASSUME SenderInv, SendFails \/ CloseReceiver \/ UNCHANGED senderVars
  PROVE  GoodStep
<1>1. /\ buffer' = buffer /\ channel' = channel /\ frame' = frame /\ delivered' = delivered
      /\ offered' = offered /\ open' \in BOOLEAN
      /\ pc' = pc \/ pc' = "failed"
  BY DEF SendFails, CloseReceiver, senderVars, SenderInv, SenderTyped
<1>2. pc' \in {"idle", "flushing", "sending", "failed"}
  BY <1>1 DEF SenderInv, SenderTyped
<1>3. SenderTyped'
  BY <1>1, <1>2 DEF SenderInv, SenderTyped
<1>4. GoodBuffer(buffer') /\ Apart'
  BY <1>1 DEF SenderInv, Apart
<1>5. Accounted'
  BY <1>1 DEF SenderInv, Accounted
<1>6. Kept' = Kept
  BY <1>1 DEF Kept
<1>7. InHand' => InHand
  BY <1>1 DEF InHand
<1>8. Newest' /\ NewestKeyStays
  BY <1>1, <1>6, <1>7, SameKept
<1>9. KeysGoLast
  BY <1>1, SameDrops
<1>10. QED
  BY <1>3, <1>4, <1>5, <1>8, <1>9 DEF GoodStep, SenderInv

LEMMA SenderStep == SenderInv /\ [SenderNext]_senderVars => GoodStep
<1> SUFFICES ASSUME SenderInv, [SenderNext]_senderVars PROVE GoodStep
  OBVIOUS
<1>1. CASE \E isKey \in BOOLEAN : Offer(isKey)
  BY <1>1, OfferGood
<1>2. CASE FlushOne
  BY <1>2, FlushOneGood
<1>3. CASE FlushBlocked
  BY <1>3, FlushBlockedGood
<1>4. CASE FlushDone
  BY <1>4, FlushDoneGood
<1>5. CASE FlushFails
  BY <1>5, FlushFailsGood
<1>6. CASE SendDirect
  BY <1>6, SendDirectGood
<1>7. CASE BufferFrame
  BY <1>7, BufferFrameGood
<1>8. CASE Receive
  BY <1>8, ReceiveGood
<1>9. CASE SendFails \/ CloseReceiver \/ UNCHANGED senderVars
  BY <1>9, StillGood
<1>10. QED
  BY <1>1, <1>2, <1>3, <1>4, <1>5, <1>6, <1>7, <1>8, <1>9 DEF SenderNext

LEMMA SenderAlways == SenderSpec => []SenderInv
<1>1. SenderInv /\ [SenderNext]_senderVars => SenderInv'
  BY SenderStep DEF GoodStep
<1>2. QED
  BY SenderBegins, <1>1, PTL DEF SenderSpec

(* Frames in three places that have none in common: as many as their       *)
(* lengths add up to.                                                      *)
LEMMA KeptSize ==
  ASSUME SenderInv
  PROVE  Cardinality(Kept) = Len(delivered) + Len(channel) + Len(buffer.frames)
<1> DEFINE D == Range(delivered)  C == Range(channel)  B == Range(buffer.frames)
<1>1. /\ IsFiniteSet(D) /\ Cardinality(D) = Len(delivered)
      /\ IsFiniteSet(C) /\ Cardinality(C) = Len(channel)
      /\ IsFiniteSet(B) /\ Cardinality(B) = Len(buffer.frames)
  BY SenderNumbers, RangeSize DEF SenderInv, Apart
<1>2. D \cap C = {} /\ D \cap B = {} /\ C \cap B = {}
  BY DEF SenderInv, Apart
<1>3. Len(delivered) \in Nat /\ Len(channel) \in Nat /\ Len(buffer.frames) \in Nat
  BY SenderNumbers
<1>4. Kept = (D \cup C) \cup B
  BY DEF Kept
<1> HIDE DEF D, C, B
<1>5. /\ IsFiniteSet(D \cup C)
      /\ Cardinality(D \cup C) = Cardinality(D) + Cardinality(C) - Cardinality(D \cap C)
  BY <1>1, FS_Union
<1>6. (D \cup C) \cap B = {}
  BY <1>2
<1>7. Cardinality((D \cup C) \cup B)
        = Cardinality(D \cup C) + Cardinality(B) - Cardinality((D \cup C) \cap B)
  BY <1>1, <1>5, FS_Union
<1>8. Cardinality({}) = 0
  BY FS_EmptySet
<1> DEFINE d == Len(delivered)  c == Len(channel)  b == Len(buffer.frames)
<1>9. Cardinality(D \cup C) = d + c - 0
  BY <1>1, <1>2, <1>5, <1>8
<1>10. Cardinality(Kept) = (d + c - 0) + b - 0
  BY <1>1, <1>4, <1>6, <1>7, <1>8, <1>9
<1>11. d \in Nat /\ c \in Nat /\ b \in Nat
  BY <1>3
<1> HIDE DEF d, c, b
<1>12. (d + c - 0) + b - 0 = d + c + b
  BY <1>11
<1>13. QED
  BY <1>10, <1>12 DEF d, c, b

(* No frame is lost or kept twice unaccounted, the keyframe index is that  *)
(* of the last keyframe, and the buffer stays within its capacity, after   *)
(* any sequence of sends, flushes, put-backs and receives                  *)
(* (muxer.rs:65-248).                                                      *)
THEOREM BufferIsExact == SenderSpec => []BufferExact
<1>1. SenderInv => BufferExact
  <2> SUFFICES ASSUME SenderInv PROVE BufferExact
    OBVIOUS
  <2>1. buffer \in Buffers /\ LastKeyAt(buffer.frames, buffer.last_keyframe_idx)
    BY DEF SenderInv, GoodBuffer
  <2>2. /\ buffer.frames \in Seq(Frame) /\ buffer.frames_received \in Nat
        /\ buffer.frames_dropped \in Nat /\ buffer.keyframes_received \in Nat
        /\ buffer.keyframes_dropped \in Nat
    BY <2>1, BufferFields
  <2>3. SenderTypeOK
    BY <2>1, <2>2 DEF SenderInv, SenderTyped, SenderTypeOK, LastKeyAt
  <2>4. EveryFrameAccounted
    <3> DEFINE d == Len(delivered)  c == Len(channel)  b == Len(buffer.frames)
               x == buffer.frames_dropped
    <3>1. Cardinality(Kept) = d + c + b
      BY KeptSize
    <3>2. pc = "idle" => offered = d + c + b + x + 0
      BY DEF SenderInv, Accounted
    <3>3. d \in Nat /\ c \in Nat /\ b \in Nat /\ x \in Nat
      BY SenderNumbers
    <3> HIDE DEF d, c, b, x
    <3>4. pc = "idle" => offered = Cardinality(Kept) + x
      BY <3>1, <3>2, <3>3
    <3>5. QED
      BY <3>1, <3>4 DEF EveryFrameAccounted, d, c, b, x
  <2>5. KeyframeIndexExact
    BY <2>1, <2>2, LastKeySelected DEF KeyframeIndexExact
  <2>6. BufferBounded
    BY DEF SenderInv, GoodBuffer, WithinCapacity, BufferBounded
  <2>7. QED
    BY <2>3, <2>4, <2>5, <2>6 DEF BufferExact
<1>2. QED
  BY SenderAlways, <1>1, PTL

(* The keyframe sent last is never pushed out by anything but a newer      *)
(* keyframe, and no keyframe is dropped from a buffer that holds another   *)
(* frame (muxer.rs:4-5, 82-102), even after put-backs reordered it.        *)
THEOREM KeyframesAreKept == SenderSpec => KeyframesKept
<1>1. SenderInv /\ [SenderNext]_senderVars =>
        [\A f \in Kept :
           (f.key /\ f \notin Kept' /\ pc' # "failed") =>
             (frame.key /\ frame.n > f.n)]_senderVars
  BY SenderStep DEF GoodStep, NewestKeyStays
<1>2. SenderInv /\ [SenderNext]_senderVars =>
        [buffer'.keyframes_dropped > buffer.keyframes_dropped =>
           \A i \in DOMAIN buffer.frames : buffer.frames[i].key]_senderVars
  BY SenderStep DEF GoodStep, KeysGoLast
<1>3. QED
  BY SenderAlways, <1>1, <1>2, PTL DEF SenderSpec, KeyframesKept, LatestKeyframeKept,
     KeyframesGoLast

(* Part 3: the demuxer.                                                    *)

(* The shapes of what it keeps; a term without an end has -1.              *)
RoutedFrame == [source : Sources, kind : Kinds, by : Callers]
Mailbox == [sent : Seq(Nat), read : Nat, open : BOOLEAN]
Term == [filter : Filters, since : Nat, until : Int]
Turn == [frame : Nat, todo : Seq(Receivers), count : Nat, active : BOOLEAN]

DemuxShape ==
  /\ source_subscribers \in [Sources -> InUse \cup {Nobody}]
  /\ channel_subscribers \in [Kinds -> InUse \cup {Nobody}]
  /\ global_subscribers \in Seq(InUse)
  /\ InUse \subseteq Receivers /\ IsFiniteSet(InUse)
  /\ rx \in [InUse -> Mailbox] /\ term \in [InUse -> Term]
  /\ route \in [Callers -> Turn]
  /\ routed \in Seq(RoutedFrame) /\ Len(routed) <= MaxRouted
  /\ \A r \in InUse : QueueOf(r) \in 0 .. SubscriberCapacity

(* A receiver that is there and was not replaced is in the place of its    *)
(* filter, and only such receivers or closed ones are in a place.          *)
InPlace(r) ==
  CASE term[r].filter.by = "source" -> source_subscribers[term[r].filter.of] = r
    [] term[r].filter.by = "kind"   -> channel_subscribers[term[r].filter.of] = r
    [] OTHER                        -> r \in Range(global_subscribers)

Registered ==
  /\ \A r \in InUse : rx[r].open /\ term[r].until = -1 => InPlace(r)
  /\ \A s \in Sources : source_subscribers[s] # Nobody =>
       LET e == term[source_subscribers[s]]
       IN e.filter = [by |-> "source", of |-> s] /\ e.until = -1
  /\ \A k \in Kinds : channel_subscribers[k] # Nobody =>
       LET e == term[channel_subscribers[k]]
       IN e.filter = [by |-> "kind", of |-> k] /\ e.until = -1
  /\ \A r \in Range(global_subscribers) :
       term[r].filter = Everything /\ term[r].until = -1
  /\ IsInjective(global_subscribers)

(* A call that is under way has the youngest frame of its caller, and goes *)
(* to each subscriber once.                                                *)
Going(t) ==
  /\ ~route[t].active => route[t].todo = <<>>
  /\ route[t].active =>
       /\ route[t].frame \in DOMAIN routed /\ routed[route[t].frame].by = t
       /\ \A n \in DOMAIN routed : routed[n].by = t => n <= route[t].frame
       /\ Range(route[t].todo) \subseteq InUse /\ IsInjective(route[t].todo)

(* A call has counted the receivers that have its frame.                   *)
Holders(boxes, n) == {r \in DOMAIN boxes : n \in Range(boxes[r].sent)}

CountsExactly(t) == route[t].active => route[t].count = Cardinality(Holders(rx, route[t].frame))

(* What was sent, relative to the calls: once each, and in order for each  *)
(* caller.                                                                 *)
InTheOrderOfCalls(sent, calls) ==
  \A i, j \in DOMAIN sent :
    i < j => IF calls[sent[i]].by = calls[sent[j]].by
             THEN sent[i] < sent[j] ELSE sent[i] # sent[j]

(* What an open receiver is owed was sent to it or is on the way, and not  *)
(* both.                                                                   *)
Served(r) ==
  /\ Range(rx[r].sent) \subseteq DOMAIN routed
  /\ rx[r].open =>
       /\ Owed(r) = Range(rx[r].sent) \cup OnTheWayTo(r)
       /\ Range(rx[r].sent) \cap OnTheWayTo(r) = {}
       /\ InTheOrderOfCalls(rx[r].sent, routed)
  /\ term[r].since <= Len(routed) /\ term[r].until <= Len(routed)

DemuxInv ==
  /\ DemuxShape /\ Registered
  /\ \A t \in Callers : Going(t) /\ CountsExactly(t)
  /\ \A r \in InUse : Served(r)

(* What cleanup keeps of the subscribers of everything, as SelectSeq       *)
(* computes it.                                                            *)
KeptSoFar(h, s, i) ==
  IF i = 0 THEN <<>> ELSE IF rx[s[i]].open THEN Append(h[i - 1], s[i]) ELSE h[i - 1]

Selecting(h, s, n) == h = [i \in 0 .. n |-> KeptSoFar(h, s, i)]

LEMMA SelectingExists ==
  ASSUME NEW s, NEW m \in Nat
  PROVE  \E h : Selecting(h, s, m)
<1> DEFINE T == {n \in Nat : \E h : Selecting(h, s, n)}
<1>1. 0 \in T
  <2>1. Selecting([i \in 0 .. 0 |-> <<>>], s, 0)
    BY DEF Selecting, KeptSoFar
  <2>2. QED
    BY <2>1
<1>2. ASSUME NEW n \in Nat, n \in T PROVE n + 1 \in T
  <2>1. PICK g : Selecting(g, s, n)
    BY <1>2
  <2> DEFINE h == [i \in 0 .. n + 1 |-> KeptSoFar(g, s, i)]
  <2>2. \A i \in 0 .. n : h[i] = g[i]
    BY <2>1 DEF Selecting
  <2>3. \A i \in 0 .. n + 1 : i # 0 => i - 1 \in 0 .. n
    OBVIOUS
  <2>4. \A i \in 0 .. n + 1 : KeptSoFar(g, s, i) = KeptSoFar(h, s, i)
    <3> HIDE DEF h
    <3>1. QED
      BY <2>2, <2>3 DEF KeptSoFar
  <2>5. Selecting(h, s, n + 1)
    BY <2>4 DEF Selecting
  <2> HIDE DEF h
  <2>6. QED
    BY <2>5
<1>3. Nat \subseteq T
  <2> HIDE DEF T
  <2>1. QED
    BY <1>1, <1>2, AllNaturals
<1>4. QED
  BY <1>3

LEMMA RetainedFacts ==
  ASSUME NEW S, NEW s \in Seq(S), IsInjective(s)
  PROVE  /\ Retained(s) \in Seq(S) /\ IsInjective(Retained(s))
         /\ Range(Retained(s)) = {x \in Range(s) : rx[x].open}
<1> DEFINE m == Len(s)
           h == CHOOSE k : Selecting(k, s, m)
           Of(i) == {s[j] : j \in {k \in 1 .. i : rx[s[k]].open}}
           C == {i \in Nat : i <= m => /\ h[i] \in Seq(S) /\ IsInjective(h[i])
                                       /\ Range(h[i]) = Of(i)}
<1>1. m \in Nat /\ DOMAIN s = 1 .. m /\ \A i \in 1 .. m : s[i] \in S
  BY SequenceRange
<1>2. Retained(s) = h[m]
  BY DEF Retained, Selecting, KeptSoFar
<1>3. Selecting(h, s, m)
  BY <1>1, SelectingExists
<1> HIDE DEF h, m
<1>4. \A i \in 0 .. m : h[i] = KeptSoFar(h, s, i)
  BY <1>3 DEF Selecting
<1>5. 0 \in C
  <2>1. h[0] = <<>>
    BY <1>1, <1>4 DEF KeptSoFar
  <2>2. Range(<<>>) = {} /\ IsInjective(<<>>) /\ Of(0) = {} /\ <<>> \in Seq(S)
    BY DEF Range, IsInjective
  <2>3. QED
    BY <2>1, <2>2
<1>6. ASSUME NEW i \in Nat, i \in C PROVE i + 1 \in C
  <2>1. SUFFICES ASSUME i + 1 <= m
                 PROVE  /\ h[i + 1] \in Seq(S) /\ IsInjective(h[i + 1])
                        /\ Range(h[i + 1]) = Of(i + 1)
    OBVIOUS
  <2>2. i <= m /\ i + 1 \in 1 .. m /\ i + 1 \in 0 .. m /\ i + 1 # 0 /\ (i + 1) - 1 = i
    BY <1>1, <2>1
  <2>3. h[i] \in Seq(S) /\ IsInjective(h[i]) /\ Range(h[i]) = Of(i)
    BY <1>6, <2>2
  <2>4. s[i + 1] \in S /\ i + 1 \in DOMAIN s
    BY <1>1, <2>2
  <2>5. h[i + 1] = IF rx[s[i + 1]].open THEN Append(h[i], s[i + 1]) ELSE h[i]
    BY <1>4, <2>2 DEF KeptSoFar
  <2>6. s[i + 1] \notin Of(i)
    <3>1. ASSUME NEW j \in 1 .. i PROVE s[j] # s[i + 1]
      <4>1. j \in DOMAIN s /\ j # i + 1
        BY <1>1, <2>2
      <4>2. QED
        BY <2>4, <4>1 DEF IsInjective
    <3>2. QED
      BY <3>1
  <2>7. Of(i + 1) = IF rx[s[i + 1]].open THEN Of(i) \cup {s[i + 1]} ELSE Of(i)
    <3>1. \A j : j \in 1 .. i + 1 <=> j \in 1 .. i \/ j = i + 1
      OBVIOUS
    <3>2. QED
      BY <3>1
  <2> HIDE DEF Of
  <2>8. /\ Range(Append(h[i], s[i + 1])) = Range(h[i]) \cup {s[i + 1]}
        /\ IsInjective(Append(h[i], s[i + 1])) /\ Append(h[i], s[i + 1]) \in Seq(S)
    BY <2>3, <2>4, <2>6, AppendKeepsApart
  <2>9. QED
    BY <2>3, <2>5, <2>7, <2>8
<1>7. Nat \subseteq C
  <2> HIDE DEF C
  <2>1. QED
    BY <1>5, <1>6, AllNaturals
<1>8. h[m] \in Seq(S) /\ IsInjective(h[m]) /\ Range(h[m]) = Of(m)
  <2>1. m \in Nat /\ m <= m
    BY <1>1
  <2>2. m \in C
    <3> HIDE DEF C
    <3>1. QED
      BY <1>7, <2>1
  <2> HIDE DEF Of
  <2>3. QED
    BY <2>1, <2>2
<1>9. Of(m) = {x \in Range(s) : rx[x].open}
  <2>1. ASSUME NEW x \in Of(m) PROVE x \in Range(s) /\ rx[x].open
    BY <1>1 DEF Range
  <2>2. ASSUME NEW x \in Range(s), rx[x].open PROVE x \in Of(m)
    <3>1. PICK j \in 1 .. m : x = s[j]
      BY <1>1 DEF Range
    <3>2. j \in {k \in 1 .. m : rx[s[k]].open}
      BY <2>2, <3>1
    <3>3. QED
      BY <3>1, <3>2
  <2> HIDE DEF Of
  <2>3. QED
    BY <2>1, <2>2
<1>10. QED
  BY <1>2, <1>8, <1>9

LEMMA ConcatKeepsApart ==
  ASSUME NEW S, NEW s \in Seq(S), NEW t \in Seq(S), IsInjective(s), IsInjective(t),
         Range(s) \cap Range(t) = {}
  PROVE  s \o t \in Seq(S) /\ IsInjective(s \o t) /\ Range(s \o t) = Range(s) \cup Range(t)
<1> DEFINE u == s \o t
<1>1. /\ u \in Seq(S) /\ Len(u) = Len(s) + Len(t)
      /\ \A i \in 1 .. Len(s) + Len(t) : u[i] = IF i <= Len(s) THEN s[i] ELSE t[i - Len(s)]
  BY ConcatProperties
<1>2. /\ Len(s) \in Nat /\ DOMAIN s = 1 .. Len(s)
      /\ Len(t) \in Nat /\ DOMAIN t = 1 .. Len(t)
  BY SequenceRange
<1> HIDE DEF u
<1>3. DOMAIN u = 1 .. Len(s) + Len(t)
  BY <1>1, SequenceRange
<1>4. \A i \in DOMAIN u : \/ i \in DOMAIN s /\ u[i] = s[i]
                          \/ i \notin DOMAIN s /\ i - Len(s) \in DOMAIN t /\ u[i] = t[i - Len(s)]
  BY <1>1, <1>2, <1>3
<1>5. \A i \in DOMAIN s : i \in DOMAIN u /\ u[i] = s[i]
  BY <1>1, <1>2, <1>3
<1>6. \A i \in DOMAIN t : i + Len(s) \in DOMAIN u /\ u[i + Len(s)] = t[i]
  <2>1. ASSUME NEW i \in DOMAIN t PROVE i + Len(s) \in DOMAIN u /\ u[i + Len(s)] = t[i]
    <3>1. /\ i + Len(s) \in 1 .. Len(s) + Len(t) /\ ~(i + Len(s) <= Len(s))
          /\ (i + Len(s)) - Len(s) = i
      BY <1>2
    <3>2. QED
      BY <1>1, <1>3, <3>1
  <2>2. QED
    BY <2>1
<1>7. \A i, j \in DOMAIN u : i - Len(s) = j - Len(s) => i = j
  BY <1>2, <1>3
<1>8. \A i \in DOMAIN s, j \in DOMAIN t : s[i] # t[j]
  BY DEF Range
<1>9. IsInjective(u)
  BY <1>4, <1>7, <1>8 DEF IsInjective
<1>10. Range(u) = Range(s) \cup Range(t)
  BY <1>4, <1>5, <1>6 DEF Range
<1>11. QED
  BY <1>1, <1>9, <1>10 DEF u

LEMMA RoutingTo ==
  \A r, n : n \in OnTheWayTo(r) <=>
    \E t \in Callers : route[t].active /\ r \in Range(route[t].todo) /\ n = route[t].frame
<1>1. \A r, n : n \in OnTheWayTo(r) <=>
        \E t \in Callers : /\ route[t].active /\ n = route[t].frame
                         /\ \E i \in DOMAIN route[t].todo : route[t].todo[i] = r
  BY DEF OnTheWayTo
<1>2. QED
  BY <1>1 DEF Range

LEMMA RoutingToNext ==
  \A r, n : n \in OnTheWayTo(r)' <=>
    \E t \in Callers : route'[t].active /\ r \in Range(route'[t].todo) /\ n = route'[t].frame
<1>1. \A r, n : n \in OnTheWayTo(r)' <=>
        \E t \in Callers : /\ route'[t].active /\ n = route'[t].frame
                         /\ \E i \in DOMAIN route'[t].todo : route'[t].todo[i] = r
  BY DEF OnTheWayTo
<1>2. QED
  BY <1>1 DEF Range

LEMMA DemuxNumbers ==
  ASSUME DemuxShape
  PROVE  /\ Len(routed) \in Nat /\ DOMAIN routed = 1 .. Len(routed)
         /\ SubscriberCapacity \in Nat /\ MaxRouted \in Nat
         /\ \A r \in InUse : /\ rx[r].sent \in Seq(Nat) /\ Len(rx[r].sent) \in Nat
                             /\ rx[r].read \in Nat /\ rx[r].open \in BOOLEAN
                             /\ DOMAIN rx[r].sent = 1 .. Len(rx[r].sent)
                             /\ term[r].since \in Nat /\ term[r].until \in Int
                             /\ term[r].filter \in Filters
         /\ \A t \in Callers : /\ route[t].frame \in Nat /\ route[t].count \in Nat
                               /\ route[t].todo \in Seq(Receivers)
                               /\ route[t].active \in BOOLEAN
<1>1. /\ rx \in [InUse -> Mailbox] /\ term \in [InUse -> Term]
      /\ route \in [Callers -> Turn] /\ routed \in Seq(RoutedFrame)
  BY DEF DemuxShape
<1>2. Len(routed) \in Nat /\ DOMAIN routed = 1 .. Len(routed)
  BY <1>1, SequenceRange
<1>3. ASSUME NEW r \in InUse
      PROVE  /\ rx[r].sent \in Seq(Nat) /\ Len(rx[r].sent) \in Nat
             /\ rx[r].read \in Nat /\ rx[r].open \in BOOLEAN
             /\ DOMAIN rx[r].sent = 1 .. Len(rx[r].sent)
             /\ term[r].since \in Nat /\ term[r].until \in Int
             /\ term[r].filter \in Filters
  <2>1. rx[r] \in Mailbox /\ term[r] \in Term
    BY <1>1
  <2>2. /\ rx[r].sent \in Seq(Nat) /\ rx[r].read \in Nat /\ rx[r].open \in BOOLEAN
        /\ term[r].since \in Nat /\ term[r].until \in Int /\ term[r].filter \in Filters
    BY <2>1 DEF Mailbox, Term
  <2>3. QED
    BY <2>2, SequenceRange
<1>4. ASSUME NEW t \in Callers
      PROVE  /\ route[t].frame \in Nat /\ route[t].count \in Nat
             /\ route[t].todo \in Seq(Receivers) /\ route[t].active \in BOOLEAN
  <2>1. route[t] \in Turn
    BY <1>1
  <2>2. QED
    BY <2>1 DEF Turn
<1>5. QED
  BY <1>2, <1>3, <1>4, DemuxerAssumption

(* A receiver that a step leaves alone, but for being replaced, read or    *)
(* dropped, is served as before.                                           *)
LEMMA ServedStays ==
  ASSUME DemuxInv, NEW r \in InUse, routed' = routed,
         rx'[r].sent = rx[r].sent, rx'[r].open => rx[r].open,
         term'[r].filter = term[r].filter, term'[r].since = term[r].since,
         \/ term'[r].until = term[r].until
         \/ term[r].until = -1 /\ term'[r].until = Len(routed),
         OnTheWayTo(r)' = OnTheWayTo(r)
  PROVE  Served(r)'
<1>1. Served(r) /\ Len(routed) \in Nat /\ DOMAIN routed = 1 .. Len(routed)
      /\ term[r].until \in Int
  BY DemuxNumbers DEF DemuxInv
<1>2. Owed(r)' = Owed(r)
  <2>1. \A n \in DOMAIN routed : (term'[r].until = -1 \/ n <= term'[r].until)
                                <=> (term[r].until = -1 \/ n <= term[r].until)
    BY <1>1
  <2>2. QED
    BY <2>1 DEF Owed
<1>3. term'[r].until <= Len(routed)
  BY <1>1 DEF Served
<1>4. QED
  BY <1>1, <1>2, <1>3 DEF Served

LEMMA CountsStay ==
  ASSUME DemuxInv, NEW t \in Callers, InUse' = InUse,
         \A r \in InUse : rx'[r].sent = rx[r].sent, route'[t] = route[t]
  PROVE  CountsExactly(t)'
<1>1. CountsExactly(t)
  BY DEF DemuxInv
<1>2. Holders(rx', route'[t].frame) = Holders(rx, route[t].frame)
  BY DEF Holders, InUse
<1>3. QED
  BY <1>1, <1>2 DEF CountsExactly

LEMMA FilterKinds ==
  \A e \in Filters : \/ e.by = "source" /\ e.of \in Sources /\ e = [by |-> "source", of |-> e.of]
                     \/ e.by = "kind" /\ e.of \in Kinds /\ e = [by |-> "kind", of |-> e.of]
                     \/ e.by = "all" /\ e = Everything
  BY DEF Filters, Everything

(* A new receiver, while no call is under way.                             *)
LEMMA NewReceiverFacts ==
  ASSUME DemuxInv, Exclusive, NEW r \in Fresh, NEW filter \in Filters, NewReceiver(r, filter)
  PROVE  /\ r \in Receivers /\ r \notin InUse /\ r # Nobody
         /\ InUse' = InUse \cup {r} /\ InUse' \subseteq Receivers /\ IsFiniteSet(InUse')
         /\ rx' \in [InUse' -> Mailbox] /\ term' \in [InUse' -> Term]
         /\ \A q \in InUse : rx'[q] = rx[q]
         /\ rx'[r].sent = <<>> /\ rx'[r].read = 0
         /\ term'[r].filter = filter /\ term'[r].since = Len(routed) /\ term'[r].until = -1
         /\ \A q \in InUse : /\ term'[q].filter = term[q].filter
                             /\ term'[q].since = term[q].since
                             /\ IF term[q].filter = filter /\ filter # Everything
                                     /\ term[q].until = -1
                                THEN term'[q].until = Len(routed)
                                ELSE term'[q].until = term[q].until
<1>1. /\ rx \in [InUse -> Mailbox] /\ term \in [InUse -> Term] /\ IsFiniteSet(InUse)
      /\ InUse \subseteq Receivers /\ DOMAIN term = InUse
  BY DEF DemuxInv, DemuxShape
<1>2. r \in Receivers /\ r \notin InUse /\ r # Nobody
  BY DemuxerAssumption DEF Fresh
<1>3. Len(routed) \in Nat
  BY DemuxNumbers DEF DemuxInv
<1> DEFINE new == [sent |-> <<>>, read |-> 0, open |-> TRUE]
           e == [filter |-> filter, since |-> Len(routed), until |-> -1]
           Cut(q) == IF term[q].filter = filter /\ filter # Everything /\ term[q].until = -1
                     THEN [term[q] EXCEPT !.until = Len(routed)] ELSE term[q]
<1>4. new \in Mailbox /\ e \in Term
  BY <1>3 DEF Mailbox, Term
<1>5. /\ rx' = [q \in InUse \cup {r} |-> IF q = r THEN new ELSE rx[q]]
      /\ term' = [q \in InUse \cup {r} |-> IF q = r THEN e ELSE Cut(q)]
  BY DEF NewReceiver
<1>6. \A q \in InUse : rx[q] \in Mailbox /\ term[q] \in Term
  BY <1>1
<1>7. ASSUME NEW q \in InUse
      PROVE  /\ Cut(q) \in Term /\ Cut(q).filter = term[q].filter
             /\ Cut(q).since = term[q].since
             /\ IF term[q].filter = filter /\ filter # Everything /\ term[q].until = -1
                THEN Cut(q).until = Len(routed) ELSE Cut(q).until = term[q].until
  BY <1>3, <1>6 DEF Term
<1>8. InUse' = InUse \cup {r}
  BY <1>5 DEF InUse
<1>9. IsFiniteSet(InUse') /\ InUse' \subseteq Receivers
  BY <1>1, <1>2, <1>8, FS_AddElement
<1> HIDE DEF Cut, new, e
<1>10. /\ rx'[r] = new /\ term'[r] = e /\ \A q \in InUse : rx'[q] = rx[q] /\ term'[q] = Cut(q)
  BY <1>2, <1>5
<1>11. rx' \in [InUse' -> Mailbox] /\ term' \in [InUse' -> Term]
  BY <1>4, <1>5, <1>6, <1>7, <1>8
<1>12. QED
  BY <1>2, <1>7, <1>8, <1>9, <1>10, <1>11 DEF new, e

(* What a subscription leaves as it was.                                   *)
LEMMA SubscribersServed ==
  ASSUME DemuxInv, Exclusive, NEW r \in Fresh, NEW filter \in Filters, NewReceiver(r, filter),
         route' = route, routed' = routed
  PROVE  /\ \A t \in Callers : Going(t)' /\ CountsExactly(t)'
         /\ \A q \in InUse' : Served(q)'
         /\ \A q \in InUse' : QueueOf(q)' \in 0 .. SubscriberCapacity
<1>1. /\ r \notin InUse /\ InUse' = InUse \cup {r}
      /\ \A q \in InUse : rx'[q] = rx[q]
      /\ rx'[r].sent = <<>> /\ rx'[r].read = 0
      /\ term'[r].filter = filter /\ term'[r].since = Len(routed) /\ term'[r].until = -1
      /\ \A q \in InUse : /\ term'[q].filter = term[q].filter
                          /\ term'[q].since = term[q].since
                          /\ \/ term'[q].until = term[q].until
                             \/ term[q].until = -1 /\ term'[q].until = Len(routed)
  BY NewReceiverFacts
<1>2. \A q : OnTheWayTo(q) = {} /\ OnTheWayTo(q)' = {}
  BY RoutingTo, RoutingToNext DEF Exclusive
<1>3. ASSUME NEW q \in InUse PROVE Served(q)'
  BY <1>1, <1>2, <1>3, ServedStays
<1>4. Len(routed) \in Nat /\ DOMAIN routed = 1 .. Len(routed) /\ SubscriberCapacity \in Nat
  BY DemuxNumbers DEF DemuxInv
<1>5. Served(r)'
  <2>1. Owed(r)' = {}
    BY <1>1, <1>4 DEF Owed
  <2>2. Range(<<>>) = {} /\ DOMAIN <<>> = {}
    BY DEF Range
  <2>3. InTheOrderOfCalls(<<>>, routed)
    BY <2>2 DEF InTheOrderOfCalls
  <2>4. term'[r].since <= Len(routed) /\ term'[r].until <= Len(routed)
    BY <1>1, <1>4
  <2>5. QED
    BY <1>1, <1>2, <2>1, <2>2, <2>3, <2>4 DEF Served
<1>6. ASSUME NEW t \in Callers PROVE Going(t)' /\ CountsExactly(t)'
  <2>1. ~route'[t].active
    BY DEF Exclusive
  <2>2. Going(t)
    BY DEF DemuxInv
  <2>3. QED
    BY <2>1, <2>2 DEF Going, CountsExactly
<1>7. QueueOf(r)' \in 0 .. SubscriberCapacity
  <2>1. Len(<<>>) - 0 = 0
    OBVIOUS
  <2>2. QED
    BY <1>1, <1>4, <2>1 DEF QueueOf
<1>8. \A q \in InUse : QueueOf(q)' \in 0 .. SubscriberCapacity
  BY <1>1 DEF QueueOf, DemuxInv, DemuxShape
<1>9. QED
  BY <1>1, <1>3, <1>5, <1>6, <1>7, <1>8

LEMMA SubscribeSourceGood ==
  ASSUME DemuxInv, NEW s \in Sources, SubscribeSource(s)
  PROVE  DemuxInv'
<1> DEFINE filter == [by |-> "source", of |-> s]
<1>1. PICK r \in Fresh : /\ NewReceiver(r, filter)
                         /\ source_subscribers' = [source_subscribers EXCEPT ![s] = r]
  BY DEF SubscribeSource
<1>2. /\ Exclusive /\ channel_subscribers' = channel_subscribers
      /\ global_subscribers' = global_subscribers /\ route' = route /\ routed' = routed
  BY DEF SubscribeSource
<1>3. filter \in Filters /\ filter # Everything
  BY DEF Filters, Everything
<1> HIDE DEF filter
<1>4. /\ r \in Receivers /\ r \notin InUse /\ r # Nobody
      /\ InUse' = InUse \cup {r} /\ InUse' \subseteq Receivers /\ IsFiniteSet(InUse')
      /\ rx' \in [InUse' -> Mailbox] /\ term' \in [InUse' -> Term]
      /\ \A q \in InUse : rx'[q] = rx[q]
      /\ term'[r].filter = filter /\ term'[r].until = -1
      /\ \A q \in InUse : /\ term'[q].filter = term[q].filter
                          /\ IF term[q].filter = filter /\ filter # Everything
                                  /\ term[q].until = -1
                             THEN term'[q].until = Len(routed)
                             ELSE term'[q].until = term[q].until
  BY <1>1, <1>2, <1>3, NewReceiverFacts
<1>5. /\ \A t \in Callers : Going(t)' /\ CountsExactly(t)'
      /\ \A q \in InUse' : Served(q)'
      /\ \A q \in InUse' : QueueOf(q)' \in 0 .. SubscriberCapacity
  BY <1>1, <1>2, <1>3, SubscribersServed
<1>6. /\ source_subscribers \in [Sources -> InUse \cup {Nobody}]
      /\ channel_subscribers \in [Kinds -> InUse \cup {Nobody}]
      /\ global_subscribers \in Seq(InUse) /\ Registered /\ Nobody \notin InUse
      /\ route \in [Callers -> Turn] /\ routed \in Seq(RoutedFrame) /\ Len(routed) <= MaxRouted
      /\ InUse \subseteq Receivers
  BY DemuxerAssumption DEF DemuxInv, DemuxShape
<1>7. /\ source_subscribers' \in [Sources -> InUse' \cup {Nobody}]
      /\ channel_subscribers' \in [Kinds -> InUse' \cup {Nobody}]
      /\ global_subscribers' \in Seq(InUse')
  <2>1. global_subscribers \in Seq(InUse \cup {r})
    BY <1>6, SeqMonotonic
  <2>2. QED
    BY <1>1, <1>2, <1>4, <1>6, <2>1
<1>8. DemuxShape'
  BY <1>2, <1>4, <1>5, <1>6, <1>7 DEF DemuxShape
<1>9. Len(routed) \in Nat
  BY DemuxNumbers DEF DemuxInv
<1>10. Registered'
  <2>1. \A q \in InUse : term'[q].until = -1 =>
          term[q].until = -1 /\ term[q].filter # filter
    BY <1>3, <1>4, <1>9
  <2>2. \A q \in InUse : term[q].filter # filter => term'[q].until = term[q].until
    BY <1>4
  <2>3. ASSUME NEW q \in InUse', rx'[q].open, term'[q].until = -1
        PROVE  InPlace(q)'
    <3>1. CASE q = r
      BY <1>1, <1>4, <1>6, <3>1 DEF InPlace, filter
    <3>2. CASE q \in InUse
      <4>1. InPlace(q) /\ term[q].filter # filter /\ term[q].filter \in Filters
        BY <1>4, <1>6, <2>1, <2>3, <3>2, DemuxNumbers DEF Registered, DemuxInv
      <4>2. term[q].filter.by = "source" => term[q].filter.of # s
        BY <4>1, FilterKinds DEF filter
      <4>3. /\ term'[q].filter = term[q].filter
            /\ \A x \in Sources : x # s => source_subscribers'[x] = source_subscribers[x]
        BY <1>1, <1>4, <1>6, <3>2
      <4>4. term[q].filter.by = "source" => term[q].filter.of \in Sources
        BY <4>1, FilterKinds
      <4>5. QED
        BY <1>2, <4>1, <4>2, <4>3, <4>4 DEF InPlace
    <3>3. QED
      BY <1>4, <2>3, <3>1, <3>2
  <2>4. ASSUME NEW x \in Sources, source_subscribers'[x] # Nobody
        PROVE  LET e == term'[source_subscribers'[x]]
               IN e.filter = [by |-> "source", of |-> x] /\ e.until = -1
    <3>1. CASE x = s
      BY <1>1, <1>4, <1>6, <3>1 DEF filter
    <3>2. CASE x # s
      <4>1. source_subscribers'[x] = source_subscribers[x] /\ source_subscribers[x] \in InUse
        BY <1>1, <1>6, <2>4, <3>2
      <4>2. LET e == term[source_subscribers[x]]
            IN e.filter = [by |-> "source", of |-> x] /\ e.until = -1
        BY <1>6, <2>4, <4>1 DEF Registered
      <4>3. [by |-> "source", of |-> x] # filter
        BY <3>2 DEF filter
      <4>4. QED
        BY <1>4, <2>2, <4>1, <4>2, <4>3
    <3>3. QED
      BY <3>1, <3>2
  <2>5. ASSUME NEW k \in Kinds, channel_subscribers'[k] # Nobody
        PROVE  LET e == term'[channel_subscribers'[k]]
               IN e.filter = [by |-> "kind", of |-> k] /\ e.until = -1
    <3>1. channel_subscribers[k] \in InUse
      BY <1>2, <1>6, <2>5
    <3>2. LET e == term[channel_subscribers[k]]
          IN e.filter = [by |-> "kind", of |-> k] /\ e.until = -1
      BY <1>2, <1>6, <2>5 DEF Registered
    <3>3. [by |-> "kind", of |-> k] # filter
      BY DEF filter
    <3>4. QED
      BY <1>2, <1>4, <2>2, <3>1, <3>2, <3>3
  <2>6. ASSUME NEW q \in Range(global_subscribers')
        PROVE  term'[q].filter = Everything /\ term'[q].until = -1
    <3>1. q \in InUse /\ term[q].filter = Everything /\ term[q].until = -1
      BY <1>2, <1>6, SequenceRange DEF Registered
    <3>2. QED
      BY <1>3, <1>4, <2>2, <3>1
  <2>7. IsInjective(global_subscribers')
    BY <1>2, <1>6 DEF Registered
  <2>8. QED
    BY <2>3, <2>4, <2>5, <2>6, <2>7 DEF Registered
<1>11. QED
  BY <1>5, <1>8, <1>10 DEF DemuxInv

LEMMA SubscribeChannelGood ==
  ASSUME DemuxInv, NEW k \in Kinds, SubscribeChannel(k)
  PROVE  DemuxInv'
<1> DEFINE filter == [by |-> "kind", of |-> k]
<1>1. PICK r \in Fresh : /\ NewReceiver(r, filter)
                         /\ channel_subscribers' = [channel_subscribers EXCEPT ![k] = r]
  BY DEF SubscribeChannel
<1>2. /\ Exclusive /\ source_subscribers' = source_subscribers
      /\ global_subscribers' = global_subscribers /\ route' = route /\ routed' = routed
  BY DEF SubscribeChannel
<1>3. filter \in Filters /\ filter # Everything
  BY DEF Filters, Everything
<1> HIDE DEF filter
<1>4. /\ r \in Receivers /\ r \notin InUse /\ r # Nobody
      /\ InUse' = InUse \cup {r} /\ InUse' \subseteq Receivers /\ IsFiniteSet(InUse')
      /\ rx' \in [InUse' -> Mailbox] /\ term' \in [InUse' -> Term]
      /\ \A q \in InUse : rx'[q] = rx[q]
      /\ term'[r].filter = filter /\ term'[r].until = -1
      /\ \A q \in InUse : /\ term'[q].filter = term[q].filter
                          /\ IF term[q].filter = filter /\ filter # Everything
                                  /\ term[q].until = -1
                             THEN term'[q].until = Len(routed)
                             ELSE term'[q].until = term[q].until
  BY <1>1, <1>2, <1>3, NewReceiverFacts
<1>5. /\ \A t \in Callers : Going(t)' /\ CountsExactly(t)'
      /\ \A q \in InUse' : Served(q)'
      /\ \A q \in InUse' : QueueOf(q)' \in 0 .. SubscriberCapacity
  BY <1>1, <1>2, <1>3, SubscribersServed
<1>6. /\ source_subscribers \in [Sources -> InUse \cup {Nobody}]
      /\ channel_subscribers \in [Kinds -> InUse \cup {Nobody}]
      /\ global_subscribers \in Seq(InUse) /\ Registered /\ Nobody \notin InUse
      /\ route \in [Callers -> Turn] /\ routed \in Seq(RoutedFrame) /\ Len(routed) <= MaxRouted
      /\ InUse \subseteq Receivers
  BY DemuxerAssumption DEF DemuxInv, DemuxShape
<1>7. /\ source_subscribers' \in [Sources -> InUse' \cup {Nobody}]
      /\ channel_subscribers' \in [Kinds -> InUse' \cup {Nobody}]
      /\ global_subscribers' \in Seq(InUse')
  <2>1. global_subscribers \in Seq(InUse \cup {r})
    BY <1>6, SeqMonotonic
  <2>2. QED
    BY <1>1, <1>2, <1>4, <1>6, <2>1
<1>8. DemuxShape'
  BY <1>2, <1>4, <1>5, <1>6, <1>7 DEF DemuxShape
<1>9. Len(routed) \in Nat
  BY DemuxNumbers DEF DemuxInv
<1>10. Registered'
  <2>1. \A q \in InUse : term'[q].until = -1 =>
          term[q].until = -1 /\ term[q].filter # filter
    BY <1>3, <1>4, <1>9
  <2>2. \A q \in InUse : term[q].filter # filter => term'[q].until = term[q].until
    BY <1>4
  <2>3. ASSUME NEW q \in InUse', rx'[q].open, term'[q].until = -1
        PROVE  InPlace(q)'
    <3>1. CASE q = r
      <4>1. filter.by = "kind" /\ filter.of = k
        BY DEF filter
      <4>2. channel_subscribers'[k] = r
        BY <1>1, <1>6
      <4>3. QED
        BY <1>4, <3>1, <4>1, <4>2 DEF InPlace
    <3>2. CASE q \in InUse
      <4>1. InPlace(q) /\ term[q].filter # filter /\ term[q].filter \in Filters
        BY <1>4, <1>6, <2>1, <2>3, <3>2, DemuxNumbers DEF Registered, DemuxInv
      <4>2. term[q].filter.by = "kind" => term[q].filter.of # k
        BY <4>1, FilterKinds DEF filter
      <4>3. /\ term'[q].filter = term[q].filter
            /\ \A x \in Kinds : x # k => channel_subscribers'[x] = channel_subscribers[x]
        BY <1>1, <1>4, <1>6, <3>2
      <4>4. term[q].filter.by = "kind" => term[q].filter.of \in Kinds
        BY <4>1, FilterKinds
      <4>5. QED
        BY <1>2, <4>1, <4>2, <4>3, <4>4 DEF InPlace
    <3>3. QED
      BY <1>4, <2>3, <3>1, <3>2
  <2>4. ASSUME NEW x \in Kinds, channel_subscribers'[x] # Nobody
        PROVE  LET e == term'[channel_subscribers'[x]]
               IN e.filter = [by |-> "kind", of |-> x] /\ e.until = -1
    <3>1. CASE x = k
      BY <1>1, <1>4, <1>6, <3>1 DEF filter
    <3>2. CASE x # k
      <4>1. channel_subscribers'[x] = channel_subscribers[x] /\ channel_subscribers[x] \in InUse
        BY <1>1, <1>6, <2>4, <3>2
      <4>2. LET e == term[channel_subscribers[x]]
            IN e.filter = [by |-> "kind", of |-> x] /\ e.until = -1
        BY <1>6, <2>4, <4>1 DEF Registered
      <4>3. [by |-> "kind", of |-> x] # filter
        BY <3>2 DEF filter
      <4>4. QED
        BY <1>4, <2>2, <4>1, <4>2, <4>3
    <3>3. QED
      BY <3>1, <3>2
  <2>5. ASSUME NEW s \in Sources, source_subscribers'[s] # Nobody
        PROVE  LET e == term'[source_subscribers'[s]]
               IN e.filter = [by |-> "source", of |-> s] /\ e.until = -1
    <3>1. source_subscribers[s] \in InUse
      BY <1>2, <1>6, <2>5
    <3>2. LET e == term[source_subscribers[s]]
          IN e.filter = [by |-> "source", of |-> s] /\ e.until = -1
      BY <1>2, <1>6, <2>5 DEF Registered
    <3>3. [by |-> "source", of |-> s] # filter
      BY DEF filter
    <3>4. QED
      BY <1>2, <1>4, <2>2, <3>1, <3>2, <3>3
  <2>6. ASSUME NEW q \in Range(global_subscribers')
        PROVE  term'[q].filter = Everything /\ term'[q].until = -1
    <3>1. q \in InUse /\ term[q].filter = Everything /\ term[q].until = -1
      BY <1>2, <1>6, SequenceRange DEF Registered
    <3>2. QED
      BY <1>3, <1>4, <2>2, <3>1
  <2>7. IsInjective(global_subscribers')
    BY <1>2, <1>6 DEF Registered
  <2>8. QED
    BY <2>3, <2>4, <2>5, <2>6, <2>7 DEF Registered
<1>11. QED
  BY <1>5, <1>8, <1>10 DEF DemuxInv

LEMMA SubscribeAllGood ==
  ASSUME DemuxInv, SubscribeAll
  PROVE  DemuxInv'
<1>1. PICK r \in Fresh : /\ NewReceiver(r, Everything)
                         /\ global_subscribers' = Append(global_subscribers, r)
  BY DEF SubscribeAll
<1>2. /\ Exclusive /\ source_subscribers' = source_subscribers
      /\ channel_subscribers' = channel_subscribers /\ route' = route /\ routed' = routed
  BY DEF SubscribeAll
<1>3. Everything \in Filters
  BY DEF Filters
<1>4. /\ r \in Receivers /\ r \notin InUse /\ r # Nobody
      /\ InUse' = InUse \cup {r} /\ InUse' \subseteq Receivers /\ IsFiniteSet(InUse')
      /\ rx' \in [InUse' -> Mailbox] /\ term' \in [InUse' -> Term]
      /\ \A q \in InUse : rx'[q] = rx[q]
      /\ term'[r].filter = Everything /\ term'[r].until = -1
      /\ \A q \in InUse : term'[q].filter = term[q].filter /\ term'[q].until = term[q].until
  BY <1>1, <1>2, <1>3, NewReceiverFacts
<1>5. /\ \A t \in Callers : Going(t)' /\ CountsExactly(t)'
      /\ \A q \in InUse' : Served(q)'
      /\ \A q \in InUse' : QueueOf(q)' \in 0 .. SubscriberCapacity
  BY <1>1, <1>2, <1>3, SubscribersServed
<1>6. /\ source_subscribers \in [Sources -> InUse \cup {Nobody}]
      /\ channel_subscribers \in [Kinds -> InUse \cup {Nobody}]
      /\ global_subscribers \in Seq(InUse) /\ Registered /\ Nobody \notin InUse
      /\ route \in [Callers -> Turn] /\ routed \in Seq(RoutedFrame) /\ Len(routed) <= MaxRouted
      /\ InUse \subseteq Receivers
  BY DemuxerAssumption DEF DemuxInv, DemuxShape
<1>7. Range(global_subscribers) \subseteq InUse
  BY <1>6, SequenceRange
<1>8. /\ Range(global_subscribers') = Range(global_subscribers) \cup {r}
      /\ IsInjective(global_subscribers')
      /\ global_subscribers' \in Seq(InUse')
  <2>1. global_subscribers \in Seq(InUse') /\ r \in InUse' /\ r \notin Range(global_subscribers)
    BY <1>4, <1>6, <1>7, SeqMonotonic
  <2>2. IsInjective(global_subscribers)
    BY <1>6 DEF Registered
  <2>3. QED
    BY <1>1, <2>1, <2>2, AppendKeepsApart
<1>9. DemuxShape'
  BY <1>2, <1>4, <1>5, <1>6, <1>8 DEF DemuxShape
<1>10. Registered'
  <2>1. ASSUME NEW q \in InUse', rx'[q].open, term'[q].until = -1
        PROVE  InPlace(q)'
    <3>1. CASE q = r
      BY <1>4, <1>8, <3>1 DEF InPlace, Everything
    <3>2. CASE q \in InUse
      <4>1. InPlace(q)
        BY <1>4, <1>6, <2>1, <3>2 DEF Registered
      <4>2. QED
        BY <1>2, <1>4, <1>8, <3>2, <4>1 DEF InPlace
    <3>3. QED
      BY <1>4, <2>1, <3>1, <3>2
  <2>2. ASSUME NEW s \in Sources, source_subscribers'[s] # Nobody
        PROVE  LET e == term'[source_subscribers'[s]]
               IN e.filter = [by |-> "source", of |-> s] /\ e.until = -1
    BY <1>2, <1>4, <1>6, <2>2 DEF Registered
  <2>3. ASSUME NEW k \in Kinds, channel_subscribers'[k] # Nobody
        PROVE  LET e == term'[channel_subscribers'[k]]
               IN e.filter = [by |-> "kind", of |-> k] /\ e.until = -1
    BY <1>2, <1>4, <1>6, <2>3 DEF Registered
  <2>4. ASSUME NEW q \in Range(global_subscribers')
        PROVE  term'[q].filter = Everything /\ term'[q].until = -1
    BY <1>4, <1>6, <1>7, <1>8 DEF Registered
  <2>5. QED
    BY <1>8, <2>1, <2>2, <2>3, <2>4 DEF Registered
<1>11. QED
  BY <1>5, <1>9, <1>10 DEF DemuxInv

LEMMA RegisteredStays ==
  ASSUME Registered, UNCHANGED <<source_subscribers, channel_subscribers, global_subscribers,
                                 term>>,
         InUse' = InUse, \A r \in InUse : rx'[r].open => rx[r].open
  PROVE  Registered'
<1>1. ASSUME NEW r \in InUse', rx'[r].open, term'[r].until = -1
      PROVE  InPlace(r)'
  <2>1. InPlace(r)
    BY <1>1 DEF Registered
  <2>2. QED
    BY <2>1 DEF InPlace
<1>2. QED
  BY <1>1 DEF Registered

LEMMA ReturnGood ==
  ASSUME DemuxInv, NEW t \in Callers, Return(t)
  PROVE  DemuxInv'
<1>1. /\ route[t].active /\ route[t].todo = <<>> /\ route' = [route EXCEPT ![t] = NoRoute]
      /\ UNCHANGED <<source_subscribers, channel_subscribers, global_subscribers, rx, routed,
                     term>>
  BY DEF Return
<1>2. route \in [Callers -> Turn] /\ Registered /\ DemuxShape
  BY DEF DemuxInv, DemuxShape
<1>3. NoRoute \in Turn
  BY DEF NoRoute, Turn
<1>4. /\ route' \in [Callers -> Turn] /\ route'[t] = NoRoute
      /\ \A u \in Callers : u # t => route'[u] = route[u]
  BY <1>1, <1>2, <1>3
<1>5. InUse' = InUse
  BY <1>1 DEF InUse
<1>6. DemuxShape'
  BY <1>1, <1>2, <1>4, <1>5 DEF DemuxShape, QueueOf
<1>7. Registered'
  BY <1>1, <1>2, <1>5, RegisteredStays
<1>8. ASSUME NEW u \in Callers PROVE Going(u)' /\ CountsExactly(u)'
  <2>1. CASE u = t
    BY <1>4, <2>1 DEF Going, CountsExactly, NoRoute
  <2>2. CASE u # t
    BY <1>1, <1>4, <1>5, <2>2, CountsStay DEF Going, DemuxInv
  <2>3. QED
    BY <2>1, <2>2
<1>9. ASSUME NEW r \in InUse PROVE Served(r)'
  <2>1. Range(<<>>) = {}
    BY DEF Range
  <2>2. \A n : n \in OnTheWayTo(r)' <=> n \in OnTheWayTo(r)
    BY <1>1, <1>4, <2>1, RoutingTo, RoutingToNext DEF NoRoute
  <2>3. OnTheWayTo(r)' = OnTheWayTo(r)
    BY <2>2
  <2>4. QED
    BY <1>1, <2>3, ServedStays
<1>10. QED
  BY <1>5, <1>6, <1>7, <1>8, <1>9 DEF DemuxInv

LEMMA SkipNextGood ==
  ASSUME DemuxInv, NEW t \in Callers, SkipNext(t)
  PROVE  DemuxInv'
<1> DEFINE r == Head(route[t].todo)
           p == Tail(route[t].todo)
<1>1. /\ route[t].active /\ route[t].todo # <<>> /\ ~rx[r].open
      /\ route' = [route EXCEPT ![t].todo = p]
      /\ UNCHANGED <<source_subscribers, channel_subscribers, global_subscribers, rx, routed,
                     term>>
  BY DEF SkipNext, Skips
<1>2. route \in [Callers -> Turn] /\ Registered /\ DemuxShape /\ Going(t)
  BY DEF DemuxInv, DemuxShape
<1>3. route[t].todo \in Seq(Receivers) /\ IsInjective(route[t].todo)
  BY <1>1, <1>2, DemuxNumbers DEF Going
<1>4. /\ Range(p) = Range(route[t].todo) \ {r} /\ IsInjective(p) /\ p \in Seq(Receivers)
      /\ r \in Range(route[t].todo)
  BY <1>1, <1>3, TailKeepsApart
<1> HIDE DEF p
<1>5. /\ route' \in [Callers -> Turn]
      /\ route'[t].frame = route[t].frame /\ route'[t].count = route[t].count
      /\ route'[t].active /\ route'[t].todo = p
      /\ \A u \in Callers : u # t => route'[u] = route[u]
  BY <1>1, <1>2, <1>4 DEF Turn
<1>6. InUse' = InUse
  BY <1>1 DEF InUse
<1>7. DemuxShape'
  BY <1>1, <1>2, <1>5, <1>6 DEF DemuxShape, QueueOf
<1>8. Registered'
  BY <1>1, <1>2, <1>6, RegisteredStays
<1>9. ASSUME NEW u \in Callers PROVE Going(u)' /\ CountsExactly(u)'
  <2>1. CASE u = t
    <3>1. Going(t)'
      BY <1>1, <1>2, <1>4, <1>5, <1>6 DEF Going
    <3>2. CountsExactly(t) /\ Holders(rx, route'[t].frame) = Holders(rx, route[t].frame)
      BY <1>5 DEF DemuxInv
    <3>3. QED
      BY <1>1, <1>5, <2>1, <3>1, <3>2 DEF CountsExactly
  <2>2. CASE u # t
    BY <1>1, <1>5, <1>6, <2>2, CountsStay DEF Going, DemuxInv
  <2>3. QED
    BY <2>1, <2>2
<1>10. ASSUME NEW q \in InUse PROVE Served(q)'
  <2>1. CASE q = r
    BY <1>1, <2>1 DEF Served, DemuxInv
  <2>2. CASE q # r
    <3>1. q \in Range(p) <=> q \in Range(route[t].todo)
      BY <1>4, <2>2
    <3>2. \A n : n \in OnTheWayTo(q)' <=> n \in OnTheWayTo(q)
      BY <1>1, <1>5, <3>1, RoutingTo, RoutingToNext
    <3>3. OnTheWayTo(q)' = OnTheWayTo(q)
      BY <3>2
    <3>4. QED
      BY <1>1, <3>3, ServedStays
  <2>3. QED
    BY <2>1, <2>2
<1>11. QED
  BY <1>6, <1>7, <1>8, <1>9, <1>10 DEF DemuxInv

(* What a step that only reads from receivers or drops them leaves.        *)
LEMMA ReadingGood ==
  ASSUME DemuxInv, NEW r \in InUse, rx' \in [InUse -> Mailbox],
         \A q \in InUse : q # r => rx'[q] = rx[q],
         rx'[r].sent = rx[r].sent, rx'[r].open => rx[r].open,
         Len(rx[r].sent) - rx'[r].read \in 0 .. SubscriberCapacity,
         UNCHANGED <<source_subscribers, channel_subscribers, global_subscribers, route,
                     routed, term>>
  PROVE  DemuxInv'
<1>1. DemuxShape /\ Registered /\ InUse' = InUse
  BY DEF DemuxInv, InUse
<1>2. \A q \in InUse : rx'[q].sent = rx[q].sent /\ (rx'[q].open => rx[q].open)
  OBVIOUS
<1>3. \A q \in InUse : QueueOf(q)' \in 0 .. SubscriberCapacity
  <2>1. QueueOf(r)' \in 0 .. SubscriberCapacity
    BY DEF QueueOf
  <2>2. \A q \in InUse : q # r => QueueOf(q)' = QueueOf(q)
    BY DEF QueueOf
  <2>3. QED
    BY <1>1, <2>1, <2>2 DEF DemuxShape
<1>4. DemuxShape'
  BY <1>1, <1>3 DEF DemuxShape
<1>5. Registered'
  BY <1>1, <1>2, RegisteredStays
<1>6. \A t \in Callers : Going(t)' /\ CountsExactly(t)'
  BY <1>1, <1>2, CountsStay DEF Going, DemuxInv
<1>7. ASSUME NEW q \in InUse PROVE Served(q)'
  <2>1. OnTheWayTo(q)' = OnTheWayTo(q)
    BY DEF OnTheWayTo
  <2>2. QED
    BY <1>2, <2>1, ServedStays
<1>8. QED
  BY <1>1, <1>4, <1>5, <1>6, <1>7 DEF DemuxInv

LEMMA TakeFrameGood ==
  ASSUME DemuxInv, NEW r \in Receivers, TakeFrame(r)
  PROVE  DemuxInv'
<1>1. /\ r \in InUse /\ rx[r].open /\ QueueOf(r) > 0 /\ rx' = [rx EXCEPT ![r].read = @ + 1]
      /\ UNCHANGED <<source_subscribers, channel_subscribers, global_subscribers, route,
                     routed, term>>
  BY DEF TakeFrame
<1>2. /\ rx \in [InUse -> Mailbox] /\ QueueOf(r) \in 0 .. SubscriberCapacity
      /\ rx[r].read \in Nat /\ Len(rx[r].sent) \in Nat /\ SubscriberCapacity \in Nat
  BY <1>1, DemuxNumbers DEF DemuxInv, DemuxShape
<1>3. /\ rx' \in [InUse -> Mailbox] /\ rx'[r].sent = rx[r].sent /\ rx'[r].open = rx[r].open
      /\ rx'[r].read = rx[r].read + 1 /\ \A q \in InUse : q # r => rx'[q] = rx[q]
  <2> DEFINE m == [rx[r] EXCEPT !.read = @ + 1]
  <2>1. rx[r] \in Mailbox
    BY <1>1, <1>2
  <2>2. /\ m \in Mailbox /\ m.sent = rx[r].sent /\ m.open = rx[r].open
        /\ m.read = rx[r].read + 1
    BY <1>2, <2>1 DEF Mailbox
  <2>3. rx' = [rx EXCEPT ![r] = m]
    BY <1>1
  <2> HIDE DEF m
  <2>4. QED
    BY <1>1, <1>2, <2>2, <2>3
<1>4. Len(rx[r].sent) - rx'[r].read \in 0 .. SubscriberCapacity
  BY <1>1, <1>2, <1>3 DEF QueueOf
<1>5. QED
  BY <1>1, <1>3, <1>4, ReadingGood

LEMMA DropGood ==
  ASSUME DemuxInv, NEW r \in Receivers, Drop(r)
  PROVE  DemuxInv'
<1>1. /\ r \in InUse
      /\ rx' = [rx EXCEPT ![r].open = FALSE, ![r].read = Len(rx[r].sent)]
      /\ UNCHANGED <<source_subscribers, channel_subscribers, global_subscribers, route,
                     routed, term>>
  BY DEF Drop
<1>2. /\ rx \in [InUse -> Mailbox] /\ Len(rx[r].sent) \in Nat /\ SubscriberCapacity \in Nat
  BY <1>1, DemuxNumbers DEF DemuxInv, DemuxShape
<1>3. /\ rx' \in [InUse -> Mailbox] /\ rx'[r].sent = rx[r].sent /\ ~rx'[r].open
      /\ rx'[r].read = Len(rx[r].sent) /\ \A q \in InUse : q # r => rx'[q] = rx[q]
  BY <1>1, <1>2 DEF Mailbox
<1>4. Len(rx[r].sent) - rx'[r].read \in 0 .. SubscriberCapacity
  BY <1>2, <1>3
<1>5. QED
  BY <1>1, <1>3, <1>4, ReadingGood

LEMMA CleanupGood ==
  ASSUME DemuxInv, Cleanup
  PROVE  DemuxInv'
<1>1. /\ Exclusive
      /\ source_subscribers' = [s \in Sources |-> OpenOr(source_subscribers[s])]
      /\ channel_subscribers' = [k \in Kinds |-> OpenOr(channel_subscribers[k])]
      /\ global_subscribers' = Retained(global_subscribers)
      /\ UNCHANGED <<rx, route, routed, term>>
  BY DEF Cleanup
<1>2. DemuxShape /\ Registered /\ InUse' = InUse
  BY <1>1 DEF DemuxInv, InUse
<1>3. global_subscribers \in Seq(InUse) /\ IsInjective(global_subscribers)
  BY <1>2 DEF DemuxShape, Registered
<1>4. /\ global_subscribers' \in Seq(InUse) /\ IsInjective(global_subscribers')
      /\ Range(global_subscribers') = {q \in Range(global_subscribers) : rx[q].open}
  BY <1>1, <1>3, RetainedFacts
<1>5. /\ source_subscribers \in [Sources -> InUse \cup {Nobody}]
      /\ channel_subscribers \in [Kinds -> InUse \cup {Nobody}]
      /\ Nobody \notin InUse
  BY DemuxerAssumption DEF DemuxInv, DemuxShape
<1>6. /\ source_subscribers' \in [Sources -> InUse' \cup {Nobody}]
      /\ channel_subscribers' \in [Kinds -> InUse' \cup {Nobody}]
      /\ \A s \in Sources : source_subscribers'[s] =
           IF source_subscribers[s] # Nobody /\ rx[source_subscribers[s]].open
           THEN source_subscribers[s] ELSE Nobody
      /\ \A k \in Kinds : channel_subscribers'[k] =
           IF channel_subscribers[k] # Nobody /\ rx[channel_subscribers[k]].open
           THEN channel_subscribers[k] ELSE Nobody
  BY <1>1, <1>2, <1>5 DEF OpenOr
<1>7. DemuxShape'
  BY <1>1, <1>2, <1>4, <1>6 DEF DemuxShape, QueueOf
<1>8. Registered'
  <2>1. ASSUME NEW q \in InUse, rx[q].open, term[q].until = -1
        PROVE  InPlace(q)'
    <3>1. InPlace(q) /\ term[q].filter \in Filters /\ q # Nobody
      BY <1>2, <1>5, <2>1, DemuxNumbers DEF Registered
    <3>2. /\ term[q].filter.by = "source" => term[q].filter.of \in Sources
          /\ term[q].filter.by = "kind" => term[q].filter.of \in Kinds
      BY <3>1, FilterKinds
    <3>3. QED
      BY <1>1, <1>4, <1>6, <2>1, <3>1, <3>2 DEF InPlace
  <2>2. /\ \A s \in Sources : source_subscribers'[s] # Nobody =>
             source_subscribers'[s] = source_subscribers[s]
        /\ \A k \in Kinds : channel_subscribers'[k] # Nobody =>
             channel_subscribers'[k] = channel_subscribers[k]
        /\ Range(global_subscribers') \subseteq Range(global_subscribers)
    BY <1>4, <1>6
  <2>3. QED
    BY <1>1, <1>2, <1>4, <2>1, <2>2 DEF Registered
<1>9. ASSUME NEW t \in Callers PROVE Going(t)' /\ CountsExactly(t)'
  <2>1. Going(t) /\ Going(t)' = Going(t)
    BY <1>1, <1>2 DEF Going, DemuxInv
  <2>2. CountsExactly(t)'
    BY <1>1, <1>2, CountsStay
  <2>3. QED
    BY <2>1, <2>2
<1>10. ASSUME NEW q \in InUse PROVE Served(q)'
  <2>1. OnTheWayTo(q)' = OnTheWayTo(q)
    BY <1>1 DEF OnTheWayTo
  <2>2. QED
    BY <1>1, <2>1, ServedStays
<1>11. QED
  BY <1>2, <1>7, <1>8, <1>9, <1>10 DEF DemuxInv

LEMMA KnownFacts ==
  ASSUME NEW S, NEW r \in S \cup {Nobody}
  PROVE  Known(r) \in Seq(S) /\ IsInjective(Known(r)) /\ Range(Known(r)) = {r} \ {Nobody}
<1>1. CASE r = Nobody
  <2>1. Known(r) = <<>>
    BY <1>1 DEF Known
  <2>2. <<>> \in Seq(S) /\ IsInjective(<<>>) /\ Range(<<>>) = {}
    BY DEF IsInjective, Range
  <2>3. QED
    BY <1>1, <2>1, <2>2
<1>2. CASE r # Nobody
  <2>1. Known(r) = <<r>> /\ r \in S
    BY <1>2 DEF Known
  <2>2. <<r>> \in Seq(S) /\ DOMAIN <<r>> = {1} /\ <<r>>[1] = r
    BY <2>1
  <2>3. QED
    BY <1>2, <2>1, <2>2 DEF IsInjective, Range
<1>3. QED
  BY <1>1, <1>2

(* Whom a frame goes to: to those in place of whom the filter lets it      *)
(* through, to each of them once.                                          *)
LEMMA SubscribersOfFacts ==
  ASSUME DemuxInv, NEW f \in RoutedFrame
  PROVE  /\ SubscribersOf(f) \in Seq(InUse) /\ IsInjective(SubscribersOf(f))
         /\ \A r \in Range(SubscribersOf(f)) :
              r \in InUse /\ term[r].until = -1 /\ Matches(f, term[r].filter)
         /\ \A r \in InUse : rx[r].open /\ term[r].until = -1 /\ Matches(f, term[r].filter) =>
              r \in Range(SubscribersOf(f))
<1> DEFINE s == source_subscribers[f.source]
           k == channel_subscribers[f.kind]
<1>1. DemuxShape /\ Registered /\ f.source \in Sources /\ f.kind \in Kinds
  BY DEF DemuxInv, RoutedFrame
<1>2. s \in InUse \cup {Nobody} /\ k \in InUse \cup {Nobody}
      /\ global_subscribers \in Seq(InUse) /\ Nobody \notin InUse
  BY <1>1, DemuxerAssumption DEF DemuxShape
<1>3. /\ s # Nobody => term[s].filter = [by |-> "source", of |-> f.source] /\ term[s].until = -1
      /\ k # Nobody => term[k].filter = [by |-> "kind", of |-> f.kind] /\ term[k].until = -1
      /\ \A r \in Range(global_subscribers) : term[r].filter = Everything /\ term[r].until = -1
      /\ IsInjective(global_subscribers)
  BY <1>1 DEF Registered
<1>4. /\ s # Nobody /\ k # Nobody => s # k
      /\ s # Nobody => s \notin Range(global_subscribers)
      /\ k # Nobody => k \notin Range(global_subscribers)
  BY <1>3 DEF Everything
<1>5. Range(global_subscribers) \subseteq InUse
  BY <1>2, SequenceRange
<1>6. SubscribersOf(f) = (Known(s) \o Known(k)) \o global_subscribers
  BY DEF SubscribersOf
<1>7. \A r : Matches(f, term[r].filter) <=>
        \/ term[r].filter.by = "all"
        \/ term[r].filter.by = "source" /\ term[r].filter.of = f.source
        \/ term[r].filter.by # "source" /\ term[r].filter.by # "all" /\ term[r].filter.of = f.kind
  BY DEF Matches
<1> HIDE DEF s, k
<1>8. /\ Known(s) \in Seq(InUse) /\ IsInjective(Known(s)) /\ Range(Known(s)) = {s} \ {Nobody}
      /\ Known(k) \in Seq(InUse) /\ IsInjective(Known(k)) /\ Range(Known(k)) = {k} \ {Nobody}
  BY <1>2, KnownFacts
<1> DEFINE h == Known(s) \o Known(k)
<1>9. h \in Seq(InUse) /\ IsInjective(h) /\ Range(h) = {s, k} \ {Nobody}
  <2>1. Range(Known(s)) \cap Range(Known(k)) = {}
    BY <1>4, <1>8
  <2>2. h \in Seq(InUse) /\ IsInjective(h) /\ Range(h) = Range(Known(s)) \cup Range(Known(k))
    BY <1>8, <2>1, ConcatKeepsApart
  <2> HIDE DEF h
  <2>3. QED
    BY <1>8, <2>2
<1>10. h \o global_subscribers = SubscribersOf(f)
  BY <1>6
<1> HIDE DEF h
<1>11. /\ SubscribersOf(f) \in Seq(InUse) /\ IsInjective(SubscribersOf(f))
       /\ Range(SubscribersOf(f)) = Range(h) \cup Range(global_subscribers)
  <2>1. Range(h) \cap Range(global_subscribers) = {}
    BY <1>4, <1>9
  <2>2. /\ h \o global_subscribers \in Seq(InUse) /\ IsInjective(h \o global_subscribers)
        /\ Range(h \o global_subscribers) = Range(h) \cup Range(global_subscribers)
    BY <1>2, <1>3, <1>9, <2>1, ConcatKeepsApart
  <2>3. QED
    BY <1>10, <2>2
<1>12. ASSUME NEW r \in Range(SubscribersOf(f))
       PROVE  r \in InUse /\ term[r].until = -1 /\ Matches(f, term[r].filter)
  <2>1. CASE r = s /\ s # Nobody
    BY <1>2, <1>3, <1>7, <2>1
  <2>2. CASE r = k /\ k # Nobody
    BY <1>2, <1>3, <1>7, <2>2
  <2>3. CASE r \in Range(global_subscribers)
    BY <1>3, <1>5, <1>7, <2>3 DEF Everything
  <2>4. QED
    BY <1>9, <1>11, <1>12, <2>1, <2>2, <2>3
<1>13. ASSUME NEW r \in InUse, rx[r].open, term[r].until = -1, Matches(f, term[r].filter)
       PROVE  r \in Range(SubscribersOf(f))
  <2>1. InPlace(r) /\ term[r].filter \in Filters /\ r # Nobody
    BY <1>1, <1>2, <1>13, DemuxNumbers DEF Registered
  <2>2. CASE term[r].filter.by = "source"
    <3>1. term[r].filter.of = f.source
      BY <1>7, <1>13, <2>2
    <3>2. s = r
      BY <2>1, <2>2, <3>1 DEF InPlace, s
    <3>3. QED
      BY <1>9, <1>11, <2>1, <3>2
  <2>3. CASE term[r].filter.by = "kind"
    <3>1. term[r].filter.of = f.kind
      BY <1>7, <1>13, <2>3
    <3>2. k = r
      BY <2>1, <2>3, <3>1 DEF InPlace, k
    <3>3. QED
      BY <1>9, <1>11, <2>1, <3>2
  <2>4. CASE term[r].filter.by = "all"
    BY <1>11, <2>1, <2>4 DEF InPlace
  <2>5. QED
    BY <2>1, <2>2, <2>3, <2>4, FilterKinds
<1>14. QED
  BY <1>11, <1>12, <1>13

LEMMA RouteGood ==
  ASSUME DemuxInv, NEW t \in Callers, NEW s \in Sources, NEW k \in Kinds, Route(t, s, k)
  PROVE  DemuxInv'
<1> DEFINE f == [source |-> s, kind |-> k, by |-> t]
           N == Len(routed) + 1
           turn == [frame |-> N, count |-> 0, todo |-> SubscribersOf(f), active |-> TRUE]
<1>1. /\ ~route[t].active /\ Len(routed) < MaxRouted
      /\ routed' = Append(routed, f)
      /\ route' = [route EXCEPT ![t] = [frame |-> Len(routed'), count |-> 0,
                                        todo |-> SubscribersOf(f), active |-> TRUE]]
      /\ UNCHANGED <<source_subscribers, channel_subscribers, global_subscribers, rx, term>>
  BY DEF Route
<1>2. DemuxShape /\ Registered /\ InUse' = InUse
  BY <1>1 DEF DemuxInv, InUse
<1>3. /\ Len(routed) \in Nat /\ DOMAIN routed = 1 .. Len(routed) /\ MaxRouted \in Nat
      /\ routed \in Seq(RoutedFrame) /\ route \in [Callers -> Turn] /\ InUse \subseteq Receivers
  BY <1>2, DemuxNumbers DEF DemuxShape
<1>4. f \in RoutedFrame /\ f.by = t
  BY DEF RoutedFrame
<1>5. /\ SubscribersOf(f) \in Seq(InUse) /\ IsInjective(SubscribersOf(f))
      /\ Range(SubscribersOf(f)) \subseteq InUse
      /\ \A r \in Range(SubscribersOf(f)) : term[r].until = -1 /\ Matches(f, term[r].filter)
      /\ \A r \in InUse : rx[r].open /\ term[r].until = -1 /\ Matches(f, term[r].filter) =>
           r \in Range(SubscribersOf(f))
  BY <1>4, SubscribersOfFacts
<1>6. SubscribersOf(f) \in Seq(Receivers)
  BY <1>3, <1>5, SeqMonotonic
<1> HIDE DEF f
<1>7. /\ routed' \in Seq(RoutedFrame) /\ Len(routed') = N /\ routed'[N] = f
      /\ \A n \in 1 .. Len(routed) : routed'[n] = routed[n]
  BY <1>1, <1>3, <1>4, AppendProperties
<1>8. DOMAIN routed' = 1 .. N
  BY <1>7, SequenceRange
<1>9. N \in Nat /\ N > Len(routed) /\ N <= MaxRouted
      /\ DOMAIN routed' = DOMAIN routed \cup {N} /\ N \notin DOMAIN routed
      /\ \A n \in DOMAIN routed : routed'[n] = routed[n] /\ n < N
  BY <1>1, <1>3, <1>7, <1>8
<1>10. turn \in Turn
  BY <1>6, <1>9 DEF Turn
<1>11. route' = [route EXCEPT ![t] = turn]
  BY <1>1, <1>7
<1>12. /\ route' \in [Callers -> Turn] /\ route'[t] = turn
       /\ \A u \in Callers : u # t => route'[u] = route[u]
  BY <1>3, <1>10, <1>11
<1>13. /\ route'[t].frame = N /\ route'[t].count = 0 /\ route'[t].active
       /\ route'[t].todo = SubscribersOf(f)
  BY <1>12
<1> HIDE DEF N, turn
<1>14. DemuxShape'
  BY <1>1, <1>2, <1>7, <1>9, <1>12 DEF DemuxShape, QueueOf
<1>15. Registered'
  BY <1>1, <1>2, RegisteredStays
<1>16. ASSUME NEW u \in Callers PROVE Going(u)' /\ CountsExactly(u)'
  <2>1. CASE u = t
    <3>1. \A n \in DOMAIN routed' : n <= N
      BY <1>9, <1>3
    <3>2. Going(t)'
      BY <1>2, <1>4, <1>5, <1>7, <1>9, <1>13, <3>1 DEF Going
    <3>3. Holders(rx', N) = {}
      <4>1. \A r \in InUse : N \notin Range(rx[r].sent)
        BY <1>9 DEF DemuxInv, Served
      <4>2. QED
        BY <1>1, <4>1 DEF Holders, InUse
    <3>4. Cardinality({}) = 0
      BY FS_EmptySet
    <3>5. QED
      BY <1>13, <2>1, <3>2, <3>3, <3>4 DEF CountsExactly
  <2>2. CASE u # t
    <3>1. Going(u) /\ CountsExactly(u) /\ route'[u] = route[u]
      BY <1>12, <2>2 DEF DemuxInv
    <3>2. Going(u)'
      BY <1>2, <1>4, <1>7, <1>9, <2>2, <3>1 DEF Going
    <3>3. Holders(rx', route[u].frame) = Holders(rx, route[u].frame)
      BY <1>1
    <3>4. QED
      BY <3>1, <3>2, <3>3 DEF CountsExactly
  <2>3. QED
    BY <2>1, <2>2
<1>17. ASSUME NEW r \in InUse PROVE Served(r)'
  <2>1. Served(r) /\ term[r].since \in Nat /\ term[r].until \in Int
    BY <1>2, DemuxNumbers DEF DemuxInv
  <2>2. Range(rx[r].sent) \subseteq DOMAIN routed
    BY <2>1 DEF Served
  <2>3. ASSUME rx[r].open
        PROVE  /\ Owed(r)' = Range(rx[r].sent) \cup OnTheWayTo(r)'
               /\ Range(rx[r].sent) \cap OnTheWayTo(r)' = {}
               /\ InTheOrderOfCalls(rx[r].sent, routed')
    <3>1. /\ Owed(r) = Range(rx[r].sent) \cup OnTheWayTo(r)
          /\ Range(rx[r].sent) \cap OnTheWayTo(r) = {}
          /\ InTheOrderOfCalls(rx[r].sent, routed)
      BY <2>1, <2>3 DEF Served
    <3>2. \A n : n \in OnTheWayTo(r)' <=>
            n \in OnTheWayTo(r) \/ (n = N /\ r \in Range(SubscribersOf(f)))
      BY <1>1, <1>12, <1>13, RoutingTo, RoutingToNext
    <3>3. term[r].since <= Len(routed) /\ term[r].until <= Len(routed)
      BY <2>1 DEF Served
    <3>4. /\ term[r].since < N
          /\ (term[r].until = -1 \/ N <= term[r].until) <=> term[r].until = -1
      BY <1>3, <1>9, <2>1, <3>3
    <3>5. N \in Owed(r)' <=> r \in Range(SubscribersOf(f))
      BY <1>1, <1>5, <1>7, <1>9, <2>3, <3>4 DEF Owed
    <3>6. \A n \in DOMAIN routed : n \in Owed(r)' <=> n \in Owed(r)
      BY <1>1, <1>9 DEF Owed
    <3>7. \A n : n \in Owed(r)' => n \in DOMAIN routed \/ n = N
      BY <1>9 DEF Owed
    <3>8. Owed(r) \subseteq DOMAIN routed
      BY DEF Owed
    <3>9. Owed(r)' = Range(rx[r].sent) \cup OnTheWayTo(r)'
      BY <3>1, <3>2, <3>5, <3>6, <3>7, <3>8
    <3>10. Range(rx[r].sent) \cap OnTheWayTo(r)' = {}
      BY <1>9, <2>2, <3>1, <3>2
    <3>11. \A i \in DOMAIN rx[r].sent : rx[r].sent[i] \in DOMAIN routed
      BY <2>2 DEF Range
    <3>12. InTheOrderOfCalls(rx[r].sent, routed')
      BY <1>9, <3>1, <3>11 DEF InTheOrderOfCalls
    <3>13. QED
      BY <3>9, <3>10, <3>12
  <2>4. term[r].since <= N /\ term[r].until <= N
    BY <1>3, <1>9, <2>1 DEF Served
  <2>5. QED
    BY <1>1, <1>7, <1>9, <2>2, <2>3, <2>4 DEF Served
<1>18. QED
  BY <1>2, <1>14, <1>15, <1>16, <1>17 DEF DemuxInv

LEMMA SendNextGood ==
  ASSUME DemuxInv, NEW t \in Callers, SendNext(t)
  PROVE  DemuxInv'
<1>0. SUFFICES ASSUME NEW r, r = Head(route[t].todo), NEW n, n = route[t].frame,
                      NEW p, p = Tail(route[t].todo), NEW sent, sent = Append(rx[r].sent, n)
               PROVE  DemuxInv'
  OBVIOUS
<1>1. /\ route[t].frame = n /\ route[t].active /\ route[t].todo # <<>> /\ rx[r].open
      /\ QueueOf(r) < SubscriberCapacity
      /\ rx' = [rx EXCEPT ![r].sent = sent]
      /\ route' = [route EXCEPT ![t].todo = p, ![t].count = @ + 1]
      /\ UNCHANGED <<source_subscribers, channel_subscribers, global_subscribers, routed,
                     term>>
  BY <1>0 DEF SendNext
<1>2. /\ DemuxShape /\ Registered /\ \A u \in Callers : Going(u) /\ CountsExactly(u)
      /\ \A q \in InUse : Served(q)
  BY DEF DemuxInv
<1>3. /\ rx \in [InUse -> Mailbox] /\ route \in [Callers -> Turn] /\ IsFiniteSet(InUse)
      /\ \A q \in InUse : QueueOf(q) \in 0 .. SubscriberCapacity
  BY <1>2 DEF DemuxShape
<1>4. /\ route[t].todo \in Seq(Receivers) /\ IsInjective(route[t].todo)
      /\ Range(route[t].todo) \subseteq InUse /\ n \in DOMAIN routed /\ routed[n].by = t
      /\ \A m \in DOMAIN routed : routed[m].by = t => m <= n
      /\ n \in Nat /\ route[t].count \in Nat
  BY <1>1, <1>2, DemuxNumbers DEF Going
<1>5. /\ Range(p) = Range(route[t].todo) \ {r} /\ IsInjective(p) /\ p \in Seq(Receivers)
      /\ r \in Range(route[t].todo)
  BY <1>0, <1>1, <1>4, TailKeepsApart
<1>6. r \in InUse
  BY <1>4, <1>5
<1>7. /\ rx[r] \in Mailbox /\ rx[r].sent \in Seq(Nat) /\ Len(rx[r].sent) \in Nat
      /\ rx[r].read \in Nat /\ DOMAIN rx[r].sent = 1 .. Len(rx[r].sent)
      /\ SubscriberCapacity \in Nat /\ DOMAIN routed = 1 .. Len(routed) /\ Len(routed) \in Nat
  BY <1>2, <1>3, <1>6, DemuxNumbers
<1>8. /\ sent \in Seq(Nat) /\ Len(sent) = Len(rx[r].sent) + 1
      /\ \A i \in 1 .. Len(rx[r].sent) : sent[i] = rx[r].sent[i]
      /\ sent[Len(rx[r].sent) + 1] = n
      /\ Range(sent) = Range(rx[r].sent) \cup {n}
  <2> DEFINE b == rx[r].sent
  <2>1. b \in Seq(Nat) /\ n \in Nat /\ sent = Append(b, n)
    BY <1>0, <1>4, <1>7
  <2> HIDE DEF b
  <2>2. /\ sent \in Seq(Nat) /\ Len(sent) = Len(b) + 1
        /\ \A i \in 1 .. Len(b) : sent[i] = b[i]
        /\ sent[Len(b) + 1] = n
    BY <2>1, AppendProperties
  <2>3. Range(sent) = Range(b) \cup {n}
    BY <2>1, AppendKeepsApart
  <2>4. QED
    BY <2>2, <2>3 DEF b
<1>9. /\ route' \in [Callers -> Turn]
      /\ route'[t].frame = n /\ route'[t].count = route[t].count + 1
      /\ route'[t].active /\ route'[t].todo = p
      /\ \A u \in Callers : u # t => route'[u] = route[u]
  <2> DEFINE half == [route[t] EXCEPT !.todo = p]
             turn == [half EXCEPT !.count = @ + 1]
  <2>1. /\ half \in Turn /\ half.frame = n /\ half.count = route[t].count
        /\ half.active /\ half.todo = p
    <3>1. route[t] \in Turn
      BY <1>3
    <3>2. QED
      BY <1>1, <1>5, <3>1 DEF Turn
  <2>2. route' = [route EXCEPT ![t] = turn]
    BY <1>1
  <2>3. route[t].count \in Nat
    BY <1>4
  <2> HIDE DEF half
  <2>4. /\ turn \in Turn /\ turn.frame = n /\ turn.count = route[t].count + 1
        /\ turn.active /\ turn.todo = p
    BY <2>1, <2>3 DEF Turn
  <2> HIDE DEF turn
  <2>5. QED
    BY <1>3, <2>2, <2>4
<1>10. /\ rx' \in [InUse -> Mailbox] /\ rx'[r].sent = sent /\ rx'[r].read = rx[r].read
       /\ rx'[r].open /\ \A q \in InUse : q # r => rx'[q] = rx[q]
  <2> DEFINE box == [rx[r] EXCEPT !.sent = sent]
  <2>1. /\ box \in Mailbox /\ box.sent = sent /\ box.read = rx[r].read /\ box.open
    BY <1>1, <1>7, <1>8 DEF Mailbox
  <2>2. rx' = [rx EXCEPT ![r] = box]
    BY <1>1
  <2> HIDE DEF box
  <2>3. QED
    BY <1>3, <1>6, <2>1, <2>2
<1>11. InUse' = InUse
  BY <1>10 DEF InUse
<1>12. \A q \in InUse : QueueOf(q)' \in 0 .. SubscriberCapacity
  <2>1. QueueOf(r)' = QueueOf(r) + 1
    <3> DEFINE d == Len(rx[r].sent)
               e == rx[r].read
    <3>1. QueueOf(r)' = Len(sent) - e /\ QueueOf(r) = d - e
      BY <1>10 DEF QueueOf
    <3>2. Len(sent) = d + 1 /\ d \in Nat /\ e \in Nat
      BY <1>7, <1>8
    <3> HIDE DEF d, e
    <3>3. QED
      BY <3>1, <3>2
  <2>2. QueueOf(r)' \in 0 .. SubscriberCapacity
    BY <1>1, <1>3, <1>6, <1>7, <2>1
  <2>3. \A q \in InUse : q # r => QueueOf(q)' = QueueOf(q)
    BY <1>10 DEF QueueOf
  <2>4. QED
    BY <1>3, <2>2, <2>3
<1>13. DemuxShape'
  BY <1>1, <1>2, <1>9, <1>10, <1>11, <1>12 DEF DemuxShape
<1>14. Registered'
  BY <1>1, <1>2, <1>6, <1>10, <1>11, RegisteredStays
<1>15. n \in OnTheWayTo(r)
  BY <1>1, <1>5, RoutingTo
<1>16. \A u \in Callers : u # t /\ route[u].active => route[u].frame # n
  BY <1>2, <1>4 DEF Going
<1>17. /\ Owed(r) = Range(rx[r].sent) \cup OnTheWayTo(r)
       /\ Range(rx[r].sent) \cap OnTheWayTo(r) = {}
       /\ InTheOrderOfCalls(rx[r].sent, routed)
       /\ Range(rx[r].sent) \subseteq DOMAIN routed
  BY <1>1, <1>2, <1>6 DEF Served
<1>18. ASSUME NEW u \in Callers PROVE Going(u)' /\ CountsExactly(u)'
  <2>1. \A q \in InUse : q # r => rx'[q].sent = rx[q].sent
    BY <1>10
  <2>2. CASE u = t
    <3>1. Going(t)'
      BY <1>1, <1>4, <1>5, <1>9, <1>11 DEF Going
    <3>2. route[t].count = Cardinality(Holders(rx, n))
      BY <1>1, <1>2 DEF CountsExactly
    <3>3. Holders(rx', n) = Holders(rx, n) \cup {r} /\ r \notin Holders(rx, n)
      <4>1. \A q : q \in Holders(rx', n) <=> q \in InUse /\ n \in Range(rx'[q].sent)
        BY <1>11 DEF Holders, InUse
      <4>2. \A q : q \in Holders(rx, n) <=> q \in InUse /\ n \in Range(rx[q].sent)
        BY DEF Holders, InUse
      <4>3. n \in Range(rx'[r].sent) /\ n \notin Range(rx[r].sent)
        BY <1>8, <1>10, <1>15, <1>17
      <4>4. QED
        BY <1>6, <2>1, <4>1, <4>2, <4>3
    <3>4. IsFiniteSet(Holders(rx, n))
      <4>1. Holders(rx, n) \subseteq InUse
        BY DEF Holders, InUse
      <4>2. QED
        BY <1>3, <4>1, FS_Subset
    <3>5. Cardinality(Holders(rx', n)) = Cardinality(Holders(rx, n)) + 1
      BY <3>3, <3>4, FS_AddElement
    <3>6. QED
      BY <1>9, <2>2, <3>1, <3>2, <3>5 DEF CountsExactly
  <2>3. CASE u # t
    <3>1. Going(u) /\ CountsExactly(u) /\ route'[u] = route[u]
      BY <1>2, <1>9, <2>3
    <3>2. Going(u)'
      BY <1>1, <1>11, <3>1 DEF Going
    <3>3. ASSUME route[u].active PROVE Holders(rx', route[u].frame) = Holders(rx, route[u].frame)
      <4>1. route[u].frame # n
        BY <1>16, <2>3, <3>3
      <4>2. \A q \in InUse : route[u].frame \in Range(rx'[q].sent)
                               <=> route[u].frame \in Range(rx[q].sent)
        BY <1>8, <1>10, <2>1, <4>1
      <4>3. QED
        BY <1>11, <4>2 DEF Holders, InUse
    <3>4. QED
      BY <3>1, <3>2, <3>3 DEF CountsExactly
  <2>4. QED
    BY <2>2, <2>3
<1>19. Served(r)'
  <2>1. \A m : m \in OnTheWayTo(r)' <=> m \in OnTheWayTo(r) /\ m # n
    <3>1. r \notin Range(p)
      BY <1>5
    <3>2. QED
      BY <1>1, <1>9, <1>16, <3>1, RoutingTo, RoutingToNext
  <2>2. Owed(r)' = Owed(r)
    BY <1>1 DEF Owed
  <2>3. /\ Owed(r)' = Range(sent) \cup OnTheWayTo(r)'
        /\ Range(sent) \cap OnTheWayTo(r)' = {}
    BY <1>8, <1>15, <1>17, <2>1, <2>2
  <2>4. InTheOrderOfCalls(sent, routed)
    <3> DEFINE d == Len(rx[r].sent)
    <3>1. DOMAIN sent = 1 .. d + 1 /\ DOMAIN rx[r].sent = 1 .. d /\ d \in Nat
      BY <1>7, <1>8, SequenceRange
    <3>2. /\ \A i \in 1 .. d : sent[i] = rx[r].sent[i] /\ sent[i] \in DOMAIN routed
                               /\ sent[i] # n
          /\ sent[d + 1] = n
      BY <1>8, <1>15, <1>17, <3>1 DEF Range
    <3>3. \A i, j \in 1 .. d : i < j =>
            IF routed[sent[i]].by = routed[sent[j]].by
            THEN sent[i] < sent[j] ELSE sent[i] # sent[j]
      <4>1. \A i, j \in 1 .. d : i < j =>
              IF routed[rx[r].sent[i]].by = routed[rx[r].sent[j]].by
              THEN rx[r].sent[i] < rx[r].sent[j] ELSE rx[r].sent[i] # rx[r].sent[j]
        BY <1>17, <3>1 DEF InTheOrderOfCalls
      <4> HIDE DEF d
      <4>2. QED
        BY <3>2, <4>1
    <3>4. ASSUME NEW i \in 1 .. d, routed[sent[i]].by = t PROVE sent[i] < n
      <4>1. sent[i] \in DOMAIN routed /\ sent[i] <= n /\ sent[i] # n
        BY <1>4, <3>2, <3>4
      <4>2. sent[i] \in Nat
        BY <1>7, <4>1
      <4>3. QED
        BY <1>4, <4>1, <4>2
    <3> HIDE DEF d
    <3>5. ASSUME NEW i \in 1 .. d + 1, NEW j \in 1 .. d + 1, i < j
          PROVE  IF routed[sent[i]].by = routed[sent[j]].by
                 THEN sent[i] < sent[j] ELSE sent[i] # sent[j]
      <4>1. i \in 1 .. d /\ (j \in 1 .. d \/ j = d + 1)
        BY <3>1, <3>5
      <4>2. CASE j \in 1 .. d
        BY <3>3, <3>5, <4>1, <4>2
      <4>3. CASE j = d + 1
        <5>1. sent[j] = n /\ sent[i] # n
          BY <3>2, <4>1, <4>3
        <5>2. QED
          BY <1>4, <3>4, <4>1, <5>1
      <4>4. QED
        BY <4>1, <4>2, <4>3
    <3>6. QED
      BY <3>1, <3>5 DEF InTheOrderOfCalls
  <2>5. Range(sent) \subseteq DOMAIN routed
    BY <1>4, <1>8, <1>17
  <2>6. term[r].since <= Len(routed) /\ term[r].until <= Len(routed)
    BY <1>2, <1>6 DEF Served
  <2>7. QED
    BY <1>1, <1>10, <2>3, <2>4, <2>5, <2>6 DEF Served
<1>20. ASSUME NEW q \in InUse, q # r PROVE Served(q)'
  <2>1. q \in Range(p) <=> q \in Range(route[t].todo)
    BY <1>5, <1>20
  <2>2. \A m : m \in OnTheWayTo(q)' <=> m \in OnTheWayTo(q)
    BY <1>1, <1>9, <2>1, RoutingTo, RoutingToNext
  <2>3. OnTheWayTo(q)' = OnTheWayTo(q)
    BY <2>2
  <2>4. rx'[q] = rx[q]
    BY <1>10, <1>20
  <2>5. QED
    BY <1>1, <2>3, <2>4, ServedStays
<1>21. QED
  BY <1>11, <1>13, <1>14, <1>18, <1>19, <1>20 DEF DemuxInv

LEMMA DemuxBegins == DemuxInit => DemuxInv
<1> SUFFICES ASSUME DemuxInit PROVE DemuxInv
  OBVIOUS
<1>1. /\ source_subscribers = [s \in Sources |-> Nobody]
      /\ channel_subscribers = [k \in Kinds |-> Nobody]
      /\ global_subscribers = <<>> /\ rx = <<>> /\ term = <<>>
      /\ route = [t \in Callers |-> NoRoute] /\ routed = <<>>
  BY DEF DemuxInit
<1>2. InUse = {}
  BY <1>1 DEF InUse
<1>3. Range(<<>>) = {} /\ IsInjective(<<>>) /\ IsFiniteSet({})
  BY FS_EmptySet DEF Range, IsInjective
<1>4. \A t \in Callers : ~route[t].active /\ route[t].todo = <<>> /\ route[t] \in Turn
  BY <1>1 DEF NoRoute, Turn
<1>5. DemuxShape
  <2>1. rx \in [InUse -> Mailbox] /\ term \in [InUse -> Term]
    BY <1>1, <1>2
  <2>2. routed \in Seq(RoutedFrame) /\ Len(routed) <= MaxRouted
    BY <1>1, DemuxerAssumption
  <2>3. route \in [Callers -> Turn]
    BY <1>1, <1>4
  <2>4. global_subscribers \in Seq(InUse)
    BY <1>1
  <2>5. QED
    BY <1>1, <1>2, <1>3, <2>1, <2>2, <2>3, <2>4 DEF DemuxShape
<1>6. Registered
  BY <1>1, <1>2, <1>3 DEF Registered
<1>7. QED
  BY <1>2, <1>4, <1>5, <1>6 DEF DemuxInv, Going, CountsExactly

LEMMA DemuxSteps == DemuxInv /\ [DemuxNext]_demuxerVars => DemuxInv'
<1> SUFFICES ASSUME DemuxInv, [DemuxNext]_demuxerVars PROVE DemuxInv'
  OBVIOUS
<1>1. CASE \E s \in Sources : SubscribeSource(s)
  BY <1>1, SubscribeSourceGood
<1>2. CASE \E k \in Kinds : SubscribeChannel(k)
  BY <1>2, SubscribeChannelGood
<1>3. CASE SubscribeAll
  BY <1>3, SubscribeAllGood
<1>4. CASE \E t \in Callers, s \in Sources, k \in Kinds : Route(t, s, k)
  BY <1>4, RouteGood
<1>5. CASE \E t \in Callers : SendNext(t) \/ SkipNext(t) \/ Return(t)
  BY <1>5, SendNextGood, SkipNextGood, ReturnGood
<1>6. CASE Cleanup
  BY <1>6, CleanupGood
<1>7. CASE \E r \in Receivers : TakeFrame(r) \/ Drop(r)
  BY <1>7, TakeFrameGood, DropGood
<1>8. CASE UNCHANGED demuxerVars
  <2>1. /\ UNCHANGED <<source_subscribers, channel_subscribers, global_subscribers, term>>
        /\ rx' = rx /\ route' = route /\ routed' = routed
    BY <1>8 DEF demuxerVars
  <2>2. DemuxShape' /\ InUse' = InUse /\ DemuxShape /\ Registered
    BY <2>1 DEF DemuxInv, DemuxShape, QueueOf, InUse
  <2>3. Registered'
    BY <2>1, <2>2, RegisteredStays
  <2>4. \A t \in Callers : Going(t)' /\ CountsExactly(t)'
    BY <2>1, <2>2, CountsStay DEF Going, DemuxInv
  <2>5. ASSUME NEW r \in InUse PROVE Served(r)'
    <3>1. OnTheWayTo(r)' = OnTheWayTo(r)
      BY <2>1 DEF OnTheWayTo
    <3>2. QED
      BY <2>1, <3>1, ServedStays
  <2>6. QED
    BY <2>2, <2>3, <2>4, <2>5 DEF DemuxInv
<1>9. QED
  BY <1>1, <1>2, <1>3, <1>4, <1>5, <1>6, <1>7, <1>8 DEF DemuxNext

LEMMA DemuxShows == DemuxInv => SubscribersExact
<1> SUFFICES ASSUME DemuxInv PROVE SubscribersExact
  OBVIOUS
<1>1. DemuxShape /\ \A r \in InUse : Served(r)
  BY DEF DemuxInv
<1>2. DemuxTypeOK
  BY <1>1, DemuxNumbers DEF DemuxShape, DemuxTypeOK
<1>3. SubscribersGetTheirs
  <2>1. ASSUME NEW r \in InUse, rx[r].open
        PROVE  ToSet(rx[r].sent) = Owed(r) \ OnTheWayTo(r)
    <3>1. /\ Owed(r) = Range(rx[r].sent) \cup OnTheWayTo(r)
          /\ Range(rx[r].sent) \cap OnTheWayTo(r) = {}
      BY <1>1, <2>1 DEF Served
    <3>2. ToSet(rx[r].sent) = Range(rx[r].sent)
      BY DEF ToSet, Range
    <3>3. QED
      BY <3>1, <3>2
  <2>2. ASSUME NEW r \in InUse, rx[r].open PROVE InTheOrderOfCalls(rx[r].sent, routed)
    BY <1>1, <2>2 DEF Served
  <2>3. QED
    BY <2>1, <2>2 DEF SubscribersGetTheirs, InTheOrderOfCalls
<1>4. CountsReceivers
  <2>1. ASSUME NEW t \in Callers, route[t].active
        PROVE  route[t].count =
                 Cardinality({r \in InUse : Contains(rx[r].sent, route[t].frame)})
    <3>1. route[t].count = Cardinality(Holders(rx, route[t].frame))
      BY <2>1 DEF DemuxInv, CountsExactly
    <3>2. \A r \in InUse : Contains(rx[r].sent, route[t].frame)
                             <=> route[t].frame \in Range(rx[r].sent)
      <4>1. \A r \in InUse : DOMAIN rx[r].sent = 1 .. Len(rx[r].sent)
        BY <1>1, DemuxNumbers
      <4>2. QED
        BY <4>1 DEF Contains, Range
    <3>3. Holders(rx, route[t].frame) = {r \in InUse : Contains(rx[r].sent, route[t].frame)}
      BY <3>2 DEF Holders, InUse
    <3>4. QED
      BY <3>1, <3>3
  <2>2. QED
    BY <2>1 DEF CountsReceivers
<1>5. QED
  BY <1>2, <1>3, <1>4 DEF SubscribersExact

(* A subscriber that is still there has got, once each and in the order of *)
(* each caller's calls, the frames it is owed but for those under way, and *)
(* route counts exactly the subscribers that have its frame, whatever is   *)
(* subscribed, replaced, dropped and cleaned up around it                  *)
(* (demuxer.rs:34-91).                                                     *)
THEOREM EverySubscriberIsServed == DemuxSpec => []SubscribersExact
<1>1. DemuxInit => DemuxInv
  BY DemuxBegins
<1>2. DemuxInv /\ [DemuxNext]_demuxerVars => DemuxInv'
  BY DemuxSteps
<1>3. DemuxInv => SubscribersExact
  BY DemuxShows
<1>4. QED
  BY <1>1, <1>2, <1>3, PTL DEF DemuxSpec
===============================================================================
