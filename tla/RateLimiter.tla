------------------------------ MODULE RateLimiter ------------------------------
(***************************************************************************)
(* The limits on one camera's frames, crates/kodama/src/server/            *)
(* rate_limit.rs, as operators on the value of a ConnectionRateLimiter.    *)
(*                                                                         *)
(* Only the handler of the connection touches its limiter, so the loads    *)
(* and stores of one call are one step and the CAS of record never fails.  *)
(* Times are ticks since the limiter's epoch; should_log_drop only decides *)
(* what is logged and is left out.                                         *)
(***************************************************************************)
EXTENDS Integers

CONSTANTS
  Channels,        \* video, audio, telemetry and the rest
  Fps,             \* per channel, the frames of a window
  Second,          \* ticks of a window: 1000 ms in the code
  MemoryBudget,    \* outstanding bytes
  AbuseThreshold   \* abuse_threshold_secs

ASSUME LimiterAssumption ==
  /\ Fps \in [Channels -> Nat]
  /\ Second \in Nat \ {0} /\ AbuseThreshold \in Nat \ {0}
  /\ MemoryBudget \in Nat

NoSecond == -1   \* u64::MAX

Window == [count : Nat, start : Nat]

NewLimiter ==
  [windows |-> [ch \in Channels |-> [count |-> 0, start |-> 0]],
   bytes_outstanding |-> 0, total_dropped |-> 0,
   abuse_seconds |-> 0, last_drop_second |-> NoSecond]

\* Mutant: a new window forgets the frame that opens it.
RecordForgets(w, now) ==
  IF now - w.start >= Second THEN [count |-> 0, start |-> now]
  ELSE [w EXCEPT !.count = @ + 1]

\* record: the window of a channel after a frame at time now.
Record(w, now) ==
  IF now - w.start >= Second THEN [count |-> 1, start |-> now]
  ELSE [w EXCEPT !.count = @ + 1]

OverBudget(l, len) == l.bytes_outstanding + len > MemoryBudget

\* A frame that is over the budget does not reach its channel's window.
Recorded(l, ch, len, now) ==
  IF OverBudget(l, len) THEN l ELSE [l EXCEPT !.windows[ch] = Record(@, now)]

Drops(l, ch, len, now) ==
  OverBudget(l, len) \/ Recorded(l, ch, len, now).windows[ch].count > Fps[ch]

\* check_frame: the limiter after a frame that Drops or lets pass.
CheckFrame(l, ch, len, now) ==
  LET r == Recorded(l, ch, len, now)
  IN IF Drops(l, ch, len, now)
       THEN [r EXCEPT !.total_dropped = @ + 1, !.last_drop_second = now \div Second]
       ELSE [r EXCEPT !.bytes_outstanding = @ + len]

\* frame_sent, with its guard against underflow.
FrameSent(l, len) ==
  [l EXCEPT !.bytes_outstanding = IF @ < len THEN 0 ELSE @ - len]

\* Whether a check of abuse sees a drop in this second or the one before.
DroppedRecently(l, now) ==
  l.last_drop_second \in
    {now \div Second, IF now < Second THEN 0 ELSE now \div Second - 1}

\* Mutant: good behaviour is not rewarded.
AbuseAfterSticky(l, now) ==
  IF DroppedRecently(l, now) THEN l.abuse_seconds + 1 ELSE l.abuse_seconds

\* tick_abuse_check: the counter of seconds, which counts the calls.
AbuseAfter(l, now) == IF DroppedRecently(l, now) THEN l.abuse_seconds + 1 ELSE 0

Abusive(l, now) == DroppedRecently(l, now) /\ AbuseAfter(l, now) >= AbuseThreshold
===============================================================================
