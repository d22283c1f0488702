--------------------------- MODULE BitrateControl ---------------------------
(***************************************************************************)
(* Adaptive bitrate: the controller of a session (abr.rs), the channel of  *)
(* commands to the task that owns the encoder (camera.rs:233-248) and the  *)
(* encoder process that is restarted for every new bitrate (video.rs).     *)
(*                                                                         *)
(* Time is counted in seconds.  The instants the code keeps are ages that  *)
(* stop growing once they are old enough to matter.  A session evaluates   *)
(* at most once a second, and only when it has sent a frame.  The measured *)
(* throughput is any rate up to what the link carries: the encoder's rate  *)
(* is variable, and the tracker reports 0 while it has too few samples.    *)
(***************************************************************************)
EXTENDS Integers, Sequences, SequencesExt

CONSTANTS Measured,        \* throughputs, in units of 10 kbit/s
          DowngradeAfter, UpgradeAfter, Cooldown,   \* AbrConfig, in seconds
          QueueCap,        \* capacity of the channel of commands: 4
          RestartTime,     \* most seconds a restart of the encoder takes
          MaxSessions,     \* bound: sessions
          MaxFailures      \* bound: restarts that fail

ASSUME BitrateAssumption ==
  /\ 0 \in Measured /\ Measured \subseteq Nat
  /\ {DowngradeAfter, UpgradeAfter, Cooldown, QueueCap, RestartTime, MaxSessions,
      MaxFailures} \subseteq Nat

VARIABLES
  link,                     \* what the link carries
  sessions, connected,      \* sessions so far; one is streaming
  tier, changed,            \* current_tier, age of last_change
  downSince, upSince,       \* ages of the two pressures, None without one
  evaluated,                \* this second's evaluation is done
  commands,                 \* the channel to the task of the encoder
  bitrate, running,         \* its configuration, and whether a process runs
  restarting,               \* None, or for how long a restart has been going on
  failures,
  sinceGood, sinceBad       \* history: ages of the last evaluation that spoke
                            \* against a downgrade and against an upgrade

session == <<sessions, connected>>
abr     == <<tier, changed, downSince, upSince>>
encoder == <<bitrate, running, restarting, failures>>
history == <<sinceGood, sinceBad>>
vars    == <<link, session, abr, evaluated, commands, encoder, history>>

None == -1

Tiers   == 1 .. 4         \* Minimum, Low, Medium, High
Minimum == 1
High    == 4

(* bitrate_bps and the thresholds; the code compares with the current tier.*)
Rate(t) == CASE t = 1 -> 50 [] t = 2 -> 100 [] t = 3 -> 200 [] t = 4 -> 400

Congested(t, m) == 2 * m < Rate(t)
Headroom(t, m)  == 10 * m >= 9 * Rate(t)

TypeOK ==
  /\ link \in Measured /\ sessions \in 0 .. MaxSessions /\ connected \in BOOLEAN
  /\ tier \in Tiers /\ changed \in 0 .. Cooldown /\ evaluated \in BOOLEAN
  /\ downSince \in None .. DowngradeAfter /\ upSince \in None .. UpgradeAfter
  /\ Len(commands) <= QueueCap /\ \A i \in DOMAIN commands :
       \E t \in Tiers : commands[i] = Rate(t)
  /\ bitrate \in {Rate(t) : t \in Tiers} /\ running \in BOOLEAN
  /\ restarting \in None .. RestartTime /\ failures \in 0 .. MaxFailures
  /\ sinceGood \in 0 .. DowngradeAfter /\ sinceBad \in 0 .. UpgradeAfter

(* Capture starts at the rate of High, before there is a session.          *)
Init ==
  /\ link \in Measured /\ sessions = 0 /\ connected = FALSE
  /\ tier = High /\ changed = 0 /\ downSince = None /\ upSince = None
  /\ evaluated = FALSE /\ commands = <<>>
  /\ bitrate = Rate(High) /\ running = TRUE /\ restarting = None /\ failures = 0
  /\ sinceGood = 0 /\ sinceBad = 0

----------------------------------------------------------------------------
\* Mutant: the command is only sent when the channel is empty.
RequestWhenIdle(rate) == commands' = IF commands = <<>> THEN <<rate>> ELSE commands

(* try_send: a command that finds the channel full is dropped.             *)
Request(rate) ==
  commands' = IF Len(commands) < QueueCap THEN Append(commands, rate) ELSE commands

(* A session starts over at Minimum (camera.rs:478-486).                   *)
SessionStarts ==
  /\ ~connected /\ sessions < MaxSessions
  /\ sessions' = sessions + 1 /\ connected' = TRUE
  /\ tier' = Minimum /\ changed' = 0 /\ downSince' = None /\ upSince' = None
  /\ evaluated' = TRUE
  /\ Request(Rate(Minimum))
  /\ sinceGood' = 0 /\ sinceBad' = 0
  /\ UNCHANGED <<link, encoder>>

(* How long the loop waits before the next session is left open.           *)
SessionLost ==
  /\ connected /\ connected' = FALSE
  /\ UNCHANGED <<link, sessions, abr, evaluated, commands, encoder, history>>

LinkChanges ==
  /\ link' \in Measured
  /\ UNCHANGED <<session, abr, evaluated, commands, encoder, history>>

Older(age, bound) == IF age = None \/ age = bound THEN age ELSE age + 1

(* A second passes, with an evaluation in it or without, as a send can     *)
(* take longer; a restart of the encoder is over before RestartTime.       *)
Tick ==
  /\ restarting < RestartTime /\ (commands = <<>> \/ restarting # None)
  /\ evaluated' = FALSE
  /\ changed' = Older(changed, Cooldown)
  /\ downSince' = Older(downSince, DowngradeAfter)
  /\ upSince' = Older(upSince, UpgradeAfter)
  /\ restarting' = Older(restarting, RestartTime)
  /\ sinceGood' = Older(sinceGood, DowngradeAfter)
  /\ sinceBad' = Older(sinceBad, UpgradeAfter)
  /\ UNCHANGED <<link, session, tier, commands, bitrate, running, failures>>

----------------------------------------------------------------------------
(* AbrController::evaluate: a pressure is as old as the first evaluation   *)
(* since which every one has spoken for the change.                        *)

Start(age) == IF age = None THEN 0 ELSE age

ChangeTo(t) == /\ tier' = t /\ changed' = 0
               /\ Request(Rate(t))
               /\ sinceGood' = 0 /\ sinceBad' = 0

\* Mutant: Low is never left downwards.
LowerToLow == tier > 2

HasLower == tier > Minimum

\* Mutant: the pressure of a change is kept when an evaluation contradicts.
ReleaseNothing(age) == age

Release(age) == None

Hold(m) == /\ sinceGood' = IF Congested(tier, m) THEN sinceGood ELSE 0
           /\ sinceBad' = IF Headroom(tier, m) THEN sinceBad ELSE 0
           /\ UNCHANGED <<tier, changed, commands>>

Congestion(m) ==
  /\ Congested(tier, m)
  /\ upSince' = Release(upSince)
  /\ IF Start(downSince) >= DowngradeAfter /\ HasLower
     THEN downSince' = None /\ ChangeTo(tier - 1)
     ELSE downSince' = Start(downSince) /\ Hold(m)

NoCongestion(m) ==
  /\ ~Congested(tier, m)
  /\ downSince' = Release(downSince)
  /\ IF tier = High THEN upSince' = upSince /\ Hold(m)
     ELSE IF ~Headroom(tier, m) THEN upSince' = Release(upSince) /\ Hold(m)
     ELSE IF Start(upSince) >= UpgradeAfter
     THEN upSince' = None /\ ChangeTo(tier + 1)
     ELSE upSince' = Start(upSince) /\ Hold(m)

(* What the tracker may report; 0 while it has too few samples.             *)
Reports == {m \in Measured : m <= link}

Evaluate ==
  /\ connected /\ ~evaluated
  /\ evaluated' = TRUE
  /\ \E m \in Reports :
       \/ changed < Cooldown /\ Hold(m) /\ UNCHANGED <<downSince, upSince>>
       \/ changed = Cooldown /\ (Congestion(m) \/ NoCongestion(m))
  /\ UNCHANGED <<link, session, encoder>>

----------------------------------------------------------------------------
(* The task that owns the encoder, and VideoCapture::update_bitrate.       *)

TakeCommand ==
  /\ restarting = None /\ commands # <<>>
  /\ commands' = Tail(commands)
  /\ IF Head(commands) = bitrate THEN UNCHANGED encoder
     ELSE /\ bitrate' = Head(commands) /\ running' = FALSE /\ restarting' = 0
          /\ UNCHANGED failures
  /\ UNCHANGED <<link, session, abr, evaluated, history>>

Restarted ==
  /\ restarting # None
  /\ running' = TRUE /\ restarting' = None
  /\ UNCHANGED <<link, session, abr, evaluated, commands, bitrate, failures, history>>

(* start_process fails: the configuration already has the new bitrate.     *)
RestartFails ==
  /\ restarting # None /\ failures < MaxFailures
  /\ restarting' = None /\ failures' = failures + 1
  /\ UNCHANGED <<link, session, abr, evaluated, commands, bitrate, running, history>>

(* The process ends by itself: its reader returns, and nobody looks.       *)
EncoderDies ==
  /\ running /\ failures < MaxFailures
  /\ running' = FALSE /\ failures' = failures + 1
  /\ UNCHANGED <<link, session, abr, evaluated, commands, bitrate, restarting, history>>

----------------------------------------------------------------------------
Next == \/ SessionStarts \/ SessionLost \/ LinkChanges \/ Tick \/ Evaluate
        \/ TakeCommand \/ Restarted \/ RestartFails \/ EncoderDies

(* Frames flow while a session is connected, so it goes on evaluating, and *)
(* the task of the encoder runs.                                           *)
Fairness == /\ WF_vars(Tick) /\ WF_vars(Evaluate) /\ WF_vars(SessionStarts)
            /\ WF_vars(TakeCommand) /\ WF_vars(Restarted)

Spec == Init /\ [][Next]_vars /\ Fairness

----------------------------------------------------------------------------
(* The controller believes the encoder is at its tier: after all commands  *)
(* that are still under way it is, although a command that finds the       *)
(* channel full is lost (camera.rs:481-486, 577-580).                      *)
EncoderFollows == connected => Last(<<bitrate>> \o commands) = Rate(tier)

(* In every state, over state of the right types (camera.rs:481-486).      *)
EncoderInStep == TypeOK /\ EncoderFollows

(* A tier is left downwards only after every evaluation for DowngradeAfter *)
(* saw congestion, across cooldowns and gaps (abr.rs:169-203), and upwards *)
(* only after every evaluation for UpgradeAfter had headroom (204-233).    *)
TierChangesSustained ==
  [][/\ tier' = tier - 1 /\ connected /\ connected' => sinceGood >= DowngradeAfter
     /\ tier' = tier + 1 => sinceBad >= UpgradeAfter]_vars

SlowSession == connected /\ Congested(2, link)

(* A link that never carries half of the rate of Low ends at Minimum, and  *)
(* the encoder with it, whatever tier was tried before.                    *)
SlowLinkReachesMinimum ==
  <>[]SlowSession => <>[](tier = Minimum /\ bitrate = Rate(Minimum))

=============================================================================
