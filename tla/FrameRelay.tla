------------------------------ MODULE FrameRelay ------------------------------
(***************************************************************************)
(* The way of a frame through the router, crates/kodama/src/server/        *)
(* router.rs: a camera's handler checks it against the camera's limits and *)
(* broadcasts it; every subscriber (the handler of a client, or the        *)
(* server's recording task) takes frames from the ring at its own pace.    *)
(*                                                                         *)
(* The ring is tokio's broadcast channel.  It is kept as the sequence of   *)
(* all frames sent, of which the last RingCapacity can still be taken; a   *)
(* subscriber has a cursor into it.  Handlers run in parallel, and time    *)
(* passes between any two steps.                                           *)
(***************************************************************************)
EXTENDS RateLimiter, FiniteSets, SequencesExt

CONSTANTS
  Cameras, Clients,
  Lengths,        \* payload lengths
  RingCapacity,   \* frames the broadcast channel retains
  AbuseEvery,     \* frames between two checks of abuse: 30 in the code
  MaxFrames,      \* bound: frames all cameras send
  MaxTime,        \* bound: ticks
  NoFrame

ASSUME RelayAssumption ==
  /\ IsFiniteSet(Cameras)
  /\ Lengths \subseteq Nat /\ RingCapacity \in Nat \ {0}
  /\ AbuseEvery \in Nat \ {0} /\ MaxFrames \in Nat /\ MaxTime \in Nat
  /\ NoFrame \notin [camera : Cameras, n : Nat, ch : Channels, len : Lengths]

Frame == [camera : Cameras, n : 1 .. MaxFrames, ch : Channels, len : Lengths]

VARIABLES
  now,        \* the clock
  pc,         \* per camera, where its handler is
  epoch,      \* per camera, when its limiter was made
  limiter,    \* per camera
  frame,      \* per camera, the frame its handler holds
  unchecked,  \* per camera, frames_since_abuse_check
  ring,       \* all frames that were sent into the ring
  client,     \* per client, where its handler is
  cursor,     \* per client, the position in the ring it takes next
  stats,      \* frames_received and frames_broadcast
  received,   \* per camera, how many frames have come (history)
  accepted,   \* per camera, the frames let pass, with their times (history)
  dropSecs,   \* per camera, the seconds in which a frame was dropped (history)
  checks,     \* per camera, the abuse checks: their second, and the seconds with
              \* drops by then (history)
  joined,     \* per client, how many had been broadcast when it came (history)
  forwarded,  \* per client, the frames it was sent (history)
  missed      \* per client, how many frames it was told it missed (history)

limits == <<epoch, limiter, unchecked>>
history == <<received, accepted, dropSecs, checks>>
ringVars == <<ring, stats>>
clientVars == <<client, cursor, joined, forwarded, missed>>
vars == <<now, pc, frame, limits, history, ringVars, clientVars>>

Init ==
  /\ now = 0
  /\ pc = [c \in Cameras |-> "new"]
  /\ epoch = [c \in Cameras |-> 0]
  /\ limiter = [c \in Cameras |-> NewLimiter]
  /\ frame = [c \in Cameras |-> NoFrame]
  /\ unchecked = [c \in Cameras |-> 0]
  /\ ring = <<>>
  /\ client = [d \in Clients |-> "new"]
  /\ cursor = [d \in Clients |-> 1]
  /\ stats = [frames_received |-> 0, frames_broadcast |-> 0]
  /\ received = [c \in Cameras |-> 0]
  /\ accepted = [c \in Cameras |-> <<>>]
  /\ dropSecs = [c \in Cameras |-> {}]
  /\ checks = [c \in Cameras |-> <<>>]
  /\ joined = [d \in Clients |-> 0]
  /\ forwarded = [d \in Clients |-> <<>>]
  /\ missed = [d \in Clients |-> 0]

Tick ==
  /\ now < MaxTime
  /\ now' = now + 1
  /\ UNCHANGED <<pc, frame, limits, history, ringVars, clientVars>>

Elapsed(c) == now - epoch[c]

Goto(c, from, to) ==
  /\ pc[c] = from
  /\ pc' = [pc EXCEPT ![c] = to]

-------------------------------------------------------------------------------
(* handle_camera_with_receiver.                                            *)

ServeCamera(c) ==
  /\ Goto(c, "new", "receiving")
  /\ epoch' = [epoch EXCEPT ![c] = now]
  /\ UNCHANGED <<now, frame, limiter, unchecked, history, ringVars, clientVars>>

\* A frame arrives and is checked.
ReceiveFrame(c, ch, len) ==
  /\ FoldFunction(+, 0, received) < MaxFrames
  /\ received' = [received EXCEPT ![c] = @ + 1]
  /\ limiter' = [limiter EXCEPT ![c] = CheckFrame(@, ch, len, Elapsed(c))]
  /\ LET f == [camera |-> c, n |-> received'[c], ch |-> ch, len |-> len]
     IN \/ /\ Drops(limiter[c], ch, len, Elapsed(c))
           /\ Goto(c, "receiving", "checking")
           /\ dropSecs' = [dropSecs EXCEPT ![c] = @ \cup {Elapsed(c) \div Second}]
           /\ UNCHANGED <<frame, accepted>>
        \/ /\ ~Drops(limiter[c], ch, len, Elapsed(c))
           /\ Goto(c, "receiving", "broadcasting")
           /\ frame' = [frame EXCEPT ![c] = f]
           /\ accepted' = [accepted EXCEPT ![c] = Append(@, [f |-> f, at |-> now])]
           /\ UNCHANGED dropSecs
  /\ UNCHANGED <<now, epoch, unchecked, checks, ringVars, clientVars>>

Subscribed(d) == client[d] \in {"opening", "receiving", "sending"}

\* broadcast_frame; the ring takes a frame only if somebody subscribes to it.
BroadcastFrame(c) ==
  /\ Goto(c, "broadcasting", "sent")
  /\ \/ /\ \E d \in Clients : Subscribed(d)
        /\ ring' = Append(ring, frame[c])
        /\ stats' = [frames_received |-> stats.frames_received + 1,
                     frames_broadcast |-> stats.frames_broadcast + 1]
     \/ /\ ~\E d \in Clients : Subscribed(d)
        /\ stats' = [stats EXCEPT !.frames_received = @ + 1]
        /\ UNCHANGED ring
  /\ UNCHANGED <<now, frame, limits, history, clientVars>>

\* Mutant: the bytes of a frame that is gone stay outstanding.
ReleaseFrameNot(c) ==
  /\ Goto(c, "sent", "checking")
  /\ frame' = [frame EXCEPT ![c] = NoFrame]
  /\ UNCHANGED <<now, limits, history, ringVars, clientVars>>

ReleaseFrame(c) ==
  /\ Goto(c, "sent", "checking")
  /\ limiter' = [limiter EXCEPT ![c] = FrameSent(@, frame[c].len)]
  /\ frame' = [frame EXCEPT ![c] = NoFrame]
  /\ UNCHANGED <<now, epoch, unchecked, history, ringVars, clientVars>>

\* Most frames are followed by no check of abuse ...
CountFrame(c) ==
  /\ unchecked[c] + 1 < AbuseEvery
  /\ Goto(c, "checking", "receiving")
  /\ unchecked' = [unchecked EXCEPT ![c] = @ + 1]
  /\ UNCHANGED <<now, frame, epoch, limiter, history, ringVars, clientVars>>

\* ... and each AbuseEvery-th by one, which may end the connection.
CheckAbuse(c) ==
  /\ unchecked[c] + 1 >= AbuseEvery
  /\ unchecked' = [unchecked EXCEPT ![c] = 0]
  /\ limiter' = [limiter EXCEPT ![c].abuse_seconds =
                   AbuseAfter(limiter[c], Elapsed(c))]
  /\ checks' = [checks EXCEPT ![c] = Append(@,
                 [at |-> Elapsed(c) \div Second, dropped |-> dropSecs[c]])]
  /\ \/ Abusive(limiter[c], Elapsed(c)) /\ Goto(c, "checking", "abusive")
     \/ ~Abusive(limiter[c], Elapsed(c)) /\ Goto(c, "checking", "receiving")
  /\ UNCHANGED <<now, frame, epoch, received, accepted, dropSecs, ringVars,
                 clientVars>>

\* The stream is closed or fails.
CameraLeaves(c) ==
  /\ Goto(c, "receiving", "closed")
  /\ UNCHANGED <<now, frame, limits, history, ringVars, clientVars>>

-------------------------------------------------------------------------------
(* handle_client, and the other subscribers of the ring.                   *)

Move(d, from, to) ==
  /\ client[d] = from
  /\ client' = [client EXCEPT ![d] = to]

\* How many frames of the camera have passed the limits and been broadcast.
Sent(c) == Len(accepted[c]) - (IF pc[c] = "broadcasting" THEN 1 ELSE 0)

\* Subscribing comes before the stream to the client is opened.
Subscribe(d) ==
  /\ Move(d, "new", "opening")
  /\ cursor' = [cursor EXCEPT ![d] = Len(ring) + 1]
  /\ joined' = [joined EXCEPT ![d] =
                  FoldFunction(+, 0, [c \in Cameras |-> Sent(c)])]
  /\ UNCHANGED <<now, pc, frame, limits, history, ringVars, forwarded, missed>>

\* Mutant: what was sent while the stream was opened is skipped.
OpenStreamSkips(d) ==
  /\ Move(d, "opening", "receiving")
  /\ cursor' = [cursor EXCEPT ![d] = Len(ring) + 1]
  /\ UNCHANGED <<now, pc, frame, limits, history, ringVars, joined, forwarded,
                 missed>>

OpenStream(d) ==
  /\ Move(d, "opening", "receiving")
  /\ UNCHANGED <<now, pc, frame, limits, history, ringVars, cursor, joined,
                 forwarded, missed>>

OpenStreamFails(d) ==
  /\ Move(d, "opening", "gone")
  /\ UNCHANGED <<now, pc, frame, limits, history, ringVars, cursor, joined,
                 forwarded, missed>>

\* The first position the ring still has.
Oldest == IF Len(ring) > RingCapacity THEN Len(ring) - RingCapacity + 1 ELSE 1

\* recv returns the next frame ...
TakeFrame(d) ==
  /\ cursor[d] \in Oldest .. Len(ring)
  /\ Move(d, "receiving", "sending")
  /\ cursor' = [cursor EXCEPT ![d] = @ + 1]
  /\ UNCHANGED <<now, pc, frame, limits, history, ringVars, joined, forwarded,
                 missed>>

\* ... or says how many have been overwritten, and the handler goes on.
Lag(d) ==
  /\ client[d] = "receiving" /\ cursor[d] < Oldest
  /\ missed' = [missed EXCEPT ![d] = @ + (Oldest - cursor[d])]
  /\ cursor' = [cursor EXCEPT ![d] = Oldest]
  /\ UNCHANGED <<now, pc, frame, limits, history, ringVars, client, joined,
                 forwarded>>

\* The frame that was taken, at the position before the cursor, is sent.
SendFrame(d) ==
  /\ Move(d, "sending", "receiving")
  /\ forwarded' = [forwarded EXCEPT ![d] = Append(@, ring[cursor[d] - 1])]
  /\ UNCHANGED <<now, pc, frame, limits, history, ringVars, cursor, joined,
                 missed>>

SendFails(d) ==
  /\ Move(d, "sending", "gone")
  /\ UNCHANGED <<now, pc, frame, limits, history, ringVars, cursor, joined,
                 forwarded, missed>>

Next ==
  \/ Tick
  \/ \E c \in Cameras :
       \/ ServeCamera(c)
       \/ \E ch \in Channels, len \in Lengths : ReceiveFrame(c, ch, len)
       \/ BroadcastFrame(c) \/ ReleaseFrame(c)
       \/ CountFrame(c) \/ CheckAbuse(c) \/ CameraLeaves(c)
  \/ \E d \in Clients :
       \/ Subscribe(d) \/ OpenStream(d) \/ OpenStreamFails(d)
       \/ TakeFrame(d) \/ Lag(d) \/ SendFrame(d) \/ SendFails(d)

Spec == Init /\ [][Next]_vars

-------------------------------------------------------------------------------
(* Properties.                                                             *)

TypeOK ==
  /\ now \in 0 .. MaxTime
  /\ pc \in [Cameras -> {"new", "receiving", "broadcasting", "sent", "checking",
                         "abusive", "closed"}]
  /\ epoch \in [Cameras -> 0 .. MaxTime]
  /\ limiter \in [Cameras ->
       [windows : [Channels -> Window], bytes_outstanding : 0 .. MemoryBudget,
        total_dropped : Nat, abuse_seconds : Nat,
        last_drop_second : Nat \cup {NoSecond}]]
  /\ frame \in [Cameras -> Frame \cup {NoFrame}]
  /\ unchecked \in [Cameras -> 0 .. AbuseEvery - 1]
  /\ ring \in Seq(Frame)
  /\ client \in [Clients -> {"new", "opening", "receiving", "sending", "gone"}]
  /\ cursor \in [Clients -> Nat \ {0}]
  /\ \A field \in DOMAIN stats : stats[field] \in Nat

\* The frames of a channel among those accepted that came at one of the times T.
Passed(acc, ch, T) == {i \in DOMAIN acc : acc[i].f.ch = ch /\ acc[i].at \in T}

\* Over any stretch of a second, wherever it starts, a camera gets at most twice
\* the limit of a channel through: the windows are not sliding (as rate_limit.rs
\* 53 has it), and a stretch can overlap two of them (rate_limit.rs:74-90,
\* 186-198).
BurstBounded ==
  \A c \in Cameras, ch \in Channels, t \in 0 .. MaxTime :
    Cardinality(Passed(accepted[c], ch, t .. t + Second - 1)) <= 2 * Fps[ch]

\* The bytes outstanding are those of the frame in hand, so whatever mix of
\* channels, drops and broadcasts came before, the budget refuses only a frame
\* that is larger than the budget by itself (rate_limit.rs:176-215,
\* router.rs:302-318).
OutstandingInHand ==
  \A c \in Cameras :
    limiter[c].bytes_outstanding = IF frame[c] = NoFrame THEN 0 ELSE frame[c].len

\* A camera is disconnected only when each of the last AbuseThreshold checks saw
\* a drop in its own second or the one before; one check without starts the
\* count anew (rate_limit.rs:228-242, router.rs:321-334).
AbuseIsSustained ==
  \A c \in Cameras : pc[c] = "abusive" =>
    /\ Len(checks[c]) >= AbuseThreshold
    /\ \A i \in Len(checks[c]) - AbuseThreshold + 1 .. Len(checks[c]) :
         {checks[c][i].at, checks[c][i].at - 1} \cap checks[c][i].dropped # {}

\* From the moment it has subscribed, each frame the limits let pass is sent to
\* the client, is on its way, or was reported to it as missed, also while its
\* stream is being opened and while other cameras send (router.rs:259-279,
\* 421-446).
NothingSkipped ==
  \A d \in Clients : Subscribed(d) =>
    FoldFunction(+, 0, [c \in Cameras |-> Sent(c)]) - joined[d] =
      Len(forwarded[d]) + missed[d] + (Len(ring) + 1 - cursor[d])
        + (IF client[d] = "sending" THEN 1 ELSE 0)

\* A client gets the frames of one camera in the order in which they came in,
\* each at most once and only those that passed the limits.
ForwardedInOrder ==
  \A d \in Clients : \A i, j \in DOMAIN forwarded[d] :
    LET f == forwarded[d][i]
        g == forwarded[d][j]
    IN /\ \E k \in DOMAIN accepted[f.camera] : accepted[f.camera][k].f = f
       /\ (i < j /\ f.camera = g.camera) => f.n < g.n

\* A client gets all it is owed, in order (router.rs:259-279, 421-446): the two
\* invariants above over state of the right types.
ForwardingExact == TypeOK /\ NothingSkipped /\ ForwardedInOrder
===============================================================================
