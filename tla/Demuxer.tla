-------------------------------- MODULE Demuxer --------------------------------
(***************************************************************************)
(* The Demuxer of crates/kodama/src/transport/mux/demuxer.rs: frames routed *)
(* to the subscriber of their source, the subscriber of their channel and  *)
(* every global subscriber, one after the other, each through a bounded    *)
(* channel.                                                                *)
(*                                                                         *)
(* route() borrows the demuxer and suspends in every send, so routes of    *)
(* several tasks interleave; subscribing and cleanup borrow it mutably and *)
(* run while no route is under way.                                        *)
(***************************************************************************)
EXTENDS FiniteSets, SequencesExt

CONSTANTS
  Sources, Kinds,     \* source ids and channel kinds
  Receivers,          \* the receivers that can be handed out
  Callers,            \* the tasks that call route
  SubscriberCapacity, \* of a subscriber's channel: 64 in the code
  MaxRouted,          \* bound: how many frames are routed
  Nobody              \* no subscriber

ASSUME DemuxerAssumption ==
  SubscriberCapacity \in Nat /\ MaxRouted \in Nat /\ Nobody \notin Receivers

Everything == [by |-> "all", of |-> Nobody]

Filters == [by : {"source"}, of : Sources] \cup [by : {"kind"}, of : Kinds]
             \cup {Everything}

Matches(f, filter) ==
  filter.by # "all" => filter.of = (IF filter.by = "source" THEN f.source
                                                           ELSE f.kind)

VARIABLES
  source_subscribers, channel_subscribers, global_subscribers,
  rx,      \* receivers in use: what was sent to them, how much they read, open
  route,   \* per caller: its frame, the subscribers to go, the count
  routed,  \* frames of the calls to route, in their order
  term     \* per receiver: its filter and how many calls came before and until

demuxerVars == <<source_subscribers, channel_subscribers, global_subscribers,
                 rx, route, routed, term>>

NoRoute == [frame |-> 0, todo |-> <<>>, count |-> 0, active |-> FALSE]

DemuxInit ==
  /\ source_subscribers = [s \in Sources |-> Nobody]
  /\ channel_subscribers = [k \in Kinds |-> Nobody]
  /\ global_subscribers = <<>>
  /\ rx = <<>> /\ term = <<>>
  /\ route = [t \in Callers |-> NoRoute]
  /\ routed = <<>>

\* No call of route holds a reference: &mut self can be taken.
Exclusive == \A t \in Callers : ~route[t].active

InUse == DOMAIN rx

\* The first receiver that was not handed out yet.
Fresh == {r \in Receivers \ InUse : \A q \in Receivers \ InUse : r <= q}

NewReceiver(r, filter) ==
  /\ rx' = [q \in InUse \cup {r} |->
             IF q = r THEN [sent |-> <<>>, read |-> 0, open |-> TRUE] ELSE rx[q]]
  /\ term' = [q \in InUse \cup {r} |->
               IF q = r THEN [filter |-> filter, since |-> Len(routed), until |-> -1]
               ELSE IF term[q].filter = filter /\ filter # Everything /\ term[q].until = -1
               THEN [term[q] EXCEPT !.until = Len(routed)] ELSE term[q]]

\* A subscription replaces the one the source had: its sender is dropped.
SubscribeSource(s) ==
  /\ Exclusive
  /\ \E r \in Fresh :
       /\ NewReceiver(r, [by |-> "source", of |-> s])
       /\ source_subscribers' = [source_subscribers EXCEPT ![s] = r]
  /\ UNCHANGED <<channel_subscribers, global_subscribers, route, routed>>

SubscribeChannel(k) ==
  /\ Exclusive
  /\ \E r \in Fresh :
       /\ NewReceiver(r, [by |-> "kind", of |-> k])
       /\ channel_subscribers' = [channel_subscribers EXCEPT ![k] = r]
  /\ UNCHANGED <<source_subscribers, global_subscribers, route, routed>>

SubscribeAll ==
  /\ Exclusive
  /\ \E r \in Fresh :
       /\ NewReceiver(r, Everything)
       /\ global_subscribers' = Append(global_subscribers, r)
  /\ UNCHANGED <<source_subscribers, channel_subscribers, route, routed>>

Known(r) == IF r = Nobody THEN <<>> ELSE <<r>>

\* Mutant: the subscriber of the channel is only asked when the source has none.
FirstOf(f) ==
  IF source_subscribers[f.source] # Nobody
  THEN <<source_subscribers[f.source]>> \o global_subscribers
  ELSE Known(channel_subscribers[f.kind]) \o global_subscribers

\* Whom a frame goes to, in this order.
SubscribersOf(f) ==
  Known(source_subscribers[f.source]) \o Known(channel_subscribers[f.kind])
    \o global_subscribers

\* route() is called with a frame.
Route(t, s, k) ==
  /\ ~route[t].active /\ Len(routed) < MaxRouted
  /\ LET f == [source |-> s, kind |-> k, by |-> t]
     IN /\ routed' = Append(routed, f)
        /\ route' = [route EXCEPT ![t] = [frame |-> Len(routed'), count |-> 0,
                                          todo |-> SubscribersOf(f),
                                          active |-> TRUE]]
  /\ UNCHANGED <<source_subscribers, channel_subscribers, global_subscribers,
                 rx, term>>

QueueOf(r) == Len(rx[r].sent) - rx[r].read

\* Mutant: a failed send is not told from one that waits.
NeverSkips(r) == FALSE

\* The send fails: the receiver is gone.
Skips(r) == ~rx[r].open

\* The next subscriber gets the frame; a full channel is waited for.
SendNext(t) ==
  /\ route[t].active /\ route[t].todo # <<>>
  /\ LET r == Head(route[t].todo)
     IN /\ rx[r].open /\ QueueOf(r) < SubscriberCapacity
        /\ rx' = [rx EXCEPT ![r].sent = Append(@, route[t].frame)]
        /\ route' = [route EXCEPT ![t].todo = Tail(@), ![t].count = @ + 1]
  /\ UNCHANGED <<source_subscribers, channel_subscribers, global_subscribers,
                 routed, term>>

SkipNext(t) ==
  /\ route[t].active /\ route[t].todo # <<>>
  /\ Skips(Head(route[t].todo))
  /\ route' = [route EXCEPT ![t].todo = Tail(@)]
  /\ UNCHANGED <<source_subscribers, channel_subscribers, global_subscribers,
                 rx, routed, term>>

\* route() returns the count.
Return(t) ==
  /\ route[t].active /\ route[t].todo = <<>>
  /\ route' = [route EXCEPT ![t] = NoRoute]
  /\ UNCHANGED <<source_subscribers, channel_subscribers, global_subscribers,
                 rx, routed, term>>

\* The open ones, in their order.
Retained(subscribers) ==
  LET kept[i \in 0 .. Len(subscribers)] ==
        IF i = 0 THEN <<>>
        ELSE IF rx[subscribers[i]].open THEN Append(kept[i - 1], subscribers[i])
        ELSE kept[i - 1]
  IN kept[Len(subscribers)]

OpenOr(r) == IF r # Nobody /\ rx[r].open THEN r ELSE Nobody

Cleanup ==
  /\ Exclusive
  /\ source_subscribers' = [s \in Sources |-> OpenOr(source_subscribers[s])]
  /\ channel_subscribers' = [k \in Kinds |-> OpenOr(channel_subscribers[k])]
  /\ global_subscribers' = Retained(global_subscribers)
  /\ UNCHANGED <<rx, route, routed, term>>

\* What the holder of a receiver does: it takes a frame, or drops the receiver
\* with all that is in it.
TakeFrame(r) ==
  /\ r \in InUse /\ rx[r].open /\ QueueOf(r) > 0
  /\ rx' = [rx EXCEPT ![r].read = @ + 1]
  /\ UNCHANGED <<source_subscribers, channel_subscribers, global_subscribers,
                 route, routed, term>>

Drop(r) ==
  /\ r \in InUse /\ rx[r].open
  /\ rx' = [rx EXCEPT ![r].open = FALSE, ![r].read = Len(rx[r].sent)]
  /\ UNCHANGED <<source_subscribers, channel_subscribers, global_subscribers,
                 route, routed, term>>

DemuxNext ==
  \/ \E s \in Sources : SubscribeSource(s)
  \/ \E k \in Kinds : SubscribeChannel(k)
  \/ SubscribeAll
  \/ \E t \in Callers, s \in Sources, k \in Kinds : Route(t, s, k)
  \/ \E t \in Callers : SendNext(t) \/ SkipNext(t) \/ Return(t)
  \/ Cleanup
  \/ \E r \in Receivers : TakeFrame(r) \/ Drop(r)

\* The tasks that route run; who holds a receiver keeps reading it or drops it.
DemuxFairness ==
  /\ \A t \in Callers : WF_demuxerVars(SendNext(t) \/ SkipNext(t) \/ Return(t))
  /\ \A r \in Receivers : WF_demuxerVars(TakeFrame(r))

DemuxSpec == DemuxInit /\ [][DemuxNext]_demuxerVars /\ DemuxFairness

-------------------------------------------------------------------------------
(* Properties.                                                             *)

DemuxTypeOK ==
  /\ source_subscribers \in [Sources -> InUse \cup {Nobody}]
  /\ channel_subscribers \in [Kinds -> InUse \cup {Nobody}]
  /\ global_subscribers \in Seq(InUse)
  /\ InUse \subseteq Receivers /\ DOMAIN term = InUse
  /\ \A r \in InUse : /\ QueueOf(r) \in 0 .. SubscriberCapacity
                      /\ term[r].filter \in Filters
  /\ Len(routed) <= MaxRouted

\* The frames a subscriber is to get: those that match, from its subscription
\* until it is replaced.
Owed(r) ==
  {n \in DOMAIN routed : /\ n > term[r].since
                         /\ term[r].until = -1 \/ n <= term[r].until
                         /\ Matches(routed[n], term[r].filter)}

OnTheWayTo(r) ==
  {route[t].frame : t \in {u \in Callers :
     route[u].active /\ \E i \in DOMAIN route[u].todo : route[u].todo[i] = r}}

\* A subscriber that is still there has got, once each, exactly the frames it is
\* owed but for those a route is about to send it, and the frames of one caller
\* in the order of its calls: whatever was subscribed, replaced, dropped and
\* cleaned up around it (demuxer.rs:34-91).
SubscribersGetTheirs ==
  \A r \in InUse : rx[r].open =>
    LET sent == rx[r].sent
    IN /\ ToSet(sent) = Owed(r) \ OnTheWayTo(r)
       /\ \A i, j \in DOMAIN sent :
            i < j => IF routed[sent[i]].by = routed[sent[j]].by
                     THEN sent[i] < sent[j] ELSE sent[i] # sent[j]

\* route returns the number of subscribers that have the frame
\* (demuxer.rs:57 "Returns the number of subscribers that received the frame"),
\* those that are gone by then included.
CountsReceivers ==
  \A t \in Callers : (route[t].active /\ route[t].todo = <<>>) =>
    route[t].count =
      Cardinality({r \in InUse : Contains(rx[r].sent, route[t].frame)})

\* A route ends as long as every subscriber reads or is gone: closed receivers
\* do not hold it up (demuxer.rs:58-84).
RouteReturns == \A t \in Callers : route[t].active ~> ~route[t].active

\* Who subscribed gets its frames, and callers learn to how many they went
\* (demuxer.rs:34-91).
SubscribersExact == DemuxTypeOK /\ SubscribersGetTheirs /\ CountsReceivers
===============================================================================
