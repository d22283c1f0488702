---------------------------- MODULE CommandRouting ----------------------------
(***************************************************************************)
(* Commands routed from clients to cameras and their responses back:       *)
(* register_camera_commands, send_command and handle_client_commands of    *)
(* crates/kodama/src/server/router.rs, with the camera's side of a command *)
(* stream, handle_commands of apps/kodama-firmware/src/camera.rs.          *)
(*                                                                         *)
(* A channel is the command stream of one connection of a camera, with the *)
(* server task that reads it; a camera that reconnects gets a new one.  A  *)
(* request is one turn of handle_client_commands.  A client takes its      *)
(* turns one after the other, so the requests that overlap are those of    *)
(* different clients; here any requests may.                               *)
(***************************************************************************)
EXTENDS Integers, Sequences, FiniteSets

CONSTANTS
  CameraKeys,  \* keys of cameras
  Chans,       \* command streams, each accepted once
  Requests,    \* requests of clients, each made once
  NoChan, NoCamera, NoRequest,
  IdModulus    \* 2^32: request ids are drawn from an AtomicU32

Ids == 0 .. IdModulus - 1

\* The first message of a camera, which the server reads as "ready".
ReadyId == 0

\* Fewer than 2^32 commands go over one channel: ids are not reused.
ASSUME RoutingAssumption ==
  /\ IdModulus \in Nat /\ IdModulus > 1
  /\ IsFiniteSet(Requests) /\ Cardinality(Requests) < IdModulus
  /\ NoChan \notin Chans /\ NoCamera \notin CameraKeys /\ NoRequest \notin Requests

VARIABLES
  chanStage,       \* where the server's task of each channel is
  chanKey,         \* the camera of each channel
  alive,           \* whether the stream under the channel is still connected
  camera_commands, \* per camera, the channel commands are sent over
  next_id,         \* per channel, the id drawn next
  pending,         \* per channel and id, the request that awaits the response
  toCamera,        \* requests in flight, as ids and the requests they carry
  fromCamera,      \* responses in flight
  reqStage,        \* where send_command is for each request
  chan, id,        \* the channel and the id a request was given
  answer,          \* the request whose result a request was answered with
  runs             \* how often the camera has executed each request

chanVars == <<chanStage, chanKey, alive, camera_commands>>
wireVars == <<toCamera, fromCamera, runs>>
reqVars  == <<reqStage, chan, id, answer>>
routingVars == <<chanVars, next_id, pending, wireVars, reqVars>>

ChanStages == {"new", "spawned", "reading", "ending", "gone"}
\* "failed" is an answer that carries an error of the server.
ReqStages  == {"new", "inserting", "sending", "waiting", "expired",
               "answered", "failed"}
Message == [id : Ids, request : Requests \cup {NoRequest}]

RoutingInit ==
  /\ chanStage = [h \in Chans |-> "new"]
  /\ chanKey = [h \in Chans |-> NoCamera]
  /\ alive = [h \in Chans |-> FALSE]
  /\ camera_commands = [k \in CameraKeys |-> NoChan]
  /\ next_id = [h \in Chans |-> 1]
  /\ pending = [h \in Chans |-> [i \in Ids |-> NoRequest]]
  /\ toCamera = [h \in Chans |-> <<>>]
  /\ fromCamera = [h \in Chans |-> <<>>]
  /\ reqStage = [r \in Requests |-> "new"]
  /\ chan = [r \in Requests |-> NoChan]
  /\ id = [r \in Requests |-> 0]
  /\ answer = [r \in Requests |-> NoRequest]
  /\ runs = [r \in Requests |-> 0]

-------------------------------------------------------------------------------
(* Channels.                                                               *)

\* A camera's stream is accepted and its task spawned; the camera says "ready".
AcceptChannel(h, k) ==
  /\ chanStage[h] = "new"
  /\ chanStage' = [chanStage EXCEPT ![h] = "spawned"]
  /\ chanKey' = [chanKey EXCEPT ![h] = k]
  /\ alive' = [alive EXCEPT ![h] = TRUE]
  /\ fromCamera' = [fromCamera EXCEPT
                      ![h] = <<[id |-> ReadyId, request |-> NoRequest]>>]
  /\ UNCHANGED <<camera_commands, next_id, pending, toCamera, runs, reqVars>>

\* The task's first step: the newest task to get here is the one commands use.
InstallChannel(h) ==
  /\ chanStage[h] = "spawned"
  /\ chanStage' = [chanStage EXCEPT ![h] = "reading"]
  /\ camera_commands' = [camera_commands EXCEPT ![chanKey[h]] = h]
  /\ UNCHANGED <<chanKey, alive, next_id, pending, wireVars, reqVars>>

\* Mutant: a response is handed to whichever request is pending.
AddresseeAny(h, resp) ==
  IF \E i \in Ids : pending[h][i] # NoRequest
    THEN pending[h][CHOOSE i \in Ids : pending[h][i] # NoRequest]
    ELSE NoRequest

\* The request a response is for; none when the id is not pending.
Addressee(h, resp) == pending[h][resp.id]

\* A response takes its request out of pending and wakes it, unless the request
\* has stopped waiting; an id that is not pending is only logged.
ReadResponse(h) ==
  /\ chanStage[h] = "reading"
  /\ fromCamera[h] # <<>>
  /\ fromCamera' = [fromCamera EXCEPT ![h] = Tail(@)]
  /\ LET resp == Head(fromCamera[h])
         r    == Addressee(h, resp)
     IN \/ /\ resp.id = ReadyId \/ r = NoRequest
           /\ UNCHANGED <<pending, reqVars>>
        \/ /\ resp.id # ReadyId /\ r # NoRequest
           /\ pending' = [pending EXCEPT ![h][resp.id] = NoRequest]
           /\ IF reqStage[r] = "waiting"
                THEN /\ reqStage' = [reqStage EXCEPT ![r] = "answered"]
                     /\ answer' = [answer EXCEPT ![r] = resp.request]
                ELSE UNCHANGED <<reqStage, answer>>
           /\ UNCHANGED <<chan, id>>
  /\ UNCHANGED <<chanVars, next_id, toCamera, runs>>

\* The stream ends with its connection or with the camera's task: what was on
\* its way to the camera is lost.
Disconnect(h) ==
  /\ alive[h]
  /\ alive' = [alive EXCEPT ![h] = FALSE]
  /\ toCamera' = [toCamera EXCEPT ![h] = <<>>]
  /\ UNCHANGED <<chanStage, chanKey, camera_commands, next_id, pending,
                 fromCamera, runs, reqVars>>

\* The task's loop ends, with or without the responses still in flight.
StopReading(h) ==
  /\ chanStage[h] = "reading" /\ ~alive[h]
  /\ chanStage' = [chanStage EXCEPT ![h] = "ending"]
  /\ fromCamera' = [fromCamera EXCEPT ![h] = <<>>]
  /\ UNCHANGED <<chanKey, alive, camera_commands, next_id, pending, toCamera,
                 runs, reqVars>>

\* The cleanup removes the camera's entry, whichever channel it holds.
TableAfterCleanup(h) == [camera_commands EXCEPT ![chanKey[h]] = NoChan]

CleanupChannel(h) ==
  /\ chanStage[h] = "ending"
  /\ chanStage' = [chanStage EXCEPT ![h] = "gone"]
  /\ camera_commands' = TableAfterCleanup(h)
  /\ UNCHANGED <<chanKey, alive, next_id, pending, wireVars, reqVars>>

\* The camera executes one command after the other and answers under the id of
\* the request.
CameraExecutes(h) ==
  /\ alive[h] /\ toCamera[h] # <<>>
  /\ toCamera' = [toCamera EXCEPT ![h] = Tail(@)]
  /\ LET req == Head(toCamera[h])
     IN /\ runs' = [runs EXCEPT ![req.request] = @ + 1]
        /\ fromCamera' = [fromCamera EXCEPT ![h] = Append(@, req)]
  /\ UNCHANGED <<chanVars, next_id, pending, reqVars>>

-------------------------------------------------------------------------------
(* Requests.                                                               *)

\* The target does not parse as a key, or the camera has no channel.
RefuseRequest(r) ==
  /\ reqStage[r] = "new"
  /\ reqStage' = [reqStage EXCEPT ![r] = "failed"]
  /\ UNCHANGED <<chanVars, next_id, pending, wireVars, chan, id, answer>>

NextId(i) == (i + 1) % IdModulus

\* The channel is looked up and an id drawn from it.  The channel is not looked
\* up again: the request stays with it whatever happens to the table.
RouteRequest(r, k) ==
  /\ reqStage[r] = "new" /\ camera_commands[k] # NoChan
  /\ LET h == camera_commands[k]
     IN /\ chan' = [chan EXCEPT ![r] = h]
        /\ id' = [id EXCEPT ![r] = next_id[h]]
        /\ next_id' = [next_id EXCEPT ![h] = NextId(@)]
  /\ reqStage' = [reqStage EXCEPT ![r] = "inserting"]
  /\ UNCHANGED <<chanVars, pending, wireVars, answer>>

SetPending(r, entry) ==
  pending' = [pending EXCEPT ![chan[r]][id[r]] = entry]

\* Mutant: the request is sent before it is pending.
InsertPendingLate(r) ==
  /\ reqStage[r] = "inserting"
  /\ reqStage' = [reqStage EXCEPT ![r] = "sending"]
  /\ UNCHANGED <<chanVars, next_id, pending, wireVars, chan, id, answer>>

InsertPending(r) ==
  /\ reqStage[r] = "inserting"
  /\ SetPending(r, r)
  /\ reqStage' = [reqStage EXCEPT ![r] = "sending"]
  /\ UNCHANGED <<chanVars, next_id, wireVars, chan, id, answer>>

\* The message is written; over a broken connection nobody has noticed yet it is
\* lost.
SendRequest(r) ==
  /\ reqStage[r] = "sending"
  /\ alive[chan[r]] \/ chanStage[chan[r]] = "reading"
  /\ toCamera' =
       IF alive[chan[r]]
         THEN [toCamera EXCEPT
                 ![chan[r]] = Append(@, [id |-> id[r], request |-> r])]
         ELSE toCamera
  /\ reqStage' = [reqStage EXCEPT ![r] = "waiting"]
  /\ UNCHANGED <<chanVars, next_id, pending, fromCamera, runs, chan, id, answer>>

SendFails(r) ==
  /\ reqStage[r] = "sending" /\ ~alive[chan[r]]
  /\ SetPending(r, NoRequest)
  /\ reqStage' = [reqStage EXCEPT ![r] = "failed"]
  /\ UNCHANGED <<chanVars, next_id, wireVars, chan, id, answer>>

\* Mutant: a disconnected camera is left to the dropped response channel.
TimeOutWhileAlive(r) ==
  /\ reqStage[r] = "waiting" /\ alive[chan[r]]
  /\ reqStage' = [reqStage EXCEPT ![r] = "expired"]
  /\ UNCHANGED <<chanVars, next_id, pending, wireVars, chan, id, answer>>

\* The timeout elapses.  A response may still come before the request is taken
\* out of pending: nobody listens to it any more.
TimeOut(r) ==
  /\ reqStage[r] = "waiting"
  /\ reqStage' = [reqStage EXCEPT ![r] = "expired"]
  /\ UNCHANGED <<chanVars, next_id, pending, wireVars, chan, id, answer>>

DropPending(r) ==
  /\ reqStage[r] = "expired"
  /\ SetPending(r, NoRequest)
  /\ reqStage' = [reqStage EXCEPT ![r] = "failed"]
  /\ UNCHANGED <<chanVars, next_id, wireVars, chan, id, answer>>

RoutingNext ==
  \/ \E h \in Chans :
       \/ \E k \in CameraKeys : AcceptChannel(h, k)
       \/ InstallChannel(h) \/ ReadResponse(h) \/ Disconnect(h)
       \/ StopReading(h) \/ CleanupChannel(h) \/ CameraExecutes(h)
  \/ \E r \in Requests :
       \/ RefuseRequest(r)
       \/ \E k \in CameraKeys : RouteRequest(r, k)
       \/ InsertPending(r) \/ SendRequest(r) \/ SendFails(r)
       \/ TimeOut(r) \/ DropPending(r)

RoutingSpec == RoutingInit /\ [][RoutingNext]_routingVars

\* A task that can go on is polled again; a write either completes or fails, as
\* the connection's idle timeout ends a dead one; timers fire.
RoutingFairness ==
  \A r \in Requests :
    WF_routingVars(InsertPending(r) \/ SendRequest(r) \/ SendFails(r)
                   \/ TimeOut(r) \/ DropPending(r))

RoutingFairSpec == RoutingSpec /\ RoutingFairness
-------------------------------------------------------------------------------
(* Properties.                                                             *)

RoutingTypeOK ==
  /\ chanStage \in [Chans -> ChanStages]
  /\ chanKey \in [Chans -> CameraKeys \cup {NoCamera}]
  /\ alive \in [Chans -> BOOLEAN]
  /\ camera_commands \in [CameraKeys -> Chans \cup {NoChan}]
  /\ next_id \in [Chans -> Ids]
  /\ pending \in [Chans -> [Ids -> Requests \cup {NoRequest}]]
  /\ toCamera \in [Chans -> Seq(Message)]
  /\ fromCamera \in [Chans -> Seq(Message)]
  /\ reqStage \in [Requests -> ReqStages]
  /\ chan \in [Requests -> Chans \cup {NoChan}]
  /\ id \in [Requests -> Ids]
  /\ answer \in [Requests -> Requests \cup {NoRequest}]
  /\ runs \in [Requests -> Nat]

\* A request answered with a result is answered with its own, and only after
\* the camera executed it: late responses, responses over an older channel of
\* the camera and concurrent requests never get mixed up (router.rs:487-493,
\* 529-553).
AnswersMatch ==
  \A r \in Requests :
    /\ reqStage[r] = "answered" => answer[r] = r
    /\ answer[r] # NoRequest => runs[r] = 1

\* A request is pending exactly from before it is sent until it is answered or
\* gives up: no response can come too early to find it, and nothing stays in
\* the map when send_command has returned (router.rs:533-550).
PendingWhileSent ==
  \A r \in Requests :
    /\ reqStage[r] \in {"sending", "waiting"} => pending[chan[r]][id[r]] = r
    /\ \A h \in Chans, i \in Ids :
         pending[h][i] = r =>
           /\ reqStage[r] \in {"sending", "waiting", "expired"}
           /\ chan[r] = h /\ id[r] = i

\* A channel whose task has cleaned up is never looked up again, even when the
\* camera has had several channels (router.rs:471-475, 508-509).
NoDeadChannelListed ==
  \A k \in CameraKeys :
    camera_commands[k] # NoChan =>
      /\ chanKey[camera_commands[k]] = k
      /\ chanStage[camera_commands[k]] \in {"reading", "ending"}

\* Every request that was routed is answered in the end: with a result, or with
\* an error (the 30 s of router.rs:590 and the timeout at 543-552).  When the
\* camera disconnects it is the timeout that ends the wait: send_command itself
\* keeps the map with its own sender alive, so a disconnect never takes the branch
\* of router.rs:546 for a dropped sender.
EveryRequestReturns ==
  \A r \in Requests :
    reqStage[r] = "inserting" ~> reqStage[r] \in {"answered", "failed"}

\* The routing is exact in every state: the three invariants above over state of
\* the right types (router.rs:458-552).
RoutingExact ==
  RoutingTypeOK /\ AnswersMatch /\ PendingWhileSent /\ NoDeadChannelListed
===============================================================================
