# Kodama, specified in TLA+

Kodama streams video, audio and telemetry from cameras over QUIC to a server,
which forwards the frames to clients and browsers, records them, and routes
commands from clients to cameras. This directory models the parts of it whose
correctness depends on the order in which tasks, connections, crashes and
timers act, checks the models with TLC, and proves the most important facts
with TLAPS. `PROJECT.json` lists the components, the runs, the source lines of
every definition, the findings, the hazards and the theorems.

## 1. Inventory

Paths are below `src/crates/kodama/src` or, for the firmware,
`src/apps/kodama-firmware/src`.

| Part (source) | State | Operations | Works with | Hard behaviour | What makes it correct | Module |
|---|---|---|---|---|---|---|
| Peer table (`server/router.rs` 80-256, 285-450) | `peers`, `connection_generation`, gauges | `register_peer`, `unregister_peer`, the two connection handlers | accept loop, web sessions that poll it | a peer reconnects while its old handler ends; a handler fails half-way | an entry stands for a living handler; only its writer removes it; gauges count the table | `PeerRegistry` |
| Command routing (`server/router.rs` 454-634) | `camera_commands`, per channel `pending` and `next_id` | `register_camera_commands`, `send_command`, `handle_client_commands` | `handle_commands` of the camera | late, lost and concurrent responses; reconnecting cameras | an answer belongs to its request; a command runs at most once; every request returns | `CommandRouting` |
| Broadcast (`server/router.rs` 259-279, 417-450) | broadcast ring, a cursor per subscriber | `broadcast_frame`, `subscribe`, client forwarding | cameras, clients, storage, web | subscribers that lag | order is kept, a loss is reported | `FrameRelay` |
| Rate limiter (`server/rate_limit.rs`) | windows, outstanding bytes, abuse counter | `check_frame`, `frame_sent`, `tick_abuse_check` | camera handler | window boundaries, counters at limits | limits hold over window ends, the budget does not leak, abuse is sustained before a disconnect | `RateLimiter`, `FrameRelay` |
| Frame buffer, backpressure (`transport/mux/muxer.rs`) | frames, index of the latest keyframe, statistics | `push`, `pop`, `send`, `flush_buffer` | a bounded channel to another task | channel full or closed between two attempts | keyframes go last, nothing is lost uncounted | `FrameBuffer`, `Backpressure` |
| Demuxer (`transport/mux/demuxer.rs`) | subscribers by source, by channel, of all | `subscribe_*`, `route`, `cleanup` | bounded channels | one slow subscriber; subscriptions that change during a route | subscribers get what is theirs in order | `Demuxer` |
| Wire formats (`transport/mux/frame.rs`, `command.rs`, `frame.rs`, `command.rs`) | none | read and write with a length prefix | connections | limits | what is written is read | - |
| Transport (`transport/connection.rs`, `endpoint.rs`) | none of its own | accept, connect, streams by role | everything | lost connections | the role of a peer is found | as actions of its users |
| Local storage (`storage/local.rs`) | segment files, open writers, index, `total_bytes` | `store_frame`, `flush`, `get_frames`, `cleanup`, scan at start | recording task, cleanup task | crash between steps, timestamps that go back, files opened twice | finalized frames stay readable until cleaned up; usage is what the disk holds | `LocalStorage` |
| Storage manager (`server/storage.rs`, server `main.rs` 101-247) | limits, statistics | `store`, `cleanup`, cleanup task | a storage backend, broadcast | clocks, check before act | the limit is kept up to what is open, a full store opens again | `CloudStorage` |
| Cloud storage (`storage/cloud.rs`) | open segments, index, cache of objects | `store_frame`, upload, `get_frames`, `cleanup` | S3 | failing uploads and deletions, stale cache | every frame is open, in flight, uploaded or counted lost | `CloudStorage` |
| Camera session (firmware `camera.rs`) | attempt, session, combined channel | connect, send, back off, drain | network monitor, bitrate controller, captures | timeouts, network changes, half-written frames | the camera comes back, streams stay sound | `CameraSession` |
| Bitrate control (`capture/abr.rs`, `throughput.rs`, `video.rs`) | tier, pressures, samples, encoder | `evaluate`, `record`, restart | encoder process, sessions | hysteresis, a full command channel, failing restarts | the encoder is at the controller's tier; tiers follow the link without flapping | `BitrateControl` |
| Telemetry (`capture/telemetry.rs`, `web/ws.rs`) | last sent values, merged state | diff, heartbeat, merge | web sessions | drift, lost updates, lag | the browser's state follows the camera's | `WebView` |
| Capture (`capture/video.rs`, `h264.rs`, `audio.rs`) | NAL buffer, samples | read, split, mark, resample | camera session | chunk and batch boundaries | units and samples are neither lost nor split; keyframes are marked | `NalStream`, `AudioCapture` |
| Web video (`web/fmp4.rs`, `ws.rs`, `mod.rs`) | muxer per source, cached init segments, sessions | mux, reset, forward | broadcast, FFmpeg | lag, crash and reset on both sides | no process is fed across a gap; an init before its segments | `WebVideo` |
| Update (firmware `update.rs`, `src/pi/systemd/kodama-firmware.service`) | staging, current and backup binary | download, verify, install, roll back; restore of the backup at a start | commands, systemd | crash between renames, several updates on the same paths | an update installs what it verified, the next start finds an image that starts | `FirmwareUpdate` |
| Relay mode (firmware `relay.rs`) | ring, gauges, upstream task | role detection, forward, subscribe | cameras, clients, upstream server | lag, failure on each of several ways out | gauges count handlers, losses are reported, order is kept | `EdgeRelay` |
| Shutdown (server `main.rs` 368-407) | cancellation token, tracker | cancel, wait | all tasks | - | the server stops | - |
| Identity, build information | - | - | - | - | - | - |

The parts meet in three ways: the router's shared maps under locks (peer table,
command channels, gauges), channels between tasks (broadcast rings, mpsc,
oneshot, watch), and the disk or the object store. The hazards are listed line
by line in `PROJECT.json` with the properties that cover them.

## 2. Plan

In this order, most important behaviour first; all of it is done.

1. `PeerRegistry`, the abstract `PeerOwnership`, refinement and proofs.
2. `CommandRouting`, the abstract `CommandService`, refinement and proofs.
3. `FrameBuffer`, `Backpressure`; `LocalStorage`; with proofs.
4. `RateLimiter` composed with the broadcast in `FrameRelay`, with proofs.
5. `CameraSession` and `BitrateControl`, with proofs.
6. `WebVideo` (muxer, caches and sessions) and `WebView`, with proofs.
7. `FirmwareUpdate` and `CloudStorage` under the storage manager, with proofs.
8. `Demuxer`, `EdgeRelay`, `NalStream` and `AudioCapture`, with proofs.

What could follow: a router that composes peer table and command channels per
connection, which share no state but the connection's end.

Two modules compose others: `Backpressure` runs `FrameBuffer`, `FrameRelay` runs
`RateLimiter` with the camera and client handlers and the ring. `WebVideo`,
`WebView`, `BitrateControl` and `CloudStorage` each model several parts of the
code that interact, since what can go wrong is between them. `MCMediaParts` runs
five parts that share no state: it extends `Backpressure`, `Demuxer`,
`NalStream`, `RelayMode` and `AudioCapture`.

The theorems are in eight modules:

| Module | About |
|---|---|
| `SumTheorems` | induction on finite sets and on the naturals, and from it sums over finite sets |
| `ServerProofs` | `PeerRegistry` and `CommandRouting` with their refinements; `WebView` |
| `LocalStorageProofs` | `LocalStorage` |
| `FrameRelayProofs` | `FrameRelay` with `RateLimiter` |
| `FirmwareProofs` | `FirmwareUpdate`; `CameraSession`; `EdgeRelay`, by way of `RelayMode`; `AudioCapture`; `NalStream` |
| `WebVideoProofs` | `WebVideo` |
| `CloudStorageProofs` | `CloudStorage` |
| `FlowControlProofs` | `BitrateControl`; `Backpressure` with `FrameBuffer`; `Demuxer` |

A module of proofs extends the modules it is about, and so does the `MC` module
of their run: a theorem speaks of the very definition that TLC checks. Modules
extended together have no name in common, hence prefixes such as `Routing`,
`Session`, `View`, `Sender`, `Demux`, `Audio` and `Parser` on `Init`, `Next`, `Spec` and the like.
Some operators are written so that they can be reasoned about: the index of
`CloudStorage` is a set, as the order of its entries matters to nothing; what
`Cleanup` retains in `Demuxer` and in `LocalStorage` is a recursive function, as is
the loop of `ExtractNals` in `NalStream`, over positions in the buffer; and the
sort of a restart in `LocalStorage` says what it returns (`SortedByStart`).

## 3. The modules

### PeerRegistry

One connection handler per member of `Conns`; `stage` is its program counter.

| Model | Code |
|---|---|
| `Accept`, `DetectRole`, `GiveUpDetection` | accept loop and role detection, `apps/kodama-server/src/main.rs` 284-345 |
| `DrawGeneration`, `InsertPeer` | `register_peer` before and under the write lock |
| `OpenStream`, `OpenStreamFails` | `handle_client` 425, whose `?` leaves the entry |
| `StopServing` | the end of the frame loop, for any reason |
| `UnregisterPeer` | `unregister_peer`, which holds the lock throughout |

`Registered` is `RouterHandle::peers`. A gauge (`connected`) is kept as an
integer of which the `AtomicUsize` holds the residue, so that a gauge that would
wrap shows as a negative one. `stats()` reads the gauges outside the lock; a
reading between two steps of a table operation is not distinguished. A peer that
does not open a stream in time counts as a client, so any peer can be detected
in either role. `Router::handle_camera`, which no code calls, is not modelled.

`PeerOwnership` says what the table is for: the connection that joined last for
a key owns it, until that very connection leaves. `PeerRegistryRefinement` maps
an entry to the connection that drew its generation.

### CommandRouting

One reading task per channel (`chanStage`) and one caller of `send_command` per
request (`reqStage`). `AcceptChannel`, `InstallChannel`, `ReadResponse`,
`StopReading`, `CleanupChannel` are `register_camera_commands` from the accepted
stream to the removal of its entry; `RouteRequest`, `InsertPending`,
`SendRequest`/`SendFails`, `TimeOut`, `DropPending` are `send_command` between
its awaits; `CameraExecutes` is a turn of the camera's `handle_commands`.
`Disconnect` is the connection's doing. Requests and responses are carried by
ordered streams, so nothing is reordered within a channel; a disconnect loses
what is in flight. `RoutingAssumption` keeps the ids of one channel apart: they
wrap after 2^32 commands.

`CommandService` is the promise: executed at most once, answered once, a result
only after the execution. An error says nothing about the execution.

### FrameBuffer, Backpressure

`FrameBuffer` has the operations of the buffer as operators on a record (the
frames, the capacity, `last_keyframe_idx`, the statistics); a frame is its number
and whether it is a keyframe. `Backpressure` runs `BackpressureSender::send`
against a receiver on another task: each `try_send` is a step, and the receiver
can take a frame or go away before each.

### LocalStorage

The recording task (`pc`) stores one frame after the other, as the server's
storage task does; cleanups come at any time, since they take only the index.
`BeginClose`, `EndClose`, `CreateWriter` are `get_or_create_writer`, under one
lock; `WriteFrame` is the rest of `store_frame`. Each has its failing twin. A
file is what its writer has written, its buffer included. When the server stops
(`Crash`), `LoseBuffer` and `LoseClosing` decide what of each open file was on
disk: nothing, or a prefix whose last frame may be cut, or, while a header was
being written, part of the header. `Restart` is the scan of
`rebuild_index_sync`. A camera's timestamps increase until `CameraRestarts`, as
they count from the start of its process. A query is an operator: which files
`get_frames` reads, whether it fails, and how often it returns a frame.

The order of entries in the index is kept: a cleanup goes through them in order,
and of two entries of one file only the first finds it. The names of directories,
and entries of other files, are left out.

### RateLimiter, FrameRelay

`RateLimiter` has `check_frame`, `frame_sent` and `tick_abuse_check` as operators
on a limiter's value; `Second` is the window, `NoSecond` the code's `u64::MAX`.
`FrameRelay` runs one camera handler (`pc`) per member of `Cameras` and one
client handler (`client`) per member of `Clients`:

| Model | Code |
|---|---|
| `ReceiveFrame` | a frame arrives and `check_frame` decides |
| `BroadcastFrame`, `ReleaseFrame` | `broadcast_frame`, `frame_sent` |
| `CountFrame`, `CheckAbuse` | the counter of frames and, each `AbuseEvery`-th time, `tick_abuse_check` |
| `Subscribe`, `OpenStream` / `OpenStreamFails` | `handle_client` up to its loop; the ring is subscribed to before the stream is opened |
| `TakeFrame`, `SendFrame` / `SendFails`, `Lag` | a turn of its loop |
| `Tick` | time, which may pass between any two steps |

The ring is tokio's broadcast channel: a sequence of all frames, of which the
last `RingCapacity` can be taken, and a cursor per subscriber. The variables
`accepted`, `dropSecs`, `checks`, `joined`, `forwarded` and `missed` record
history for the properties.

### CameraSession

The loop of `run_async` is `pc`: an `Attempt` drains the channel, `WaitForRoute`
waits for a default route, `ConnectOk`/`ConnectFails` and
`OpenStream`/`OpenStreamFails` open a session, `Receive` with `SendOk`,
`SendFails`, `SendTimesOut` and `NetworkChanged` is its `select!`, `Pause` and
`Backoff...` what comes after it. The network monitor is a second task: it polls
the route (`MonitorPolls`), waits for it to settle (`MonitorSettles`) and bumps
the version of a watch channel (`gen`), of which the loop remembers what it has
`seen`. Captures (`Capture`) fill the combined channel. A dead link swallows up
to `Window` frames before a send blocks. A send given up within a frame leaves
the stream `torn`.

### BitrateControl

The controller of a session (`evaluate` as `Evaluate`, in parts `Congestion` and
`NoCongestion`), the channel of commands with its `try_send` (`Request`) and the
task that owns the encoder (`TakeCommand`, `Restarted`, `RestartFails`,
`EncoderDies`). Time is counted in seconds; an instant the code keeps is an age
that stops growing where nothing compares it any more. A second may pass without
an evaluation, as a send may take five (`camera.rs:543-571`). What the tracker measures
is any rate up to what the link carries, including 0, which it reports with too
few samples. The thresholds are compared as the code compares them, with the
*current* tier.

### WebVideo, WebView

`WebVideo` follows a frame from the router's broadcast (`Publish`) through the
muxer's task (`MuxFrame`, with the outcomes `FindExited`, `Skip`, `StartFails`,
`Feed`; `Lagged` resets all muxers; `HandOn` caches or broadcasts what one call
of `mux_frame` returned) to a WebSocket session (`Join`, `SendCached`, `Receive`,
`SessionLagged`, `Leave`). FFmpeg is external: it writes an `ftyp`, a `moov` and
media (`Write`), and may end (`Crash`). Processes of a source are numbered, so
that an init and the segments it decodes carry the same number (`epoch`). A read
of FFmpeg's output may end after any box.

`WebView` is the other half of a browser session: the telemetry task with its
thresholds, changes and heartbeats (`Sample`), the merge in the server and in
the browser (`Merge`), and the list of cameras, which is fed by frames, by
disconnect messages and, each five seconds, by comparing the router's table with
the one seen before (`ListPeers`).

### FirmwareUpdate

A task per update: `Request` (the paths are taken from `current_exe`, here `exe`),
`RemoveLeftover` and `Create` with an await between them, `Verify` or
`DownloadFails`, `SetPermissions`, `Backup`, `Install` or `InstallFails` with
`RollBack`, `Exit`. `file` has what is at the binary's path, at `.prev` and at
`.new`. `Crash` may come between any two steps. What follows is the unit
`kodama-firmware.service`: `RestoreBackup` is its `ExecStartPre`, which moves the
backup to the binary's path when nothing is there, and `Boot` its `ExecStart`,
which `Restart=always` repeats. Where no whole image is found the model stays
down; that the unit gives up after five starts in a minute (`StartLimitBurst`) is
not modelled.

The code starts a task for every command (`camera.rs:741-772`), so any number may
run at once; `MaxInFlight` bounds it for TLC. They share the three paths, and the
kernel follows the file of the process when it is renamed: who asks for an update
between another's two renames gets `.prev` as its binary's path. An image is named
after the update that brings it. A file keeps its writer when it is unlinked or
renamed; what two tasks have had open at the same time is taken for broken, as is
what was not downloaded to its end, and neither starts. Two history variables tell
updates that meet from those that do not: `owner` has the update whose staging
file no other has touched since it removed what was there, and `mixed` is set when
a task installs a file it does not own, or renames behind another's installation.
Both are about what tasks *did*, not about how many there are.

### CloudStorage

`StorageManager::store` with its limit (`Skip`, `Store`), `CloudStorage`'s
collecting, uploading and indexing (`Upload`/`UploadFails`, `Index`, `Write`),
the cleanup task (`Cleanup`, of which any deletions may fail; its cutoff is 0 or
beyond all timestamps: it is wall-clock time, while timestamps count from the
start of a camera's process),
queries over cached copies (`Retrieve`) and restarts of a camera and the server.
The object store is external: a function from keys to objects.

### Demuxer, NalStream, EdgeRelay, AudioCapture

`Demuxer`: `route` sends to the subscribers of a source, of a channel and to
those of everything, one await after the other (`SendNext`, `SkipNext`,
`Return`), by several callers while receivers read, drop or are replaced.
`NalStream`: the encoder's bytes (`Stream` of the units it writes) in chunks of any
size (`ReadChunk`) through `NalParser::feed` and `flush`, and the mark
`contains_keyframe` gives each chunk; `unparsed` is the parser's `buffer`.
`EdgeRelay`: accept, role detection, camera
and client handlers, the ring and the upstream task of the firmware's relay
mode. `AudioCapture`: batches of the device, resampled each by itself, cut into
packets.

## 4. What is checked

All runs: `tlc -config <cfg> <module>`. `CHECK_DEADLOCK FALSE` everywhere, since
connections, requests, frames, updates, faults and crashes are bounded in number
and the system may come to rest; what must go on nevertheless is stated by the
liveness properties. A property of a run is a conjunction of named parts where
that reads better; a run's invariants include its module's `TypeOK`.

| Run | Bounds | Shows |
|---|---|---|
| `peer_registry` | 3 connections, 2 keys | `TypeOK`, `EntryHasHolder`, `GaugesExact`; the table implements `PeerOwnership`; `DrainedKeyLeaves`: a key whose connections are over is removed |
| `command_routing` | 2 requests, 2 channels, 2 cameras, ids below 3 | `RoutingExact` (answers match, pending while sent, no dead channel listed), routing implements `CommandService`, `EveryRequestReturns` |
| `media_parts` | one of five parts at a time (`part`): 5 frames, buffer of 0, 1 or 2 before a channel of 1; demuxer with 2 callers, 2 receivers, 2 frames, channels of 1; 3 units in chunks of up to 7 and a parser's buffer of 8; relay of 3 peers and an upstream, 2 frames, ring of 1; audio at 3 rates, 4 batches, channel of 1 | `BufferExact`, `KeyframesKept`, `SubscribersExact`, `NalsExact`, `KeyframesMarked`, `RelayExact`, `AudioExact`, `PartsProgress` |
| `local_storage` | 2 cameras, 2 segments each, 3 frames, one crash, camera restart, flush and fault, any cleanups | `DurableFramesReadable`, `DiskAccounted` |
| `frame_relay` | either 2 cameras, 1 client, 5 frames and a ring of 2 in one instant, or 1 camera with 6 frames on 2 channels (1 and 2 per second) over 3 seconds of 2 ticks | `ForwardingExact`, `OutstandingInHand`, `BurstBounded`, `AbuseIsSustained` |
| `camera_session` | 2 interfaces, 3 route changes, a dying link, channel of 2, window of 1 | `StreamSound`, `StaleSignalIgnored`, `CameraRecovers` |
| `bitrate` | 4 tiers, 5 throughputs, 3 sessions, restarts of up to 2 s, 1 failure, command channel of 2 | `EncoderInStep`, `TierChangesSustained`, `SlowLinkReachesMinimum` |
| `web_video` | 1 camera, 3 crashes, failed starts or lags of the muxer, 2 lags of the session, channels and output of 2 | `FeedSound`, `SegmentNeverNewerThanInit`, `SessionCatchesUp` |
| `web_view` | 1 camera, a field that drifts over 3 values with threshold 2 and an optional one, heartbeat of 3 s, channel of 1, 1 lost payload | `BrowserInStep`, `ListFollowsCamera` |
| `update` | 2 updates, one after the other or at once, 2 crashes, 3 failing steps | `InstallsWhatItVerified` (of an update that had the staging file alone), `NextStartWorks` (as long as none is installed the next start finds the image that runs, and afterwards one that starts unless updates got in each other's way), `UpdateTakesEffect` |
| `update_race` | 2 updates at once | must fail: `InstalledIsVerified` |
| `cloud_storage` | 2 cameras of 2 lives, 2 frames each over 2 intervals, limit of 2, 1 fault, 1 restart of the server | `FramesAccountedFor`, `UsageAccounted`, `RetrievedIsUploaded`, `LimitIsLifted` |

Why the bounds are enough. Two connections suffice for one to overtake another,
the third lets a removal come after two replacements; the second key shows that
keys do not interfere. Two requests are the least that can be mixed up, two
channels give a camera that reconnects, or two cameras. Five frames fill channel
and buffer and leave two to be evicted and put back; a buffer of 0 is the limit
at which a keyframe is kept beyond the capacity. Two callers with a channel of
one wait for each other's receivers. Three units give one that is cut off on
each side; chunks of any size put every chunk boundary everywhere in a start
code. Rates below, at and above the target's and batches smaller and larger than
a packet give every way to round. Two segments of a camera give one that is
finalized while the other is open, and three frames one segment of two frames
that can be cut in either. The frame path is checked in an instant and over time
because time and clients do not interact; five frames of two cameras overrun a
ring of two while a client opens its stream or sends, and six frames over three
seconds give a burst across a window's end and a check without drops between two
with. Three route changes are a change, its change back within the debounce, and
one more during the reconnection. The throughputs lie on both sides of every
threshold, and the periods keep the order of the code's 3, 5 and 15 seconds;
three sessions leave two generations of commands under way. Three faults of the
muxer give a crash, a failed start after it and a lag, two lags of the session
one before and one after a new init. Two updates are the least that can meet on
the staging file or between each other's renames; two crashes interrupt both
renames, or the download that follows a start from the backup; three failures are
an install, its rollback and a step of the other update. The two lives of a camera meet in an
interval, and one timestamp lies on an interval's start.

`SYMMETRY` is used for the cameras of `frame_relay` and `local_storage`, whose
runs have no liveness property.

### Fairness

Weak fairness unless said otherwise, and never for what the environment does.

| Module | Fair | Because |
|---|---|---|
| `PeerRegistry` | a handler that can draw, insert or unregister | the runtime polls ready tasks; the table's lock is not held across another await |
| `CommandRouting` | `send_command` goes on or its timer fires | the timeout alone; neither camera nor network is fair |
| `CameraSession` | monitor, captures, the loop; a send ends with success, failure or the timeout | every wait of the loop has a timer |
| `BitrateControl` | time, a connected session that goes on evaluating, the encoder's task, a session that is retried | frames flow while a session is connected; a restart takes at most `RestartTime` |
| `WebVideo` | the muxer's task, the session's loop, FFmpeg's output; *strong* fairness of a camera's keyframes | an encoder sends keyframes for ever; the bounded model makes publishing wait for room at times |
| `WebView` | samples, the session's timer and loop | they are tokio intervals |
| `FirmwareUpdate` | a task that runs goes on; the service restores the backup and starts the binary | `Restart=always` and `ExecStartPre` of the unit; crashes and failures are not fair |
| `CloudStorage` | a store in progress, the cleanup task | the recording task awaits nothing else; the cleanup's interval |
| `Demuxer` | callers go on; who keeps a receiver reads from it | otherwise `route` does wait for ever, which is the bounded channel's meaning |
| `EdgeRelay` | a subscriber takes what is there, a send ends | QUIC's idle timeout ends a send on a dead connection |
| `AudioCapture` | the thread | |

### Disagreements with the source's own words

One is a run that must fail: `update_race`. Two `UpdateFirmware` commands at once
share one staging file, so the file one task has verified need not be the one it
installs (`update.rs:80`, against `update.rs:4-8`).

The others are in the models, where the properties say under which condition the
promise holds nevertheless.

- `router.rs:425`: a client whose stream cannot be opened stays listed
  (`EntryHasHolder` allows a failed holder).
- `router.rs:186`: generations are drawn before the lock, so the older of two
  handlers can insert last (`PeerOwnership` speaks of the last to insert).
- `router.rs:201`: a key that changes its role while registered stays counted
  under the old one (`GaugesExact` asks for stable roles).
- `router.rs:509`: the end of an old command stream removes the entry of the new
  one; the camera then gets no commands until it reconnects.
- `router.rs:529`: the id of the 2^32nd command is 0, that of the ready message.
- `router.rs:550`: callers of a camera that is gone wait for their timeout, since
  they hold the map with their own sender.
- `rate_limit.rs:235`: the abuse counter counts checks, one per 30 frames, not
  seconds.
- `muxer.rs:239`: a put-back frame goes behind younger ones and is counted as
  received again.
- `local.rs:192`: a camera restart overwrites its finalized recordings;
  `local.rs:414`: a segment open at a crash has no times and goes with the next
  cleanup; a segment cut off within a frame makes queries fail; an indexed
  segment opened again is counted twice once it is finalized.
- `camera.rs:498`: a debounced signal can come late and end a session that is
  already on the new interface.
- `camera.rs:636-638`: the first backoff is 2 s and never the documented 30 s.
- `abr.rs:11-12` speaks of 80 % of the next tier's rate; `abr.rs:205` compares
  with 90 % of the current one.
- `video.rs:212`: a restart that fails keeps the new bitrate, so the same command
  is skipped later; nobody revives an encoder that ended by itself.
- `fmp4.rs:27`: after a restart a segment may start within a fragment.
- `ws.rs:395`: a frame that arrives after its camera's disconnect message lists
  the camera again until the next comparison.
- `telemetry.rs:189`: a field that becomes missing is never reported missing, and
  a slow drift is only sent with the heartbeat.
- `cloud.rs:398`: a cached copy whose first timestamp is the start of an interval
  has the name of the segment being written there; `cloud.rs:291`: failed uploads
  are not retried; the index is in memory only, and `max_cache_bytes` is unused.
- `update.rs:74`: a crash between the two renames, or a rollback that fails, leaves
  no binary in place. The unit's next start moves the backup back, which uses it
  up: the camera goes on without one until the next update (`NextStartWorks`).
- `update.rs:35`: `current_exe` is where the process's file is *now*. An update
  that is asked for between another's renames, or after a rollback that failed,
  installs to `.prev`; it takes effect only if the binary's own path is empty
  (`UpdateTakesEffect`).
- `update.rs:125-127`: removing what is at the staging path and creating the file
  are two awaits, so two tasks can write into one file, and each verifies the
  digest of what it *received*, not of what is in the file.
- `frame.rs:71`: the reader refuses the largest payloads the writer accepts.
- `h264.rs:257`: a keyframe whose start code falls into two chunks, or whose
  header is a chunk's last byte, is not marked; `h264.rs:223`: `flush` of bytes
  without any start code returns them as a unit.
- `demuxer.rs:60`: one full subscriber stops the routes to all others.
- Server `main.rs` and `relay.rs`: a camera that opens its stream after 2 s is
  taken for a client; `relay.rs:83`: the upstream task never starts again, and
  the upstream server limits all cameras of a relay as one peer.
- `audio.rs:255`: audio grows by up to a sample per batch; the channel to the
  thread is unbounded, and the thread of a silent device does not end.

## 5. What is proved

All theorems hold for every value of the constants that satisfies the named
assumptions of the module.

| Theorem | Property | Rests on |
|---|---|---|
| `ServerProofs!TypeCorrect`, `EntriesHaveHolders` | `TypeOK`, `EntryHasHolder` | `IInv`: locals follow the stage, generations of different connections differ |
| `GaugesAreExact` | `GaugesExact` | how each step changes the table, cardinality of a set with one element more or less |
| `RemovalsAreOwn` | `OnlyHolderRemoves` | as above |
| `RegistryImplementsOwnership` | `ImplementsOwnership` | every step is one of `PeerOwnership` or a stutter |
| `BrowserCatchesUp` | `BrowserInStep` | `ViewInv`: `Steady`, see below |
| `RoutingIsExact` | `RoutingExact` | `RoutingIInv`: `ChannelsGiven`, `IdsDrawn`, `OnceToCamera`, `ResponsesExecuted`, `UnsentNotRun`, `ChannelsHaveKeys` |
| `RoutingImplementsService` | `ImplementsService` | the same, as a step simulation |
| `LocalStorageProofs!DurableIsReadable` | `DurableFramesReadable` | `StorageInv`: `ControlSound`, `FilesSound`, `WriterSound`, `EntriesSound`, `DurableSound` |
| `DiskIsAccounted` | `DiskAccounted` | `StorageInv`: `SizesSound`, `TotalSound`; sums over the index |
| `FirmwareProofs!OwnersInstallWhatTheyVerified` | `InstallsWhatItVerified` | `IInv`: `OwnersHaveFiles`; any number of updates at once |
| `AlwaysStartsAgain` | `NextStartWorks` | `IInv`: `InPlace`, `NoOldBackup`, `PathsKnown`; any number of updates at once |
| `StreamsSound` | `StreamSound` | `SessionInv`: `SignalsFollowRoute`, `TornInPause`, `CalmIsQuiet` |
| `StaleSignalsIgnored` | `StaleSignalIgnored` | the same |
| `RelayIsExact` | `RelayExact` | the hypothesis `RelayOfPeers`; `EdgeInv`: `RingBounded`, `Following`, `MoveSizes` |
| `AudioIsExact` | `AudioExact` | `AudioInv`: packets and remainder, concatenated, are the resampled batches; concatenation and sums |
| `UnitsAreWhole` | `NalsExact` | `NalInv`: `Holds`, see below; where start codes are in a stream, what `extract_nals` makes of a piece of it |
| `KeyframesAreMarked` | `KeyframesMarked` | the same facts about start codes |
| `FrameRelayProofs!BudgetNeverLeaks` | `OutstandingInHand` | `CameraSound`: the bytes outstanding are those of the handler's frame |
| `DisconnectsAreEarned` | `AbuseIsSustained` | `CameraSound`: the counter counts the drops of the last checks |
| `BurstsAreBounded` | `BurstBounded` | `Windowed`: what a window has counted is what was accepted since its start; sums over sets of frames |
| `ClientsGetTheirDue` | `ForwardingExact` | `RInv`: frames of the ring, in hand and forwarded; frames of a handler lie in order |
| `WebVideoProofs!FeedIsSound` | `FeedSound` | `FeedInv`: a gap is behind a muxer that will be reset |
| `SegmentsFollowInits` | `SegmentNeverNewerThanInit` | `StreamInv`: see below |
| `CloudStorageProofs!NoFrameGoesMissing` | `FramesAccountedFor` | `Separate`, `Placed`, `Counted` |
| `AccountsAreRight` | `UsageAccounted` | `Separate`, `Placed`, `Accounts`; sums over the index |
| `RetrievalIsFaithful` | `RetrievedIsUploaded` | `Separate`, `Kept`, `Downloaded` |
| `FlowControlProofs!EncoderStaysInStep`, `ChangesAreSustained` | `EncoderInStep`, `TierChangesSustained` | the hypothesis `ShortRestarts`; `QueueSound`, `Timed`, `PressuresSound` |
| `BufferIsExact` | `BufferExact` | `SenderInv`: `GoodBuffer`, `Apart`, `Newest`, `Accounted` |
| `KeyframesAreKept` | `KeyframesKept` | the same, step by step |
| `EverySubscriberIsServed` | `SubscribersExact` | `DemuxInv`: `Registered`, `Going`, `CountsExactly`, `Served` |

Why an inductive invariant is needed each time:

- *Peer table.* An entry that matched a handler which did not write it would be
  removed wrongly. That no two connections hold one generation excludes it.
- *Command routing.* A response is matched by channel and id only. That ids of a
  channel are drawn in order, that each is sent at most once, and that a response
  stands for an executed command make the match the right one.
- *Local storage.* What was finalized must survive what is written, closed or lost
  later. Each camera has one writer, in the table or on its way out of it
  (`OpenWriter`), and unless it was opened over an indexed segment no entry names
  its file (`WriterSound`), so what happens to that file happens to no recording.
  A file enters the index with times that span its frames, which holds of a
  writer as long as the camera's clock does not go back, and the scan of a restart
  finds the same times in its header (`DurableSound`). An entry's size is that of
  its file (`SizesSound`): a cleanup subtracts what it deletes, a restart counts
  anew, and `total_bytes` stays the sum over the index (`TotalSound`). What all
  steps do to one camera comes down to eight effects, from `Untouched` to `Scans`,
  each with a lemma of its own; the actions are then mapped to them.
- *Camera session.* A signal the loop has not seen may be an old one. That the
  monitor has sent at most one per change of the route, and fewer while one is
  outstanding, says that a calm session has seen all.
- *Update.* Nothing is assumed of the number of tasks. The staging file of an
  owner has got as far as its task (`OwnersHaveFiles`): whoever else touches the
  path ends the ownership. For the next start: until an update is installed, the
  image that runs lies at the binary's path, or at `.prev` with nothing at the
  binary's (`InPlace`). That a rollback cannot bring back an image older than the
  one that runs needs `NoOldBackup`: whoever is between its two renames has
  already replaced the old backup, by the image that runs.
- *Frame relay.* The budget can only be judged together with where the handler
  is between `check_frame` and `frame_sent`. A burst may lie across the end of a
  window; what it has is bounded by the two windows it meets, each of which has
  counted what was accepted since its start (`Windowed`). For the clients,
  losses and order are between a cursor, the frame in hand and the ring.
- *Relay mode.* The same of a cursor, the frame in hand and the ring
  (`Following`); the gauges count handlers by stage, so a step that moves one
  handler changes two cardinalities.
- *Audio.* Packets cut across batches, so neither means anything alone: all packets
  and the remainder, concatenated, are the resampled batches, concatenated. What
  rounding adds is a sum over batches, each less than a sample.
- *NAL units.* The parser's buffer begins in the middle of the stream and ends
  anywhere. `Holds` says from which byte of the stream on the buffer is it
  (`Excerpt`), that the units returned are whole ones of before that byte
  (`WholeUnits`), and, as long as nothing was given up, that they are all of them
  and the byte begins the last unit begun. One feed then splits off the units
  that are complete, by induction from the buffer's end to its beginning.
- *Browser.* Fields arrive one by one and payloads are lost, so a single state
  says nothing. The browser is right once there were more undisturbed samples
  than samples since the heartbeat: then the heartbeat was merged already, or it
  is in the queue and nothing behind it says otherwise (`Steady`).
- *Cloud.* A timestamp is given out once, so the segments of a source are apart,
  whether open, in flight or indexed, and apart from what was lost (`Separate`);
  this is what makes keys of objects and names of copies unambiguous. The sum
  that is `total_bytes` only changes by the segment that enters or leaves the
  index; only one upload is under way, and it began below the limit (`Placed`).
- *Backpressure.* A frame put back goes behind younger ones, so the buffer is in
  no order. Frames are in one of three places, once (`Apart`); the one in hand is
  newer than all (`Newest`); and the index of the latest keyframe is that of the
  buffer's last one, through evictions and put-backs (`GoodBuffer`).
- *Demuxer.* A frame is owed to whom the filter lets it through, but goes to who
  is in the tables. `Registered` says that an open receiver not replaced is in
  its place and nobody else is in one but closed ones; `Going` that a call has
  the youngest frame of its caller and goes to nobody twice; `Served` that what
  is owed has arrived or is on its way, and not both.
- *Web video.* What the browser has is behind by what is on its way. `Ordered`
  says of the session's queue that epochs do not go back and end at the cached
  one; `Follows` says for each source that a step forward to a segment has an
  init before it, unless the session is about to lose its inits because it lags;
  `Handing` and `InitsFollow` tie the queue to the results the muxer still hands
  on.
- *Bitrate.* A command dropped at a full channel matters only if the commands
  before it ask for another rate. `Timed` bounds the age of the last change by
  what restarts are left: these are over before the next change, so only the
  command of a new session can find the channel in use, and then behind at most
  one of another rate (`QueueSound`).

Assumptions: the sets whose cardinality matters are finite, sentinels are not
values, bounds are naturals (`KeysAssumption`, `RoutingAssumption`,
`CameraAssumption`, `UpdateAssumption`, `RelayAssumption`, `LimiterAssumption`,
`WebVideoAssumption`, `WebViewAssumption`, `CapacitiesAssumption`,
`DemuxerAssumption`, `BitrateAssumption`, `CloudAssumption`, `StorageAssumption`,
`SentinelAssumption`, `AudioAssumption`, `ParserAssumption`). `ParserAssumption`
also says what H.264 guarantees of a NAL: it has no start code within and no zero
at its end. `RoutingAssumption`
also says that a channel carries fewer requests than there are ids;
`CloudAssumption` that no two lives of a camera give out the same timestamp,
which are counted in microseconds. `RelayMode` instantiates `EdgeRelay`, so what
is assumed of its constants is the hypothesis `RelayOfPeers` of the theorem:
finitely many peers, of which the upstream server is none, and naturals for the
ring's capacity and the bound. `ShortRestarts` says that the channel holds two commands or more, that a restart is shorter than
cooldown and downgrade time together, and two restarts shorter than cooldown and
upgrade time; the values of the run meet it, and so does the code as long as
the encoder restarts within 8 s (`abr.rs`, channel of 4 in `camera.rs`).

Only model-checked is all liveness (`EveryRequestReturns`, `DrainedKeyLeaves`,
`CameraRecovers`, `SlowLinkReachesMinimum`, `SessionCatchesUp`,
`ListFollowsCamera`, `UpdateTakesEffect`, `LimitIsLifted`, `PartsProgress`), since
fairness and `ENABLED` are out of the prover's reach.

Induction over data: the library's rules take the induction hypothesis as an
operator, which the prover cannot instantiate. `SumTheorems` states induction on
the naturals and on finite sets for a *set* of those for which something holds,
from the well-foundedness of the naturals; sums over the indexes of both storages
and over the frames of a window, the recursive functions of `Demuxer`'s `Retained`,
`LocalStorage`'s `Without` and `NalStream`'s `ExtractNals`, the concatenation of a
sequence of sequences (`FlattenSeq`), and the existence of what `SortedByStart`
chooses, are handled with it. What `SelectSeq` returns in general
remains out of reach: `WebVideo` uses it, and its proofs hold whatever it
selects. No module declares a recursive operator.

## 6. Not modelled

- *Wire formats.* Their layout is data without control. What matters of the order
  is modelled where it is used: a frame cut off within a write (`CameraSession`),
  requests and responses (`CommandRouting`).
- *Transport.* Wrappers over the QUIC library without state of their own;
  connections, streams and their failures are actions of the modules that use
  them.
- *Shutdown.* Every task selects on one token, and the wait is bounded: no task
  waits for another. What a stop leaves of a recording is the crash of
  `LocalStorage`.
- *Identity, build information.* No state over time.
- *Of modelled parts:* power loss, which can undo completed writes; a flush that
  interleaves with a store of the same source (`local.rs:251`); `available_bytes`;
  the statistics of the storage manager and its `keyframes_only` filter; signing
  of S3 requests; the length of the camera's backoff and the end of all captures;
  reading `/proc`, `/sys` and GPS; starting the encoder process and the test
  sources; the layout of MP4 boxes; HTTP routes and static files; logging and
  environment variables.
