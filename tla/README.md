# A verification project for Agentic Gaming

TLA+ models of Agentic Gaming: its Core (`src/src/agentic_gaming`), the vision
runtime of the FNAF 1 Game Pack (`src/game-packs/fnaf1/vision/runtime.py`) and the
session of the Host Bridge (`src/host-bridge`); the TLC configurations that check
them on small instances; and proofs, checked by TLAPS, that the central properties
hold for every value of the constants.

The program lets an agent watch a game. A **Host Bridge** (C#, Windows) captures
the game's window and audio and sends them over one WebSocket to the **Core**
(Python, FastAPI, one asyncio event loop). The Core analyses frames with a **Game
Pack**, returns annotations that the Bridge draws on an overlay, analyses audio,
and keeps **runs**: a world state per run that perceptions change and that
decisions and dry-run executions read, with an event on a bus for each of them.

## Inventory

| Part | State | Operations | How it interacts | What is hard | Module |
|---|---|---|---|---|---|
| Core, vision pipeline (`main.py`, `host_bridge`) | one-slot mailbox `pending_frame`, event, lock, sequence numbers; bridge status; `latest_vision`; two files | hello, frame, disconnect; take, analyse, discard, publish | receive loop and `vision_worker` share the mailbox; analysis in a thread; replies on the socket; runs get the result | interleaving at every await, a lock held over awaits, failures half-way | `VisionPipeline`, `LatestFrameWins` |
| Core, connections that overlap (`main.py`) | status, profile and run of the last hello, `latest_vision`: one for all | connect, hello, disconnect, end of a handler | handlers of an old and a new client at once | an old handler that ends late, or by an exception of its own | `BridgeConnections` |
| Core, read endpoints (`main.py`) | none of their own | latest-vision, latest-vision-frame | memory first, files after a restart | a stop between or inside two writes, a write that raises | `LatestVisionFiles` |
| Core, audio intake (`main.py`, `audio_chunk`) | tracked stream and sequence, counters, analyzer, three files | hello, audio_chunk with its error replies | shares status with the vision path | order of checks and effects, partial failure | `AudioIntake` |
| Core, audio analysis (`audio_analysis.py`) | ring buffer, loudness history, candidate | analyze, snapshot | called by the intake | eviction and warm-up boundaries, two copies of one rule | `AudioAnalysis` |
| Core, runs (`main.py`, `world_state.py`, `agent.py`, `motor.py`) | world state, sequence | create, vision, audio, decide, execute | any number of callers and the vision worker; bus | concurrent callers, a publish that raises | `RunSession`, `WorldState` |
| Core, event bus (`event_bus.py`) | list of events or a NATS connection | publish | runs | suspension and failure of publish | part of `RunSession` |
| Core, vision host (`vision_host.py`) | provider cache | observe, compile | called from worker threads | unsynchronised check-then-create | `CompiledBoxes` |
| FNAF 1 runtime, compiled boxes (`runtime.py`) | manifest file, boxes and mtime in memory | compile, load | threads, restarts | a temporary file for all, two attributes written one after the other | `CompiledBoxes` |
| FNAF 1 runtime, viewport (`runtime.py`) | pan and shape of the last frame | register, ROIs, scopes, hints | threads of an old and a new connection | what is kept from a frame of another size; rounding at four places | `ViewportTracking`, `FrameGeometry` |
| FNAF 1 runtime, conclusions (`runtime.py`) | what one frame has collected | loop over the candidates; score a signature, camera, scene, status | the observation | ties, references that contradict each other, a candidate that could not be looked at | `SceneObservation` |
| Host Bridge, session and overlay (`CoreWebSocketClient.cs`, `OverlayWindow.cs`) | three tasks, send gate, cancellation; current frame and annotations | capture, update, send, receive, close | the Core; the overlay's thread | which task ends the session; annotations that meet another frame | `HostBridgeSession` |
| The rest | see *Not modelled* | | | | |

`PROJECT.json` lists each part with its status and every hazard found, at its line,
with the properties that are about it.

## Plan

Done: the vision pipeline with its abstract specification, runs, audio, the files
and read endpoints, overlapping connections, compiled boxes, viewport, scene and the
session of the Host Bridge, each with a run; every safety property a passing run
checks is proved.

Open, in this order:

1. An abstract journal that `RunSession` implements, in the way `LatestFrameWins` is
   implemented by `VisionPipeline`.
2. The audio capture of the Host Bridge composed with `AudioIntake`: packets dropped
   in the Bridge and sequence numbers in the Core.

Modules that are proved about have their bounds as constants with assumptions and
recursive functions instead of RECURSIVE operators.

## Modules

### VisionPipeline

One action is the code between two awaits. Intake is the receive loop, with
`intake` saying where it stands: reading, waiting for the lock with a frame
(`place`), or sending a reply. Worker is `vision_worker`: waiting, in the analysis
thread (`observe`), sending annotations, publishing the event.

| Action | Code in `main.py` |
|---|---|
| `Connect`, `Disconnect`, `HandlerRaises`, `PlacingRaises` | 353-382, 1007-1021, exceptions no `except` catches |
| `ReceiveFrame`, `PlaceWaitingFrame` | 668-744; the second when `pending_frame_lock` was taken |
| `Hello`, `RejectFrame`, `ReplySent` | 560-637, 638-666, the await in `send_bridge_json` |
| `WorkerTakes` | 543-553 |
| `ObserveReturns` = `Discard`, `Publish` or `PublishFails` | 438-450, 451-497, a file write that raises |
| `ObserveFails`, `AnsweringFails` | 529-541 before and after publication |
| `AnnotationsSent`, `EventPublished` | 498-528 |

`pending_frame_lock` and `send_lock` are asyncio locks, which serve waiters in
order and do not suspend when free. So `send_lock` is not a variable: `outbound`
records replies in the order of the requests. A frame is its number; the number is
the value of `frames_received` it brought. hello matters here only for the run it
names. heartbeat and unsupported messages behave like `RejectFrame` in this path.
`published`, `failed` and `lost` are history.

Left out: two connections at a time, which `BridgeConnections` has; what is in a frame; a file write that raises is
taken to leave the old contents; latency percentiles; the event list of the bridge.

### LatestFrameWins

What the client is promised: every accepted frame is acknowledged in order, and
annotations come only for the newest acknowledged frame, at most once, straight
after its acknowledgement; the served vision state moves with them. `VisionPipeline`
implements it with `wire <- outbound`, `latest <- latestVision`.

### WorldState, RunSession

`WorldState` has the store's two perceptions as functions from a world to the next.
`RunSession` has one action per endpoint. The only await that can suspend an endpoint
is `bus.publish`, so an action runs up to it: state change, sequence number and
envelope are one step, and `PublishReturns` is the rest. `Raises` is a publish that
raises: the caller gets status 500 and nothing is undone. That both buses take an
event before they suspend is read from `InMemoryEventBus.publish`; for NATS it is an
assumption about its client. What the agent was given (`seen`), `silent` and
`raised` are history.

Left out: values of facts and of `changed` lists sent by clients, more than one run
(runs share nothing but the bus), `consume_audio`, which nothing calls, and packs
without actions or unknown motor programs, whose requests change nothing.

### AudioAnalysis, AudioIntake

`AudioAnalysis` has the analyzer's steps as functions of an analyzer record.
`Evicted` states where the `while` loop stops instead of running it; each of the two
queues has its own operator, as each has its own loop in the code. Durations and
loudness are whole numbers; the measurement of PCM, salience and latency are left out.

`AudioIntake` has one action per outcome of a message: nothing is awaited until the
reply is sent, so a message is one step and messages of all connections form one
sequence. `AcceptChunk`, `AnalysisFails` and `WriteFails` share the gap count, which
the code does before it analyses. The five replies that reject a chunk before that
change nothing here (`InSequence`). `heard`, `analysed`, `opening`, `accepted`,
`droppedBefore` and `interrupted` are history. `heard` has the chunks themselves and
nothing of the analyzer: which of them were loud, and which run of them is unbroken,
`CandidateIsLoudRun` works out anew from their levels and durations (`Loud`).

### LatestVisionFiles

The publication of a frame, `process_latest_frame` 460-484: each file is emptied and
then filled, memory is set last. No endpoint runs in between, since nothing is
awaited; but a write may raise (`WriteRaises`) and the process may stop at each step
(`Crash`, `Restart`). `LatestVision` and `LatestVisionFrame` are the two endpoints as
functions of memory and files, with their status codes. `published` and `interrupted`
are history. `PictureIsOfItsFrame` has a condition because the code has none: after
a restart that follows an interrupted publication, picture and state may be of two
frames, and 200 is answered for them.

### BridgeConnections

Clients connect one after the other. The handler of a client that has gone may have
messages to read and a frame in its worker while the next client connects. Per
handler the mailbox and the worker, shared the status, the client whose hello came
last, `latest_vision` and what runs were given. The client is `RunAsync` of
`CoreWebSocketClient.cs`: `SendFrame` is a round of its loop, `Leave` its end, after
which it does not connect again. `WorkAfterCancel` is the
`finally` block of the handler, which cancels the worker; `HandlerRaises` an
exception other than `WebSocketDisconnect`, of `receive_json` (main.py:558), of a hello
or of a frame, before or after the message has changed the status or the hello. `overlapped` and `raised` are history.
What holds while handlers do not overlap does not hold otherwise: a frame in
analysis when the next hello arrives goes to the run of that hello (main.py:498), an
older frame may replace a newer one of the other client, and the status is that of
whichever handler wrote it last.

### CompiledBoxes

Threads of `asyncio.to_thread`, each with one call to `observe` or `compile`. An
action is what a thread does between two accesses to a file or to an attribute of
the provider: finding or making and storing the provider (vision_host.py 74-109), the
stat, read, assignment and mtime of a load (runtime.py 659-688), opening, writing and
replacing the manifest of a compilation (runtime.py 499-515). Nothing locks any of
it. A file is an inode: the temporary name and the active name refer to files,
`os.replace` moves the name, and a thread that has a file open goes on writing it
wherever its name has gone. What a write leaves is torn until it ends (`WritePart`),
and after its end too where another compilation has written the same file since: of a
longer text a tail may stay behind (`MayBeWhole`). Only what was whole at some moment is
a manifest that can be parsed (`written`). `Raise` is an exception of the call, also of
reading a torn file in the middle of a character, which the load does not catch
(runtime.py:686), and `Restart` a stop of the Core, at any step. Every write is taken
to give a file an mtime of its own.

Two calls that overlap break more than the properties say is kept: two compilations
share the temporary name (runtime.py:500), so that one may move the half-written file
of the other into place; and a load that is overtaken may remember the mtime of boxes
another thread has replaced (runtime.py:667), which keeps the old ones in use until
the manifest changes again. So `AnsweredCompilationIsActive` and
`ObservationUsesActive` are stated for calls that do not overlap, `TornIsNeverUsed`
and `ProvidersConverge` for all.

### FrameGeometry, ViewportTracking

`FrameGeometry` is the horizontal arithmetic: width of the view, ROI of the reference
in the frame, scope of an entity, hint box, with `Round` as Python rounds. Fractions
are exact, of a common denominator `Unit`. `ViewportTracking` is one observation
after the other and of several threads: forgetting the pan when the shape changes,
reading the previous pan, searching near it, searching everywhere, refining, refusing
a jump, and keeping the result. A frame is its size and the pan it was taken at; the
error of a position is its distance from there, up to `Blur`, so that the search has
something to find. The vertical axis has no pan and is left out.

With two threads the pan of a wider view can be the start of a search in a narrower
one; then `range` is empty and `min` raises (runtime.py:893). `SearchNeverRaises` and
`StillViewIsFound` are therefore stated for observations that follow one another,
`PanFitsItsFrame` for all. A frame wider than the reference is given the pan 0
(runtime.py:833), although it shows more than the reference has: `_viewport_gray`
stretches all of the reference over it while `_roi_for_frame` keeps the scale, so that
what is compared is not the same place. `WorldRoiIsAligned` is stated for frames that
show a part of the reference (`ShowsPart`).

### SceneObservation

One frame after the other, and in each the candidates of the loaded pack one after the
other, as the loop of `observe` has them:

| Action | Code in `runtime.py` |
|---|---|
| `Decode` | 267-291: the picture, the camera title, the pan, and empty results |
| `PassOver` | 293-306: disabled, of another scene or camera, or without a ROI |
| `Mismatch` | 307-309: the space of the ROI is another; a world candidate is given up |
| `NotRegistered` | 310-319: a world candidate without a pan is given up |
| `OutOfView` | 320-328: the ROI lies beside the picture |
| `Evaluate` | 329-344: `_detect_candidate`, less absences on a camera that is not on |
| `Conclude`, `Answer` | 346-384 |

`entities` and `unavailable` are the loop's two accumulators. `ReportsWhatWasLocated`
says what they should come to without following the loop, over all candidates at once.
It names the two candidates for which the code stays "ready" although it has not looked
at them: one whose ROI the pack does not define (runtime.py:305) and one whose ROI is
out of the picture (runtime.py:327).

`_signature_score`, the vote of several negatives and the ranking of several positives in
`_detect_candidate` are functions of a frame of a few gray pixels; `Detect` runs over
the positives as a recursive function. Scores are whole ten-thousandths, rounded down.
Blurring, scaling, morphology and connected components of OpenCV are left out: of which
overlaps something survives them is a part of the candidate (`components`). A candidate
has a scene and one entity, as in the shipped `pipeline.json`.

### HostBridgeSession

`RunAsync` of the Host Bridge from the hello to its end: the frame loop, the receiver
and the audio task, each a variable that says at which await it stands.

| Action | Code in `CoreWebSocketClient.cs` |
|---|---|
| `NextRound`, `HideOverlay`, `TakePicture`, `UpdateOverlay`, `SendFrame`, `DelayEnds` | 66-106 |
| `LoopTakesGate`, `AudioTakesGate` | `SendAsync`, 343-356 |
| `LoopIsCancelled`, `LoopFails`, `AwaitReceiver`, `AwaitAudio`, `CloseSocket` | an await that raises, and the `finally` block 108-137 |
| `ReceiveAnnotations`, `ShowAnnotations`, `ReceiveClose`, `ReceiverIsCancelled`, `ReceiverFails` | `ReceiveLoopAsync`, 293-334, and `OverlayWindow.UpdateAnnotations` |
| `ChunkIsFull`, `SendChunk`, `AudioEnds` and its uses | `RunAudioAsync`, 139-178, and the continuation 59-63 |
| `UserStops`, `CoreAnnotates`, `CoreCloses` | Ctrl+C in `Program.cs`, and the Core |

`CoreAnnotates` sends what `LatestFrameWins` promises: annotations of frames it has,
each at most once, in their order. `TakePicture` need not happen:
`WaitForBitmapAsync` polls until the compositor has delivered a picture. The loop
looks at the receiver only between frames and nothing else does, so a session whose
connection has ended goes on waiting as long as no picture comes; `OneEndsAll` says
that this is the only case. An exception of the receiver leaves the `finally` block
before the audio task is awaited and the socket closed; both end all the same.
A call on the overlay's thread that is executed after its caller was cancelled is
left out.

## Runs

| Run | Shows | Bounds, and why they are enough |
|---|---|---|
| `vision` | conservation of frames, order of replies, wake-ups, runs take the newest frame, refinement of `LatestFrameWins`; the newest frame is answered, a waiting frame gets in | 4 frames: one published, one analysed, one in the slot, one waiting for the lock; any number of connections |
| `run_session` | order and completeness of the journal, replay, reproducible decisions, replies, deltas | 2 callers, 4 events, 2 capture times so that a late vision can follow a newer one |
| `run_stale_facts` | **violated**: unseen facts stay `observed_now` | as above |
| `audio` | account of sequence numbers, order of files and status, buffer, queues, candidate, baseline | 3 messages, 2 streams, sequence numbers to 3: a gap, its failed chunk, and the next one; history 3, warm-up 2, durations 1 and 2: both loops stop at their boundary; a baseline at the lowest quarter, so that two chunks in a row can be loud |
| `audio_sequence` | **violated**: a sequence number of a stream accepted twice | 4 messages |
| `vision_files` | the endpoints agree; what was published stays served | 4 frames: published, failed, interrupted, published again; any number of crashes |
| `connections` | status, run and vision are those of the client that is there | 2 clients, 4 frames, 2 messages in transit: a slot, a worker and a waiting frame in the old handler while the new one starts |
| `connections_status` | **violated**: the status is that of the connection | 3 frames |
| `compiled_boxes` | the active manifest, torn manifests, boxes in use, one provider | 2 threads, 2 compilations, 2 restarts, files that are torn, whole or a mixture: each race in this code is of two calls, and the older manifest and the newer are all a load can confuse |
| `viewport` | pans fit, searches have positions, still views are found, coordinates agree | a reference of 40 columns, 4 sizes of frames, one wider than it, 3 pans: near the last one, too far for the local search, too far for a jump; 2 frames of a still view, after which it must be found |
| `scene` | references are recognized, a positive beats all negatives, order; what is reported and `ready` | every ROI of 4 pixels in 3 grays, every pair of title scores around the two bounds, a pan or none, two world ROIs in the picture or beside it, and three packs of four candidates: one of each kind; disabled, without a ROI, and of two ROIs; in the wrong space, first and later |
| `host_bridge` | annotations meet their frame; one task's end ends all | 3 frames: one drawn, one answered, one captured; every way a task can end |

`CHECK_DEADLOCK FALSE` stands where a bound on events or messages, or the end of the
session, ends every behaviour. The symmetries of `run_session` and `viewport` are over
callers and threads, which differ in nothing; neither run has a liveness property.

Every property of a passing run has a broken variant of a definition (marked "Broken
on purpose" in the modules) under which TLC finds it violated.

### Fairness

- `VisionPipeline!FairSpec`: the event loop runs ready coroutines, the analysis of a
  frame ends, and a send or publish ends or raises. So the worker, the waiting
  receive loop and the sending of a reply are weakly fair. That a frame arrives or a
  connection lasts is not assumed. `NewestFrameIsAnswered` therefore has the ways out a
  reader expects: a newer frame, a failure, the end of the connection. Frames that
  keep arriving faster than one analysis have every analysis discarded, for ever.
- `CompiledBoxes!Spec`: each thread's next step is weakly fair, as threads of the
  operating system are. Nothing else is: no call need begin.
- `HostBridgeSession!FairSpec`: each of the three tasks goes on when its await has
  ended or is cancelled. Strong fairness for the gate stands for the order in which
  `SemaphoreSlim` serves those that wait. A picture, a chunk, a failure, Ctrl+C and
  what the Core does are not fair.

### What the violated runs show

- `run_stale_facts`: `ingest_vision` never touches facts it does not see
  (world_state.py:30-39), against contexto-agente-visual-jogos.md:97.
- `audio_sequence`: the reply at main.py:832 says that the sequence increases per
  stream, while main.py:815-820 remembers one stream.
- `connections_status`: only `WebSocketDisconnect` (main.py:1007) sets DISCONNECTED,
  and a handler that ends late sets it whoever is connected by then; the dashboard
  (README.md:76, web/index.html:140) shows it as the connection.

### Met while modelling, and not checked by a run

- An analyzer made on the fly (main.py:855) has built-in defaults instead of the
  `AUDIO_ANALYSIS_*` variables.
- A warm-up longer than the history validates and never ends (audio_analysis.py:22).
- A gap is counted before the analysis; when that fails it is counted again (main.py:845).
- The `event_queue` of a world state and the in-memory bus grow without a bound.
- With safe capture the picture taken may have been composed before the overlay was
  hidden (WindowsGraphicsCapture.cs:137); when it is composed is Windows' own.

## Proofs

| Module | Theorem | States |
|---|---|---|
| `VisionPipelineProofs` | `Invariance` | The inductive invariant of the vision pipeline holds in every behaviour, for any number of frames. |
| `VisionPipelineProofs` | `TypeCorrect` | Type correctness. |
| `VisionPipelineProofs` | `WakeupsAreKept` | `NoLostWakeup`: The event is set exactly while the slot holds a frame. |
| `VisionPipelineProofs` | `LockIsDisciplined` | Who owns pending_frame_lock, and that the worker never waits for it. |
| `VisionPipelineProofs` | `Conservation` | `FramesConserved`: Every frame received is accounted for. |
| `VisionPipelineProofs` | `AnnotationsFollowAcks` | `AnnotationFollowsItsAck`: Annotations come straight after the acknowledgement of their frame. |
| `VisionPipelineProofs` | `DiskIsAhead` | What is served from memory is on disk. |
| `VisionPipelineProofs` | `RunsTakeNewest` | `RunTakesNewestFrame`: A run takes and publishes only the newest frame. |
| `VisionPipelineProofs` | `Refinement` | `PromiseKept`: The vision pipeline implements LatestFrameWins. |
| `AudioIntakeProofs` | `IntakeInvariance` | The inductive invariant of the audio intake holds in every behaviour, for any streams, chunks and number of messages. |
| `AudioIntakeProofs` | `GapsAreAccountedFor` | `GapsAccountedFor`: audio_chunks_dropped explains every sequence number that was not accepted, and is exact unless a chunk was refused after its gap had been counted. |
| `AudioIntakeProofs` | `WriteOrderIsKept` | `ServedInWriteOrder`: Audio files and status never overtake each other. |
| `AudioIntakeProofs` | `BufferKeepsRecent` | `BufferIsRecent`: The ring buffer and the loudness history, with its own eviction loop, hold exactly the longest end of what was heard that fits the history, or its last chunk, for any durations and number of messages. |
| `AudioIntakeProofs` | `CandidateIsRun` | `CandidateIsLoudRun`: The active candidate goes from the first to the last chunk of the unbroken run of chunks that are louder than the baseline of their recent audio by the trigger, and there is none after a chunk that is not, over evictions and failed chunks. |
| `AudioIntakeProofs` | `BaselineIsKept` | `BaselineStaysReady`: If no chunk is longer than the history plus one less the warm-up, eviction never takes a ready baseline back below it. |
| `RunSessionProofs` | `Invariance` | The inductive invariant of a run holds in every behaviour, for any callers, perceptions and number of events. |
| `RunSessionProofs` | `TypeCorrect` | Type correctness of the run, of the world it keeps and of its journal. |
| `RunSessionProofs` | `JournalOrder` | `JournalIsOrdered`: Sequence numbers grow and versions never go back on the bus, and a perception brings a new version. |
| `RunSessionProofs` | `JournalAccounts` | `JournalAccountsForRun`: Every sequence number and every version the journal misses is a publish that raised. |
| `RunSessionProofs` | `RepliesMatch` | `RepliesMatchEvents`: What an endpoint returns after an awaited publish is what its own event says. |
| `RunSessionProofs` | `Deltas` | `DeltasNameTheNews`: recent_deltas names every fact that changes. |
| `RunSessionProofs` | `ReplayGivesState` | `JournalReplaysToState`: As long as no perception's publish has raised, replaying the journal gives the state of the run, for any callers and number of events. |
| `RunSessionProofs` | `DecisionsReplay` | `DecisionsAreReproducible`: Every decision is of the version its event has and, as long as no perception's publish has raised, of the world that replaying the events before it gives. |
| `LatestVisionFilesProofs` | `FilesInvariance` | The inductive invariant of the two files and the memory, over failed writes, stops and restarts. |
| `LatestVisionFilesProofs` | `EndpointsGoTogether` | `EndpointsAgree`: latest-vision and latest-vision-frame agree in whatever state an interruption has left the files. |
| `LatestVisionFilesProofs` | `PictureMatches` | `PictureIsOfItsFrame`: A picture is that of the frame named with it, but after a restart that follows an interrupted publication. |
| `LatestVisionFilesProofs` | `PublishedStaysServed` | `PublishedIsServed`: What was published to the end is served, and nothing older or missing after it. |
| `BridgeConnectionsProofs` | `ConnectionsInvariance` | The inductive invariant of the connections, for any number of clients and frames. |
| `BridgeConnectionsProofs` | `NobodyIsShown` | `NobodyConnectedIsShown`: When no handler runs the Bridge is shown as disconnected, unless a handler ended with an exception of its own. |
| `BridgeConnectionsProofs` | `ConnectionIsShown` | `StatusShowsConnection`: While handlers do not overlap the status is that of the connection. |
| `BridgeConnectionsProofs` | `FramesGoToTheirRun` | `FrameGoesToItsRun`: While handlers do not overlap frames are observed and ingested with the profile and run of their client's hello. |
| `BridgeConnectionsProofs` | `VisionGoesForward` | `LatestVisionIsNewest`: latest_vision never goes back to an earlier frame of the same client, nor of any client while handlers do not overlap. |
| `CompiledBoxesProofs` | `CompiledInvariance` | For any number of threads, compilations and restarts the inductive invariant holds: what a call holds at its stage, which boxes come from a manifest written to its end, where the manifest of the last compilation stands, and what a load knows of the active one. |
| `CompiledBoxesProofs` | `TypeCorrect` | Every variable has its type and every stage has the provider, the file or the compilation it needs. |
| `CompiledBoxesProofs` | `TornNotUsed` | `TornIsNeverUsed`: However compilations and loads overlap, and whatever they leave of one another in the file, the boxes in use are those of one manifest that was whole, or none. |
| `CompiledBoxesProofs` | `AnsweredIsActive` | `AnsweredCompilationIsActive`: While no two compilations overlap, over exceptions and restarts, the active manifest is whole and not older than the last answer. |
| `CompiledBoxesProofs` | `UsesActive` | `ObservationUsesActive`: While calls come one after the other since the Core was started, an observation uses the boxes of the manifest that is active. |
| `VisionRuntimeProofs` | `TrackingInvariance` | For any threads, sizes of frames, references and settings the inductive invariant holds: types, a pan that fits its frame, and, while observations do not overlap, a kept pan that fits the kept shape. |
| `VisionRuntimeProofs` | `PanFits` | `PanFitsItsFrame`: A pan that is answered is one its frame can have and the anchor is there, whatever other threads do to the tracker. |
| `VisionRuntimeProofs` | `NeverRaises` | `SearchNeverRaises`: While observations come one after the other no search is over an empty range. |
| `VisionRuntimeProofs` | `HintsHoldEvidence` | `HintHoldsEvidence`: For any ROIs, entities and sizes the box shown for an entity holds the evidence that was counted for it. |
| `VisionRuntimeProofs` | `RoisAreAligned` | `WorldRoiIsAligned`: Where a frame shows a part of the reference, the left of a world ROI is compared with the left of that ROI in the reference but for the rounding of a column of each, for any sizes, pans and ROIs. |
| `VisionRuntimeProofs` | `StillViewFound` | `StillViewIsFound`: While observations come one after the other, a view that stands still is found by its second frame, within a step of the refinement, if the settings of the search fit together. |
| `VisionRuntimeProofs` | `SceneInvariance` | The inductive invariant of the loop over the candidates: what is collected, and whether a candidate was given up, is what those before the next one say of the frame, and the state is concluded from all of them. |
| `VisionRuntimeProofs` | `ReportsAreLocated` | `ReportsWhatWasLocated`: For any number of candidates in any order: reported is exactly what was recognized of those located in the frame, and "ready" means that there is something to say and no candidate was given up. |
| `VisionRuntimeProofs` | `PresentBeatsNegatives` | `PresentBeatsEveryNegative`: What is present has a positive reference that reaches the threshold and beats every negative by the margin. |
| `VisionRuntimeProofs` | `OrderIsIrrelevant` | `OrderDoesNotDecide`: In which order a candidate lists its references decides neither whether something is reported nor whether it is there. |
| `VisionRuntimeProofs` | `RecognizesReferences` | `ReferencesAreRecognized`: With a threshold up to 7750 and a margin up to 5500, a frame that is a positive reference is recognized and one that is a negative is not, for any pictures. |
| `HostBridgeSessionProofs` | `SessionInvariance` | The inductive invariant of the session holds in every behaviour, for any number of frames, with or without safe capture. |
| `HostBridgeSessionProofs` | `AnnotationsPunctual` | `AnnotationsArePunctual`: The overlay has every frame before annotations of it can come, and draws none of another frame. |

All hold for every value of the constants that the named assumptions of the module
allow: `MaxFramesAssumption`, `IntakeAssumption`, `AnalysisAssumption`,
`NoneAssumption`, `FilesAssumption`, `ConnectionsAssumption`, `ThreadsAssumption` and
`NothingAssumption`, `ReferenceAssumption`, `TrackingAssumption`, `InputsAssumption`,
`NowhereIsNoFrame`, `SceneAssumption`, `WorldAssumption` and the two
`SessionAssumption`s. TLC evaluates each in a passing run. Two theorems have premises
of their own, because the settings of a Game Pack are validated one by one and not
together:

- `RecognizesReferences`: a threshold up to 0.775 and a margin up to 0.55. A reference
  scores at least 0.775 for itself and at most 0.225 for the other; beyond that a
  reference need not be recognized. The pack ships thresholds of 0.54 to 0.62 and
  margins of 0.05 to 0.10.
- `StillViewFound`: `SearchSettings`, and two frames of the view (`Patience >= 2`). A
  coarse step does not pass over the anchor, a refined one meets it, what is taken for
  the anchor is within the reach of the refinement, and two good positions are no jump
  apart. The last is 2 * 5 <= 120 pixels as shipped; the others are about the picture of
  the anchor, that is about how the error grows with the distance.

Recursive functions (`Replay`, `TotalDuration`, `Detect`, and the sums of
`MapThenSumSet`) are treated without induction: the least length, or the least size,
at which the claim fails is picked by the well-foundedness of the natural numbers, and
the equation of the function refutes it. That a function which meets the equation
exists is shown the same way, since it is `CHOOSE`n.

What the proofs rest on:

- **VisionPipeline.** That annotations follow their own acknowledgement needs to know
  that the newest acknowledged frame is the one with `latestFrameSequence`, that a
  frame under analysis with that number, and an empty slot, is the last one
  acknowledged, and that nothing was answered since. That in turn needs the wake-up
  and lock facts: while the worker owns the lock the wire cannot grow, so that at the
  publish to the run the frame is still the newest.
- **AudioIntake.** The account and the order of the files need only that numbers are
  natural and that a file is of a chunk that was analysed. The analyzer follows what was
  heard (`Follows`): its two queues are the recent chunks and its candidate is the loud
  run at their end. That a chunk is loud for the analyzer exactly if it is `Loud` follows
  from the queues, which are the recent chunks of that moment. Which items are evicted is unique, and evicting from the recent
  chunks and one more leaves what is recent of all that was heard, because durations
  add up (`TotalSplit`). The baseline follows from that: one chunk less would not fit
  the history, so what is left is at least the history less that chunk.
- **RunSession.** No event is ahead of the run's sequence number and version, the
  version is never ahead of the sequence number, and the answer of an endpoint that
  waits for publish belongs to an event the bus has taken. Replaying a journal with one
  event more is one application more (`ReplayAppend`), so that each endpoint need only
  do to the world what its event says; a decision event carries the world it was made
  in, which no other caller can change before the bus has taken the event.
- **LatestVisionFiles.** The state file is never there without a picture file; the
  files are those of the last publication until the next one empties the picture, and
  from then on the publication counts as interrupted until it has ended.
- **BridgeConnections.** While handlers do not overlap at most one runs, and what the
  Core knows of the Bridge is of that one. A frame in the worker was captured before
  the one in the slot, that before those in transit, and all after the vision shown.
- **CompiledBoxes.** Which files and boxes come from a manifest that was whole;
  where the manifest of the last compilation stands, at each stage, while no two
  overlap; what a load knows of the active manifest while no two calls overlap.
- **ViewportTracking.** A search answers one of its positions, and they lie between 0
  and the largest pan of the frame; while observations do not overlap, the pan that
  is kept fits every frame of the shape that is kept. A still view adds `Steady`: after
  one observation of a view what is kept is nothing or close to it, a refused jump
  having been forgotten, and from either the next search ends close to it. Columns agree
  because each side of the comparison is off by the half of a column that `Round` may
  be off by.
- **SceneObservation.** What the loop has collected is what the candidates before the
  next one have to say, and `unavailable` is true exactly if one of them was given up;
  each action adds the share of its candidate (`OneMoreCollected`). A score is between its
  bounds whatever the pictures are; the vote is one of what the negatives say, and
  present only if all say so; of the positives the best is one of them, and present if
  any is. So what a candidate contributes is settled by its sets of references.
- **HostBridgeSession.** What the Core has is what the overlay had when it was sent,
  and the overlay only goes forward.

Only model-checked: the temporal properties with fairness (`NewestFrameIsAnswered`,
`IntakeIsReleased`, `ProvidersConverge`, `OneEndsAll`), which need ENABLED and are out of
the prover's reach; and the three properties of the violated runs.

tlapm 1.4.5 takes two CASE expressions for equal whose first arms and OTHER are (before
the SMT solver is asked). The one step that compares two different ones, in `SaysAlike`, is
therefore given to Zenon, which does not.

What the proofs changed: `Decision` of `SceneObservation` had two cases that could hold
at once, which TLC takes in their order and a proof may not; `WorldRoiIsAligned` was
false of frames wider than the reference, which the sizes of the run did not show.

## Not modelled

- Host Bridge, audio capture: a bounded channel of the .NET library whose drops are
  counted and reported, and the cutting of bytes into chunks. Screen capture: when the
  compositor of Windows composes and delivers pictures is outside the repository.
  Options, profiles, window selection, log: configuration and one-shot input.
- Core, registry, contracts, logging and replay files: data that is read once or
  written and never read back; `replay.py` and `consume_audio` are used by nothing.
- Core, NATS and the handlers of the in-memory bus: nothing in the Core subscribes.
- FNAF 1 runtime: blurring, scaling, morphology and connected components of OpenCV,
  and how a compilation finds its boxes in the reference pictures: computation on
  pixels without state.
- Audio measurement (salience, spectral features) and latency percentiles: floating
  point without effect on control.
- The dashboard, a page that polls the API; the dataset and training tools
  (`src/tools`), scripts that each transform files once.
