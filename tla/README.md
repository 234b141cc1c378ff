# Vox: a TLA+ model of the remote desktop server and client

Vox is a remote desktop in Rust: `vox_server` captures the screen and applies
the input it is sent, `vox_client` shows the screen and sends input. They talk
over one TCP connection per client, encrypted after an X25519 key exchange, and
the user proves himself with an access code that the server displays. This
directory models the program's own code (`src/src`), checks it with TLC and
proves its safety with TLAPS. Line numbers below refer to files of `src/src`.

## Inventory

| component | state | operations | works with |
|---|---|---|---|
| wire protocol, encryption (`common/protocol.rs`, `common/crypto.rs`) | a `CryptoSession` per end | key exchange, encrypt, decrypt | both ends |
| framing (`send_message` and the read loops of `server.rs` and `connection.rs`) | a read buffer per end, the bytes under way | 4-byte length and payload; `read_exact` in the client's handshake, a buffered loop otherwise | sockets below, messages above |
| handler (`server/server.rs`, `handle_client`) | read buffer, crypto session, session id | one arm per message, cleanup, errors through `?` | session table, writer task, input handler |
| writer task (`server/server.rs` 93-100) | an unbounded channel, the write half | write, end | handler and capture loop are its senders |
| session table | `RwLock<HashMap>` of `ClientSession` | insert (login), remove (cleanup), visit | handlers, capture loop |
| capture loop (`screen_capture_loop`) | last frame time and quality controller per session | one visit of all sessions per captured frame, under the read guard | writer channels |
| access code (`common/auth.rs`) | code and expiry | verify | handler |
| adaptive quality (`common/quality.rs`) | current and forced mode, cooldown, window of samples | recommended mode, force, add sample; bandwidth, rtt and loss of the window | capture loop, handler |
| frame processor (`common/frame_processor.rs`) | last frame | process (key or delta), apply delta | capture at the server, display at the client |
| screen capture and codecs (`server/screen_capture.rs`, `common/*encoder.rs`, `client/h264_decoder.rs`) | capturer, encoder, frame clock | capture and encode; decode | capture loop; client application |
| connection tasks (`client/connection.rs`) | channels, crypto session | handshake; reader and writer loops | socket, application |
| application (`client/app.rs`) | `AppState`, channel ends, texture, quality, last pointer position | connect, disconnect, update, input, quality menu | connection tasks |
| input handler (`server/input_handler.rs`) | the remote cursor, buttons and keys | mouse and key events | handler |

Hard parts: a session is visible to the capture loop before its login is
answered; the handler changes from plaintext to encrypted in the middle of a
buffer; every `?` leaves a function between its side effects; the tasks of an
old connection outlive it and still hold channels; ends of tasks are signalled
only by channels and sockets being dropped; bytes arrive in chunks of any size
and a writer may be aborted inside a message; frame pacing compares clocks that
several places reset, and measures the network by them; the user's input is
sampled once per update, and only over the image. What makes each part correct is stated as the properties
below; `PROJECT.json` lists the hazards with the lines where they bite.

## Modules

| module | models | how state and actions correspond |
|---|---|---|
| `Wire` | messages, keys, TCP | A message is its type, the key it is encrypted under and one number. A connection is two bounded FIFO queues, the halves either end holds, and whether it was reset. |
| `Server` (extends `Wire`) | `server.rs` | `hst[c]` is the handler's place in its loops, `hbuf`, `hkey`, `hsid` its locals, `txq` the writer's channel, `sessions` the table. `visiting` is the part of the table the capture loop has yet to visit; non-empty, it is the read guard, and `Login` and `Cleanup` wait for it. One action per message arm; `Fail` is a return through `?`. |
| `Client` (extends `Wire`) | `connection.rs`, `app.rs` | `cst[c]` is the progress of `Connection::connect`, `tasks[c]` the running tasks, `outq`, `msgq`, `stq`, `inq`, `wrq` the five channels; `cur` is the connection whose channel ends the application holds. |
| `VoxSystem` | both, composed | `Next` interleaves the two; they share only `Wire`'s variables. Holds the properties of the whole. |
| `VoxInvariant`, `VoxServerProofs`, `VoxClientProofs`, `VoxSystemProofs` | | the inductive invariant of `VoxSystem` (definitions only), its proof for the steps of either end, and the theorems, with the further invariants of the four properties that follow numbers through the queues |
| `MessageStream` | | the abstract specification of one direction of a connection: messages in order, whole, once, and all of them up to a cut |
| `Framing` | `send_message`, the writer tasks, the server's and the client's read loops, `read_exact` of the handshake | the byte stream is kept whole, with offsets: `written` bytes were accepted by the kernel, `got` were read, `parsed` are used up; the read buffer is what lies between. `exact` is the number of replies read with `read_exact` (2 at the client, 0 at the server). |
| `FramePacing` | capture thread's clock, the channel to the capture loop, the loop's pacing, `AdaptiveQualityController` | ages in milliseconds instead of `Instant`s: `pollAge` is the thread's clock, set when it takes a frame (`TakeFrame`), `encoding` says that it is still at that frame, `pending` has the frames in the channel with the time since they were taken, `visitAge` is the session's clock, set when the loop gets to it (`Visit`); what the monitor measures is left open |
| `BandwidthMonitor` (extends `FramePacing`) | the monitor's window and queries, the samples of sent frames and acknowledgements | `samples` is the deque, with the time between samples instead of their timestamps |
| `InputEvents` | `show_remote_screen`, `format_key`, `input_handler.rs` and its callers | `down` and `pointer` are the user's hand, `chan` the messages under way, `cursor`, `held`, `typed` what they did at the server |
| `FramePacingProofs`, `FramingProofs`, `InputEventsProofs`, `VideoPipelineProofs`, `FrameProcessorProofs` | | theorems about `FramePacing` and `BandwidthMonitor`, `Framing`, `InputEvents`, `VideoPipeline` and `FrameProcessor` with `FrameStream` |
| `FrameProcessor` | `process_frame` and `apply_delta` by themselves | screens are functions from pixels to colours; a delta is a set of tiles |
| `FrameStream` (extends `FrameProcessor`) | the software path of `capture_frame` with its compression, the loop passing a session by, the window's handling of `ScreenFrame` and `DeltaFrame` | `encode_all` turns the pixels of a tile into other ones; the window applies them as they come, as the code does |
| `VideoPipeline` | `ScreenCapture`, the encoder factory, both encoders' `encode_frame`, the message choice of the capture loop, the client's decoding and display | a picture is a number; a frame is its label, what its data really is, the packets in it and its number of pixels. `inside` are the packets the encoder holds back, `screen_update` is `update`'s local, `h264_decoder.ref` the picture a delta may refer to and `h264_decoder.held` the decoded pictures it has not given out. |
| `MCVoxSystem`, `MCFraming`, `MCBandwidthMonitor`, `MCInputEvents`, `MCFrameProcessor`, `MCVideoPipeline` | | the instances for TLC |

Some operators are introduced as "Wrong variant". They are not part of the
specifications: each is a plausible mistake in the definition that follows it,
and `PROJECT.json` names, for every checked property, one that violates it.

How the modules fit together. `VoxSystem` takes a connection to be a queue of
messages; that the code makes one of TCP's bytes is what `Framing` shows by
implementing `MessageStream`, and `InputEvents` relies on it too. `Server` lets
the capture loop send or skip a frame and move a session to any mode; `FramePacing`
has the decision, for any measurements, and `BandwidthMonitor` has the
measurements and implements `FramePacing`, so that what is proved of the latter
holds of the code with its monitor. `VideoPipeline`, `FrameProcessor` and
`FrameStream` are about what is in a frame, `InputEvents` about what is in an
input. `FrameProcessor` shows that the delta code is right by itself; that the
program may not use it as it stands, and does not, is what `FrameStream` shows.

Decisions of the model:

* `StopStream` and the server's default arm are part of `HandleOther`: they
  change nothing the model keeps. The shipped client sends neither.
* A captured frame that finds no session changes nothing, and is a stutter.
* The frame a visited session gets or not is a choice in `Server`; `FramePacing`
  models the decision, for one session, since sessions do not influence each
  other's pacing.
* The capture loop may move an unforced session to any mode in `Server`;
  `FramePacing` has `calculate_quality` itself.
* A handler that fails drops its read half; the write half is closed by the
  writer task when its channel has no sender left. As the session in the table
  is a sender, a failed handler's writer lives on. This is the code's behaviour
  and why `SessionTable` promises the removal only for the ends that reach the
  block marked `// Cleanup` (265).
* A reset may overtake data that was not yet read; on the client the reader may
  still find data that arrived before.
* Numbers of acknowledgements are left out: they feed only the metrics.
* `Framing` covers both directions with one sender and one receiver. The
  handshake's own sends go through its channel too: they are in the same order.
  A reset may happen whenever bytes are under way and loses them; an abort keeps
  what the kernel has. `Disconnect` is the last message of its connection, as
  `disconnect` drops the sender (`app.rs` 421).
* In `FramePacing` time is an action of its own and may pass between any two
  steps; the 16 ms the thread sleeps between polls are a part of it. How long a
  frame is encoded and waits in the channel is open up to `MaxWait`, a named
  bound. A frame that is due but has neither a key frame's data nor tiles is
  "dropped" (the `continue` at 370): no sample, no acknowledgement, but the
  session's clock is set.
* `BandwidthMonitor` counts whole milliseconds, Mbit/s and percent, where the code
  has `f32` and `Duration`, and a pause up to `AgeCap`. The window is 2 samples instead of 30
  and loss is estimated from 2 instead of 5.
* In `InputEvents` an update is two steps, mouse and keys, between which the
  server may act. How often a button changed between two updates is an input;
  what egui tells of it (that it was pressed, that it was released) is external,
  as is the system's keeping the cursor on the screen. Modifiers are left out:
  `key_event` ignores them, so that a shortcut is typed as its letter. A new
  connection starts when the messages of the old one are applied or lost, and
  nobody uses the server's own mouse. Clicks on the quality window above the
  image are also sent to the server; to the model they are clicks over the image.
* In `VideoPipeline` ffmpeg is external: its encoder keeps the order (no
  B-frames), makes every `keyframe_interval`-th picture a key frame and gives
  out any number of packets per picture; its decoder needs the picture a delta
  refers to, may keep up to `MaxHeld` pictures back (`Ok(None)`), and may fail
  on any data (`Err`), which loses the data and perhaps the reference. Which of
  several pictures in one packet it returns is open.
  `scrap` delivers a picture only when the screen has changed, and its rows may
  be padded (`Pads`): `bgra_to_rgb` converts the whole buffer. In front of an
  encoder the padding shifts the rows of the picture but not the number of
  pixels the encoder gives out; such a skewed picture is not told apart from a
  straight one.
* Failures of `accept` and a restarted server are left out, as is the session
  token: a login makes one and sends it (142, 161), the client stores it, and
  neither side looks at it again.

## Runs

| run | instance | shows |
|---|---|---|
| `one_connection` | 1 connection, window 2, 2 frames, 2 inputs, 1 quality request, right and wrong code, failing input backend | `TypeOK`, `InFlightReadable` (keys agree on everything under way), `NoProtocolError`, `InputPrefix`, `QualityConfirmed`, `FramesForward` |
| `reconnect` | 2 connections, window 1, 1 frame | `SessionTable`, `HonestState`: tasks of the first connection cannot speak for the second |
| `progress` | 1 connection, window 2, 2 inputs, fairness | `ConnectAnswered`, `ServerEndShown`, `HandlersEnd`, `InputsApplied` |
| `auth_race` | 1 connection, 1 frame | violation of `AcceptedConnects` |
| `disconnect` | 1 connection, no frames, fairness | violation of `DisconnectEnds` |
| `framing` | up to 4 messages of 3 payloads (empty, 2 and 4 bytes; bytes are bits), both receivers, aborts and resets anywhere | `TypeOK`, `Aligned` (the receiver is always at the beginning of a frame), `NoStall` (no complete message waits in the buffer), `ImplementsMessageStream` |
| `pacing` | the code's 33 ms and frame intervals (cooldown scaled down), up to 33 ms from the screen to the loop, frames with and without data, of 50 kB and 1 MB, answers after 5 ms, after 1.2 s and 40 ms "before" the frame, adaptation and choices of the user | `TypeOK`, `RateLimited`, `SkipsNeedJitter` (a mode that asks for every frame loses one only to jitter), `ImplementsPacing`, `PromptKeepsQuality` (thresholds and averages never put a prompt session into Low or Minimal) |
| `pacing_starves` | adaptive only, answers after 5 ms, fairness | violation of `StreamGoesOn` |
| `input` | a pointer in steps of a pixel on a 4x1 screen, 3x1 assumed before the first frame, one button, three keys, up to 2 updates ahead of the server | `TypeOK`, `PointerNear`, `ButtonsMirror`, `KeysFaithful` |
| `delta` | screen of 4x4 pixels, tiles of 3, 2 colours | `TypeOK`, `InStep`, `StaleOnlyInside` |
| `video` | screens of 2x2 and 3x2 with and without padding, key frames every 2 of 6 pictures, every encoder, client without H.264 or with a decoder that keeps back up to 2 pictures and may fail, pacing that skips | `TypeOK`, `NoArtifacts`, `PanicOnlyMisfit`, `ShownForward`, `SoftwareShown` |
| `video_deltas` | 2x2, a working encoder without delay or WebP in its place, 3 pictures, nothing skipped, fairness | violation of `CapturedShown` |

Bounds. `Window` 2 lets a writer run ahead of a reader and block; 1 is enough
for the order of the two ends. Two frames let one overtake an answer and one
follow it, two inputs can be swapped or lost apart, two connections are an old
and a new one. The 4x4 screen has whole tiles, and tiles cut off on the right,
below and in both directions. The pacing cooldown (2 s in the code) is 66 ms,
two captures; only its being over or not matters, and both happen. Time
passes in steps of 33 ms, so that a session's turn comes exactly after the interval
of High and of Low or too soon, and a frame that waited 33 ms and one that did not
may follow each other.
Two samples have an average and a variance, and one drops out when a third comes.
Four messages are the two replies of the handshake and two more for the reader
that takes over, in any chunks; with bits for bytes a length of 4 already uses the
second byte of the header, and a payload can look like a header. In `input` a
pointer can go from one end of the screen to the other in moves too small to be
sent. The right button takes the same path as the left and is left out.
With 6 pictures and key frames 2 apart a client can join within a group and see
the next key frame, the decoder can keep two key frames back, and an encoder that
then fails leaves pictures for software frames; one packet held back is enough for
two in one frame. Only the parity of the screen's size, and padding or none,
matter.
Deadlock is not checked where the screen may come to rest or where both processes may have exited.

Fairness. Weak fairness of every tokio task that can go on, of the visit the
capture loop is engaged in, and of `update`, which egui calls again and again
because `update` requests a repaint. The user, the operator, the clock and new
frames are not fair: the properties may not depend on them. In `BandwidthMonitor`
(`MonitorFairSpec`) time goes on, the capture thread and the loop run for ever,
acknowledgements arrive, and fairness of `MonitorTakeFrame` says that the screen
keeps changing, the case in which a stream is expected. In `VideoPipeline` the capture thread,
the capture loop and `update` are weakly fair, the user and the screen are not.
In `Framing` the tasks and TCP are weakly fair: a writer with bytes writes, a
reader with bytes reads; aborts, resets and the dropping of senders are not.

## Findings

* `AcceptedConnects`: `handle_client` puts the session into the table (157)
  before it queues the `AuthResponse` (164). A frame queued in between is the
  first encrypted message the client reads, and it gives up with "Expected
  AuthResponse". The new session is due for a frame 33 ms after line 154, so this
  takes a login that is delayed there, as by waiting for the write lock while the
  capture loop visits and encrypts for other sessions.
* `DisconnectEnds`: the `break` on `Disconnect` (255) leaves the inner loop
  only. The client closes its socket only when its main loop sees another
  message, so without frames both wait for each other.
* `StreamGoesOn`: `last_frame_time` is set for skipped frames too (344), so that
  in Low and Minimal no frame is due while frames are captured every 33 to
  50 ms. A session gets there without a slow network: the time since its last
  frame is recorded as the frame's rtt (380), so that a screen which rests for
  some tenths of a second looks like a slow link. Frames that are not sent give
  no samples, and the mode is never left.
* `CapturedShown`: the video encoder ignores `force_keyframe`, its delta frames
  carry no tiles, and the capture loop drops frames that are neither key frames
  nor have tiles (370). The client sees one picture in 60, and a screen that
  comes to rest on another one is never shown. It fails in another
  way when a hardware encoder that passed the test cannot be made for the screen
  and is replaced by WebP (`encoder.rs` 100): the frames are labelled H264
  (`screen_capture.rs` 137), the client can decode none of them, and under their own
  label it could not either (`app.rs` 512). `PERFORMANCE_FEATURES.md` 20 lists this
  fallback as implemented.

Some properties hold and name in their statement what the code does not do:

* `SessionTable`: a reset connection, a failing input or a message that cannot be
  decrypted ends the handler through `?` before the block marked `// Cleanup`
  (265). The session stays in the table for ever.
* `StaleOnlyInside`: `is_tile_changed` compares five pixels and nothing else; the
  full comparison its comment announces is not there. (Delta frames are not made
  at present: `screen_capture.rs` 101 forces key frames.)
* `ButtonsMirror`: a button released beside the image stays pressed at the
  server, and one that was released and pressed again within one update is left
  released there.
* `SkipsNeedJitter`: the capture thread's clock is set before a frame is encoded,
  the session's after it. In Ultra, High and Medium a frame that takes less time
  to encode than the one before it comes too soon by that difference, and is
  skipped.
* `PanicOnlyMisfit`: there are two cases worth knowing. A screen with an odd
  width or height and a video encoder makes the client panic on its first frame,
  and so does a software frame of a capturer whose rows are padded.

## Proofs

Every invariant and every action property of the runs is stated by a theorem;
the theorems hold for all values of the constants that satisfy the named
assumptions of the modules.

`FramePacingProofs` proves of `FramePacing`, for all intervals, delays, cooldowns,
choices of the user and whatever is measured, `TypeCorrect`, `RateLimit`
(`RateLimited`) and `SkipsExplained` (`SkipsNeedJitter`). Assumptions: times are
natural numbers (`PollAssumption`), ages are counted beyond every interval they
are compared with (`AgeCapAssumption`), forced modes are modes
(`ForceAssumption`). `RateLimited` speaks of the last frame sent, the code decides
by the last frame seen, so it is not inductive; `VisitedLater` says that the
session's clock is never behind the last sent frame. `SkipsNeedJitter` compares
two frames' ways to the session. Frames are taken a capture interval
apart; `Spaced` says so of all that are under way, and `SpacedFromLast` of the next
one and the one the session was visited with last, whose age is the time since
that visit and the time its way took. If the next one's way is not shorter, then
the time since the visit is at least the capture interval, and it is due.

The same module proves of `BandwidthMonitor`, for windows of any length, frames
of any size and answers at any time, also before the frame (`WindowAssumption`):

* `MonitorImplementsPacing` (`ImplementsPacing`): with its monitor the session is
  an implementation of `FramePacing`, and `MonitorPaced` carries the limits over.
  The invariant `MonitorInv` says that the metrics are what the queries return
  for the samples in the window; that this is always a measurement needs that
  the sums over the window exist and are natural numbers (`SumsExist`,
  `TotalNat`), and that no query divides by zero.
* `PromptNotDemoted` (`PromptKeepsQuality`): if every sample is at most 66 ms, the
  average is at most 66 (`TotalBound`) and the variance below the 10000 from
  which loss is estimated (`Loss`), so the score is at least 802 of 2000
  whatever the bandwidth, and Low begins below 800 (`PromptQuality`). The margin
  is that thin: 67 ms would do no longer.

The theorems of `VoxSystemProofs` hold for any number of connections (made one
after the other by one client, their tasks interleaved), any window, and any
number of frames, inputs, requests, modes and codes:

| theorem | property |
|---|---|
| `TypeCorrect` | `TypeOK` |
| `TableCorrect` | `SessionTable` |
| `KeysAgree` | `InFlightReadable` |
| `ProtocolErrors` | `NoProtocolError` |
| `FramesNeverBack` | `FramesForward` |
| `WindowHonest` | `HonestState` |
| `ChoiceConfirmed` | `QualityConfirmed` |
| `InputsInOrder` | `InputPrefix` |

Assumptions: `MaxConn` and `Window` are positive, `MaxFrames`, `MaxInputs`,
`MaxRequests`, `GoodCode` natural numbers, `Codes`, `Choices` and `Modes` sets
of them with `DefaultMode` in `Modes`, `InputFaults` a Boolean. None of these
properties is inductive. Whether a key fits depends on what may be under
way when either end switches to encryption, so the invariant `Inv` of
`VoxInvariant` is `TypeOK`, `SessionTable` and, for every connection, `ConnInv`:

* before the TCP connection is made nothing is under way;
* until the client has the `KeyExchangeAck`, all that is under way is one
  `KeyExchange` towards the server or one `KeyExchangeAck` back, and the
  handler's key is the one the client is about to derive;
* after that both ends have the same key, and everything in the handler's
  buffer, the writer's channel and the socket, both ways, is encrypted under it;
* until the handshake is over the tasks of the connection do not run, at most one
  message is under way to the server, and while that is unanswered the
  connection has no session (so no frame either);
* a handler that is parsing has something to parse, and none is in a protocol
  error.

Most steps concern one connection. `Same(d)` says that a step leaves connection
`d` alone, `Calm(d)` that it moves nothing into the queues of `d` that its stage
forbids; both preserve `ConnInv(d)` (lemmas of `VoxInvariant`). The proof for an
action shows `Same` or `Calm` for all connections but its own and the stages of
`ConnInv` for its own: `VoxServerProofs` for the server's actions,
`VoxClientProofs` for the client's. `VoxSystemProofs` puts them together.

The other four properties of `VoxSystem` follow numbers (of frames, verdicts,
modes, inputs) through queues that any end of a task or socket may cut off. Each
has an invariant of its own, proved inductive on top of `Inv`:

* `AllSockets`: who still runs has its half of the socket, so that a queue is
  emptied only when nobody will read it, and on a connection that was never made
  nothing is under way.
* `FramesInv`, for `FramesForward`: along writer channel, socket, reader channel
  and application channel no frame is older than one in front of it, and none is
  older than the one on display; the window holds the newest connection or none.
* `HonestInv`, for `HonestState`: of the answers to a login at most one is under
  way, none that grants it without a session, and none is left once the client
  has had it (`Answers`); every state waiting in the channel of a connection is
  true of it now, not only when it was reported (`ReportsTrue`). The second part
  is what makes the window safe against reports that are read late.
* `QualityInv`, for `QualityConfirmed`: the last change of mode that is under way
  to the window says the mode of the session, and when none is, the window
  displays it (`Confirms`); adaptation leaves a forced mode alone, and another
  request puts its own change behind the others.
* `InputsInv`, for `InputPrefix`: read buffer, socket, writer channel and
  application channel hold, in this order, the numbers that continue what was
  executed, without gaps. This is only so as long as the way is open: what the
  writer drops leaves a hole behind it, so the part on the client's side is
  claimed only while the writer runs on an open connection (`OrderlyQueued`), and
  the part on the server's side only while the handler reads (`Orderly`).

An action touches several of these queues, and one of them is concerned by many
actions. So each step is first classified by what it does to one connection:
`DownStep` for the way to the window, `UpStep` for the way to the handler,
`StageStep` for the handshake, `ReportStep` for the reports. Then the invariants
are shown to survive each class of step. `Args` and `Rising` (the numbers of one
type of message in a queue, and that they rise) come with lemmas on `Append`,
`Head`, concatenation and cutting, which all four proofs use.

`FramingProofs` proves, for every set of payloads shorter than a 4-byte length
can say (`LengthAssumption`; the code casts `len() as u32`), every number of
messages and every way the bytes are cut into chunks: `TypeCorrect`, `Alignment`
(`Aligned`), `NoStalling` (`NoStall`) and `FramesImplementStream`, that every
step of `Framing` is a step of `MessageStream` or a stutter. The invariant says
that the wire is the frames of the messages taken, one after the other
(`Layout`), and that the receiver stands at the start of the frame after those
received, not having read beyond it as long as it reads exactly (`TakenOut`). Then
the four length bytes at its place are the digits of the next payload's length
(lemma `Digits`), so `Complete` says that the next frame has arrived whole.

`InputEventsProofs` proves `TypeCorrect`, `ButtonsMirrored` (`ButtonsMirror`),
`PointerFollowed` (`PointerNear`) and `KeysAgree` (`KeysFaithful`) for every size
of the screens and the image and any number of messages under way. The properties
speak of the moment when all messages are applied; the invariant says at every
moment what the ones under way will lead to: the last click of a button under way
is the user's state of it (`Mirror`), and the last message that moves the cursor
brings it close to `last_mouse_pos` (`Trail`). That two roundings and the unsent
moves add up to no more than two pixels is the lemma `CloseToEachOther`.

`VideoPipelineProofs` proves `TypeCorrect`, `NoArtifact` (`NoArtifacts`),
`PanicsOnlyMisfit` (`PanicOnlyMisfit`) and `NeverBack` (`ShownForward`) for every
screen size, padding, key frame interval, delay of encoder and decoder, and queue
length. Its invariant orders the pictures along encoder, capture queue, network
and window (`Order`), and says what a frame's label promises of its packets
(`TrueFrames`): without the latter, that only key frames are sent would say nothing
about the data in them. What the decoder keeps back is no part of that order: a
software frame overtakes it. So `Decoder` claims that it is newer than what the
window shows only until the decoder will get no more data (`Done`), after which
it is never given out; that the server does not go back from software
to video frames is `Change`.

`FrameProcessorProofs` proves, for every size of screen and tile, every set of
colours and any number of frames under way (`SizeAssumption`,
`ScreensAssumption`), `TypeCorrect`, `StayInStep` (`InStep`), `StaleInside`
(`StaleOnlyInside`), and `TilesPartition`: the rectangles `find_changed_tiles`
visits cover every pixel exactly once. The last one is arithmetic on offsets
(`CellOf`, `IndexOf`, `TileCovers`, `TileUnique`); with it `copy_tile_to_frame`
puts back at every pixel what `extract_tile` took from there (`ExtractTile`,
`CopyChanged`), and the sampled places contain the corners of every tile, cut off
or not (`SampledCorners`). `InStep` is about the end of a recursion over the
queue; `Chain` is its inductive form: there is a list of frames that begins with
the receiver's, goes on by applying one message after the other, and ends with
the sender's copy. Capturing appends to the list, receiving takes its first
member off, and `AppliedIs` says that the end of any such list is what the
recursion computes. Of `FrameStream` it proves `StreamWhole`, for any
`encode_all`: what the window has is one captured frame or none (`WholeFrames`),
because all that is under way are key frames of captured screens (`StreamInv`),
which the compression of tiles leaves alone. With delta frames it would not be so:
the window applies their tiles compressed, and sessions that were passed by miss
some. The module is proved about only and has no run.

Inductions over sequences (sums, the frames after each message) are done with
the least element of a set: lemma `Smallest`, that a non-empty set of natural
numbers has one, follows from `WFMin` of the library, and the set is that of the
places where the claim fails.

Left to TLC. Liveness (`ConnectAnswered`, `ServerEndShown`, `HandlersEnd`,
`InputsApplied`, `SoftwareShown`, and the fairness in `MessageStream`'s `Spec`,
which `ImplementsMessageStream` includes) rests on fairness and `ENABLED`, which are out of the
prover's reach.

## What could follow

The program's own components are modelled as far as the list below, and their
safety is proved. One listed hazard has no property: a screen at rest when a
client joins, of which the code promises nothing. When delta encoding is enabled
(the TODO at `screen_capture.rs` 101), `CaptureFrame` of `FrameStream` is to follow,
and `WholeFrames` to be replaced by what the repaired client then promises.
The cross-connection part of `FramesForward` is proved, but not model-checked:
two connections with two frames each exceed what a run should take.

## Not modelled

Argument parsing and logging (`bin/`), the ciphers and bincode, colours and
layout, `common/metrics.rs` (`vox_server --metrics` prints it, but nothing ever
records into it), session tokens (made and sent, but never checked), the QUIC
transport (commented out of the module tree), the platform encoders (not reached from the encoder
factory), and the stubs. `libs/egui` and `libs/rustdesk` are copies of other
projects and no part of the build: `Cargo.toml` takes egui from crates.io and
nothing refers to rustdesk. They are by far the largest part of the repository's
lines, and none of them is modelled; what the program uses of egui, tokio, scrap,
ffmpeg and enigo appears as external definitions where a module needs it.
