---------------------------- MODULE VideoPipeline ----------------------------
(***************************************************************************)
(* A picture's way from the server's screen to the client's window: the    *)
(* capture thread encodes it (server/screen_capture.rs, common/encoder.rs, *)
(* common/ffmpeg_encoder.rs), the capture loop of server/server.rs makes a *)
(* message of it or not, and the application decodes and displays it       *)
(* (client/app.rs, client/h264_decoder.rs).                                *)
(*                                                                         *)
(* Pictures are numbered in the order in which the screen shows them. Of   *)
(* the pixels only their number is kept. Of the coded data it is kept what *)
(* a decoder needs to know: which pictures, and which of them are coded as *)
(* a difference to the picture before. One session stands for all: the     *)
(* loop treats them one after the other and alike. When a session's turn   *)
(* is skipped is the subject of FramePacing; here it is a choice. With     *)
(* force_keyframe always set the frame processor returns key frames only;  *)
(* deltas of tiles are the subject of FrameProcessor.                      *)
(***************************************************************************)
EXTENDS Naturals, Sequences

CONSTANTS Sizes,               \* <<width, height>> the server's screen may have
          keyframe_interval,   \* the encoder's group of pictures
          Probes,              \* what HardwareEncoder::new may answer: to
                               \* is_hardware_available, then to create_encoder
          Pads,                \* pixels that may follow a row of the captured
                               \* buffer: its stride may exceed the width
          Codecs,              \* may the client have an H.264 decoder?
          MayFail,             \* may it fail on data of the encoder?
          MaxHeld,             \* decoded pictures it may keep back
          Skips,               \* may pacing skip the session's turn?
          MaxPictures,         \* pictures the screen shows
          MaxQueue,            \* length of each queue
          MaxDelay             \* packets the video encoder holds back

ASSUME SizeAssumption == Sizes \subseteq (Nat \ {0, 1}) \X (Nat \ {0, 1})
ASSUME EncoderAssumption == keyframe_interval \in Nat \ {0} /\ MaxDelay \in Nat
ASSUME PadAssumption == Pads \subseteq Nat
ASSUME DecoderAssumption == MayFail \in BOOLEAN /\ MaxHeld \in Nat
ASSUME ChoicesAssumption ==
    Probes \subseteq BOOLEAN \X BOOLEAN /\ Codecs \subseteq BOOLEAN /\ Skips \subseteq BOOLEAN
ASSUME BoundsAssumption == MaxPictures \in Nat \ {0} /\ MaxQueue \in Nat \ {0}

VARIABLES
    size,         \* <<width, height>> of the server's screen
    screen,       \* the picture the server's screen shows
    grabbed,      \* the picture the capturer delivered last
    encoder,      \* ScreenCapture.video_encoder
    pts,          \* pictures given to it, modulo its key frame interval
    inside,       \* packets it has not yet given out
    frames,       \* the channel from the capture thread to the capture loop
    session,      \* is the client in the session table?
    net,          \* ScreenFrame messages on their way to the application
    codec,        \* can H264Decoder::new find its codec at the client?
    h264_decoder, \* does it exist, which picture has it as its reference,
                  \* and which decoded pictures has it not given out?
    screen_update,\* update's local variable
    shown,        \* screen_texture
    panic         \* the picture the application panicked on

serverVars == <<size, screen, grabbed, encoder, pts, inside, frames>>
clientVars == <<codec, h264_decoder, screen_update, shown, panic>>
vars == <<serverVars, session, net, clientVars>>

Pictures == 1..MaxPictures
Encodings == {"ZstdCompressed", "H264"}

(* A decoded picture: did it come out as it was, how many pictures are     *)
(* behind it in the same data, and the number of its pixels.               *)
Image(pic, intact, rest, pixels, encoding) ==
    [pic |-> pic, intact |-> intact, rest |-> rest, pixels |-> pixels, encoding |-> encoding]
Nothing == Image(0, TRUE, 0, 0, "none")

-----------------------------------------------------------------------------
(* Sizes in pixels; & !1 makes width and height even for the encoder.      *)
MakeEven(n) == 2 * (n \div 2)
ScreenPixels == size[1] * size[2]
BufferPixels(pad) == (size[1] + pad) * size[2]
EncoderPixels == MakeEven(size[1]) * MakeEven(size[2])

(* ScreenCapture::new with EncoderFactory. A hardware encoder that passed  *)
(* the test but cannot be made for this screen is replaced by the software *)
(* encoder.                                                                *)
create_encoder(probe) ==
    IF ~probe[1] THEN "none" ELSE IF probe[2] THEN "ffmpeg" ELSE "webp"

Init ==
    /\ size \in Sizes
    /\ screen = 1 /\ grabbed = 0
    /\ encoder \in {create_encoder(p) : p \in Probes}
    /\ pts = 0 /\ inside = <<>> /\ frames = <<>>
    /\ session = FALSE /\ net = <<>>
    /\ codec \in Codecs
    /\ h264_decoder = [made |-> FALSE, ref |-> 0, held |-> <<>>]
    /\ screen_update = Nothing /\ shown = Nothing
    /\ panic = Nothing

-----------------------------------------------------------------------------
(* The capture thread.                                                     *)

(* A CapturedFrame: what it says of itself, and what its data really is.   *)
Frame(type, encoding, format, data, pixels) ==
    [type |-> type, encoding |-> encoding, format |-> format, data |-> data,
     pixels |-> pixels]

(* A packet of the video encoder refers to the picture before it unless it *)
(* is a key frame. Pictures coded in full, each by itself, are key packets. *)
Packet(pic, key, prev) == [pic |-> pic, key |-> key, prev |-> prev]
Whole(pic) == <<Packet(pic, TRUE, 0)>>

(* Wrong variant: the frame that was cropped for the encoder is processed. *)
SoftwareFrameCropped(pic, pad) ==
    Frame("KeyFrame", "ZstdCompressed", "zstd", Whole(pic), EncoderPixels)

(* bgra_to_rgb, process_frame with force_keyframe, and zstd: the whole     *)
(* captured buffer, with what follows its rows.                            *)
SoftwareFrame(pic, pad) ==
    Frame("KeyFrame", "ZstdCompressed", "zstd", Whole(pic), BufferPixels(pad))

(* SoftwareEncoder::encode_frame makes WebP; capture_frame labels what any *)
(* VideoEncoder makes as H264. An encoder takes as many pixels as it was   *)
(* made for.                                                               *)
WebPFrame(pic) == Frame("KeyFrame", "H264", "webp", Whole(pic), EncoderPixels)

(* Wrong variant: is_keyframe starts as force_keyframe.                    *)
VideoFrameForced(packets) ==
    Frame(IF packets = <<>> \/ packets[Len(packets)].key THEN "KeyFrame" ELSE "DeltaFrame",
          "H264", "h264", packets, EncoderPixels)

(* FFmpegHardwareEncoder::encode_frame joins the packets it receives; the  *)
(* frame's type is that of the last one, and no packet is no key frame.    *)
VideoFrame(packets) ==
    Frame(IF packets # <<>> /\ packets[Len(packets)].key THEN "KeyFrame" ELSE "DeltaFrame",
          "H264", "h264", packets, EncoderPixels)

ChangeScreen ==
    /\ screen < MaxPictures
    /\ screen' = screen + 1
    /\ UNCHANGED <<size, grabbed, encoder, pts, inside, frames, session, net, clientVars>>

(* capture_frame when the capturer has a new picture; without one it would *)
(* block, and nothing happens.                                             *)
Grab ==
    /\ grabbed # screen
    /\ Len(frames) < MaxQueue
    /\ grabbed' = screen
    /\ UNCHANGED <<size, screen, session, net, clientVars>>

CaptureSoftware ==
    /\ Grab
    /\ encoder = "none"
    /\ \E pad \in Pads : frames' = Append(frames, SoftwareFrame(screen, pad))
    /\ UNCHANGED <<encoder, pts, inside>>

CaptureWebP ==
    /\ Grab
    /\ encoder = "webp"
    /\ frames' = Append(frames, WebPFrame(screen))
    /\ UNCHANGED <<encoder, pts, inside>>

(* The encoder takes the picture and gives out some packets, or none while *)
(* it is buffering. It ignores force_keyframe: every keyframe_interval-th  *)
(* picture is a key frame.                                                 *)
CaptureVideo ==
    /\ Grab
    /\ encoder = "ffmpeg"
    /\ pts' = (pts + 1) % keyframe_interval
    /\ LET queue == Append(inside, Packet(screen, pts = 0, grabbed))
       IN  \E k \in 0..Len(queue) :
             /\ Len(queue) - k <= MaxDelay
             /\ inside' = SubSeq(queue, k + 1, Len(queue))
             /\ frames' = Append(frames, VideoFrame(SubSeq(queue, 1, k)))
    /\ UNCHANGED encoder

(* Wrong variant: what Drop drains from the encoder is sent after all.     *)
EncoderFailsFlushing ==
    /\ Grab
    /\ encoder = "ffmpeg"
    /\ encoder' = "none"
    /\ inside' = <<>>
    /\ \E pad \in Pads : frames' = frames \o <<SoftwareFrame(screen, pad), VideoFrame(inside)>>
    /\ UNCHANGED pts

(* encode_frame returns an error: the encoder is dropped for good, with    *)
(* the packets in it, and this picture goes on to software processing.     *)
EncoderFails ==
    /\ Grab
    /\ encoder = "ffmpeg"
    /\ encoder' = "none"
    /\ inside' = <<>>
    /\ \E pad \in Pads : frames' = Append(frames, SoftwareFrame(screen, pad))
    /\ UNCHANGED pts

-----------------------------------------------------------------------------
(* The capture loop.                                                       *)

(* Wrong variant: a delta frame without tiles is sent with its data.       *)
SendableAny(frame) == frame.data # <<>>

(* The match on frame_type: a delta frame without tiles is no message.     *)
Sendable(frame) == frame.type = "KeyFrame"

(* One frame of the channel, for the session if there is one.              *)
DispatchFrame ==
    /\ frames # <<>>
    /\ frames' = Tail(frames)
    /\ \E skip \in Skips :
         net' = IF session /\ ~skip /\ Sendable(Head(frames))
                THEN Append(net, Head(frames)) ELSE net
    /\ Len(net') <= MaxQueue
    /\ UNCHANGED <<size, screen, grabbed, encoder, pts, inside, session, clientVars>>

-----------------------------------------------------------------------------
(* The application.                                                        *)

(* A click on Connect, up to the insertion of the session; Disconnect. The *)
(* decoder is kept from one connection to the next.                        *)
Connect ==
    /\ ~session /\ panic = Nothing
    /\ session' = TRUE
    /\ UNCHANGED <<serverVars, net, clientVars>>

Disconnect ==
    /\ session /\ screen_update = Nothing
    /\ session' = FALSE
    /\ net' = <<>>
    /\ shown' = Nothing
    /\ UNCHANGED <<serverVars, codec, h264_decoder, screen_update, panic>>

(* Picture i of a frame comes out right when the packets lead to it from a *)
(* key frame, in the same data or in the decoder.                          *)
Intact(packets, i) ==
    \/ \E j \in 1..i : packets[j].key
    \/ h264_decoder.ref # 0 /\ h264_decoder.ref = packets[1].prev

Reference(packets) ==
    IF Intact(packets, Len(packets)) THEN packets[Len(packets)].pic ELSE 0

(* What the decoder makes of a message's data, behind what it kept back.   *)
Images(m) ==
    [i \in 1..Len(m.data) |->
        Image(m.data[i].pic, Intact(m.data, i), Len(m.data) - i, m.pixels, m.encoding)]
Decoded(m) == h264_decoder.held \o Images(m)

(* Has the client a decoder, and is the data H.264? The data of a WebP     *)
(* encoder is labelled as such, and is nothing to the decoder.             *)
CanDecode(m) == m.encoding = "H264" /\ m.format = "h264" /\ codec

(* update takes the messages that have arrived one by one.                 *)
TakesMessage ==
    /\ panic = Nothing /\ net # <<>>
    /\ UNCHANGED <<serverVars, session, codec, shown, panic>>

ReceiveSoftware ==
    /\ TakesMessage
    /\ Head(net).encoding = "ZstdCompressed"
    /\ net' = Tail(net)
    /\ screen_update' =
           Image(Head(net).data[1].pic, TRUE, 0, Head(net).pixels, "ZstdCompressed")
    /\ UNCHANGED h264_decoder

(* decode calls receive_frame once: a picture comes out, the one after the *)
(* pictures given out before or, of several in one packet, a later one.    *)
ReceiveVideo ==
    /\ TakesMessage
    /\ CanDecode(Head(net))
    /\ net' = Tail(net)
    /\ \E last \in 1..Len(Decoded(Head(net))) : \E i \in 1..last :
         /\ Len(Decoded(Head(net))) - last <= MaxHeld
         /\ screen_update' = Decoded(Head(net))[i]
         /\ h264_decoder' =
                [made |-> TRUE, ref |-> Reference(Head(net).data),
                 held |-> SubSeq(Decoded(Head(net)), last + 1, Len(Decoded(Head(net))))]

(* The decoder needs more data, Ok(None): continue.                        *)
ReceiveNone ==
    /\ TakesMessage
    /\ CanDecode(Head(net))
    /\ Len(Decoded(Head(net))) <= MaxHeld
    /\ net' = Tail(net)
    /\ h264_decoder' = [made |-> TRUE, ref |-> Reference(Head(net).data),
                        held |-> Decoded(Head(net))]
    /\ UNCHANGED screen_update

(* Wrong variant: an error ends the loop and loses what was received.      *)
ReceiveErrorStops ==
    /\ TakesMessage
    /\ Head(net).encoding = "H264"
    /\ CanDecode(Head(net)) => MayFail
    /\ net' = <<>>
    /\ \E ref \in {h264_decoder.ref, 0} :
         h264_decoder' = [h264_decoder EXCEPT !.made = @ \/ codec, !.ref = ref]
    /\ UNCHANGED screen_update

(* The decoder cannot be made, or decode returns an error; the data is     *)
(* lost, and perhaps the reference with it: continue.                      *)
ReceiveError ==
    /\ TakesMessage
    /\ Head(net).encoding = "H264"
    /\ CanDecode(Head(net)) => MayFail
    /\ net' = Tail(net)
    /\ \E ref \in {h264_decoder.ref, 0} :
         h264_decoder' = [h264_decoder EXCEPT !.made = @ \/ codec, !.ref = ref]
    /\ UNCHANGED screen_update

(* The end of update: update_screen with the last decoded frame.           *)
(* ColorImage::from_rgb asserts that the data has the announced size, and  *)
(* with a panic the client is gone.                                        *)
UpdateScreen ==
    /\ panic = Nothing /\ screen_update # Nothing
    /\ screen_update' = Nothing
    /\ IF screen_update.pixels = ScreenPixels
       THEN shown' = screen_update /\ UNCHANGED <<session, net, panic>>
       ELSE /\ panic' = screen_update
            /\ shown' = Nothing /\ session' = FALSE /\ net' = <<>>
    /\ UNCHANGED <<serverVars, codec, h264_decoder>>

-----------------------------------------------------------------------------
CaptureStep == CaptureSoftware \/ CaptureWebP \/ CaptureVideo \/ EncoderFails
ReceiveStep == ReceiveSoftware \/ ReceiveVideo \/ ReceiveNone \/ ReceiveError

Next ==
    \/ ChangeScreen \/ CaptureStep \/ DispatchFrame
    \/ Connect \/ Disconnect \/ ReceiveStep \/ UpdateScreen

Spec == Init /\ [][Next]_vars

(* The capture thread loops for ever, the capture loop and update go on    *)
(* while there is something to take. Nobody has to connect, and the screen *)
(* need not change.                                                        *)
FairSpec ==
    Spec /\ WF_vars(CaptureStep) /\ WF_vars(DispatchFrame)
         /\ WF_vars(ReceiveStep) /\ WF_vars(UpdateScreen)

-----------------------------------------------------------------------------
(* Properties.                                                             *)

Packets == [pic : Pictures, key : BOOLEAN, prev : 0..MaxPictures]
FrameOK(f) ==
    /\ f.type \in {"KeyFrame", "DeltaFrame"} /\ f.encoding \in Encodings
    /\ f.format \in {"zstd", "webp", "h264"}
    /\ f.pixels \in {EncoderPixels} \cup {BufferPixels(pad) : pad \in Pads}
    /\ \A i \in 1..Len(f.data) : f.data[i] \in Packets
    /\ \A i \in 1..(Len(f.data) - 1) : f.data[i].pic < f.data[i + 1].pic
ImageOK(i) ==
    \/ i = Nothing
    \/ i.pic \in Pictures /\ i.rest \in Nat /\ i.encoding \in Encodings

(* Type invariant. What is in the channels was captured, in the order of   *)
(* the packets; a message has data; nothing is shown without a session.    *)
TypeOK ==
    /\ size \in Sizes /\ screen \in Pictures /\ grabbed \in 0..screen
    /\ encoder \in {"none", "ffmpeg", "webp"} /\ pts \in 0..(keyframe_interval - 1)
    /\ Len(inside) <= MaxDelay /\ \A i \in 1..Len(inside) : inside[i] \in Packets
    /\ \A i \in 1..Len(frames) : FrameOK(frames[i])
    /\ \A i \in 1..Len(net) : FrameOK(net[i]) /\ net[i].data # <<>>
    /\ session \in BOOLEAN /\ codec \in BOOLEAN
    /\ h264_decoder.made \in BOOLEAN /\ h264_decoder.ref \in 0..MaxPictures
    /\ Len(h264_decoder.held) <= MaxHeld
    /\ \A i \in 1..Len(h264_decoder.held) : ImageOK(h264_decoder.held[i])
    /\ ImageOK(screen_update) /\ ImageOK(shown) /\ ImageOK(panic)
    /\ shown # Nothing => session

(* The window never shows a damaged picture, one that was decoded without  *)
(* the picture it refers to: the capture loop drops every H.264 frame that *)
(* is not a key frame (server.rs, the `continue' in the match), whatever   *)
(* was skipped, dropped or missed before. The one exception is data with   *)
(* several pictures, of which only the last is known to be a key frame.    *)
NoArtifacts == shown.intact \/ shown.rest > 0

(* The assertion in ColorImage::from_rgb fails only in two ways: for a     *)
(* frame of a video encoder of a screen with an odd width or height, which *)
(* was cropped and is announced uncropped, and for a software frame whose  *)
(* rows are padded (bgra_to_rgb keeps the padding). An encoder that fails  *)
(* on a cropped frame does not leave a cropped software frame.             *)
PanicOnlyMisfit ==
    panic # Nothing =>
        \/ panic.encoding = "H264" /\ EncoderPixels # ScreenPixels
        \/ /\ panic.encoding = "ZstdCompressed"
           /\ \E pad \in Pads \ {0} : panic.pixels = BufferPixels(pad)

(* Within a connection the window never goes back to an earlier picture,   *)
(* also not when the encoder gives out old packets late, fails while it    *)
(* holds some, several pictures come at once, or the decoder still keeps   *)
(* pictures back when the server has changed to software frames or the     *)
(* client to another connection.                                           *)
ShownForward ==
    [][shown # Nothing /\ shown' # Nothing => shown'.pic >= shown.pic]_vars

(* A software frame that was sent is displayed or overtaken by a newer     *)
(* picture, whatever H.264 messages are before it: data that is no H.264,  *)
(* that finds no decoder, on which it fails or for which it needs more     *)
(* data. The `continue's of update skip one message only.                  *)
SoftwareShown ==
    \A p \in Pictures :
        (\E i \in 1..Len(net) :
            net[i].encoding = "ZstdCompressed" /\ net[i].data[1].pic = p)
            ~> (shown.pic >= p \/ ~session)

(* What the server captures for a connected client is displayed or         *)
(* overtaken: "For now, always send keyframes to avoid artifacts"          *)
(* (screen_capture.rs), "WebP encoding for software fallback"              *)
(* (PERFORMANCE_FEATURES.md, of what is implemented). Does not hold with a *)
(* video encoder, whose delta frames are sent to nobody, nor with the WebP *)
(* encoder in its place, whose frames no decoder knows.                    *)
CapturedShown ==
    \A p \in Pictures :
        (session /\ \E i \in 1..Len(frames) : \E j \in 1..Len(frames[i].data) :
                        frames[i].data[j].pic = p)
            ~> (shown.pic >= p \/ ~session)
=============================================================================
