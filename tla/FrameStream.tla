---------------------------- MODULE FrameStream ----------------------------
(***************************************************************************)
(* What the server's capture and the client's window make of               *)
(* FrameProcessor when frames are encoded in software.  capture_frame      *)
(* compresses what process_frame returns, a delta tile by tile; the        *)
(* capture loop may pass a session by; the window decompresses key frames, *)
(* but applies the tiles of a delta frame as they come.  Delta frames are  *)
(* not made: capture_frame asks for key frames only.                       *)
(*                                                                         *)
(* A compressed key frame is kept as the frame: encode_all and decode_all  *)
(* undo each other.                                                        *)
(***************************************************************************)
EXTENDS FrameProcessor

CONSTANT encode_all(_)  \* the bytes of zstd for the pixels of a tile, as pixels

-----------------------------------------------------------------------------
(* Compression in capture_frame.                                           *)
Compressed(m) ==
    [m EXCEPT !.tiles = {[rect |-> t.rect, data |-> encode_all(t.data)] : t \in @}]

(* capture_frame without a video encoder: force_keyframe is true.          *)
CaptureFrame ==
    /\ Len(queue) < MaxQueue
    /\ \E frame \in Screens :
         LET processed == process_frame(frame, TRUE)
         IN  /\ screen' = frame
             /\ last_frame' = processed.last_frame
             /\ queue' = Append(queue, Compressed(processed.out))
    /\ UNCHANGED received

(* The capture loop passes the session by (the frame comes too soon for    *)
(* its mode, or before the session is in the table), or the connection     *)
(* ends with the frame under way.                                          *)
PassBy ==
    /\ queue # <<>>
    /\ queue' = Tail(queue)
    /\ UNCHANGED <<screen, last_frame, received>>

(* The window takes a ScreenFrame or a DeltaFrame out of its channel.      *)
Update == Receive

(* The client is started again (VoxApp::new).  A client that only connects *)
(* again keeps its current_frame.                                          *)
NewClient ==
    /\ received' = None
    /\ UNCHANGED <<screen, last_frame, queue>>

StreamNext == CaptureFrame \/ PassBy \/ Update \/ NewClient

StreamSpec == Init /\ [][StreamNext]_vars

-----------------------------------------------------------------------------
(* "Always send keyframes to avoid artifacts" (screen_capture.rs): what    *)
(* the window has is always a frame as it was captured, never a mixture of *)
(* several, whichever frames are passed by and whenever a client comes.    *)
WholeFrames == received # None => received \in Screens
=============================================================================
