---------------------------- MODULE FramePacing ----------------------------
(***************************************************************************)
(* When a session gets a frame.  The capture thread (server.rs 323-328 and *)
(* ScreenCapture::capture_frame) takes a frame when CaptureInterval ms     *)
(* have passed since it took one, encodes it and puts it into a channel;   *)
(* the capture loop (server.rs 332-386) takes the frames from there, asks  *)
(* the session's AdaptiveQualityController for a mode and sends or skips   *)
(* the frame by the mode's frame rate.  The thread's clock is set before   *)
(* the frame is encoded, the session's when the loop gets to it: the time  *)
(* between is different from frame to frame.                               *)
(*                                                                         *)
(* Time passes by an action of its own, in milliseconds, and is kept as    *)
(* ages, each capped where nothing compares beyond.  The thread's sleep of *)
(* 16 ms between two polls is a part of the time that passes.              *)
(* The BandwidthMonitor is kept as the result of its three queries: a new  *)
(* sample may move it to any result of them, and without a new sample it   *)
(* stays (the queries never look at the clock).  Sessions do not influence *)
(* each other's pacing, so one is enough.                                  *)
(***************************************************************************)
EXTENDS Integers, Sequences

CONSTANTS Delays,          \* how much time may pass between two steps
          StartAges,       \* how long ago a frame was taken when the session begins
          CaptureInterval, \* 1000 / fps of ScreenCapture::new(30)
          MaxWait,         \* encoding a frame and its wait for the loop take at most this
          MaxPending,      \* frames in the channel, at most
          KeyFrames,       \* is a frame one that is sent, or one without data for it
          Cooldown,        \* quality_change_cooldown
          AgeCap,          \* ages are kept up to this bound
          MaxAcks,         \* FrameAcks under way, at most
          MayForce         \* modes the user may choose

QualityModes == {"Ultra", "High", "Medium", "Low", "Minimal"}

(* QualityMode::target_fps, and the interval the loop derives from it.     *)
target_fps == [Ultra |-> 60, High |-> 30, Medium |-> 30, Low |-> 15, Minimal |-> 10]
Interval(mode) == 1000 \div target_fps[mode]

(* What the BandwidthMonitor's queries return.                             *)
Metrics == [bandwidth : Nat, rtt : Nat, loss : Nat]

(* get_bandwidth_mbps, get_average_rtt and get_packet_loss_rate without    *)
(* samples.                                                                *)
NoSamples == [bandwidth |-> 10, rtt |-> 50, loss |-> 0]

ASSUME PollAssumption ==
    /\ Delays \subseteq Nat /\ CaptureInterval \in Nat
    /\ MaxPending \in Nat \ {0} /\ KeyFrames \subseteq BOOLEAN
    /\ Cooldown \in Nat /\ MaxAcks \in Nat
ASSUME AgeCapAssumption ==
    /\ AgeCap \in Nat /\ StartAges \subseteq 0..AgeCap /\ MaxWait \in 0..AgeCap
    /\ AgeCap > CaptureInterval /\ \A m \in QualityModes : AgeCap > Interval(m)
ASSUME ForceAssumption == MayForce \subseteq QualityModes

VARIABLES pollAge,   \* since ScreenCapture::last_frame_time
          encoding,  \* the thread is at the frame it took then
          pending,   \* frames in the channel, each as the time since it was taken
          visitAge,  \* since ClientSession::last_frame_time
          sentAge,   \* since a frame was sent to the session
          mode,      \* current_quality
          forced,    \* forced_quality is Some
          changeAge, \* since last_quality_change
          metrics,   \* what the BandwidthMonitor's queries return
          acks,      \* FrameAcks under way
          last       \* what became of the last frame the loop got

captureVars == <<pollAge, encoding, pending>>
sessionVars == <<visitAge, sentAge, mode, forced, changeAge, acks, last>>
vars == <<captureVars, sessionVars, metrics>>

NoFrame == [kind |-> "none", mode |-> "High", gap |-> 0, delay |-> 0]
Outcomes ==
    [kind : {"none", "sent", "skipped", "dropped"}, mode : QualityModes, gap : Nat, delay : Nat]

TypeOK ==
    /\ pollAge \in 0..AgeCap /\ visitAge \in 0..AgeCap /\ sentAge \in 0..AgeCap
    /\ encoding \in BOOLEAN
    /\ pending \in Seq(0..MaxWait) /\ Len(pending) <= MaxPending
    /\ mode \in QualityModes
    /\ forced \in BOOLEAN
    /\ changeAge \in 0..Cooldown
    /\ metrics \in Metrics
    /\ acks \in 0..MaxAcks
    /\ last \in Outcomes

(* The thread was running before the login, and may be at a frame or have  *)
(* put one into the channel.                                               *)
Init ==
    /\ pollAge \in StartAges
    /\ encoding \in BOOLEAN /\ pending \in {<<>>, <<pollAge>>}
    /\ encoding \/ pending # <<>> => pollAge <= MaxWait
    /\ encoding => pending = <<>>
    /\ visitAge = 0 /\ sentAge = 0
    /\ mode = "High" /\ forced = FALSE /\ changeAge = 0
    /\ metrics = NoSamples /\ acks = 0 /\ last = NoFrame

-----------------------------------------------------------------------------
AtMost(a, b) == IF a <= b THEN a ELSE b
Older(age, d) == AtMost(age + d, AgeCap)

(* calculate_quality: the weighted score times 2000, so that it is whole.  *)
Score(m) ==
    20 * AtMost(m.bandwidth, 50) + 3 * (200 - AtMost(m.rtt, 200))
        + 40 * (10 - AtMost(m.loss, 10))

calculate_quality(m) ==
    IF Score(m) >= 1600 THEN "Ultra"
    ELSE IF Score(m) >= 1200 THEN "High"
    ELSE IF Score(m) >= 800 THEN "Medium"
    ELSE IF Score(m) >= 400 THEN "Low"
    ELSE "Minimal"

(* get_recommended_quality: the user's choice, or no change within the     *)
(* cooldown, or what the metrics call for.                                 *)
Recommended(age) ==
    IF forced \/ age < Cooldown THEN mode ELSE calculate_quality(metrics)

(* Time passes; while a frame is under way, no more than MaxWait.          *)
PassTime(d) ==
    /\ encoding => pollAge + d <= MaxWait
    /\ \A i \in DOMAIN pending : pending[i] + d <= MaxWait
    /\ pollAge' = Older(pollAge, d)
    /\ pending' = [i \in DOMAIN pending |-> pending[i] + d]
    /\ visitAge' = Older(visitAge, d)
    /\ sentAge' = Older(sentAge, d)
    /\ changeAge' = AtMost(changeAge + d, Cooldown)
    /\ UNCHANGED <<encoding, mode, forced, metrics, acks, last>>

Pass == \E d \in Delays : PassTime(d)

(* capture_frame: the interval is over and the capturer has a frame.  (If  *)
(* not, a poll changes nothing.)  last_frame_time is set at once.          *)
TakeFrame ==
    /\ ~encoding /\ Len(pending) < MaxPending
    /\ pollAge >= CaptureInterval
    /\ pollAge' = 0 /\ encoding' = TRUE
    /\ UNCHANGED <<pending, sessionVars, metrics>>

(* Converted, encoded and compressed, the frame is put into the channel.   *)
SendFrame ==
    /\ encoding
    /\ encoding' = FALSE /\ pending' = Append(pending, pollAge)
    /\ UNCHANGED <<pollAge, sessionVars, metrics>>

(* Wrong variant: the interval of the mode before the change decides.      *)
VisitOldMode(key) ==
    LET chosen == Recommended(changeAge)
        due == visitAge >= Interval(mode)
        sent == due /\ key
    IN  /\ pending # <<>>
        /\ pending' = Tail(pending)
        /\ mode' = chosen
        /\ changeAge' = IF chosen # mode THEN 0 ELSE changeAge
        /\ visitAge' = 0
        /\ last' = [kind |-> IF sent THEN "sent" ELSE IF due THEN "dropped" ELSE "skipped",
                    mode |-> chosen, gap |-> sentAge, delay |-> Head(pending)]
        /\ sentAge' = IF sent THEN 0 ELSE sentAge
        /\ acks' = IF sent THEN AtMost(acks + 1, MaxAcks) ELSE acks
        /\ UNCHANGED <<pollAge, encoding, forced>>

(* Wrong variant: an interval that is just over is taken for too soon.     *)
VisitTooSoon(key) ==
    LET chosen == Recommended(changeAge)
        due == visitAge > Interval(chosen)
        sent == due /\ key
    IN  /\ pending # <<>>
        /\ pending' = Tail(pending)
        /\ mode' = chosen
        /\ changeAge' = IF chosen # mode THEN 0 ELSE changeAge
        /\ visitAge' = 0
        /\ last' = [kind |-> IF sent THEN "sent" ELSE IF due THEN "dropped" ELSE "skipped",
                    mode |-> chosen, gap |-> sentAge, delay |-> Head(pending)]
        /\ sentAge' = IF sent THEN 0 ELSE sentAge
        /\ acks' = IF sent THEN AtMost(acks + 1, MaxAcks) ELSE acks
        /\ UNCHANGED <<pollAge, encoding, forced>>

(* The loop visits the session with the next frame: the mode is brought up *)
(* to date, last_frame_time is set, and only then the time since the visit *)
(* before decides.  A frame that is due but has no data to send (a delta   *)
(* frame without tiles) is dropped; one that is sent will be acknowledged. *)
VisitWith(key) ==
    LET chosen == Recommended(changeAge)
        due == visitAge >= Interval(chosen)
        sent == due /\ key
    IN  /\ pending # <<>>
        /\ pending' = Tail(pending)
        /\ mode' = chosen
        /\ changeAge' = IF chosen # mode THEN 0 ELSE changeAge
        /\ visitAge' = 0
        /\ last' = [kind |-> IF sent THEN "sent" ELSE IF due THEN "dropped" ELSE "skipped",
                    mode |-> chosen, gap |-> sentAge, delay |-> Head(pending)]
        /\ sentAge' = IF sent THEN 0 ELSE sentAge
        /\ acks' = IF sent THEN AtMost(acks + 1, MaxAcks) ELSE acks
        /\ UNCHANGED <<pollAge, encoding, forced>>

(* A sent frame is a sample, which may change what the queries return.     *)
Visit ==
    /\ \E key \in KeyFrames : VisitWith(key)
    /\ metrics' \in (IF last'.kind = "sent" THEN Metrics ELSE {metrics})

(* FrameAck: another sample.                                               *)
TakeAck ==
    /\ acks > 0
    /\ acks' = acks - 1
    /\ UNCHANGED <<captureVars, visitAge, sentAge, mode, forced, changeAge, last>>

FrameAck == TakeAck /\ metrics' \in Metrics

(* RequestQualityChange: force_quality.                                    *)
RequestQualityChange ==
    /\ \E m \in MayForce : mode' = m
    /\ forced' = TRUE
    /\ UNCHANGED <<captureVars, visitAge, sentAge, changeAge, metrics, acks, last>>

Next == Pass \/ TakeFrame \/ SendFrame \/ Visit \/ FrameAck \/ RequestQualityChange

Spec == Init /\ [][Next]_vars

-----------------------------------------------------------------------------
(* Per-client frame rate limiting: two frames sent to a session are at     *)
(* least the interval of the mode apart in which the second one is sent,   *)
(* however the mode was changed, by the user or by adaptation, in between. *)
RateLimited == last.kind = "sent" => last.gap >= Interval(last.mode)

(* In the modes that ask for no fewer frames than are captured, a frame is *)
(* withheld only if it got from the screen to the session in less time     *)
(* than the frame before it: the two clocks differ by what encoding and    *)
(* the channel take.  Frames that all take the same are never withheld, as *)
(* 33 ms elapsed is not less than an interval of 33 ms.                    *)
SkipsNeedJitter ==
    [][Visit /\ last.kind # "none" /\ last'.kind = "skipped"
            /\ Interval(last'.mode) <= CaptureInterval
          => last'.delay < last.delay]_vars

(* PERFORMANCE_FEATURES.md, "Low: Works on slow connections" and "Frame    *)
(* rate adaptation (10-60 FPS)": in every mode frames keep coming.  In Low *)
(* and Minimal the clock is reset by the frames that are skipped, so that  *)
(* none is ever due; and as no frame is a sample either, an adaptive       *)
(* session never leaves the mode.                                          *)
StreamGoesOn == []<>(sentAge = 0)
=============================================================================
