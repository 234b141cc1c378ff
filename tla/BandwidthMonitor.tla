-------------------------- MODULE BandwidthMonitor --------------------------
(***************************************************************************)
(* FramePacing with the measurements it leaves open: the BandwidthMonitor  *)
(* of the session's AdaptiveQualityController keeps the last max_samples   *)
(* samples.  A sent frame is a sample of its size whose "rtt" is the time  *)
(* since the session's last frame (server.rs 379-380); an acknowledgement  *)
(* is a sample of no bytes whose rtt is the difference of two machines'    *)
(* clocks (229-238).  Time is in ms, and bandwidth, rtt and loss are whole *)
(* Mbit/s, ms and percent; a pause is recorded up to AgeCap.               *)
(***************************************************************************)
EXTENDS FramePacing

CONSTANTS max_samples, \* 30 in the program
          LossSamples, \* samples needed to estimate the loss: 5
          FrameBytes,  \* sizes of encrypted frames
          AckDelays    \* received_at - timestamp; the clocks may differ

ASSUME WindowAssumption ==
    /\ max_samples \in Nat \ {0} /\ LossSamples \in Nat \ {0}
    /\ FrameBytes \subseteq Nat /\ AckDelays \subseteq Int

VARIABLES samples,  \* what is in the window; gap is the time since the one before
          sampleAge \* since the last sample

monitorVars == <<vars, samples, sampleAge>>

MonitorInit == Init /\ samples = <<>> /\ sampleAge = 0

-----------------------------------------------------------------------------
(* The sum of f[1], ..., f[n].                                             *)
Total(f, n) ==
    LET sum[i \in 0..n] == IF i = 0 THEN 0 ELSE sum[i - 1] + f[i]
    IN  sum[n]

Sum(f) == Total(f, Len(f))

(* From the first timestamp to the last.                                   *)
Span(w) == Sum([i \in 1..Len(w) |-> w[i].gap])

(* get_bandwidth_mbps().unwrap_or(10.0)                                    *)
get_bandwidth_mbps(w) ==
    IF Len(w) < 2 \/ Span(w) < 100 THEN NoSamples.bandwidth
    ELSE (Sum([i \in 1..Len(w) |-> w[i].bytes]) * 8) \div (Span(w) * 1000)

(* get_average_rtt().unwrap_or(50 ms)                                      *)
get_average_rtt(w) ==
    IF w = <<>> THEN NoSamples.rtt ELSE Sum([i \in 1..Len(w) |-> w[i].rtt]) \div Len(w)

(* Wrong variant: the variance of milliseconds.                            *)
get_packet_loss_millis(w) ==
    LET diff == [i \in 1..Len(w) |-> w[i].rtt - get_average_rtt(w)]
    IN  IF Len(w) < LossSamples THEN 0
        ELSE AtMost((Sum([i \in 1..Len(w) |-> diff[i] * diff[i]]) \div Len(w)) * 100, 20)

(* The variance of the rtt in seconds, times 100, is taken for the loss.   *)
get_packet_loss_rate(w) ==
    LET diff == [i \in 1..Len(w) |-> w[i].rtt - get_average_rtt(w)]
    IN  IF Len(w) < LossSamples THEN 0
        ELSE AtMost((Sum([i \in 1..Len(w) |-> diff[i] * diff[i]]) \div Len(w)) \div 10000, 20)

Measure(w) ==
    [bandwidth |-> get_bandwidth_mbps(w), rtt |-> get_average_rtt(w),
     loss |-> get_packet_loss_rate(w)]

(* add_sample: the oldest sample makes room.  What the first sample came   *)
(* after does not matter.                                                  *)
add_sample(age, bytes, rtt) ==
    LET all == Append(samples, [gap |-> age, bytes |-> bytes, rtt |-> rtt])
        kept == IF Len(all) > max_samples THEN Tail(all) ELSE all
    IN  [kept EXCEPT ![1].gap = 0]

(* Wrong variant: plain subtraction.                                       *)
AckRttPlain(delay) == delay

(* received_at.saturating_sub(timestamp)                                   *)
AckRtt(delay) == IF delay < 0 THEN 0 ELSE delay

-----------------------------------------------------------------------------
MonitorPass ==
    \E d \in Delays :
        /\ PassTime(d)
        /\ sampleAge' = Older(sampleAge, d)
        /\ UNCHANGED samples

MonitorTakeFrame == TakeFrame /\ UNCHANGED <<samples, sampleAge>>

MonitorSendFrame == SendFrame /\ UNCHANGED <<samples, sampleAge>>

(* update_metrics(encrypted.len(), frame_time) for a frame that is sent.   *)
MonitorVisit ==
    /\ \E key \in KeyFrames : VisitWith(key)
    /\ IF last'.kind = "sent"
       THEN /\ \E bytes \in FrameBytes : samples' = add_sample(sampleAge, bytes, visitAge)
            /\ sampleAge' = 0
       ELSE UNCHANGED <<samples, sampleAge>>
    /\ metrics' = Measure(samples')

(* update_metrics(0, rtt)                                                  *)
MonitorFrameAck ==
    /\ TakeAck
    /\ \E delay \in AckDelays : samples' = add_sample(sampleAge, 0, AckRtt(delay))
    /\ sampleAge' = 0
    /\ metrics' = Measure(samples')

MonitorRequestQualityChange == RequestQualityChange /\ UNCHANGED <<samples, sampleAge>>

MonitorNext ==
    \/ MonitorPass \/ MonitorTakeFrame \/ MonitorSendFrame \/ MonitorVisit
    \/ MonitorFrameAck \/ MonitorRequestQualityChange

MonitorSpec == MonitorInit /\ [][MonitorNext]_monitorVars

(* Time goes on, thread and loop run for ever, and the screen keeps        *)
(* changing, so that the capturer has a frame again and again;             *)
(* acknowledgements arrive.                                                *)
MonitorFairSpec ==
    /\ MonitorSpec
    /\ WF_monitorVars(MonitorPass) /\ WF_monitorVars(MonitorTakeFrame)
    /\ WF_monitorVars(MonitorSendFrame) /\ WF_monitorVars(MonitorVisit)
    /\ WF_monitorVars(MonitorFrameAck)

-----------------------------------------------------------------------------
(* The queries return what FramePacing assumes of them (no negative time,  *)
(* no division by nothing, whatever the clocks of the two machines say),   *)
(* and they change only with a sample: with the monitor, the controller    *)
(* and the loop implement FramePacing, so that its theorems are theirs.    *)
ImplementsPacing == Spec

(* A session whose sampled frames and answers all took at most 66 ms, the  *)
(* interval of Low, is not put into Low or Minimal, however few bytes were *)
(* sent: averages, thresholds and weights keep it above.  (A screen that   *)
(* merely rests longer is a sample of a long time, and may be: see         *)
(* StreamGoesOn.)                                                          *)
PromptKeepsQuality ==
    [][mode' # mode /\ ~forced' /\ (\A i \in DOMAIN samples : samples[i].rtt <= 66)
          => mode' \notin {"Low", "Minimal"}]_monitorVars
=============================================================================
