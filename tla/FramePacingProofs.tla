------------------------- MODULE FramePacingProofs -------------------------
(***************************************************************************)
(* The frame rate limit for every capture interval, delay, cooldown and    *)
(* measurement, and that the session with its bandwidth monitor keeps it.  *)
(*                                                                         *)
(* RateLimited is not inductive: whether a frame is sent is decided by the *)
(* session's clock, the limit speaks about the last sent frame, and        *)
(* VisitedLater relates the two.  For SkipsNeedJitter the frames that are  *)
(* under way have to be related with each other (Spaced), and with the     *)
(* frame the session was visited with last (SpacedFromLast).               *)
(*                                                                         *)
(* BandwidthMonitor implements FramePacing if what it measures is always a *)
(* measurement, that is, if the sums over its window exist and its         *)
(* divisions are defined. The same bounds on sums give, for a window of    *)
(* prompt samples, a score that none of the slow modes has.                *)
(***************************************************************************)
EXTENDS BandwidthMonitor, TLAPS, SequenceTheorems, WellFoundedInduction

(* The session's clock (last_frame_time) is never behind the last sent     *)
(* frame.                                                                  *)
VisitedLater == visitAge <= sentAge

(* The frames under way were taken CaptureInterval apart, the one the      *)
(* thread is at after those in the channel.                                *)
Spaced ==
    /\ \A i \in 1..Len(pending) - 1 : pending[i] >= pending[i + 1] + CaptureInterval
    /\ pending # <<>> =>
          pollAge + (IF encoding THEN CaptureInterval ELSE 0) <= pending[Len(pending)]
    /\ encoding => pollAge <= MaxWait /\ Len(pending) < MaxPending

(* The next frame for the session was taken CaptureInterval after the one  *)
(* it was visited with last, visitAge + last.delay ago; or nobody took one *)
(* since.                                                                  *)
SpacedFromLast ==
    last.kind # "none" /\ visitAge < AgeCap =>
        IF pending # <<>> THEN pending[1] + CaptureInterval <= visitAge + last.delay
        ELSE pollAge + (IF encoding THEN CaptureInterval ELSE 0) <= visitAge + last.delay

Inv == TypeOK /\ VisitedLater /\ Spaced /\ SpacedFromLast /\ RateLimited

(* The pacing interval of every mode (server.rs) is a natural number.      *)
LEMMA IntervalType == \A m \in QualityModes : Interval(m) \in Nat
  BY DEF QualityModes, Interval, target_fps

(* calculate_quality (quality.rs) returns a mode for all metrics.          *)
LEMMA CalculateType == \A m \in Metrics : calculate_quality(m) \in QualityModes
  BY DEF calculate_quality, QualityModes

(* Ages are capped alike, so that older stays older.                       *)
LEMMA OlderFacts ==
  ASSUME NEW a \in 0..AgeCap, NEW b \in 0..AgeCap, NEW d \in Nat
  PROVE  /\ Older(a, d) \in 0..AgeCap
         /\ a <= b => Older(a, d) <= Older(b, d)
         /\ \A n \in Nat : n < AgeCap /\ a + d >= n => Older(a, d) >= n
  BY AgeCapAssumption DEF Older, AtMost

(* What is later by c stays so when time passes.                           *)
LEMMA StaysBehind ==
  ASSUME NEW a \in Nat, NEW b \in Nat, NEW c \in Nat, NEW d \in Nat, NEW p \in Nat,
         a <= b + d, b + c <= p
  PROVE  a + c <= p + d
OBVIOUS

(* A capped number is within its cap.                                      *)
LEMMA AtMostFacts ==
  ASSUME NEW a \in Nat, NEW n \in Nat
  PROVE  AtMost(a, n) \in 0..n
  BY DEF AtMost

(* An interval that starts at 1 has one end.                               *)
LEMMA SameEnd ==
  ASSUME NEW m \in Nat, NEW n \in Nat, 1..m = 1..n
  PROVE  m = n
<1>1. ASSUME m < n PROVE FALSE
  <2>1. n \in 1..n /\ n \notin 1..m
    BY <1>1
  <2> QED
    BY <2>1
<1>2. ASSUME n < m PROVE FALSE
  <2>1. m \in 1..m /\ m \notin 1..n
    BY <1>2
  <2> QED
    BY <2>1
<1> QED
  BY <1>1, <1>2

(* The invariant holds for a new session, which no frame reached yet.      *)
LEMMA InitInv == Init => Inv
<1> SUFFICES ASSUME Init PROVE Inv
  OBVIOUS
<1>1. metrics \in Metrics
  BY DEF Init, NoSamples, Metrics
<1>2. last \in Outcomes /\ last.kind = "none"
  BY DEF Init, NoFrame, Outcomes, QualityModes
<1>3. forced \in BOOLEAN /\ encoding \in BOOLEAN
  BY Zenon DEF Init
<1>4. /\ pollAge \in 0..AgeCap /\ visitAge \in 0..AgeCap /\ sentAge \in 0..AgeCap
      /\ changeAge \in 0..Cooldown /\ acks \in 0..MaxAcks /\ visitAge <= sentAge
  BY AgeCapAssumption, PollAssumption DEF Init
<1>5. mode \in QualityModes
  BY DEF Init, QualityModes
<1>6. pending \in Seq(0..MaxWait) /\ Len(pending) <= MaxPending /\ Spaced
  <2>1. CASE pending = <<>>
    BY <2>1, PollAssumption DEF Init, Spaced
  <2>2. CASE pending # <<>>
    <3>1. pending = <<pollAge>> /\ encoding = FALSE /\ pollAge \in 0..MaxWait
      BY <1>3, <1>4, <2>2, AgeCapAssumption DEF Init
    <3>2. Len(pending) = 1 /\ pending[1] = pollAge /\ pending \in Seq(0..MaxWait)
      BY <3>1
    <3> QED
      BY <1>4, <3>1, <3>2, PollAssumption DEF Spaced
  <2> QED
    BY <2>1, <2>2
<1>7. TypeOK
  BY <1>1, <1>2, <1>3, <1>4, <1>5, <1>6, Zenon DEF TypeOK
<1>8. VisitedLater /\ SpacedFromLast /\ RateLimited
  BY <1>2, <1>4 DEF VisitedLater, SpacedFromLast, RateLimited
<1> QED
  BY <1>6, <1>7, <1>8 DEF Inv

(* Time lets every clock advance alike, and none of the ages of frames     *)
(* under way is capped.                                                    *)
LEMMA PassInv ==
  ASSUME Inv, Pass
  PROVE  Inv'
<1>1. PICK d \in Delays : PassTime(d)
  BY DEF Pass
<1>2. d \in Nat
  BY <1>1, PollAssumption
<1>3. /\ pollAge' \in 0..AgeCap /\ visitAge' \in 0..AgeCap /\ sentAge' \in 0..AgeCap
      /\ visitAge' <= sentAge'
  BY <1>1, <1>2, OlderFacts DEF Inv, TypeOK, VisitedLater, PassTime
<1>4. changeAge' \in 0..Cooldown
  <2>1. changeAge + d \in Nat /\ changeAge' = AtMost(changeAge + d, Cooldown)
    BY <1>1, <1>2 DEF Inv, TypeOK, PassTime
  <2> QED
    BY <2>1, AtMostFacts, PollAssumption
<1>5. /\ pending \in Seq(0..MaxWait) /\ Len(pending) \in Nat
      /\ DOMAIN pending = 1..Len(pending) /\ MaxWait \in Nat
      /\ \A i \in 1..Len(pending) : pending[i] \in 0..MaxWait
  BY AgeCapAssumption, LenProperties, ElementOfSeq DEF Inv, TypeOK
<1>6. /\ pending' \in [1..Len(pending) -> 0..MaxWait] /\ DOMAIN pending' = 1..Len(pending)
      /\ \A i \in 1..Len(pending) : pending'[i] = pending[i] + d
  <2>1. pending' = [i \in 1..Len(pending) |-> pending[i] + d]
    BY <1>1, <1>5 DEF PassTime
  <2>2. \A i \in 1..Len(pending) : pending[i] + d \in 0..MaxWait
    BY <1>1, <1>2, <1>5 DEF PassTime
  <2> QED
    BY <2>1, <2>2
<1>7. pending' \in Seq(0..MaxWait) /\ Len(pending') = Len(pending)
  <2>1. pending' \in Seq(0..MaxWait)
    BY <1>5, <1>6, SeqDef
  <2>2. Len(pending') \in Nat /\ 1..Len(pending') = 1..Len(pending)
    BY <1>6, <2>1, LenProperties
  <2> QED
    BY <1>5, <2>1, <2>2, SameEnd
<1>8. pending' # <<>> <=> pending # <<>>
  BY <1>5, <1>7, EmptySeq
<1>9. TypeOK'
  BY <1>1, <1>3, <1>4, <1>7 DEF Inv, TypeOK, PassTime
<1>10. /\ pollAge' <= pollAge + d /\ (visitAge' < AgeCap => visitAge' = visitAge + d)
       /\ pollAge \in Nat /\ visitAge \in Nat /\ encoding' = encoding /\ last' = last
       /\ (encoding => pollAge + d <= MaxWait)
  BY <1>1, <1>2, AgeCapAssumption DEF Inv, TypeOK, PassTime, Older, AtMost
<1>11. Spaced'
  <2>1. ASSUME NEW i \in 1..Len(pending) - 1
        PROVE  pending'[i] >= pending'[i + 1] + CaptureInterval
    <3>1. i \in 1..Len(pending) /\ i + 1 \in 1..Len(pending)
      BY <1>5
    <3>2. pending[i] >= pending[i + 1] + CaptureInterval
      BY DEF Inv, Spaced
    <3> QED
      BY <1>2, <1>5, <1>6, <3>1, <3>2, PollAssumption
  <2>2. ASSUME pending # <<>>
        PROVE  pollAge' + (IF encoding THEN CaptureInterval ELSE 0) <= pending'[Len(pending)]
    <3>1. Len(pending) \in 1..Len(pending)
      BY <1>5, <2>2, EmptySeq
    <3>2. pollAge + (IF encoding THEN CaptureInterval ELSE 0) <= pending[Len(pending)]
      BY <2>2 DEF Inv, Spaced
    <3>3. PICK p \in Nat : p = pending[Len(pending)] /\ pending'[Len(pending)] = p + d
      BY <1>5, <1>6, <3>1
    <3>4. PICK c \in Nat : c = IF encoding THEN CaptureInterval ELSE 0
      BY PollAssumption
    <3>5. pollAge' + c <= p + d
      <4>1. pollAge + c <= p /\ c \in Nat /\ p \in Nat
        BY <3>2, <3>3, <3>4
      <4>2. pollAge' \in Nat /\ pollAge \in Nat /\ pollAge' <= pollAge + d
        BY <1>3, <1>10
      <4> QED
        BY <1>2, <4>1, <4>2, StaysBehind
    <3> QED
      BY <3>3, <3>4, <3>5
  <2>3. encoding => pollAge' <= MaxWait
    BY <1>2, <1>3, <1>5, <1>10
  <2> QED
    BY <1>7, <1>8, <1>10, <2>1, <2>2, <2>3 DEF Inv, Spaced
<1>12. SpacedFromLast'
  <2> SUFFICES ASSUME last.kind # "none", visitAge' < AgeCap
               PROVE  IF pending # <<>>
                      THEN pending'[1] + CaptureInterval <= visitAge' + last.delay
                      ELSE pollAge' + (IF encoding THEN CaptureInterval ELSE 0)
                              <= visitAge' + last.delay
    BY <1>8, <1>10 DEF SpacedFromLast
  <2>1. visitAge' = visitAge + d /\ visitAge < AgeCap
    BY <1>2, <1>10, AgeCapAssumption
  <2>2. last.delay \in Nat
    BY DEF Inv, TypeOK, Outcomes
  <2>3. CASE pending # <<>>
    <3>1. pending[1] + CaptureInterval <= visitAge + last.delay
      BY <2>1, <2>3 DEF Inv, SpacedFromLast
    <3>2. 1 \in 1..Len(pending)
      BY <1>5, <2>3, EmptySeq
    <3>3. PICK p \in Nat : p = pending[1] /\ pending'[1] = p + d
      BY <1>5, <1>6, <3>2
    <3>4. p + d + CaptureInterval <= visitAge' + last.delay
      BY <1>2, <1>10, <2>1, <2>2, <3>1, <3>3, PollAssumption
    <3> QED
      BY <2>3, <3>3, <3>4
  <2>4. CASE pending = <<>>
    <3>1. pollAge + (IF encoding THEN CaptureInterval ELSE 0) <= visitAge + last.delay
      BY <2>1, <2>4 DEF Inv, SpacedFromLast
    <3> QED
      BY <1>2, <1>3, <1>10, <2>1, <2>2, <2>4, <3>1, PollAssumption
  <2> QED
    BY <2>3, <2>4
<1>13. VisitedLater' /\ RateLimited'
  BY <1>3, <1>10 DEF Inv, VisitedLater, RateLimited
<1> QED
  BY <1>9, <1>11, <1>12, <1>13 DEF Inv

(* The thread takes a frame (screen_capture.rs 85): CaptureInterval after  *)
(* the one before, wherever that one is.                                   *)
LEMMA TakeFrameInv ==
  ASSUME Inv, TakeFrame
  PROVE  Inv'
<1>1. /\ pollAge >= CaptureInterval /\ pollAge' = 0 /\ encoding = FALSE /\ encoding' = TRUE
      /\ pending' = pending /\ last' = last /\ visitAge' = visitAge /\ sentAge' = sentAge
  BY DEF TakeFrame, sessionVars, Inv, TypeOK
<1>2. TypeOK'
  BY <1>1, AgeCapAssumption DEF TakeFrame, sessionVars, Inv, TypeOK
<1>3. Spaced'
  <2>1. pending # <<>> => CaptureInterval <= pending[Len(pending)]
    <3> SUFFICES ASSUME pending # <<>> PROVE CaptureInterval <= pending[Len(pending)]
      OBVIOUS
    <3>1. Len(pending) \in 1..Len(pending)
      BY LenProperties, EmptySeq DEF Inv, TypeOK
    <3>2. pending[Len(pending)] \in Nat
      BY <3>1, AgeCapAssumption, ElementOfSeq DEF Inv, TypeOK
    <3>3. pollAge <= pending[Len(pending)]
      BY <1>1 DEF Inv, TypeOK, Spaced
    <3> QED
      BY <1>1, <3>2, <3>3, PollAssumption DEF Inv, TypeOK
  <2>2. Len(pending) < MaxPending /\ 0 <= MaxWait /\ 0 + CaptureInterval = CaptureInterval
    BY AgeCapAssumption, PollAssumption DEF TakeFrame
  <2> QED
    BY <1>1, <2>1, <2>2 DEF Inv, Spaced
<1>4. SpacedFromLast'
  BY <1>1, PollAssumption DEF Inv, TypeOK, SpacedFromLast, Outcomes
<1>5. VisitedLater' /\ RateLimited'
  BY <1>1 DEF Inv, VisitedLater, RateLimited
<1> QED
  BY <1>2, <1>3, <1>4, <1>5 DEF Inv

(* The thread puts the frame into the channel.                             *)
LEMMA SendFrameInv ==
  ASSUME Inv, SendFrame
  PROVE  Inv'
<1>1. /\ pollAge' = pollAge /\ encoding = TRUE /\ encoding' = FALSE
      /\ pending' = Append(pending, pollAge) /\ last' = last
      /\ visitAge' = visitAge /\ sentAge' = sentAge
  BY DEF SendFrame, sessionVars, Inv, TypeOK
<1>2. /\ pending \in Seq(0..MaxWait) /\ Len(pending) \in Nat /\ MaxWait \in Nat
      /\ \A i \in 1..Len(pending) : pending[i] \in 0..MaxWait
  BY AgeCapAssumption, LenProperties, ElementOfSeq DEF Inv, TypeOK
<1>3. pollAge \in 0..MaxWait /\ Len(pending) < MaxPending
  BY <1>1, <1>2 DEF Inv, TypeOK, Spaced
<1>4. /\ pending' \in Seq(0..MaxWait) /\ Len(pending') = Len(pending) + 1
      /\ pending' # <<>> /\ pending'[Len(pending) + 1] = pollAge
      /\ \A i \in 1..Len(pending) : pending'[i] = pending[i]
  BY <1>1, <1>2, <1>3, AppendProperties
<1>5. TypeOK'
  <2>1. Len(pending') <= MaxPending
    BY <1>2, <1>3, <1>4, PollAssumption
  <2>2. encoding' \in BOOLEAN
    BY <1>1, Zenon
  <2> QED
    BY <1>1, <1>4, <2>1, <2>2, Zenon DEF SendFrame, sessionVars, Inv, TypeOK
<1>6. Spaced'
  <2>1. ASSUME NEW i \in 1..Len(pending)
        PROVE  pending'[i] >= pending'[i + 1] + CaptureInterval
    <3>1. CASE i = Len(pending)
      <4>1. pending # <<>> /\ pollAge + CaptureInterval <= pending[i]
        BY <1>1, <1>2, <3>1, EmptySeq DEF Inv, Spaced
      <4> QED
        BY <1>2, <1>3, <1>4, <3>1, <4>1, PollAssumption
    <3>2. CASE i # Len(pending)
      <4>1. i \in 1..Len(pending) - 1 /\ i + 1 \in 1..Len(pending)
        BY <1>2, <3>2
      <4>2. pending[i] >= pending[i + 1] + CaptureInterval
        BY <4>1 DEF Inv, Spaced
      <4> QED
        BY <1>4, <4>1, <4>2
    <3> QED
      BY <3>1, <3>2
  <2>2. 1..Len(pending') - 1 = 1..Len(pending)
    BY <1>2, <1>4
  <2> QED
    BY <1>1, <1>2, <1>3, <1>4, <2>1, <2>2 DEF Spaced
<1>7. SpacedFromLast'
  <2>1. CASE pending = <<>>
    <3>1. pending'[1] = pollAge
      BY <1>4, <2>1
    <3> QED
      BY <1>1, <1>4, <2>1, <3>1 DEF Inv, SpacedFromLast
  <2>2. CASE pending # <<>>
    <3>1. pending'[1] = pending[1]
      BY <1>2, <1>4, <2>2, EmptySeq
    <3> QED
      BY <1>1, <1>4, <2>2, <3>1 DEF Inv, SpacedFromLast
  <2> QED
    BY <2>1, <2>2
<1>8. VisitedLater' /\ RateLimited'
  BY <1>1 DEF Inv, VisitedLater, RateLimited
<1> QED
  BY <1>5, <1>6, <1>7, <1>8 DEF Inv

(* The loop gets to the session with the next frame.  It is withheld in a  *)
(* fast mode only if the time since the last visit is less than the time   *)
(* between the two captures.                                               *)
LEMMA VisitInv ==
  ASSUME Inv, Visit
  PROVE  /\ Inv'
         /\ last.kind # "none" /\ last'.kind = "skipped"
               /\ Interval(last'.mode) <= CaptureInterval
               => last'.delay < last.delay
<1>1. PICK key \in KeyFrames : VisitWith(key)
  BY DEF Visit
<1> DEFINE chosen == Recommended(changeAge)
           due == visitAge >= Interval(chosen)
           sent == due /\ key
           kind == IF sent THEN "sent" ELSE IF due THEN "dropped" ELSE "skipped"
           first == Head(pending)
<1>2. /\ pending # <<>> /\ pending' = Tail(pending) /\ mode' = chosen
      /\ changeAge' = (IF chosen # mode THEN 0 ELSE changeAge)
      /\ visitAge' = 0 /\ sentAge' = (IF sent THEN 0 ELSE sentAge)
      /\ last' = [kind |-> kind, mode |-> chosen, gap |-> sentAge, delay |-> first]
      /\ acks' = (IF sent THEN AtMost(acks + 1, MaxAcks) ELSE acks)
      /\ pollAge' = pollAge /\ encoding' = encoding /\ forced' = forced
  BY <1>1 DEF VisitWith
<1>3. metrics' \in Metrics
  BY DEF Visit, Inv, TypeOK
<1>4. chosen \in QualityModes /\ Interval(chosen) \in Nat
  BY CalculateType, IntervalType DEF Recommended, Inv, TypeOK
<1>5. kind \in {"sent", "dropped", "skipped"} /\ sent \in BOOLEAN /\ due \in BOOLEAN
  <2>1. key \in BOOLEAN /\ due \in BOOLEAN
    BY PollAssumption
  <2> HIDE DEF due
  <2> QED
    BY <2>1, Zenon
<1>6. /\ pending \in Seq(0..MaxWait) /\ Len(pending) \in Nat /\ MaxWait \in Nat
      /\ \A i \in 1..Len(pending) : pending[i] \in 0..MaxWait
      /\ Len(pending) # 0 /\ first = pending[1] /\ first \in Nat
  BY <1>2, AgeCapAssumption, LenProperties, ElementOfSeq, EmptySeq DEF Inv, TypeOK
<1>7. /\ pending' \in Seq(0..MaxWait) /\ Len(pending') = Len(pending) - 1
      /\ \A i \in 1..Len(pending) - 1 : pending'[i] = pending[i + 1]
      /\ (pending' = <<>> <=> Len(pending) = 1)
  <2>1. /\ pending' \in Seq(0..MaxWait) /\ Len(pending') = Len(pending) - 1
        /\ \A i \in 1..Len(pending) - 1 : pending'[i] = pending[i + 1]
    BY <1>2, <1>6, HeadTailProperties
  <2> QED
    BY <1>6, <2>1, EmptySeq, SMTT(30)
<1>8. sent => kind = "sent" /\ due
  OBVIOUS
<1>9. kind = "skipped" => ~due
  OBVIOUS
<1>10. kind = "sent" => due
  OBVIOUS
<1> HIDE DEF chosen, kind, first, sent
<1>11. acks' \in 0..MaxAcks
  BY <1>2, AtMostFacts, PollAssumption DEF Inv, TypeOK
<1>12. TypeOK'
  <2>1. last' \in Outcomes
    BY <1>2, <1>4, <1>5, <1>6 DEF Outcomes, Inv, TypeOK
  <2>2. /\ pollAge' \in 0..AgeCap /\ visitAge' \in 0..AgeCap /\ sentAge' \in 0..AgeCap
        /\ changeAge' \in 0..Cooldown /\ Len(pending') <= MaxPending
    BY <1>2, <1>6, <1>7, AgeCapAssumption, PollAssumption DEF Inv, TypeOK
  <2> QED
    BY <1>2, <1>3, <1>4, <1>7, <1>11, <2>1, <2>2, Zenon DEF Inv, TypeOK
<1>13. VisitedLater' /\ RateLimited'
  <2>1. sentAge \in Nat /\ visitAge \in Nat /\ visitAge <= sentAge
    BY DEF Inv, TypeOK, VisitedLater
  <2>2. VisitedLater'
    BY <1>2, <2>1 DEF VisitedLater
  <2>3. RateLimited'
    BY <1>2, <1>4, <1>10, <2>1 DEF RateLimited
  <2> QED
    BY <2>2, <2>3
<1>14. Spaced'
  <2>1. ASSUME NEW i \in 1..Len(pending') - 1
        PROVE  pending'[i] >= pending'[i + 1] + CaptureInterval
    <3>0. PICK n \in Nat : n = Len(pending') /\ Len(pending) = n + 1
      BY <1>6, <1>7
    <3>1. /\ i \in 1..Len(pending) - 1 /\ i + 1 \in 1..Len(pending) - 1
          /\ pending'[i] = pending[i + 1] /\ pending'[i + 1] = pending[i + 1 + 1]
      <4>1. i \in 1..n /\ i + 1 \in 1..n
        BY <3>0
      <4> QED
        BY <1>7, <3>0, <4>1
    <3> QED
      BY <3>1 DEF Inv, Spaced
  <2>2. pending' # <<>> => pending'[Len(pending')] = pending[Len(pending)]
    <3> SUFFICES ASSUME pending' # <<>> PROVE pending'[Len(pending')] = pending[Len(pending)]
      OBVIOUS
    <3>1. Len(pending) - 1 \in 1..Len(pending) - 1
      BY <1>6, <1>7
    <3>2. Len(pending) - 1 + 1 = Len(pending)
      BY <1>6
    <3> QED
      BY <1>7, <3>1, <3>2
  <2>3. Len(pending) < MaxPending => Len(pending') < MaxPending
    BY <1>6, <1>7, PollAssumption
  <2> QED
    BY <1>2, <2>1, <2>2, <2>3 DEF Inv, Spaced
<1>15. SpacedFromLast'
  <2>1. CASE Len(pending) = 1
    <3>1. pollAge + (IF encoding THEN CaptureInterval ELSE 0) <= first
      BY <1>2, <1>6, <2>1 DEF Inv, Spaced
    <3> QED
      BY <1>2, <1>6, <1>7, <2>1, <3>1 DEF SpacedFromLast
  <2>2. CASE Len(pending) # 1
    <3>0. PICK n \in Nat : n = Len(pending) /\ n # 0 /\ n # 1
      BY <1>6, <2>2
    <3>1. 1 \in 1..Len(pending) - 1 /\ 1 + 1 \in 1..Len(pending)
      BY <3>0
    <3>2. pending[1] >= pending[1 + 1] + CaptureInterval /\ pending'[1] = pending[1 + 1]
      BY <1>7, <3>1 DEF Inv, Spaced
    <3>3. pending[1] \in Nat /\ pending[1 + 1] \in Nat /\ pending' # <<>>
      BY <1>6, <1>7, <2>2, <3>1
    <3>4. pending'[1] + CaptureInterval <= 0 + first
      BY <1>6, <3>2, <3>3, PollAssumption
    <3> QED
      BY <1>2, <3>3, <3>4 DEF SpacedFromLast
  <2> QED
    BY <2>1, <2>2
<1>16. ASSUME last.kind # "none", last'.kind = "skipped", Interval(last'.mode) <= CaptureInterval
       PROVE  last'.delay < last.delay
  <2>1. ~due /\ last'.delay = first /\ Interval(chosen) <= CaptureInterval
    BY <1>2, <1>9, <1>16
  <2>2. visitAge \in Nat /\ last.delay \in Nat /\ visitAge < CaptureInterval
    BY <1>4, <2>1, PollAssumption DEF Inv, TypeOK, Outcomes
  <2>3. first + CaptureInterval <= visitAge + last.delay
    BY <1>2, <1>6, <1>16, <2>2, AgeCapAssumption, PollAssumption DEF Inv, SpacedFromLast
  <2> QED
    BY <1>6, <2>1, <2>2, <2>3, PollAssumption
<1> QED
  BY <1>12, <1>13, <1>14, <1>15, <1>16 DEF Inv

(* Every step of the capture thread, the capture loop and the handler      *)
(* keeps the invariant.                                                    *)
LEMMA NextInv == Inv /\ [Next]_vars => Inv'
<1> SUFFICES ASSUME Inv, [Next]_vars PROVE Inv'
  OBVIOUS
<1>1. CASE Pass
  BY <1>1, PassInv
<1>2. CASE TakeFrame
  BY <1>2, TakeFrameInv
<1>3. CASE SendFrame
  BY <1>3, SendFrameInv
<1>4. CASE Visit
  BY <1>4, VisitInv
<1>5. CASE FrameAck
  <2>1. TypeOK'
    BY <1>5, PollAssumption DEF FrameAck, TakeAck, captureVars, Inv, TypeOK
  <2> QED
    BY <1>5, <2>1 DEF FrameAck, TakeAck, captureVars, Inv, VisitedLater, Spaced,
                      SpacedFromLast, RateLimited
<1>6. CASE RequestQualityChange
  <2>1. TypeOK'
    BY <1>6, ForceAssumption DEF RequestQualityChange, captureVars, Inv, TypeOK
  <2> QED
    BY <1>6, <2>1 DEF RequestQualityChange, captureVars, Inv, VisitedLater, Spaced,
                      SpacedFromLast, RateLimited
<1>7. CASE UNCHANGED vars
  BY <1>7 DEF vars, captureVars, sessionVars, Inv, TypeOK, VisitedLater, Spaced,
              SpacedFromLast, RateLimited
<1> QED
  BY <1>1, <1>2, <1>3, <1>4, <1>5, <1>6, <1>7 DEF Next

-----------------------------------------------------------------------------
(* Every variable keeps its type.                                          *)
THEOREM TypeCorrect == Spec => []TypeOK
<1>1. Inv => TypeOK
  BY DEF Inv
<1> QED
  BY <1>1, InitInv, NextInv, PTL DEF Spec

(* server.rs 341-350: no session is ever sent two frames closer together   *)
(* than the interval of its mode.                                          *)
THEOREM RateLimit == Spec => []RateLimited
<1>1. Inv => RateLimited
  BY DEF Inv
<1> QED
  BY <1>1, InitInv, NextInv, PTL DEF Spec

(* In the modes whose interval is at most the capture interval, a frame    *)
(* after the first is withheld only if it was faster than the one before,  *)
(* from capture_frame's stamp (screen_capture.rs 85) to the visit          *)
(* (server.rs 341-350).                                                    *)
THEOREM SkipsExplained == Spec => SkipsNeedJitter
<1>1. Inv /\ [Next]_vars =>
        [Visit /\ last.kind # "none" /\ last'.kind = "skipped"
              /\ Interval(last'.mode) <= CaptureInterval
            => last'.delay < last.delay]_vars
  BY VisitInv
<1> QED
  BY <1>1, InitInv, NextInv, PTL DEF Spec, SkipsNeedJitter
-----------------------------------------------------------------------------
(* The monitor.  Its queries are sums over the window, and Total is        *)
(* defined by recursion: that there is such a function, and what is true   *)
(* of its values, is shown by induction, in the form that a set of natural *)
(* numbers that is not empty has a smallest element.                       *)
LEMMA Smallest ==
  ASSUME NEW T \in SUBSET Nat, T # {}
  PROVE  \E x \in T : \A y \in T : x <= y
<1> DEFINE R == {ss \in Nat \X Nat : ss[1] < ss[2]}
<1>1. IsWellFoundedOn(R, Nat)
  BY NatLessThanWellFounded DEF OpToRel
<1>2. PICK x \in T : \A y \in T : ~(<<y, x>> \in R)
  BY <1>1, WFMin
<1>3. ASSUME NEW y \in T PROVE x <= y
  <2>1. x \in Nat /\ y \in Nat
    OBVIOUS
  <2>2. ASSUME y < x PROVE FALSE
    <3>1. <<y, x>> \in Nat \X Nat /\ <<y, x>>[1] = y /\ <<y, x>>[2] = x
      BY <2>1
    <3>2. <<y, x>> \in R
      BY <2>2, <3>1
    <3> QED
      BY <1>2, <3>2
  <2> QED
    BY <2>1, <2>2
<1> QED
  BY <1>3

(* A set with 0 and with the successors of its numbers up to n has them    *)
(* all.                                                                    *)
LEMMA UpTo ==
  ASSUME NEW n \in Nat, NEW S, 0 \in S, \A i \in 1..n : i - 1 \in S => i \in S
  PROVE  \A i \in 0..n : i \in S
<1> DEFINE T == (0..n) \ S
<1> SUFFICES ASSUME T # {} PROVE FALSE
  OBVIOUS
<1>1. T \in SUBSET Nat
  OBVIOUS
<1>2. PICK m \in T : \A i \in T : m <= i
  <2> HIDE DEF T
  <2> QED
    BY <1>1, Smallest
<1>3. m \in 1..n /\ m - 1 \in 0..n /\ ~(m <= m - 1)
  OBVIOUS
<1>4. m - 1 \in S
  BY <1>2, <1>3
<1> QED
  BY <1>3, <1>4

(* s lists the sums of f[1], ..., f[i] for i up to n.                      *)
Sums(s, f, n) == s = [i \in 0..n |-> IF i = 0 THEN 0 ELSE s[i - 1] + f[i]]

(* There are such sums,                                                    *)
LEMMA SumsExist ==
  ASSUME NEW f, NEW n \in Nat
  PROVE  \E s : Sums(s, f, n)
<1> DEFINE S == {i \in 0..n : \E s : Sums(s, f, i)}
<1>1. 0 \in S
  <2> DEFINE s == [i \in 0..0 |-> 0]
  <2>1. \A i \in 0..0 : i = 0
    OBVIOUS
  <2>2. Sums(s, f, 0)
    BY <2>1 DEF Sums
  <2> QED
    BY <2>2
<1>2. ASSUME NEW i \in 1..n, i - 1 \in S PROVE i \in S
  <2>1. PICK s : Sums(s, f, i - 1)
    BY <1>2
  <2> DEFINE g == [k \in 0..i |-> IF k = i THEN s[i - 1] + f[i] ELSE s[k]]
  <2>2. ASSUME NEW k \in 0..i
        PROVE  g[k] = IF k = 0 THEN 0 ELSE g[k - 1] + f[k]
    <3>1. CASE k = i
      BY <3>1
    <3>2. CASE k # i
      <4>1. k \in 0..(i - 1) /\ g[k] = s[k] /\ (k # 0 => k - 1 \in 0..i /\ k - 1 # i)
        BY <3>2
      <4>2. s[k] = IF k = 0 THEN 0 ELSE s[k - 1] + f[k]
        BY <2>1, <4>1 DEF Sums
      <4> QED
        BY <4>1, <4>2
    <3> QED
      BY <3>1, <3>2
  <2>3. g = [k \in 0..i |-> g[k]]
    OBVIOUS
  <2> HIDE DEF g
  <2>4. Sums(g, f, i)
    BY <2>2, <2>3 DEF Sums
  <2> QED
    BY <2>4
<1> HIDE DEF S
<1>3. n \in S
  BY <1>1, <1>2, UpTo
<1> QED
  BY <1>3 DEF S

(* and Total is the last of them.                                          *)
LEMMA TotalIs ==
  ASSUME NEW f, NEW n \in Nat
  PROVE  \E s : Sums(s, f, n) /\ Total(f, n) = s[n]
<1> DEFINE s == CHOOSE s : Sums(s, f, n)
<1>1. Sums(s, f, n)
  BY SumsExist
<1>2. Total(f, n) = s[n]
  BY DEF Total, Sums
<1> QED
  BY <1>1, <1>2

(* The sum of n natural numbers, none above b, is one and at most n * b.   *)
LEMMA TotalBound ==
  ASSUME NEW n \in Nat, NEW f \in [1..n -> Nat], NEW b \in Nat, \A i \in 1..n : f[i] <= b
  PROVE  Total(f, n) \in Nat /\ Total(f, n) <= n * b
<1>1. PICK s : Sums(s, f, n) /\ Total(f, n) = s[n]
  BY TotalIs
<1> DEFINE S == {i \in 0..n : s[i] \in Nat /\ s[i] <= i * b}
<1>2. 0 \in S
  BY <1>1 DEF Sums
<1>3. ASSUME NEW i \in 1..n, i - 1 \in S PROVE i \in S
  <2>1. s[i] = s[i - 1] + f[i]
    BY <1>1 DEF Sums
  <2>2. PICK a \in Nat : a = s[i - 1] /\ a <= (i - 1) * b
    BY <1>3
  <2>3. (i - 1) * b + b = i * b /\ i * b \in Nat /\ (i - 1) * b \in Nat
    OBVIOUS
  <2>4. s[i] \in Nat /\ s[i] <= i * b
    BY <2>1, <2>2, <2>3
  <2> QED
    BY <2>4
<1> HIDE DEF S
<1>4. n \in S
  <2>1. \A i \in 0..n : i \in S
    BY <1>2, <1>3, UpTo, Zenon
  <2> QED
    BY <2>1
<1> QED
  BY <1>1, <1>4 DEF S

(* Without a bound, it is a natural number.                                *)
LEMMA TotalNat ==
  ASSUME NEW n \in Nat, NEW f \in [1..n -> Nat]
  PROVE  Total(f, n) \in Nat
<1>1. PICK s : Sums(s, f, n) /\ Total(f, n) = s[n]
  BY TotalIs
<1> DEFINE S == {i \in 0..n : s[i] \in Nat}
<1>2. 0 \in S
  BY <1>1 DEF Sums
<1>3. ASSUME NEW i \in 1..n, i - 1 \in S PROVE i \in S
  BY <1>1, <1>3 DEF Sums
<1> HIDE DEF S
<1>4. n \in S
  <2>1. \A i \in 0..n : i \in S
    BY <1>2, <1>3, UpTo, Zenon
  <2> QED
    BY <2>1
<1> QED
  BY <1>1, <1>4 DEF S

(* Sum of a sequence given by its length.                                  *)
LEMMA SumIs ==
  ASSUME NEW n \in Nat, NEW f \in [1..n -> Nat]
  PROVE  Sum(f) = Total(f, n)
<1>1. f \in Seq(Nat)
  BY SeqDef
<1>2. Len(f) \in Nat /\ 1..Len(f) = 1..n
  BY <1>1, LenProperties
<1>3. Len(f) = n
  BY <1>2, SameEnd
<1> QED
  BY <1>3 DEF Sum
-----------------------------------------------------------------------------
(* What add_sample records.                                                *)
Sample == [gap : Nat, bytes : Nat, rtt : Nat]

(* A square is a natural number, and monotonic.                            *)
LEMMA Square ==
  ASSUME NEW x \in Int
  PROVE  x * x \in Nat /\ \A b \in Nat : -b <= x /\ x <= b => x * x <= b * b
<1>1. ASSUME NEW y \in Nat, NEW b \in Nat, y <= b PROVE y * y <= b * b /\ y * y \in Nat
  <2>1. PICK d \in Nat : b = y + d
    <3>1. b - y \in Nat /\ b = y + (b - y)
      BY <1>1
    <3> QED
      BY <3>1
  <2>2. /\ b * b = y * y + 2 * (y * d) + d * d
        /\ y * y \in Nat /\ y * d \in Nat /\ d * d \in Nat
    BY <2>1
  <2> QED
    BY <2>2
<1>2. CASE x >= 0
  BY <1>1, <1>2
<1>3. CASE ~(x >= 0)
  <2>1. -x \in Nat /\ (-x) * (-x) = x * x
    BY <1>3
  <2> QED
    BY <1>1, <2>1
<1> QED
  BY <1>2, <1>3

(* A quotient is a natural number, and at most b for at most n * b.        *)
LEMMA Quotient ==
  ASSUME NEW a \in Nat, NEW n \in Nat \ {0}
  PROVE  a \div n \in Nat /\ \A b \in Nat : a <= n * b => a \div n <= b
<1>1. PICK q \in Nat, r \in 0..(n - 1) : q = a \div n /\ a = q * n + r
  OBVIOUS
<1>2. ASSUME NEW b \in Nat, a <= n * b, q > b PROVE FALSE
  <2>1. PICK d \in Nat : q = b + 1 + d
    <3>1. q - b - 1 \in Nat /\ q = b + 1 + (q - b - 1)
      BY <1>2
    <3> QED
      BY <3>1
  <2>2. q * n = n * b + n + d * n /\ d * n \in Nat /\ n * b \in Nat
    BY <2>1
  <2> QED
    BY <1>1, <1>2, <2>2
<1> QED
  BY <1>1, <1>2

(* One field of all samples, summed up.                                    *)
LEMMA WindowSums ==
  ASSUME NEW w \in Seq(Sample)
  PROVE  /\ Len(w) \in Nat /\ (w # <<>> => Len(w) # 0)
         /\ Span(w) \in Nat /\ Sum([i \in 1..Len(w) |-> w[i].bytes]) \in Nat
         /\ Sum([i \in 1..Len(w) |-> w[i].rtt]) \in Nat
         /\ \A b \in Nat : (\A i \in 1..Len(w) : w[i].rtt <= b)
               => Sum([i \in 1..Len(w) |-> w[i].rtt]) <= Len(w) * b
<1>1. Len(w) \in Nat /\ (w # <<>> => Len(w) # 0) /\ \A i \in 1..Len(w) : w[i] \in Sample
  BY LenProperties, EmptySeq, ElementOfSeq
<1> DEFINE n == Len(w)
           gaps == [i \in 1..n |-> w[i].gap]
           bytes == [i \in 1..n |-> w[i].bytes]
           rtts == [i \in 1..n |-> w[i].rtt]
<1>2. n \in Nat /\ \A i \in 1..n : w[i].gap \in Nat /\ w[i].bytes \in Nat /\ w[i].rtt \in Nat
  BY <1>1 DEF Sample
<1> HIDE DEF n
<1>3. gaps \in [1..n -> Nat] /\ bytes \in [1..n -> Nat] /\ rtts \in [1..n -> Nat]
  BY <1>2
<1>4. \A i \in 1..n : rtts[i] = w[i].rtt
  OBVIOUS
<1> HIDE DEF gaps, bytes, rtts
<1>5. Sum(gaps) \in Nat /\ Sum(bytes) \in Nat /\ Sum(rtts) \in Nat /\ Sum(rtts) = Total(rtts, n)
  BY <1>2, <1>3, SumIs, TotalNat
<1>6. ASSUME NEW b \in Nat, \A i \in 1..n : w[i].rtt <= b PROVE Sum(rtts) <= n * b
  <2>1. \A i \in 1..n : rtts[i] <= b
    BY <1>4, <1>6
  <2> QED
    BY <1>2, <1>3, <1>5, <2>1, TotalBound
<1> QED
  BY <1>1, <1>5, <1>6 DEF Span, n, gaps, bytes, rtts

(* get_average_rtt: a natural number, and no more than the longest time.   *)
LEMMA AverageRtt ==
  ASSUME NEW w \in Seq(Sample)
  PROVE  /\ get_average_rtt(w) \in Nat
         /\ \A b \in Nat : w # <<>> /\ (\A i \in 1..Len(w) : w[i].rtt <= b)
               => get_average_rtt(w) <= b
<1> DEFINE sum == Sum([i \in 1..Len(w) |-> w[i].rtt])
<1>1. CASE w = <<>>
  BY <1>1 DEF get_average_rtt, NoSamples
<1>2. CASE w # <<>>
  <2>1. /\ sum \in Nat /\ Len(w) \in Nat \ {0}
        /\ \A b \in Nat : (\A i \in 1..Len(w) : w[i].rtt <= b) => sum <= Len(w) * b
    BY <1>2, WindowSums
  <2>2. get_average_rtt(w) = sum \div Len(w)
    BY <1>2 DEF get_average_rtt
  <2> HIDE DEF sum
  <2> QED
    BY <2>1, <2>2, Quotient
<1> QED
  BY <1>1, <1>2

(* get_bandwidth_mbps: a natural number; the span it divides by is at      *)
(* least 100 ms.                                                           *)
LEMMA Bandwidth ==
  ASSUME NEW w \in Seq(Sample)
  PROVE  get_bandwidth_mbps(w) \in Nat
<1> DEFINE sum == Sum([i \in 1..Len(w) |-> w[i].bytes])
<1>1. CASE Len(w) < 2 \/ Span(w) < 100
  BY <1>1 DEF get_bandwidth_mbps, NoSamples
<1>2. CASE ~(Len(w) < 2 \/ Span(w) < 100)
  <2>1. Span(w) \in Nat /\ sum \in Nat
    BY WindowSums
  <2>2. get_bandwidth_mbps(w) = (sum * 8) \div (Span(w) * 1000)
    BY <1>2 DEF get_bandwidth_mbps
  <2> HIDE DEF sum
  <2>3. sum * 8 \in Nat /\ Span(w) * 1000 \in Nat \ {0}
    BY <1>2, <2>1
  <2> QED
    BY <2>2, <2>3, Quotient
<1> QED
  BY <1>1, <1>2

(* get_packet_loss_rate: a natural number, and none as long as every time  *)
(* is at most 66 ms: the variance is then below 10000 ms squared.          *)
LEMMA Loss ==
  ASSUME NEW w \in Seq(Sample)
  PROVE  /\ get_packet_loss_rate(w) \in Nat
         /\ (\A i \in 1..Len(w) : w[i].rtt <= 66) => get_packet_loss_rate(w) = 0
<1>1. CASE Len(w) < LossSamples
  BY <1>1 DEF get_packet_loss_rate
<1>2. CASE ~(Len(w) < LossSamples)
  <2> DEFINE n == Len(w)
             avg == get_average_rtt(w)
             diff == [i \in 1..n |-> w[i].rtt - avg]
             squares == [i \in 1..n |-> diff[i] * diff[i]]
             loss == (Sum(squares) \div n) \div 10000
  <2>1. n \in Nat \ {0} /\ w # <<>>
    BY <1>2, WindowSums, WindowAssumption
  <2>2. get_packet_loss_rate(w) = AtMost(loss, 20)
    BY <1>2 DEF get_packet_loss_rate
  <2>3. /\ avg \in Nat
        /\ (\A i \in 1..n : w[i].rtt <= 66) => avg <= 66
    BY <2>1, AverageRtt
  <2>4. \A i \in 1..n : w[i].rtt \in Nat
    <3>1. \A i \in 1..n : w[i] \in Sample
      BY ElementOfSeq
    <3> QED
      BY <3>1 DEF Sample
  <2> HIDE DEF avg, n
  <2>5. \A i \in 1..n : diff[i] = w[i].rtt - avg /\ diff[i] \in Int
    BY <2>3, <2>4
  <2> HIDE DEF diff
  <2>6. \A i \in 1..n : squares[i] = diff[i] * diff[i] /\ squares[i] \in Nat
    BY <2>5, Square
  <2>7. squares \in [1..n -> Nat]
    BY <2>6
  <2> HIDE DEF squares
  <2>8. Sum(squares) = Total(squares, n) /\ Sum(squares) \in Nat
    BY <2>1, <2>7, SumIs, TotalNat
  <2>9. PICK v \in Nat : v = Sum(squares) \div n
    BY <2>1, <2>8, Quotient
  <2>10. loss \in Nat
    BY <2>9
  <2>11. ASSUME \A i \in 1..n : w[i].rtt <= 66 PROVE loss = 0
    <3>1. \A i \in 1..n : squares[i] <= 4356
      <4> SUFFICES ASSUME NEW i \in 1..n PROVE squares[i] <= 4356
        OBVIOUS
      <4>1. -66 <= diff[i] /\ diff[i] <= 66
        BY <2>3, <2>4, <2>5, <2>11
      <4>2. diff[i] * diff[i] <= 66 * 66
        BY <2>5, <4>1, Square
      <4> QED
        BY <2>6, <4>2
    <3>2. Sum(squares) <= n * 4356
      BY <2>1, <2>7, <2>8, <3>1, TotalBound
    <3>3. v <= 4356
      BY <2>1, <2>8, <2>9, <3>2, Quotient, SMTT(30)
    <3> QED
      BY <2>9, <3>3
  <2> HIDE DEF loss
  <2> QED
    BY <2>2, <2>10, <2>11 DEF AtMost, n
<1> QED
  BY <1>1, <1>2

(* The queries return what FramePacing takes them to return.               *)
LEMMA MeasureType ==
  ASSUME NEW w \in Seq(Sample)
  PROVE  Measure(w) \in Metrics
  BY AverageRtt, Bandwidth, Loss DEF Measure, Metrics
-----------------------------------------------------------------------------
(* The window holds samples, and metrics are what the queries return now:  *)
(* they do not change without a new sample.                                *)
MonitorInv ==
    /\ samples \in Seq(Sample) /\ sampleAge \in Nat
    /\ metrics = Measure(samples)

(* add_sample never leaves the window empty, so that its first sample is   *)
(* there to be changed.                                                    *)
LEMMA AddSample ==
  ASSUME samples \in Seq(Sample), NEW age \in Nat, NEW bytes \in Nat, NEW rtt \in Nat
  PROVE  add_sample(age, bytes, rtt) \in Seq(Sample)
<1> DEFINE new == [gap |-> age, bytes |-> bytes, rtt |-> rtt]
           all == Append(samples, new)
           kept == IF Len(all) > max_samples THEN Tail(all) ELSE all
<1>1. new \in Sample
  BY DEF Sample
<1> HIDE DEF new
<1>2. all \in Seq(Sample) /\ all # <<>> /\ Len(all) \in Nat /\ Len(all) # 0
  BY <1>1, AppendProperties, LenProperties
<1> HIDE DEF all
<1>3. kept \in Seq(Sample) /\ 1 \in 1..Len(kept)
  <2>1. CASE Len(all) > max_samples
    <3>1. Tail(all) \in Seq(Sample) /\ Len(Tail(all)) = Len(all) - 1
      BY <1>2, HeadTailProperties
    <3>2. 1 \in 1..Len(Tail(all))
      BY <1>2, <2>1, <3>1, WindowAssumption
    <3> QED
      BY <2>1, <3>1, <3>2
  <2>2. CASE ~(Len(all) > max_samples)
    BY <1>2, <2>2
  <2> QED
    BY <2>1, <2>2
<1> HIDE DEF kept
<1>4. kept[1] \in Sample
  BY <1>3, ElementOfSeq
<1>5. [kept[1] EXCEPT !.gap = 0] \in Sample
  BY <1>4 DEF Sample
<1>6. [kept EXCEPT ![1] = [kept[1] EXCEPT !.gap = 0]] \in Seq(Sample)
  BY <1>3, <1>5, ExceptSeq
<1>7. add_sample(age, bytes, rtt) = [kept EXCEPT ![1] = [kept[1] EXCEPT !.gap = 0]]
  BY DEF add_sample, kept, all, new
<1> QED
  BY <1>6, <1>7

(* A new session has no samples and the metrics of none.                   *)
LEMMA MonitorInitInv ==
  ASSUME MonitorInit
  PROVE  Init /\ MonitorInv
<1>1. Init /\ samples = <<>> /\ sampleAge = 0 /\ metrics = NoSamples
  BY DEF MonitorInit, Init
<1>2. Len(samples) = 0 /\ samples \in Seq(Sample)
  BY <1>1
<1>3. Measure(samples) = NoSamples
  BY <1>1, <1>2, WindowAssumption
  DEF Measure, get_bandwidth_mbps, get_average_rtt, get_packet_loss_rate, NoSamples
<1> QED
  BY <1>1, <1>2, <1>3 DEF MonitorInv

(* Every step with the monitor is one of FramePacing, and keeps MonitorInv.*)
LEMMA MonitorStep ==
  ASSUME Inv, MonitorInv, [MonitorNext]_monitorVars
  PROVE  [Next]_vars /\ MonitorInv'
<1>1. CASE MonitorPass
  <2>1. PICK d \in Delays : /\ PassTime(d)
                            /\ sampleAge' = Older(sampleAge, d) /\ samples' = samples
    BY <1>1 DEF MonitorPass
  <2>2. metrics' = metrics /\ d \in Nat
    BY <2>1, PollAssumption DEF PassTime
  <2>3. sampleAge' \in Nat
    BY <2>1, <2>2, AgeCapAssumption DEF MonitorInv, Older, AtMost
  <2>4. Pass
    BY <2>1 DEF Pass
  <2> QED
    BY <2>1, <2>2, <2>3, <2>4 DEF MonitorInv, Next
<1>2. CASE MonitorVisit
  <2>1. PICK key \in KeyFrames : VisitWith(key)
    BY <1>2 DEF MonitorVisit
  <2>2. metrics' = Measure(samples')
    BY <1>2 DEF MonitorVisit
  <2>3. visitAge \in Nat /\ sampleAge \in Nat
    BY DEF Inv, TypeOK, MonitorInv
  <2>4. CASE last'.kind = "sent"
    <3>1. PICK bytes \in FrameBytes : samples' = add_sample(sampleAge, bytes, visitAge)
      BY <1>2, <2>4 DEF MonitorVisit
    <3>2. sampleAge' = 0
      BY <1>2, <2>4 DEF MonitorVisit
    <3>3. samples' \in Seq(Sample)
      BY <2>3, <3>1, AddSample, WindowAssumption DEF MonitorInv
    <3>4. metrics' \in Metrics
      BY <2>2, <3>3, MeasureType
    <3>5. Visit
      BY <2>1, <2>4, <3>4 DEF Visit
    <3> QED
      BY <2>2, <3>2, <3>3, <3>5 DEF MonitorInv, Next
  <2>5. CASE last'.kind # "sent"
    <3>1. samples' = samples /\ sampleAge' = sampleAge
      BY <1>2, <2>5 DEF MonitorVisit
    <3>2. metrics' = metrics
      BY <2>2, <3>1 DEF MonitorInv
    <3>3. Visit
      BY <2>1, <2>5, <3>2 DEF Visit
    <3> QED
      BY <2>2, <2>3, <3>1, <3>3 DEF MonitorInv, Next
  <2> QED
    BY <2>4, <2>5
<1>3. CASE MonitorFrameAck
  <2>1. PICK delay \in AckDelays : samples' = add_sample(sampleAge, 0, AckRtt(delay))
    BY <1>3 DEF MonitorFrameAck
  <2>2. AckRtt(delay) \in Nat
    BY WindowAssumption DEF AckRtt
  <2>3. samples' \in Seq(Sample)
    BY <2>1, <2>2, AddSample DEF MonitorInv
  <2>4. TakeAck /\ sampleAge' = 0 /\ metrics' = Measure(samples')
    BY <1>3 DEF MonitorFrameAck
  <2>5. FrameAck
    BY <2>3, <2>4, MeasureType DEF FrameAck
  <2> QED
    BY <2>3, <2>4, <2>5 DEF MonitorInv, Next
<1>4. CASE MonitorRequestQualityChange
  BY <1>4 DEF MonitorRequestQualityChange, RequestQualityChange, MonitorInv, Next
<1>5. CASE UNCHANGED monitorVars
  BY <1>5 DEF monitorVars, vars, MonitorInv
<1>6. CASE MonitorTakeFrame
  BY <1>6 DEF MonitorTakeFrame, TakeFrame, MonitorInv, Next
<1>7. CASE MonitorSendFrame
  BY <1>7 DEF MonitorSendFrame, SendFrame, MonitorInv, Next
<1> QED
  BY <1>1, <1>2, <1>3, <1>4, <1>5, <1>6, <1>7 DEF MonitorNext
-----------------------------------------------------------------------------
(* Both invariants hold of every session with its monitor.                 *)
LEMMA MonitorInvariance == MonitorSpec => [](Inv /\ MonitorInv)
<1>1. MonitorInit => Inv /\ MonitorInv
  BY MonitorInitInv, InitInv
<1>2. (Inv /\ MonitorInv) /\ [MonitorNext]_monitorVars => (Inv /\ MonitorInv)'
  BY MonitorStep, NextInv
<1> QED
  BY <1>1, <1>2, PTL DEF MonitorSpec

(* BandwidthMonitor implements FramePacing: whatever the sizes of frames,  *)
(* the clocks of the two machines and the length of the window, its        *)
(* queries return natural numbers (no division by zero, no negative time)  *)
(* and change only with a sample.                                          *)
THEOREM MonitorImplementsPacing == MonitorSpec => ImplementsPacing
<1>1. MonitorInit => Init
  BY MonitorInitInv
<1>2. (Inv /\ MonitorInv) /\ [MonitorNext]_monitorVars => [Next]_vars
  BY MonitorStep
<1> QED
  BY <1>1, <1>2, MonitorInvariance, PTL DEF MonitorSpec, ImplementsPacing, Spec

(* So the limits of the frame rate hold of the session with its monitor.   *)
THEOREM MonitorPaced == MonitorSpec => [](TypeOK /\ RateLimited) /\ SkipsNeedJitter
<1>1. MonitorSpec => Spec
  BY MonitorImplementsPacing DEF ImplementsPacing
<1> QED
  BY <1>1, TypeCorrect, RateLimit, SkipsExplained, PTL

(* Metrics of a window in which no time is above 66 ms call for Medium or  *)
(* better.                                                                 *)
LEMMA PromptQuality ==
  ASSUME NEW w \in Seq(Sample), \A i \in DOMAIN w : w[i].rtt <= 66
  PROVE  calculate_quality(Measure(w)) \notin {"Low", "Minimal"}
<1>1. \A i \in 1..Len(w) : w[i].rtt <= 66
  BY LenProperties
<1>2. PICK bandwidth \in Nat, rtt \in Nat, loss \in Nat :
         /\ bandwidth = get_bandwidth_mbps(w) /\ rtt = get_average_rtt(w)
         /\ loss = get_packet_loss_rate(w)
  BY Bandwidth, AverageRtt, Loss
<1>3. loss = 0
  BY <1>1, <1>2, Loss
<1>4. rtt <= 66
  <2>1. CASE w = <<>>
    BY <1>2, <2>1 DEF get_average_rtt, NoSamples
  <2>2. CASE w # <<>>
    BY <1>1, <1>2, <2>2, AverageRtt
  <2> QED
    BY <2>1, <2>2
<1>5. Measure(w) = [bandwidth |-> bandwidth, rtt |-> rtt, loss |-> loss]
  BY <1>2 DEF Measure
<1>6. Score(Measure(w)) = 20 * AtMost(bandwidth, 50) + 3 * (200 - rtt) + 400
  BY <1>3, <1>4, <1>5 DEF Score, AtMost
<1>7. Score(Measure(w)) \in Nat /\ Score(Measure(w)) >= 800
  BY <1>4, <1>6 DEF AtMost
<1> QED
  BY <1>7 DEF calculate_quality

(* quality.rs: averages, thresholds and weights keep a session whose       *)
(* sampled frames and answers were all prompt out of Low and Minimal, for  *)
(* every window, cooldown and size of frames, however few bytes were sent. *)
THEOREM PromptNotDemoted == MonitorSpec => PromptKeepsQuality
<1>1. (Inv /\ MonitorInv) /\ [MonitorNext]_monitorVars =>
        [mode' # mode /\ ~forced' /\ (\A i \in DOMAIN samples : samples[i].rtt <= 66)
            => mode' \notin {"Low", "Minimal"}]_monitorVars
  <2> SUFFICES ASSUME MonitorInv, MonitorNext, mode' # mode, ~forced',
                      \A i \in DOMAIN samples : samples[i].rtt <= 66
               PROVE  mode' \notin {"Low", "Minimal"}
    OBVIOUS
  <2>1. MonitorVisit
    BY DEF MonitorNext, MonitorPass, PassTime, MonitorTakeFrame, TakeFrame, MonitorSendFrame,
           SendFrame, sessionVars, MonitorFrameAck, TakeAck, MonitorRequestQualityChange,
           RequestQualityChange
  <2>2. PICK key \in KeyFrames : VisitWith(key)
    BY <2>1 DEF MonitorVisit
  <2>3. mode' = calculate_quality(metrics)
    BY <2>2 DEF VisitWith, Recommended
  <2> QED
    BY <2>3, PromptQuality DEF MonitorInv
<1> QED
  BY <1>1, MonitorInvariance, PTL DEF MonitorSpec, PromptKeepsQuality
=============================================================================
