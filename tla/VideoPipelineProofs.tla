------------------------ MODULE VideoPipelineProofs ------------------------
(***************************************************************************)
(* What the window may show, for every size of the screen, key frame       *)
(* interval, delay of the encoder, length of the queues and number of      *)
(* pictures.                                                               *)
(***************************************************************************)
EXTENDS VideoPipeline, SequenceTheorems, TLAPS

(* The pictures of some packets, and of the frames of a queue.             *)
Pics(data) == {data[i].pic : i \in DOMAIN data}
PicsIn(queue) == UNION {Pics(queue[i].data) : i \in DOMAIN queue}

Below(A, B) == \A a \in A, b \in B : a < b
Ascending(data) == \A i, j \in DOMAIN data : i < j => data[i].pic < data[j].pic
FramesAscend(queue) ==
    \A i, j \in DOMAIN queue : i < j => Below(Pics(queue[i].data), Pics(queue[j].data))

(* The pictures of the frames of a queue whose data has a given format.    *)
PicsOf(queue, format) ==
    {p \in PicsIn(queue) :
        \E i \in DOMAIN queue : queue[i].format = format /\ p \in Pics(queue[i].data)}

(* Frames as the capture thread makes them: one that says it is a key      *)
(* frame ends with a key packet, a software frame has the pixels of a      *)
(* captured buffer, and the others have those of the cropped one.          *)
Labelled ==
    [type : {"KeyFrame", "DeltaFrame"}, encoding : Encodings,
     format : {"zstd", "webp", "h264"}, data : Seq(Packets),
     pixels : {EncoderPixels} \cup {BufferPixels(pad) : pad \in Pads}]
Fits(encoding, pixels) ==
    IF encoding = "ZstdCompressed" THEN \E pad \in Pads : pixels = BufferPixels(pad)
    ELSE pixels = EncoderPixels
TrueFrames ==
    {f \in Labelled :
        /\ Ascending(f.data)
        /\ f.type = "KeyFrame" => f.data # <<>> /\ f.data[Len(f.data)].key
        /\ f.encoding = "ZstdCompressed" => f.format = "zstd" /\ Len(f.data) = 1
        /\ Fits(f.encoding, f.pixels)}
KeyFrames == {f \in TrueFrames : f.type = "KeyFrame"}

(* Only a video encoder keeps packets back.                                *)
Channels ==
    /\ inside \in Seq(Packets) /\ frames \in Seq(TrueFrames) /\ net \in Seq(KeyFrames)
    /\ encoder # "ffmpeg" => inside = <<>>

(* An image comes out damaged only in front of another one in the same     *)
(* data, and has the pixels of its frame.                                  *)
TrueImage(i) == i # Nothing => (i.intact \/ i.rest > 0) /\ Fits(i.encoding, i.pixels)
TrueImages ==
    {i \in [pic : Pictures, intact : BOOLEAN, rest : Nat,
            pixels : {EncoderPixels}, encoding : {"H264"}] : i.intact \/ i.rest > 0}

(* Everything behind an image, on its way to the window, is newer.         *)
OnTheWay == PicsIn(net) \cup PicsIn(frames) \cup Pics(inside)
Older(i) == i # Nothing => i.pic <= grabbed /\ \A p \in OnTheWay : i.pic < p

Order ==
    /\ FramesAscend(net) /\ FramesAscend(frames) /\ Ascending(inside)
    /\ Below(PicsIn(net), PicsIn(frames) \cup Pics(inside))
    /\ Below(PicsIn(frames), Pics(inside))
    /\ OnTheWay \subseteq 1..grabbed
    /\ Older(screen_update) /\ Older(shown)
    /\ shown # Nothing /\ screen_update # Nothing => shown.pic <= screen_update.pic

(* A server that has changed to software frames never goes back to video.  *)
Pending(format) == PicsOf(net, format) \cup PicsOf(frames, format)
Change ==
    /\ Below(Pending("h264"), Pending("zstd"))
    /\ Pending("zstd") # {} => encoder # "ffmpeg"

(* What the decoder keeps back is older than what it will still get. It is *)
(* newer than what the window shows or is about to show, unless no data    *)
(* will come to the decoder any more.                                      *)
Done == encoder # "ffmpeg" /\ Pending("h264") = {}
Ahead(i, H) == i # Nothing => \A p \in H : i.pic < p
Newer(H) == Done \/ (Ahead(screen_update, H) /\ Ahead(shown, H))
Decoder ==
    /\ h264_decoder.held \in Seq(TrueImages) /\ Ascending(h264_decoder.held)
    /\ Pics(h264_decoder.held) \subseteq 0..grabbed
    /\ Below(Pics(h264_decoder.held), OnTheWay)
    /\ Newer(Pics(h264_decoder.held))

(* Frames and images are under way only to a client in the session table.  *)
Live == net # <<>> \/ screen_update # Nothing => session

Inv ==
    /\ TypeOK /\ Channels /\ Order /\ Change /\ Decoder /\ Live
    /\ TrueImage(screen_update) /\ TrueImage(shown) /\ PanicOnlyMisfit
-----------------------------------------------------------------------------
(* Queues.  What is behind the last element or in front of the others.     *)
LEMMA Appended ==
  ASSUME NEW M, NEW s \in Seq(M), NEW e \in M
  PROVE  /\ Append(s, e) \in Seq(M) /\ Len(s) \in Nat /\ Len(Append(s, e)) = Len(s) + 1
         /\ DOMAIN s = 1..Len(s) /\ DOMAIN Append(s, e) = 1..(Len(s) + 1)
         /\ \A i \in 1..Len(s) : Append(s, e)[i] = s[i]
         /\ Append(s, e)[Len(s) + 1] = e
<1> DEFINE r == Append(s, e)
<1>1. /\ r \in Seq(M) /\ Len(r) = Len(s) + 1
      /\ \A i \in 1..Len(s) : r[i] = s[i]
      /\ r[Len(s) + 1] = e
  BY AppendProperties
<1> HIDE DEF r
<1>2. Len(s) \in Nat /\ DOMAIN s = 1..Len(s) /\ DOMAIN r = 1..Len(r)
  BY <1>1, LenProperties
<1> QED
  BY <1>1, <1>2 DEF r

(* A frame at the end of a queue adds its pictures, and keeps the order    *)
(* when they are newer than the others.                                    *)
LEMMA FrameAppended ==
  ASSUME NEW M, NEW s \in Seq(M), NEW f \in M
  PROVE  /\ PicsIn(Append(s, f)) = PicsIn(s) \cup Pics(f.data)
         /\ FramesAscend(s) /\ Below(PicsIn(s), Pics(f.data)) => FramesAscend(Append(s, f))
         /\ \A t : PicsOf(Append(s, f), t) =
                   PicsOf(s, t) \cup (IF f.format = t THEN Pics(f.data) ELSE {})
<1> DEFINE r == Append(s, f)
<1>1. /\ Len(s) \in Nat /\ DOMAIN s = 1..Len(s) /\ DOMAIN r = 1..(Len(s) + 1)
      /\ \A i \in 1..Len(s) : r[i] = s[i]
      /\ r[Len(s) + 1] = f
  BY Appended
<1> HIDE DEF r
<1> PICK n \in Nat : n = Len(s)
  BY <1>1
<1>2. \A i \in DOMAIN r : (i \in DOMAIN s /\ r[i] = s[i]) \/ (i = n + 1 /\ r[i] = f)
  BY <1>1
<1>3. (\A i \in DOMAIN s : i \in DOMAIN r /\ r[i] = s[i] /\ i < n + 1) /\ n + 1 \in DOMAIN r /\ r[n + 1] = f
  BY <1>1
<1>4. PicsIn(r) = PicsIn(s) \cup Pics(f.data)
  BY <1>2, <1>3 DEF PicsIn
<1>5. ASSUME FramesAscend(s), Below(PicsIn(s), Pics(f.data)) PROVE FramesAscend(r)
  <2> SUFFICES ASSUME NEW i \in DOMAIN r, NEW j \in DOMAIN r, i < j
               PROVE  Below(Pics(r[i].data), Pics(r[j].data))
    BY DEF FramesAscend
  <2>1. i \in DOMAIN s /\ r[i] = s[i]
    BY <1>1, <1>2
  <2>2. CASE j \in DOMAIN s
    BY <1>3, <1>5, <2>1, <2>2 DEF FramesAscend
  <2>3. CASE j = n + 1
    <3>1. Pics(s[i].data) \subseteq PicsIn(s)
      BY <2>1 DEF PicsIn
    <3> QED
      BY <1>3, <1>5, <2>1, <2>3, <3>1 DEF Below
  <2> QED
    BY <1>2, <2>2, <2>3
<1>6. ASSUME NEW t
      PROVE  PicsOf(r, t) = PicsOf(s, t) \cup (IF f.format = t THEN Pics(f.data) ELSE {})
  <2>1. ASSUME NEW x
        PROVE  (\E i \in DOMAIN r : r[i].format = t /\ x \in Pics(r[i].data))
                 <=> (\E i \in DOMAIN s : s[i].format = t /\ x \in Pics(s[i].data))
                       \/ (f.format = t /\ x \in Pics(f.data))
    BY <1>2, <1>3
  <2>2. ASSUME NEW x, NEW i \in DOMAIN s, x \in Pics(s[i].data) PROVE x \in PicsIn(s)
    BY <2>2 DEF PicsIn
  <2> QED
    BY <1>4, <2>1, <2>2 DEF PicsOf
<1> QED
  BY <1>4, <1>5, <1>6 DEF r

(* So does a packet at the end of some packets.                            *)
LEMMA PacketAppended ==
  ASSUME NEW M, NEW s \in Seq(M), NEW p \in M, Ascending(s), \A x \in Pics(s) : x < p.pic
  PROVE  Pics(Append(s, p)) = Pics(s) \cup {p.pic} /\ Ascending(Append(s, p))
<1> DEFINE r == Append(s, p)
<1>1. /\ Len(s) \in Nat /\ DOMAIN s = 1..Len(s) /\ DOMAIN r = 1..(Len(s) + 1)
      /\ \A i \in 1..Len(s) : r[i] = s[i]
      /\ r[Len(s) + 1] = p
  BY Appended
<1> HIDE DEF r
<1> PICK n \in Nat : n = Len(s)
  BY <1>1
<1>2. \A i \in DOMAIN r : (i \in DOMAIN s /\ r[i] = s[i]) \/ (i = n + 1 /\ r[i] = p)
  BY <1>1
<1>3. (\A i \in DOMAIN s : i \in DOMAIN r /\ r[i] = s[i]) /\ n + 1 \in DOMAIN r /\ r[n + 1] = p
  BY <1>1
<1>4. Pics(r) = Pics(s) \cup {p.pic}
  BY <1>2, <1>3 DEF Pics
<1>5. Ascending(r)
  <2> SUFFICES ASSUME NEW i \in DOMAIN r, NEW j \in DOMAIN r, i < j
               PROVE  r[i].pic < r[j].pic
    BY DEF Ascending
  <2>1. i \in DOMAIN s /\ r[i] = s[i] /\ s[i].pic \in Pics(s)
    BY <1>1, <1>2 DEF Pics
  <2>2. CASE j \in DOMAIN s
    BY <1>3, <2>1, <2>2 DEF Ascending
  <2>3. CASE j = n + 1
    BY <1>3, <2>1, <2>3
  <2> QED
    BY <1>2, <2>2, <2>3
<1> QED
  BY <1>4, <1>5 DEF r

(* The first element of a queue and the others.                            *)
LEMMA First ==
  ASSUME NEW M, NEW s \in Seq(M), s # <<>>
  PROVE  /\ Head(s) = s[1] /\ Head(s) \in M /\ Tail(s) \in Seq(M) /\ 1 \in DOMAIN s
         /\ \A i \in DOMAIN s : i \in Nat /\ (i = 1 \/ (i - 1 \in DOMAIN Tail(s) /\ Tail(s)[i - 1] = s[i]))
         /\ \A i \in DOMAIN Tail(s) : i \in Nat \ {0} /\ i + 1 \in DOMAIN s /\ Tail(s)[i] = s[i + 1]
<1> DEFINE t == Tail(s)
<1>1. /\ Head(s) \in M /\ t \in Seq(M) /\ Len(t) = Len(s) - 1
      /\ \A i \in 1..Len(t) : t[i] = s[i + 1]
  BY HeadTailProperties
<1>2. /\ Len(s) \in Nat /\ Len(t) \in Nat /\ DOMAIN s = 1..Len(s) /\ DOMAIN t = 1..Len(t)
  BY <1>1, LenProperties
<1>3. Head(s) = s[1]
  OBVIOUS
<1> HIDE DEF t
<1>4. \A i \in 1..Len(s) : i = 1 \/ i - 1 \in 1..Len(t)
  BY <1>1, <1>2
<1>5. \A i \in 1..Len(s) : i = 1 \/ t[i - 1] = s[i]
  <2> SUFFICES ASSUME NEW i \in 1..Len(s), i # 1 PROVE t[i - 1] = s[i]
    OBVIOUS
  <2>1. i - 1 \in 1..Len(t) /\ (i - 1) + 1 = i
    BY <1>4
  <2> QED
    BY <1>1, <2>1
<1>6. \A i \in 1..Len(t) : i \in Nat \ {0} /\ i + 1 \in 1..Len(s)
  BY <1>1, <1>2
<1>7. 1 \in 1..Len(s)
  BY <1>1, <1>2
<1> QED
  BY <1>1, <1>2, <1>3, <1>4, <1>5, <1>6, <1>7 DEF t

(* A frame taken from the front of a queue was the oldest of it.           *)
LEMMA FrameFirst ==
  ASSUME NEW M, NEW s \in Seq(M), s # <<>>
  PROVE  /\ PicsIn(s) = Pics(Head(s).data) \cup PicsIn(Tail(s))
         /\ FramesAscend(s) => FramesAscend(Tail(s)) /\ Below(Pics(Head(s).data), PicsIn(Tail(s)))
         /\ \A t : PicsOf(s, t) =
                   PicsOf(Tail(s), t) \cup (IF Head(s).format = t THEN Pics(Head(s).data) ELSE {})
<1> DEFINE t == Tail(s)
<1>1. /\ Head(s) = s[1] /\ 1 \in DOMAIN s
      /\ \A i \in DOMAIN s : i \in Nat /\ (i = 1 \/ (i - 1 \in DOMAIN t /\ t[i - 1] = s[i]))
      /\ \A i \in DOMAIN t : i \in Nat \ {0} /\ i + 1 \in DOMAIN s /\ t[i] = s[i + 1]
  BY First
<1> HIDE DEF t
<1>2. PicsIn(s) = Pics(s[1].data) \cup PicsIn(t)
  <2>1. PicsIn(s) \subseteq Pics(s[1].data) \cup PicsIn(t)
    <3> SUFFICES ASSUME NEW i \in DOMAIN s
                 PROVE  Pics(s[i].data) \subseteq Pics(s[1].data) \cup PicsIn(t)
      BY DEF PicsIn
    <3>1. CASE i = 1
      BY <3>1
    <3>2. CASE i # 1
      BY <1>1, <3>2 DEF PicsIn
    <3> QED
      BY <3>1, <3>2
  <2>2. Pics(s[1].data) \cup PicsIn(t) \subseteq PicsIn(s)
    BY <1>1 DEF PicsIn
  <2> QED
    BY <2>1, <2>2
<1>3. ASSUME FramesAscend(s) PROVE FramesAscend(t) /\ Below(Pics(s[1].data), PicsIn(t))
  <2>1. FramesAscend(t)
    <3> SUFFICES ASSUME NEW i \in DOMAIN t, NEW j \in DOMAIN t, i < j
                 PROVE  Below(Pics(t[i].data), Pics(t[j].data))
      BY DEF FramesAscend
    <3>1. i + 1 < j + 1
      BY <1>1
    <3> QED
      BY <1>1, <1>3, <3>1 DEF FramesAscend
  <2>2. ASSUME NEW i \in DOMAIN t PROVE Below(Pics(s[1].data), Pics(t[i].data))
    <3>1. 1 < i + 1
      BY <1>1
    <3> QED
      BY <1>1, <1>3, <3>1 DEF FramesAscend
  <2>3. Below(Pics(s[1].data), PicsIn(t))
    BY <2>2 DEF Below, PicsIn
  <2> QED
    BY <2>1, <2>3
<1>4. ASSUME NEW k
      PROVE  PicsOf(s, k) = PicsOf(t, k) \cup (IF s[1].format = k THEN Pics(s[1].data) ELSE {})
  <2>1. ASSUME NEW x
        PROVE  (\E i \in DOMAIN s : s[i].format = k /\ x \in Pics(s[i].data))
                 <=> (\E i \in DOMAIN t : t[i].format = k /\ x \in Pics(t[i].data))
                       \/ (s[1].format = k /\ x \in Pics(s[1].data))
    BY <1>1
  <2>2. ASSUME NEW x, NEW i \in DOMAIN t, x \in Pics(t[i].data) PROVE x \in PicsIn(t)
    BY <2>2 DEF PicsIn
  <2> QED
    BY <1>2, <2>1, <2>2 DEF PicsOf
<1> QED
  BY <1>1, <1>2, <1>3, <1>4 DEF t

(* The first k packets of a queue and the others.                          *)
LEMMA Cut ==
  ASSUME NEW M, NEW q \in Seq(M), NEW k \in 0..Len(q), Ascending(q)
  PROVE  LET a == SubSeq(q, 1, k)
             b == SubSeq(q, k + 1, Len(q))
         IN  /\ a \in Seq(M) /\ b \in Seq(M) /\ Len(a) = k /\ Len(b) = Len(q) - k
             /\ Ascending(a) /\ Ascending(b)
             /\ Pics(a) \subseteq Pics(q) /\ Pics(b) \subseteq Pics(q) /\ Below(Pics(a), Pics(b))
             /\ \A i \in 1..k : q[i].pic \in Pics(a)
<1> DEFINE a == SubSeq(q, 1, k)
           b == SubSeq(q, k + 1, Len(q))
<1> PICK n \in Nat : n = Len(q) /\ DOMAIN q = 1..n
  BY LenProperties
<1>0. k \in Nat /\ k <= n
  OBVIOUS
<1>1. \A i \in 1..k : q[i] \in M
  BY ElementOfSeq
<1>2. \A i \in (k + 1)..n : q[i] \in M
  BY <1>0, ElementOfSeq
<1>3. /\ a \in Seq(M) /\ Len(a) = IF 1 <= k THEN k - 1 + 1 ELSE 0
      /\ \A i \in 1..(k - 1 + 1) : a[i] = q[1 + i - 1]
  BY <1>0, <1>1, SubSeqProperties
<1>4. /\ b \in Seq(M) /\ Len(b) = IF k + 1 <= n THEN n - (k + 1) + 1 ELSE 0
      /\ \A i \in 1..(n - (k + 1) + 1) : b[i] = q[(k + 1) + i - 1]
  <2>1. k + 1 \in Int /\ n \in Int
    OBVIOUS
  <2> QED
    BY <1>2, <2>1, SubSeqProperties
<1> HIDE DEF a, b
<1>5. Len(a) = k /\ Len(b) = n - k /\ DOMAIN a = 1..k /\ DOMAIN b = 1..(n - k)
  BY <1>0, <1>3, <1>4, LenProperties
<1>6. \A i \in 1..k : i \in DOMAIN q /\ a[i] = q[i]
  BY <1>0, <1>3
<1>7. \A i \in 1..(n - k) : k + i \in DOMAIN q /\ b[i] = q[k + i]
  <2> SUFFICES ASSUME NEW i \in 1..(n - k) PROVE k + i \in DOMAIN q /\ b[i] = q[k + i]
    OBVIOUS
  <2>1. i \in 1..(n - (k + 1) + 1) /\ (k + 1) + i - 1 = k + i /\ k + i \in 1..n
    BY <1>0
  <2> QED
    BY <1>4, <2>1
<1>8. Ascending(a) /\ Ascending(b)
  <2>1. Ascending(a)
    BY <1>5, <1>6 DEF Ascending
  <2>2. ASSUME NEW i \in 1..(n - k), NEW j \in 1..(n - k), i < j PROVE b[i].pic < b[j].pic
    <3>1. k + i < k + j
      BY <2>2, <1>0
    <3> QED
      BY <1>7, <3>1 DEF Ascending
  <2> QED
    BY <1>5, <2>1, <2>2 DEF Ascending
<1>9. Pics(a) \subseteq Pics(q) /\ Pics(b) \subseteq Pics(q)
  <2>1. \A i \in DOMAIN a : a[i].pic \in Pics(q)
    BY <1>5, <1>6 DEF Pics
  <2>2. \A i \in DOMAIN b : b[i].pic \in Pics(q)
    BY <1>5, <1>7 DEF Pics
  <2> QED
    BY <2>1, <2>2 DEF Pics
<1>10. Below(Pics(a), Pics(b))
  <2> SUFFICES ASSUME NEW i \in 1..k, NEW j \in 1..(n - k) PROVE a[i].pic < b[j].pic
    BY <1>5 DEF Below, Pics
  <2>1. i < k + j
    BY <1>0
  <2> QED
    BY <1>6, <1>7, <2>1 DEF Ascending
<1>11. \A i \in 1..k : q[i].pic \in Pics(a)
  BY <1>5, <1>6 DEF Pics
<1> QED
  BY <1>3, <1>4, <1>5, <1>8, <1>9, <1>10, <1>11 DEF a, b

(* Pictures behind older ones.                                             *)
LEMMA Joined ==
  ASSUME NEW M, NEW s \in Seq(M), NEW t \in Seq(M), Ascending(s), Ascending(t),
         Below(Pics(s), Pics(t))
  PROVE  /\ s \o t \in Seq(M) /\ Ascending(s \o t) /\ Pics(s \o t) = Pics(s) \cup Pics(t)
<1> DEFINE r == s \o t
<1> PICK m \in Nat : m = Len(s) /\ DOMAIN s = 1..m
  BY LenProperties
<1> PICK n \in Nat : n = Len(t) /\ DOMAIN t = 1..n
  BY LenProperties
<1>1. /\ r \in Seq(M) /\ Len(r) = m + n
      /\ \A i \in 1..(m + n) : r[i] = IF i <= m THEN s[i] ELSE t[i - m]
  BY ConcatProperties
<1>2. DOMAIN r = 1..(m + n)
  BY <1>1, LenProperties
<1> HIDE DEF r
<1>3. \A i \in DOMAIN r : \/ i \in DOMAIN s /\ r[i] = s[i]
                          \/ i > m /\ i - m \in DOMAIN t /\ r[i] = t[i - m]
  <2> SUFFICES ASSUME NEW i \in 1..(m + n)
               PROVE  \/ i \in 1..m /\ r[i] = s[i]
                      \/ i > m /\ i - m \in 1..n /\ r[i] = t[i - m]
    BY <1>2
  <2>1. (i \in 1..m /\ i <= m) \/ (~(i <= m) /\ i > m /\ i - m \in 1..n)
    OBVIOUS
  <2> QED
    BY <1>1, <2>1
<1>4. \A i \in 1..m : i \in DOMAIN r /\ r[i] = s[i]
  BY <1>1, <1>2
<1>5. \A i \in 1..n : m + i \in DOMAIN r /\ r[m + i] = t[i]
  <2> SUFFICES ASSUME NEW i \in 1..n PROVE m + i \in DOMAIN r /\ r[m + i] = t[i]
    OBVIOUS
  <2>1. m + i \in 1..(m + n) /\ ~(m + i <= m) /\ (m + i) - m = i
    OBVIOUS
  <2> QED
    BY <1>1, <1>2, <2>1
<1>6. Pics(r) = Pics(s) \cup Pics(t)
  <2>1. Pics(r) \subseteq Pics(s) \cup Pics(t)
    BY <1>3 DEF Pics
  <2>2. \A i \in DOMAIN s : s[i].pic \in Pics(r)
    BY <1>4 DEF Pics
  <2>3. \A i \in DOMAIN t : t[i].pic \in Pics(r)
    BY <1>5 DEF Pics
  <2> QED
    BY <2>1, <2>2, <2>3 DEF Pics
<1>7. Ascending(r)
  <2> SUFFICES ASSUME NEW i \in DOMAIN r, NEW j \in DOMAIN r, i < j
               PROVE  r[i].pic < r[j].pic
    BY DEF Ascending
  <2>0. i \in Nat /\ j \in Nat
    BY <1>2
  <2>1. CASE j \in DOMAIN s
    <3>1. i \in DOMAIN s
      BY <1>2, <2>1
    <3> QED
      BY <1>4, <2>1, <3>1 DEF Ascending
  <2>2. CASE j > m /\ j - m \in DOMAIN t /\ r[j] = t[j - m]
    <3>1. CASE i \in DOMAIN s /\ r[i] = s[i]
      BY <2>2, <3>1 DEF Below, Pics
    <3>2. CASE i > m /\ i - m \in DOMAIN t /\ r[i] = t[i - m]
      <4>1. i - m < j - m
        BY <2>0
      <4> QED
        BY <2>2, <3>2, <4>1 DEF Ascending
    <3> QED
      BY <1>3, <3>1, <3>2
  <2> QED
    BY <1>3, <2>1, <2>2
<1> QED
  BY <1>1, <1>6, <1>7 DEF r

-----------------------------------------------------------------------------
(* The size of the screen is fixed, and with it what a true frame is.      *)
LEMMA SameSize ==
  ASSUME size' = size
  PROVE  /\ ScreenPixels' = ScreenPixels /\ EncoderPixels' = EncoderPixels
         /\ TrueFrames' = TrueFrames /\ KeyFrames' = KeyFrames
         /\ TrueImages' = TrueImages
         /\ \A f : FrameOK(f)' <=> FrameOK(f)
<1>1. ScreenPixels' = ScreenPixels /\ EncoderPixels' = EncoderPixels
  BY DEF ScreenPixels, EncoderPixels
<1>2. Labelled' = Labelled
  BY <1>1 DEF Labelled, BufferPixels
<1>3. TrueFrames' = TrueFrames
  BY <1>1, <1>2 DEF TrueFrames, Fits, BufferPixels
<1>4. KeyFrames' = KeyFrames
  BY <1>3 DEF KeyFrames
<1>5. \A f : FrameOK(f)' <=> FrameOK(f)
  BY <1>1 DEF FrameOK, BufferPixels
<1>6. TrueImages' = TrueImages
  BY <1>1 DEF TrueImages
<1> QED
  BY <1>1, <1>3, <1>4, <1>5, <1>6

(* And with it what a true image is.                                       *)
LEMMA SameImages ==
  ASSUME size' = size
  PROVE  /\ panic' = panic /\ PanicOnlyMisfit => PanicOnlyMisfit'
         /\ screen_update' = screen_update /\ TrueImage(screen_update) => TrueImage(screen_update)'
         /\ shown' = shown /\ TrueImage(shown) => TrueImage(shown)'
         /\ shown' = screen_update /\ TrueImage(screen_update) => TrueImage(shown)'
         /\ screen_update' = Nothing => TrueImage(screen_update)'
         /\ shown' = Nothing => TrueImage(shown)'
<1>1. EncoderPixels' = EncoderPixels /\ ScreenPixels' = ScreenPixels
  BY SameSize
<1>2. panic' = panic /\ PanicOnlyMisfit => PanicOnlyMisfit'
  BY <1>1 DEF PanicOnlyMisfit, BufferPixels
<1> QED
  BY <1>1, <1>2 DEF TrueImage, Fits, BufferPixels

(* What a true frame is made of.                                           *)
LEMMA FrameType ==
  ASSUME NEW f \in TrueFrames
  PROVE  /\ FrameOK(f) /\ f.data \in Seq(Packets) /\ Pics(f.data) \subseteq Pictures
         /\ DOMAIN f.data = 1..Len(f.data) /\ Len(f.data) \in Nat
         /\ \A i \in DOMAIN f.data : f.data[i] \in Packets
<1>1. f \in Labelled /\ Ascending(f.data)
  BY DEF TrueFrames
<1>2. f.data \in Seq(Packets)
  BY <1>1 DEF Labelled
<1>3. DOMAIN f.data = 1..Len(f.data) /\ Len(f.data) \in Nat
  BY <1>2, LenProperties
<1>4. \A i \in DOMAIN f.data : f.data[i] \in Packets
  BY <1>2, <1>3, ElementOfSeq
<1>5. Pics(f.data) \subseteq Pictures
  BY <1>4 DEF Pics, Packets
<1>6. \A i \in 1..(Len(f.data) - 1) : f.data[i].pic < f.data[i + 1].pic
  <2> PICK n \in Nat : n = Len(f.data)
    BY <1>3
  <2>1. \A i \in 1..(n - 1) : i \in 1..n /\ i + 1 \in 1..n /\ i < i + 1
    OBVIOUS
  <2> QED
    BY <1>1, <1>3, <2>1 DEF Ascending
<1>7. FrameOK(f)
  BY <1>1, <1>3, <1>4, <1>6 DEF FrameOK, Labelled
<1> QED
  BY <1>2, <1>3, <1>4, <1>5, <1>7

(* What the channels say of the types.                                     *)
LEMMA ChannelsType ==
  ASSUME Channels
  PROVE  /\ \A i \in 1..Len(inside) : inside[i] \in Packets
         /\ \A i \in 1..Len(frames) : FrameOK(frames[i])
         /\ \A i \in 1..Len(net) : FrameOK(net[i]) /\ net[i].data # <<>>
         /\ PicsIn(net) \subseteq Pictures /\ PicsIn(frames) \subseteq Pictures
         /\ Pics(inside) \subseteq Pictures
         /\ net \in Seq(TrueFrames)
<1>1. \A i \in 1..Len(inside) : inside[i] \in Packets
  BY ElementOfSeq DEF Channels
<1>2. \A i \in 1..Len(frames) : frames[i] \in TrueFrames
  BY ElementOfSeq DEF Channels
<1>3. \A i \in 1..Len(net) : net[i] \in KeyFrames
  BY ElementOfSeq DEF Channels
<1>4. \A f \in KeyFrames : f \in TrueFrames /\ f.data # <<>>
  BY DEF KeyFrames, TrueFrames
<1>5. DOMAIN inside = 1..Len(inside) /\ DOMAIN frames = 1..Len(frames) /\ DOMAIN net = 1..Len(net)
  BY LenProperties DEF Channels
<1>6. PicsIn(net) \subseteq Pictures
  BY <1>3, <1>4, <1>5, FrameType DEF PicsIn
<1>7. PicsIn(frames) \subseteq Pictures
  BY <1>2, <1>5, FrameType DEF PicsIn
<1>8. Pics(inside) \subseteq Pictures
  BY <1>1, <1>5 DEF Pics, Packets
<1>9. net \in Seq(TrueFrames)
  <2>1. Len(net) \in Nat /\ net = [i \in 1..Len(net) |-> net[i]]
    BY LenProperties, <1>5 DEF Channels
  <2>2. \A i \in 1..Len(net) : net[i] \in TrueFrames
    BY <1>3, <1>4
  <2> QED
    BY <2>1, <2>2, IsASeq
<1> QED
  BY <1>1, <1>2, <1>3, <1>4, <1>6, <1>7, <1>8, <1>9, FrameType

(* Frames that leave a queue or are lost on the way change nothing about   *)
(* the order of video and software frames.                                 *)
LEMMA PendingOnTheWay ==
  ASSUME NEW t
  PROVE  Pending(t) \subseteq OnTheWay
BY DEF Pending, PicsOf, OnTheWay

LEMMA ChangeStays ==
  ASSUME Inv, encoder' = encoder, Pending("h264")' \subseteq Pending("h264"),
         Pending("zstd")' \subseteq Pending("zstd")
  PROVE  Change' /\ (Done => Done')
<1>1. Below(Pending("h264"), Pending("zstd")) /\ (Pending("zstd") # {} => encoder # "ffmpeg")
  BY DEF Inv, Change
<1>2. Below(Pending("h264"), Pending("zstd"))'
  BY <1>1 DEF Below
<1>3. (Pending("zstd") # {} => encoder # "ffmpeg")'
  BY <1>1
<1>4. Done => Done'
  BY DEF Done
<1> QED
  BY <1>2, <1>3, <1>4 DEF Change

(* What the decoder keeps back stays in order while it gets no data.       *)
LEMMA HeldStays ==
  ASSUME Inv, size' = size, h264_decoder'.held = h264_decoder.held,
         grabbed' = grabbed \/ (grabbed' = screen /\ grabbed < screen),
         \A p \in OnTheWay' : p \in OnTheWay \/ (p \in Nat /\ grabbed < p),
         Done => Done',
         Done' \/ (screen_update' \in {Nothing, screen_update} /\ shown' \in {Nothing, shown, screen_update})
  PROVE  Decoder'
<1> DEFINE H == Pics(h264_decoder.held)
<1>1. /\ h264_decoder.held \in Seq(TrueImages) /\ Ascending(h264_decoder.held)
      /\ H \subseteq 0..grabbed /\ Below(H, OnTheWay) /\ Newer(H)
  BY DEF Inv, Decoder
<1>2. grabbed \in Nat /\ screen \in Nat
  BY BoundsAssumption DEF Inv, TypeOK, Pictures
<1> HIDE DEF H
<1>3. H \subseteq 0..grabbed'
  BY <1>1, <1>2
<1>4. Below(H, OnTheWay')
  <2> SUFFICES ASSUME NEW h \in H, NEW p \in OnTheWay' PROVE h < p
    BY DEF Below
  <2>1. CASE p \in OnTheWay
    BY <1>1, <2>1 DEF Below
  <2>2. CASE p \in Nat /\ grabbed < p
    <3>1. h \in 0..grabbed
      BY <1>1
    <3> QED
      BY <1>2, <2>2, <3>1
  <2> QED
    BY <2>1, <2>2
<1>5. Done' \/ (Ahead(screen_update', H) /\ Ahead(shown', H))
  BY <1>1 DEF Newer, Ahead
<1> QED
  BY <1>1, <1>3, <1>4, <1>5, SameSize DEF Decoder, Newer, Ahead, H

(* The initial states satisfy the invariant.                               *)
LEMMA InitInv ==
  ASSUME Init
  PROVE  Inv
<1>0. /\ h264_decoder.held = <<>> /\ Len(h264_decoder.held) = 0
      /\ h264_decoder.held \in Seq(TrueImages) /\ DOMAIN h264_decoder.held = {}
  BY EmptySeq DEF Init
<1>1. /\ inside \in Seq(Packets) /\ frames \in Seq(TrueFrames) /\ net \in Seq(KeyFrames)
      /\ Len(inside) = 0 /\ Len(frames) = 0 /\ Len(net) = 0
      /\ DOMAIN inside = {} /\ DOMAIN frames = {} /\ DOMAIN net = {}
  BY EmptySeq DEF Init
<1>2. TypeOK
  <2>1. encoder \in {"none", "ffmpeg", "webp"}
    BY DEF Init, create_encoder
  <2>2. screen \in Pictures /\ grabbed \in 0..screen /\ pts \in 0..(keyframe_interval - 1)
    BY EncoderAssumption, BoundsAssumption DEF Init, Pictures
  <2>3. /\ h264_decoder.made \in BOOLEAN /\ h264_decoder.ref \in 0..MaxPictures
        /\ Len(h264_decoder.held) <= MaxHeld
        /\ \A i \in 1..Len(h264_decoder.held) : ImageOK(h264_decoder.held[i])
    BY <1>0, BoundsAssumption, DecoderAssumption DEF Init
  <2>4. Len(inside) <= MaxDelay
    BY <1>1, EncoderAssumption
  <2>5. codec \in BOOLEAN
    BY ChoicesAssumption DEF Init
  <2>6. /\ \A i \in 1..Len(inside) : inside[i] \in Packets
        /\ \A i \in 1..Len(frames) : FrameOK(frames[i])
        /\ \A i \in 1..Len(net) : FrameOK(net[i]) /\ net[i].data # <<>>
    BY <1>1
  <2>7. ImageOK(screen_update) /\ ImageOK(shown) /\ ImageOK(panic) /\ shown = Nothing
    BY DEF Init, ImageOK
  <2> QED
    BY <2>1, <2>2, <2>3, <2>4, <2>5, <2>6, <2>7 DEF Init, TypeOK
<1>3. Order
  BY <1>1 DEF Init, Order, FramesAscend, Ascending, Below, PicsIn, Pics, OnTheWay, Older
<1>4. Change
  BY <1>1 DEF Change, Pending, PicsOf, Below
<1>5. Decoder
  BY <1>0 DEF Init, Decoder, Ascending, Pics, Below, Newer, Ahead
<1> QED
  BY <1>1, <1>2, <1>3, <1>4, <1>5 DEF Init, Inv, Channels, TrueImage, PanicOnlyMisfit, Live

(* A change of the screen makes a new picture, which nobody has grabbed    *)
(* yet.                                                                    *)
LEMMA ChangeScreenInv ==
  ASSUME Inv, ChangeScreen
  PROVE  Inv'
<1>1. /\ UNCHANGED <<size, grabbed, encoder, pts, inside, frames, session, net, codec,
                     h264_decoder, screen_update, shown, panic>>
      /\ screen < MaxPictures /\ screen' = screen + 1
  BY DEF ChangeScreen, clientVars
<1>2. screen' \in Pictures /\ grabbed' \in 0..screen'
  BY <1>1, BoundsAssumption DEF Inv, TypeOK, Pictures
<1>3. TypeOK'
  BY <1>1, <1>2, SameSize DEF Inv, TypeOK, ImageOK
<1>4. Channels'
  BY <1>1, SameSize DEF Inv, Channels
<1>5. Order'
  BY <1>1 DEF Inv, Order, OnTheWay, Older
<1>6. Change' /\ Decoder'
  <2>1. OnTheWay' = OnTheWay /\ Pending("h264")' = Pending("h264") /\ Pending("zstd")' = Pending("zstd")
    BY <1>1 DEF OnTheWay, Pending
  <2> QED
    BY <1>1, <2>1, ChangeStays, HeldStays
<1> QED
  BY <1>1, <1>3, <1>4, <1>5, <1>6, SameImages DEF Inv, Live

(* A capture: the pictures of the new frame and of the packets kept back   *)
(* are those that were kept back before, and the new one.                  *)
LEMMA CaptureInv ==
  ASSUME Inv, Grab, NEW f \in TrueFrames, frames' = Append(frames, f),
         inside' \in Seq(Packets), Ascending(inside'), Len(inside') <= MaxDelay,
         Below(Pics(f.data), Pics(inside')),
         Pics(f.data) \cup Pics(inside') \subseteq Pics(inside) \cup {screen},
         encoder' \in {"none", "ffmpeg", "webp"}, encoder' # "ffmpeg" => inside' = <<>>, pts' \in 0..(keyframe_interval - 1),
         f.format = "h264" => encoder = "ffmpeg" /\ encoder' = "ffmpeg",
         f.format # "h264" => encoder' # "ffmpeg" /\ Pics(f.data) = {screen}
  PROVE  Inv'
<1>1. /\ UNCHANGED <<size, screen, session, net, codec, h264_decoder, screen_update, shown, panic>>
      /\ grabbed # screen /\ grabbed' = screen
  BY DEF Grab, clientVars
<1>2. grabbed \in Nat /\ screen \in Nat /\ grabbed < screen /\ screen \in Pictures
  BY <1>1, BoundsAssumption DEF Inv, TypeOK, Pictures
<1>3. Channels'
  <2>1. frames' \in Seq(TrueFrames)
    BY Appended DEF Inv, Channels
  <2> QED
    BY <1>1, <2>1, SameSize DEF Inv, Channels
<1>4. TypeOK'
  <2>1. grabbed' \in 0..screen'
    BY <1>1, <1>2
  <2>2. \A i \in 1..Len(frames') : FrameOK(frames'[i])
    <3>1. \A i \in 1..Len(frames') : frames'[i] \in TrueFrames
      BY <1>1, <1>3, SameSize, ElementOfSeq DEF Channels
    <3> QED
      BY <3>1, FrameType
  <2>3. \A i \in 1..Len(inside') : inside'[i] \in Packets
    BY ElementOfSeq
  <2> QED
    BY <1>1, <2>1, <2>2, <2>3, SameSize DEF Inv, TypeOK, ImageOK
<1>5. Order'
  <2> DEFINE N == PicsIn(net)
             F == PicsIn(frames)
             I == Pics(inside)
             D == Pics(f.data)
             J == Pics(inside')
  <2>1. FramesAscend(net) /\ Below(N, F \cup I) /\ Below(F, I) /\ FramesAscend(frames)
    BY DEF Inv, Order
  <2>2. \A p \in N \cup F \cup I : p \in Nat /\ p < screen
    BY <1>2 DEF Inv, Order, OnTheWay
  <2>3. PicsIn(frames') = F \cup D /\ (Below(F, D) => FramesAscend(frames'))
    BY <2>1, FrameAppended DEF Inv, Channels
  <2>4. D \cup J \subseteq I \cup {screen} /\ Below(D, J)
    OBVIOUS
  <2> HIDE DEF N, F, I, D, J
  <2>5. Below(F, D) /\ Below(F \cup D, J)
    BY <2>1, <2>2, <2>4 DEF Below
  <2>6. Below(N, (F \cup D) \cup J)
    BY <2>1, <2>2, <2>4 DEF Below
  <2>7. N \cup (F \cup D) \cup J \subseteq 1..screen
    <3>1. N \cup F \cup I \subseteq 1..grabbed
      BY DEF Inv, Order, OnTheWay, N, F, I
    <3> QED
      BY <1>2, <2>4, <3>1
  <2>8. OnTheWay' = N \cup (F \cup D) \cup J
    BY <1>1, <2>3 DEF OnTheWay, N, J
  <2>9. ASSUME NEW x, ImageOK(x), Older(x) PROVE Older(x)'
    <3> SUFFICES ASSUME x # Nothing
                 PROVE  x.pic <= screen /\ \A p \in N \cup (F \cup D) \cup J : x.pic < p
      BY <1>1, <2>8 DEF Older
    <3>1. x.pic <= grabbed /\ \A p \in N \cup F \cup I : x.pic < p
      BY <2>9 DEF Older, OnTheWay, N, F, I
    <3>2. x.pic \in Nat
      BY <2>9, BoundsAssumption DEF ImageOK, Pictures
    <3> QED
      BY <1>2, <2>4, <3>1, <3>2
  <2>10. Older(screen_update)' /\ Older(shown)'
    BY <1>1, <2>9 DEF Inv, Order, Older, TypeOK
  <2> QED
    BY <1>1, <2>1, <2>3, <2>5, <2>6, <2>7, <2>8, <2>10 DEF Inv, Order, N, J
<1>6. \A p \in OnTheWay : p \in Nat /\ p <= grabbed
  BY <1>2 DEF Inv, Order
<1>7. Change' /\ (Done => Done')
  <2>1. ASSUME NEW t
        PROVE  Pending(t)' = Pending(t) \cup (IF f.format = t THEN Pics(f.data) ELSE {})
    <3>1. PicsOf(frames', t) = PicsOf(frames, t) \cup (IF f.format = t THEN Pics(f.data) ELSE {})
      BY FrameAppended DEF Inv, Channels
    <3> QED
      BY <1>1, <3>1 DEF Pending
  <2>2. /\ Below(Pending("h264"), Pending("zstd"))
        /\ Pending("zstd") # {} => encoder # "ffmpeg"
    BY DEF Inv, Change
  <2>3. CASE f.format = "h264"
    <3>1. Pending("zstd") = {} /\ Pending("zstd")' = {}
      BY <2>1, <2>2, <2>3
    <3> QED
      BY <2>3, <3>1 DEF Change, Below, Done
  <2>4. CASE f.format # "h264"
    <3>1. Pending("h264")' = Pending("h264")
      BY <2>1, <2>4
    <3>2. Pending("zstd")' \subseteq Pending("zstd") \cup {screen}
      BY <2>1, <2>4
    <3>3. \A p \in Pending("h264") : p < screen
      BY <1>2, <1>6, PendingOnTheWay
    <3>4. Below(Pending("h264"), Pending("zstd"))'
      BY <2>2, <3>1, <3>2, <3>3 DEF Below
    <3> QED
      BY <2>4, <3>1, <3>4 DEF Change, Done
  <2> QED
    BY <2>3, <2>4
<1>8. Decoder'
  <2>1. \A p \in OnTheWay' : p \in OnTheWay \/ p = screen
    <3>1. PicsIn(frames') = PicsIn(frames) \cup Pics(f.data)
      BY FrameAppended DEF Inv, Channels
    <3> QED
      BY <1>1, <3>1 DEF OnTheWay
  <2> QED
    BY <1>1, <1>2, <1>7, <2>1, HeldStays
<1> QED
  BY <1>1, <1>3, <1>4, <1>5, <1>7, <1>8, SameImages DEF Inv, Live

(* The frames of the four captures are true: the software paths code the   *)
(* new picture by itself, and a failing encoder takes its packets along.   *)
LEMMA WholeType ==
  ASSUME NEW pic \in Pictures
  PROVE  /\ Whole(pic) \in Seq(Packets) /\ Len(Whole(pic)) = 1 /\ Whole(pic) # <<>>
         /\ Whole(pic)[1].key /\ Pics(Whole(pic)) = {pic} /\ Ascending(Whole(pic))
<1> DEFINE p == Packet(pic, TRUE, 0)
<1>1. p \in Packets /\ p.pic = pic /\ p.key
  BY BoundsAssumption DEF Packet, Packets
<1> HIDE DEF p
<1>2. <<p>> \in Seq(Packets) /\ Len(<<p>>) = 1 /\ <<p>> # <<>> /\ <<p>>[1] = p /\ DOMAIN <<p>> = {1}
  BY <1>1
<1>3. Whole(pic) = <<p>>
  BY DEF Whole, p
<1> QED
  BY <1>1, <1>2, <1>3 DEF Pics, Ascending

(* The frames of the software paths hold one picture, and are key frames.  *)
LEMMA WholeFrame ==
  ASSUME NEW pic \in Pictures
  PROVE  /\ \A pad \in Pads : LET f == SoftwareFrame(pic, pad)
                              IN  f \in TrueFrames /\ Pics(f.data) = {pic} /\ f.format = "zstd"
         /\ WebPFrame(pic) \in TrueFrames /\ Pics(WebPFrame(pic).data) = {pic}
         /\ WebPFrame(pic).format = "webp"
<1> DEFINE d == Whole(pic)
<1>1. /\ d \in Seq(Packets) /\ d # <<>> /\ d[Len(d)].key /\ Pics(d) = {pic} /\ Ascending(d)
      /\ Len(d) = 1
  BY WholeType
<1> HIDE DEF d
<1>2. ASSUME NEW pad \in Pads
      PROVE  /\ SoftwareFrame(pic, pad) \in TrueFrames /\ SoftwareFrame(pic, pad).data = d
             /\ SoftwareFrame(pic, pad).format = "zstd"
  BY <1>1 DEF SoftwareFrame, Frame, TrueFrames, Labelled, Encodings, Fits, d
<1>3. WebPFrame(pic) \in TrueFrames /\ WebPFrame(pic).data = d /\ WebPFrame(pic).format = "webp"
  BY <1>1 DEF WebPFrame, Frame, TrueFrames, Labelled, Encodings, Fits, d
<1> QED
  BY <1>1, <1>2, <1>3

(* A frame of a software path joins the queue behind the older ones.       *)
LEMMA SoftwareInv ==
  ASSUME Inv, CaptureSoftware \/ CaptureWebP
  PROVE  Inv'
<1>1. Grab /\ UNCHANGED <<encoder, pts, inside>>
  BY DEF CaptureSoftware, CaptureWebP
<1>2. screen \in Pictures
  BY DEF Inv, TypeOK
<1>3. PICK f \in TrueFrames : /\ frames' = Append(frames, f) /\ Pics(f.data) = {screen}
                             /\ f.format # "h264"
  BY <1>2, WholeFrame DEF CaptureSoftware, CaptureWebP
<1>4. inside = <<>> /\ Pics(inside') = {}
  BY <1>1 DEF Inv, Channels, CaptureSoftware, CaptureWebP, Pics
<1>5. Below(Pics(f.data), Pics(inside')) /\ Pics(f.data) \cup Pics(inside') \subseteq Pics(inside) \cup {screen}
  BY <1>3, <1>4 DEF Below
<1>6. /\ inside' \in Seq(Packets) /\ Ascending(inside') /\ Len(inside') <= MaxDelay
      /\ encoder' \in {"none", "ffmpeg", "webp"} /\ pts' \in 0..(keyframe_interval - 1)
      /\ encoder' # "ffmpeg" => inside' = <<>>
  BY <1>1 DEF Inv, TypeOK, Channels, Order
<1>7. encoder' # "ffmpeg"
  BY <1>1 DEF CaptureSoftware, CaptureWebP
<1> QED
  BY <1>1, <1>3, <1>5, <1>6, <1>7, CaptureInv

(* An encoder that fails takes the packets it kept back along.             *)
LEMMA FailInv ==
  ASSUME Inv, EncoderFails
  PROVE  Inv'
<1>1. Grab /\ encoder' = "none" /\ inside' = <<>> /\ pts' = pts
  BY DEF EncoderFails
<1>2. screen \in Pictures
  BY DEF Inv, TypeOK
<1>3. PICK f \in TrueFrames : /\ frames' = Append(frames, f) /\ Pics(f.data) = {screen}
                             /\ f.format # "h264"
  BY <1>2, WholeFrame DEF EncoderFails
<1>4. /\ inside' \in Seq(Packets) /\ DOMAIN inside' = {} /\ Len(inside') = 0
  BY <1>1, EmptySeq
<1>5. Below(Pics(f.data), Pics(inside')) /\ Pics(f.data) \cup Pics(inside') \subseteq Pics(inside) \cup {screen}
  BY <1>3, <1>4 DEF Below, Pics
<1>6. /\ inside' \in Seq(Packets) /\ Ascending(inside') /\ Len(inside') <= MaxDelay
      /\ encoder' \in {"none", "ffmpeg", "webp"} /\ pts' \in 0..(keyframe_interval - 1)
      /\ encoder' # "ffmpeg" => inside' = <<>>
  BY <1>1, <1>4, EncoderAssumption DEF Inv, TypeOK, Ascending
<1> QED
  BY <1>1, <1>3, <1>5, <1>6, CaptureInv

(* The video encoder gives out packets in their order, whenever it likes.  *)
LEMMA VideoInv ==
  ASSUME Inv, CaptureVideo
  PROVE  Inv'
<1> DEFINE p == Packet(screen, pts = 0, grabbed)
           queue == Append(inside, p)
<1>1. PICK k \in 0..Len(queue) :
        /\ Len(queue) - k <= MaxDelay
        /\ inside' = SubSeq(queue, k + 1, Len(queue))
        /\ frames' = Append(frames, VideoFrame(SubSeq(queue, 1, k)))
  BY DEF CaptureVideo
<1>2. Grab /\ encoder = "ffmpeg" /\ encoder' = encoder /\ pts' = (pts + 1) % keyframe_interval
  BY DEF CaptureVideo
<1>3. /\ screen \in Pictures /\ screen \in Nat /\ grabbed \in Nat /\ grabbed < screen
      /\ grabbed \in 0..MaxPictures
  BY <1>2, BoundsAssumption DEF Inv, TypeOK, Pictures, Grab
<1>4. p \in Packets /\ p.pic = screen
  BY <1>3 DEF Packet, Packets
<1> HIDE DEF p
<1>5. \A x \in Pics(inside) : x < screen
  BY <1>3 DEF Inv, Order, OnTheWay
<1>6. queue \in Seq(Packets) /\ Pics(queue) = Pics(inside) \cup {screen} /\ Ascending(queue)
  BY <1>4, <1>5, Appended, PacketAppended DEF Inv, Channels, Order
<1> HIDE DEF queue
<1> DEFINE a == SubSeq(queue, 1, k)
<1>7. /\ a \in Seq(Packets) /\ inside' \in Seq(Packets) /\ Len(inside') = Len(queue) - k
      /\ Ascending(a) /\ Ascending(inside')
      /\ Pics(a) \subseteq Pics(queue) /\ Pics(inside') \subseteq Pics(queue)
      /\ Below(Pics(a), Pics(inside'))
  BY <1>1, <1>6, Cut
<1> HIDE DEF a
<1>8. VideoFrame(a) \in TrueFrames /\ VideoFrame(a).data = a /\ VideoFrame(a).format = "h264"
  BY <1>7 DEF VideoFrame, Frame, TrueFrames, Labelled, Encodings, Fits
<1>9. frames' = Append(frames, VideoFrame(a))
  BY <1>1 DEF a
<1>10. pts' \in 0..(keyframe_interval - 1)
  BY <1>2, EncoderAssumption DEF Inv, TypeOK
<1>11. Len(inside') <= MaxDelay
  BY <1>1, <1>7
<1> QED
  BY <1>2, <1>6, <1>7, <1>8, <1>9, <1>10, <1>11, CaptureInv

-----------------------------------------------------------------------------
(* The capture loop sends only what says it is a key frame.                *)
LEMMA DispatchInv ==
  ASSUME Inv, DispatchFrame
  PROVE  Inv'
<1> DEFINE f == Head(frames)
<1>1. /\ UNCHANGED <<size, screen, grabbed, encoder, pts, inside, session, codec, h264_decoder,
                     screen_update, shown, panic>>
      /\ frames # <<>> /\ frames' = Tail(frames)
      /\ net' = net \/ (session /\ f.type = "KeyFrame" /\ net' = Append(net, f))
  BY DEF DispatchFrame, clientVars, Sendable
<1>2. f \in TrueFrames /\ frames' \in Seq(TrueFrames)
  BY <1>1, First DEF Inv, Channels
<1> DEFINE N == PicsIn(net)
           M == PicsIn(net')
           H == Pics(f.data)
           T == PicsIn(frames')
           I == Pics(inside)
<1>3. PicsIn(frames) = H \cup T /\ FramesAscend(frames') /\ Below(H, T)
  BY <1>1, FrameFirst DEF Inv, Channels, Order
<1>4. /\ FramesAscend(net) /\ Below(N, (H \cup T) \cup I) /\ Below(H \cup T, I) /\ Ascending(inside)
      /\ N \cup (H \cup T) \cup I \subseteq 1..grabbed
  BY <1>3 DEF Inv, Order, OnTheWay
<1>5. /\ net' \in Seq(KeyFrames) /\ (net' # <<>> => session)
      /\ FramesAscend(net') /\ M \subseteq N \cup H
  <2>1. CASE net' = net
    BY <1>4, <2>1 DEF Inv, Channels, Live
  <2>2. CASE session /\ f.type = "KeyFrame" /\ net' = Append(net, f)
    <3>1. f \in KeyFrames
      BY <1>2, <2>2 DEF KeyFrames
    <3>2. Below(N, H)
      BY <1>4 DEF Below
    <3> HIDE DEF f
    <3>3. net \in Seq(KeyFrames)
      BY DEF Inv, Channels
    <3>4. net' \in Seq(KeyFrames)
      BY <2>2, <3>1, <3>3, Appended
    <3>5. PicsIn(net') = PicsIn(net) \cup Pics(f.data)
      BY <2>2, <3>1, <3>3, FrameAppended
    <3>6. FramesAscend(net')
      BY <1>4, <2>2, <3>1, <3>2, <3>3, FrameAppended
    <3> QED
      BY <2>2, <3>4, <3>5, <3>6
  <2> QED
    BY <1>1, <2>1, <2>2
<1>6. Channels'
  BY <1>1, <1>2, <1>5, SameSize DEF Inv, Channels
<1>7. TypeOK'
  <2>1. /\ \A i \in 1..Len(frames') : FrameOK(frames'[i])
        /\ \A i \in 1..Len(net') : FrameOK(net'[i]) /\ net'[i].data # <<>>
    <3>1. \A i \in 1..Len(frames') : frames'[i] \in TrueFrames
      BY <1>2, ElementOfSeq
    <3>2. \A i \in 1..Len(net') : net'[i] \in KeyFrames
      BY <1>5, ElementOfSeq
    <3>3. \A x \in KeyFrames : x \in TrueFrames /\ x.data # <<>>
      BY DEF KeyFrames, TrueFrames
    <3> QED
      BY <3>1, <3>2, <3>3, FrameType
  <2> QED
    BY <1>1, <2>1, SameSize DEF Inv, TypeOK, ImageOK
<1>8. Order'
  <2> HIDE DEF N, M, H, T, I
  <2>1. Below(M, T \cup I) /\ Below(T, I) /\ M \cup T \cup I \subseteq 1..grabbed
    BY <1>3, <1>4, <1>5 DEF Below
  <2>2. OnTheWay' = M \cup T \cup I /\ OnTheWay = N \cup (H \cup T) \cup I
    BY <1>1, <1>3 DEF OnTheWay, M, N, T, I
  <2>3. OnTheWay' \subseteq OnTheWay
    BY <1>5, <2>2
  <2>4. Older(screen_update)' /\ Older(shown)'
    BY <1>1, <2>3 DEF Inv, Order, Older
  <2> QED
    BY <1>1, <1>3, <1>4, <1>5, <2>1, <2>2, <2>4 DEF Inv, Order, M, T, I
<1>9. Change' /\ (Done => Done')
  <2>1. ASSUME NEW t PROVE Pending(t)' \subseteq Pending(t)
    <3> DEFINE P == IF f.format = t THEN Pics(f.data) ELSE {}
    <3>1. PicsOf(frames, t) = PicsOf(frames', t) \cup P
      BY <1>1, FrameFirst DEF Inv, Channels
    <3>2. net' = net \/ PicsOf(net', t) = PicsOf(net, t) \cup P
      <4> HIDE DEF f
      <4>1. CASE net' = Append(net, f) /\ f.type = "KeyFrame"
        <5>1. net \in Seq(KeyFrames) /\ f \in KeyFrames
          BY <1>2, <4>1 DEF Inv, Channels, KeyFrames
        <5> QED
          BY <4>1, <5>1, FrameAppended
      <4> QED
        BY <1>1, <4>1
    <3> HIDE DEF P
    <3> QED
      BY <3>1, <3>2 DEF Pending
  <2> QED
    BY <1>1, <2>1, ChangeStays
<1>10. Decoder'
  <2>1. OnTheWay' \subseteq OnTheWay
    BY <1>1, <1>3, <1>5 DEF OnTheWay
  <2> QED
    BY <1>1, <1>9, <2>1, HeldStays
<1> QED
  BY <1>1, <1>5, <1>6, <1>7, <1>8, <1>9, <1>10, SameImages DEF Inv, Live

(* Connections come and go.                                                *)
LEMMA EmptyNet ==
  ASSUME net' = <<>>
  PROVE  /\ net' \in Seq(KeyFrames) /\ PicsIn(net') = {} /\ FramesAscend(net') /\ Len(net') = 0
         /\ \A t : PicsOf(net', t) = {}
<1>1. DOMAIN net' = {} /\ Len(net') = 0 /\ net' \in Seq(KeyFrames)
  BY EmptySeq
<1>2. PicsIn(net') = {} /\ FramesAscend(net')
  BY <1>1 DEF PicsIn, FramesAscend
<1> QED
  BY <1>1, <1>2 DEF PicsOf

(* With a connection its frames and images go, and the decoder stays.      *)
LEMMA LessUnderWay ==
  ASSUME Inv, UNCHANGED <<size, grabbed, encoder, inside, frames, h264_decoder>>, net' = <<>>,
         screen_update' = Nothing, shown' = Nothing
  PROVE  Change' /\ Decoder'
<1>1. OnTheWay' \subseteq OnTheWay
  BY EmptyNet DEF OnTheWay
<1>2. ASSUME NEW t PROVE Pending(t)' \subseteq Pending(t)
  BY EmptyNet DEF Pending
<1>3. Change' /\ (Done => Done')
  BY <1>2, ChangeStays
<1> QED
  BY <1>1, <1>3, HeldStays

(* A client that comes or goes: no frame is left under way to it.          *)
LEMMA SessionInv ==
  ASSUME Inv, Connect \/ Disconnect
  PROVE  Inv'
<1>1. /\ UNCHANGED <<size, screen, grabbed, encoder, pts, inside, frames, codec, h264_decoder,
                     screen_update, panic>>
  BY DEF Connect, Disconnect, serverVars, clientVars
<1>2. CASE Connect
  <2>1. UNCHANGED <<net, shown>> /\ session' = TRUE
    BY <1>2 DEF Connect, clientVars
  <2>2. TypeOK'
    BY <1>1, <2>1, SameSize DEF Inv, TypeOK, ImageOK
  <2>3. Channels' /\ Order'
    BY <1>1, <2>1, SameSize DEF Inv, Channels, Order, OnTheWay, Older
  <2>4. OnTheWay' = OnTheWay /\ Pending("h264")' = Pending("h264") /\ Pending("zstd")' = Pending("zstd")
    BY <1>1, <2>1 DEF OnTheWay, Pending
  <2>5. Change' /\ Decoder'
    BY <1>1, <2>1, <2>4, ChangeStays, HeldStays
  <2> QED
    BY <1>1, <2>1, <2>2, <2>3, <2>5, SameImages DEF Inv, Live
<1>3. CASE Disconnect
  <2>1. net' = <<>> /\ shown' = Nothing /\ session' = FALSE /\ screen_update = Nothing
    BY <1>3 DEF Disconnect
  <2>2. TypeOK'
    <3>1. \A i \in 1..Len(net') : FrameOK(net'[i]) /\ net'[i].data # <<>>
      BY <2>1, EmptyNet
    <3> QED
      BY <1>1, <2>1, <3>1, SameSize DEF Inv, TypeOK, ImageOK
  <2>3. Channels'
    BY <1>1, <2>1, EmptyNet, SameSize DEF Inv, Channels
  <2>4. Order'
    BY <1>1, <2>1, EmptyNet DEF Inv, Order, OnTheWay, Older, Below
  <2>5. Change' /\ Decoder'
    BY <1>1, <2>1, LessUnderWay
  <2> QED
    BY <1>1, <2>1, <2>2, <2>3, <2>4, <2>5, SameImages DEF Inv, Live
<1> QED
  BY <1>2, <1>3

(* The application takes a message.                                        *)
LEMMA TakeMessage ==
  ASSUME Inv, TakesMessage, net' = Tail(net)
  PROVE  LET m == Head(net)
         IN  /\ m \in KeyFrames /\ m.data # <<>> /\ session
             /\ Channels' /\ FramesAscend(net') /\ Change' /\ (Done => Done')
             /\ OnTheWay' \subseteq OnTheWay /\ Pics(m.data) \subseteq OnTheWay
             /\ Below(Pics(m.data), OnTheWay')
             /\ Below(PicsIn(net'), PicsIn(frames) \cup Pics(inside))
             /\ \A i \in 1..Len(net') : FrameOK(net'[i]) /\ net'[i].data # <<>>
             /\ m.format = "h264" => ~Done
             /\ m.format = "zstd" => Done'
<1> DEFINE m == Head(net)
<1>1. net # <<>> /\ UNCHANGED <<size, screen, grabbed, encoder, pts, inside, frames, session>>
  BY DEF TakesMessage, serverVars
<1>2. m \in KeyFrames /\ net' \in Seq(KeyFrames)
  BY <1>1, First DEF Inv, Channels
<1>3. /\ PicsIn(net) = Pics(m.data) \cup PicsIn(net')
      /\ FramesAscend(net') /\ Below(Pics(m.data), PicsIn(net'))
      /\ \A t : PicsOf(net, t) = PicsOf(net', t) \cup (IF m.format = t THEN Pics(m.data) ELSE {})
  BY <1>1, FrameFirst DEF Inv, Channels, Order
<1>4. Channels'
  BY <1>1, <1>2, SameSize DEF Inv, Channels
<1>5. OnTheWay' = PicsIn(net') \cup PicsIn(frames) \cup Pics(inside)
  BY <1>1 DEF OnTheWay
<1>6. Below(Pics(m.data) \cup PicsIn(net'), PicsIn(frames) \cup Pics(inside))
  BY <1>3 DEF Inv, Order
<1>7. \A i \in 1..Len(net') : FrameOK(net'[i]) /\ net'[i].data # <<>>
  <2>1. \A i \in 1..Len(net') : net'[i] \in KeyFrames
    BY <1>2, ElementOfSeq
  <2>2. \A x \in KeyFrames : x \in TrueFrames /\ x.data # <<>>
    BY DEF KeyFrames, TrueFrames
  <2> QED
    BY <2>1, <2>2, FrameType
<1>8. m.data # <<>> /\ session /\ m \in TrueFrames
  BY <1>1, <1>2 DEF KeyFrames, TrueFrames, Inv, Live
<1> HIDE DEF m
<1>9. /\ OnTheWay' \subseteq OnTheWay /\ Pics(m.data) \subseteq OnTheWay
  BY <1>3, <1>5 DEF OnTheWay
<1>10. Below(Pics(m.data), OnTheWay') /\ Below(PicsIn(net'), PicsIn(frames) \cup Pics(inside))
  BY <1>3, <1>5, <1>6 DEF Below
<1>11. ASSUME NEW t
       PROVE  Pending(t) = Pending(t)' \cup (IF m.format = t THEN Pics(m.data) ELSE {})
  BY <1>1, <1>3 DEF Pending
<1>12. Change' /\ (Done => Done')
  BY <1>1, <1>11, ChangeStays
<1>13. PICK p : p \in Pics(m.data)
  <2>1. m.data \in Seq(Packets)
    BY <1>8, FrameType
  <2>2. 1 \in DOMAIN m.data
    BY <1>8, <2>1, First
  <2> QED
    BY <2>2 DEF Pics
<1>14. m.format = "h264" => ~Done
  BY <1>11, <1>13 DEF Done
<1>15. ASSUME m.format = "zstd" PROVE Done'
  <2>1. p \in Pending("zstd")
    BY <1>11, <1>13, <1>15
  <2>2. encoder' # "ffmpeg"
    BY <1>1, <2>1 DEF Inv, Change
  <2>3. ASSUME NEW q \in Pending("h264")' PROVE FALSE
    <3>1. q \in Pending("h264") /\ q < p
      BY <1>11, <2>1 DEF Inv, Change, Below
    <3>2. q \in OnTheWay'
      BY <1>1 DEF Pending, PicsOf, OnTheWay
    <3>3. p < q
      BY <1>10, <1>13, <3>2 DEF Below
    <3>4. p \in Nat /\ q \in Nat
      <4>1. p \in 1..grabbed /\ q \in 1..grabbed
        BY <1>9, <1>13, <3>2 DEF Inv, Order
      <4> QED
        BY <4>1
    <3> QED
      BY <3>1, <3>3, <3>4
  <2> QED
    BY <2>2, <2>3 DEF Done
<1> QED
  BY <1>2, <1>3, <1>4, <1>7, <1>8, <1>9, <1>10, <1>12, <1>14, <1>15 DEF m

(* The picture that a decoder keeps is one of the pictures.                *)
LEMMA ReferenceType ==
  ASSUME NEW m \in KeyFrames
  PROVE  Reference(m.data) \in 0..MaxPictures
<1>1. m \in TrueFrames /\ m.data # <<>>
  BY DEF KeyFrames, TrueFrames
<1>2. /\ DOMAIN m.data = 1..Len(m.data) /\ Len(m.data) \in Nat
      /\ m.data \in Seq(Packets) /\ \A i \in DOMAIN m.data : m.data[i] \in Packets
  BY <1>1, FrameType
<1>3. Len(m.data) # 0
  BY <1>1, <1>2, EmptySeq
<1>4. m.data[Len(m.data)].pic \in Pictures
  BY <1>2, <1>3 DEF Packets
<1> QED
  BY <1>4, BoundsAssumption DEF Reference, Pictures

(* What comes out of a key frame: its last packet needs no other, and the  *)
(* ones before it have pictures behind them.                               *)
LEMMA ImagesType ==
  ASSUME NEW m \in KeyFrames, m.encoding = "H264"
  PROVE  /\ Images(m) \in Seq(TrueImages) /\ Ascending(Images(m))
         /\ Pics(Images(m)) = Pics(m.data)
<1>1. /\ m \in TrueFrames /\ m.data # <<>> /\ m.data[Len(m.data)].key /\ Ascending(m.data)
      /\ m.pixels = EncoderPixels
  BY DEF KeyFrames, TrueFrames, Fits
<1>2. /\ DOMAIN m.data = 1..Len(m.data) /\ Len(m.data) \in Nat
      /\ \A i \in DOMAIN m.data : m.data[i] \in Packets
  BY <1>1, FrameType
<1> PICK n \in Nat : n = Len(m.data)
  BY <1>2
<1> DEFINE im(i) == Image(m.data[i].pic, Intact(m.data, i), n - i, m.pixels, m.encoding)
<1>3. Images(m) = [i \in 1..n |-> im(i)]
  BY DEF Images
<1>4. ASSUME NEW i \in 1..n PROVE im(i) \in TrueImages /\ im(i).pic = m.data[i].pic
  <2>1. m.data[i].pic \in Pictures
    BY <1>2 DEF Packets
  <2>2. Intact(m.data, i) \in BOOLEAN
    BY DEF Intact
  <2>3. n - i \in Nat
    OBVIOUS
  <2>4. Intact(m.data, i) \/ n - i > 0
    <3>1. CASE i = n
      <4>1. m.data[i].key /\ i \in 1..i
        BY <1>1, <3>1
      <4> QED
        BY <4>1 DEF Intact
    <3>2. CASE i # n
      BY <3>2
    <3> QED
      BY <3>1, <3>2
  <2> QED
    BY <1>1, <2>1, <2>2, <2>3, <2>4 DEF Image, TrueImages
<1> HIDE DEF im
<1> DEFINE s == Images(m)
<1>5. s \in Seq(TrueImages) /\ DOMAIN s = 1..n /\ \A i \in 1..n : s[i].pic = m.data[i].pic
  BY <1>3, <1>4
<1> HIDE DEF s
<1>6. Ascending(s) /\ Pics(s) = Pics(m.data)
  BY <1>1, <1>2, <1>5 DEF Ascending, Pics
<1> QED
  BY <1>5, <1>6 DEF s

(* The pictures in the decoder are in order, newer than the window's and   *)
(* older than all that will come.                                          *)
LEMMA DecodedAll ==
  ASSUME Inv, TakesMessage, net' = Tail(net), CanDecode(Head(net))
  PROVE  LET all == Decoded(Head(net))
         IN  /\ all \in Seq(TrueImages) /\ Ascending(all) /\ Pics(all) \subseteq 0..grabbed
             /\ Below(Pics(all), OnTheWay')
             /\ Ahead(shown, Pics(all)) /\ Ahead(screen_update, Pics(all))
<1> DEFINE m == Head(net)
           H == Pics(h264_decoder.held)
           D == Pics(m.data)
           all == Decoded(m)
<1>1. /\ m \in KeyFrames /\ ~Done /\ OnTheWay' \subseteq OnTheWay
      /\ D \subseteq OnTheWay /\ Below(D, OnTheWay')
  BY TakeMessage DEF CanDecode
<1>2. /\ h264_decoder.held \in Seq(TrueImages) /\ Ascending(h264_decoder.held)
      /\ H \subseteq 0..grabbed /\ Below(H, OnTheWay) /\ Newer(H)
  BY DEF Inv, Decoder
<1>3. Images(m) \in Seq(TrueImages) /\ Ascending(Images(m)) /\ Pics(Images(m)) = D
  BY <1>1, ImagesType DEF CanDecode
<1>4. Below(H, D)
  BY <1>1, <1>2 DEF Below
<1>5. all \in Seq(TrueImages) /\ Ascending(all) /\ Pics(all) = H \cup D
  BY <1>2, <1>3, <1>4, Joined DEF Decoded
<1>6. OnTheWay \subseteq 1..grabbed /\ Older(screen_update) /\ Older(shown)
  BY DEF Inv, Order
<1> HIDE DEF m, H, D, all
<1>7. H \cup D \subseteq 0..grabbed
  BY <1>1, <1>2, <1>6
<1>8. Below(H \cup D, OnTheWay')
  BY <1>1, <1>2 DEF Below
<1>9. Ahead(shown, H \cup D) /\ Ahead(screen_update, H \cup D)
  BY <1>1, <1>2, <1>6 DEF Newer, Ahead, Older
<1> QED
  BY <1>5, <1>7, <1>8, <1>9 DEF all, m

(* A message is taken, with an image that is newer than the window's and   *)
(* older than all that will come, or without.                              *)
LEMMA ReceivedInv ==
  ASSUME Inv, TakesMessage, net' = Tail(net), Decoder',
         h264_decoder'.made \in BOOLEAN, h264_decoder'.ref \in 0..MaxPictures,
         Len(h264_decoder'.held) <= MaxHeld,
         ImageOK(screen_update'), TrueImage(screen_update)', Older(screen_update)',
         shown # Nothing /\ screen_update' # Nothing => shown.pic <= screen_update'.pic
  PROVE  Inv'
<1> DEFINE held == h264_decoder'.held
<1>1. UNCHANGED <<size, screen, grabbed, encoder, pts, inside, frames, session, codec, shown, panic>>
  BY DEF TakesMessage, serverVars
<1>2. /\ session /\ Channels' /\ FramesAscend(net') /\ Change' /\ OnTheWay' \subseteq OnTheWay
      /\ Below(PicsIn(net'), PicsIn(frames) \cup Pics(inside))
      /\ \A i \in 1..Len(net') : FrameOK(net'[i]) /\ net'[i].data # <<>>
  BY TakeMessage
<1>3. \A i \in 1..Len(held) : ImageOK(held[i])
  <2>1. held \in Seq(TrueImages)
    BY <1>1, SameSize DEF Decoder
  <2> HIDE DEF held
  <2>2. \A i \in 1..Len(held) : held[i] \in TrueImages
    BY <2>1, ElementOfSeq
  <2> QED
    BY <2>2 DEF TrueImages, ImageOK, Encodings
<1>4. TypeOK'
  BY <1>1, <1>2, <1>3, SameSize DEF Inv, TypeOK, ImageOK
<1>5. Order'
  <2>1. Older(shown)'
    BY <1>1, <1>2 DEF Inv, Order, Older
  <2>2. OnTheWay' \subseteq 1..grabbed
    BY <1>2 DEF Inv, Order
  <2> QED
    BY <1>1, <1>2, <2>1, <2>2 DEF Inv, Order
<1> QED
  BY <1>1, <1>2, <1>4, <1>5, SameImages DEF Inv, Live

(* Without an image.                                                       *)
LEMMA UpdateStays ==
  ASSUME Inv, TakesMessage, net' = Tail(net), screen_update' = screen_update
  PROVE  /\ ImageOK(screen_update') /\ TrueImage(screen_update)' /\ Older(screen_update)'
         /\ shown # Nothing /\ screen_update' # Nothing => shown.pic <= screen_update'.pic
<1>1. UNCHANGED <<size, grabbed>>
  BY DEF TakesMessage, serverVars
<1>2. OnTheWay' \subseteq OnTheWay
  BY TakeMessage
<1>3. ImageOK(screen_update') /\ TrueImage(screen_update)'
  BY <1>1, SameImages DEF Inv, TypeOK
<1>4. Older(screen_update)'
  BY <1>1, <1>2 DEF Inv, Order, Older
<1> QED
  BY <1>3, <1>4 DEF Inv, Order

(* A software frame: no data comes to the decoder any more.                *)
LEMMA ReceiveSoftwareInv ==
  ASSUME Inv, ReceiveSoftware
  PROVE  Inv'
<1> DEFINE m == Head(net)
<1>1. /\ TakesMessage /\ net' = Tail(net) /\ h264_decoder' = h264_decoder
      /\ m.encoding = "ZstdCompressed"
      /\ screen_update' = Image(m.data[1].pic, TRUE, 0, m.pixels, "ZstdCompressed")
  BY DEF ReceiveSoftware
<1>2. UNCHANGED <<size, screen, grabbed, shown>>
  BY <1>1 DEF TakesMessage, serverVars
<1>3. /\ m \in KeyFrames /\ m.data # <<>> /\ OnTheWay' \subseteq OnTheWay
      /\ Pics(m.data) \subseteq OnTheWay /\ Below(Pics(m.data), OnTheWay')
      /\ m.format = "zstd" => Done'
  BY <1>1, TakeMessage
<1> HIDE DEF m
<1>4. /\ m \in TrueFrames /\ m.format = "zstd"
      /\ \E pad \in Pads : m.pixels = BufferPixels(pad)
  BY <1>1, <1>3 DEF KeyFrames, TrueFrames, Fits
<1>5. Decoder'
  BY <1>1, <1>2, <1>3, <1>4, HeldStays
<1>6. m.data[1].pic \in Pics(m.data) /\ Pics(m.data) \subseteq Pictures
  <2>1. m.data \in Seq(Packets) /\ Pics(m.data) \subseteq Pictures
    BY <1>4, FrameType
  <2>2. 1 \in DOMAIN m.data
    BY <1>3, <2>1, First
  <2> QED
    BY <2>1, <2>2 DEF Pics
<1> DEFINE x == screen_update'
<1>7. /\ x.pic \in Pics(m.data) /\ x.pic \in Pictures /\ x.intact /\ x.rest = 0
      /\ x.pixels = m.pixels /\ x.encoding = "ZstdCompressed"
  BY <1>1, <1>6 DEF Image
<1> HIDE DEF x
<1>8. ImageOK(x)
  BY <1>7 DEF ImageOK, Encodings
<1>9. TrueImage(screen_update)'
  BY <1>2, <1>4, <1>7 DEF TrueImage, Fits, BufferPixels, x
<1>10. OnTheWay \subseteq 1..grabbed /\ grabbed \in Nat
  BY BoundsAssumption DEF Inv, Order, TypeOK, Pictures
<1>11. x.pic \in Nat /\ x.pic <= grabbed /\ \A p \in OnTheWay' : x.pic < p
  <2>1. x.pic \in 1..grabbed
    BY <1>3, <1>7, <1>10
  <2>2. \A p \in OnTheWay' : x.pic < p
    BY <1>3, <1>7 DEF Below
  <2> QED
    BY <1>10, <2>1, <2>2
<1>12. Older(screen_update)'
  BY <1>2, <1>11 DEF Older, x
<1>13. shown # Nothing => shown.pic <= x.pic
  <2> SUFFICES ASSUME shown # Nothing PROVE shown.pic <= x.pic
    OBVIOUS
  <2>1. shown.pic \in Nat /\ \A p \in OnTheWay : shown.pic < p
    BY BoundsAssumption DEF Inv, TypeOK, ImageOK, Pictures, Order, Older
  <2> QED
    BY <1>3, <1>7, <1>11, <2>1
<1>14. /\ h264_decoder'.made \in BOOLEAN /\ h264_decoder'.ref \in 0..MaxPictures
       /\ Len(h264_decoder'.held) <= MaxHeld
  BY <1>1 DEF Inv, TypeOK
<1> QED
  BY <1>1, <1>5, <1>8, <1>9, <1>12, <1>13, <1>14, ReceivedInv DEF x

(* A picture of the decoder, in front of those it keeps back.              *)
LEMMA ReceiveVideoInv ==
  ASSUME Inv, ReceiveVideo
  PROVE  Inv'
<1> DEFINE m == Head(net)
           all == Decoded(m)
<1>1. TakesMessage /\ net' = Tail(net) /\ CanDecode(m)
  BY DEF ReceiveVideo
<1>2. PICK last \in 1..Len(all) : \E i \in 1..last :
         /\ Len(all) - last <= MaxHeld
         /\ screen_update' = all[i]
         /\ h264_decoder' = [made |-> TRUE, ref |-> Reference(m.data),
                             held |-> SubSeq(all, last + 1, Len(all))]
  BY DEF ReceiveVideo
<1>3. PICK i \in 1..last :
         /\ Len(all) - last <= MaxHeld
         /\ screen_update' = all[i]
         /\ h264_decoder' = [made |-> TRUE, ref |-> Reference(m.data),
                             held |-> SubSeq(all, last + 1, Len(all))]
  BY <1>2
<1>4. /\ all \in Seq(TrueImages) /\ Ascending(all) /\ Pics(all) \subseteq 0..grabbed
      /\ Below(Pics(all), OnTheWay') /\ Ahead(shown, Pics(all))
  BY <1>1, DecodedAll
<1>5. UNCHANGED <<size, grabbed, shown>>
  BY <1>1 DEF TakesMessage, serverVars
<1>6. Reference(m.data) \in 0..MaxPictures
  BY <1>1, TakeMessage, ReferenceType
<1> HIDE DEF m, all
<1>7. Len(all) \in Nat
  BY <1>4, LenProperties
<1>8. last \in 0..Len(all) /\ i \in 1..Len(all)
  BY <1>7
<1> DEFINE b == SubSeq(all, last + 1, Len(all))
           a == SubSeq(all, 1, last)
           x == screen_update'
<1>9. /\ b \in Seq(TrueImages) /\ Ascending(b) /\ Len(b) = Len(all) - last
      /\ Pics(a) \subseteq Pics(all) /\ Pics(b) \subseteq Pics(all) /\ Below(Pics(a), Pics(b))
      /\ all[i].pic \in Pics(a)
  BY <1>4, <1>8, Cut
<1>10. x \in TrueImages /\ x.pic \in Pics(a)
  BY <1>3, <1>4, <1>8, <1>9, ElementOfSeq
<1>11. h264_decoder'.held = b /\ h264_decoder'.made = TRUE /\ h264_decoder'.ref = Reference(m.data)
  BY <1>3
<1> HIDE DEF a, b, x
<1>12. /\ x.pic \in Pictures /\ x.rest \in Nat /\ x.encoding = "H264" /\ x.pixels = EncoderPixels
       /\ x.intact \/ x.rest > 0
  BY <1>10 DEF TrueImages
<1>13. ImageOK(x) /\ x.pic \in Nat
  BY <1>12, BoundsAssumption DEF ImageOK, Encodings, Pictures
<1>14. TrueImage(screen_update)'
  BY <1>5, <1>12, SameSize DEF TrueImage, Fits, x
<1>15. x.pic <= grabbed /\ \A p \in OnTheWay' : x.pic < p
  BY <1>4, <1>9, <1>10, <1>13 DEF Below
<1>16. Older(screen_update)'
  BY <1>5, <1>15 DEF Older, x
<1>17. shown # Nothing => shown.pic <= x.pic
  <2> SUFFICES ASSUME shown # Nothing PROVE shown.pic <= x.pic
    OBVIOUS
  <2>1. shown.pic \in Nat
    BY BoundsAssumption DEF Inv, TypeOK, ImageOK, Pictures
  <2>2. shown.pic < x.pic
    BY <1>4, <1>9, <1>10 DEF Ahead
  <2> QED
    BY <1>13, <2>1, <2>2
<1>18. Decoder'
  <2>1. Ahead(x, Pics(b)) /\ Ahead(shown, Pics(b))
    BY <1>4, <1>9, <1>10 DEF Ahead, Below
  <2>2. Pics(b) \subseteq 0..grabbed /\ Below(Pics(b), OnTheWay')
    BY <1>4, <1>9 DEF Below
  <2> QED
    BY <1>5, <1>9, <1>11, <2>1, <2>2, SameSize DEF Decoder, Newer, Ahead, x
<1>19. Len(h264_decoder'.held) <= MaxHeld
  BY <1>3, <1>9, <1>11
<1> QED
  BY <1>1, <1>6, <1>11, <1>13, <1>14, <1>16, <1>17, <1>18, <1>19, ReceivedInv DEF x

(* The decoder keeps everything back.                                      *)
LEMMA ReceiveNoneInv ==
  ASSUME Inv, ReceiveNone
  PROVE  Inv'
<1> DEFINE m == Head(net)
           all == Decoded(m)
<1>1. /\ TakesMessage /\ net' = Tail(net) /\ CanDecode(m) /\ Len(all) <= MaxHeld
      /\ screen_update' = screen_update
      /\ h264_decoder' = [made |-> TRUE, ref |-> Reference(m.data), held |-> all]
  BY DEF ReceiveNone
<1>2. /\ all \in Seq(TrueImages) /\ Ascending(all) /\ Pics(all) \subseteq 0..grabbed
      /\ Below(Pics(all), OnTheWay') /\ Ahead(shown, Pics(all)) /\ Ahead(screen_update, Pics(all))
  BY <1>1, DecodedAll
<1>3. UNCHANGED <<size, grabbed, shown>>
  BY <1>1 DEF TakesMessage, serverVars
<1>4. Reference(m.data) \in 0..MaxPictures
  BY <1>1, TakeMessage, ReferenceType
<1> HIDE DEF m, all
<1>5. h264_decoder'.held = all /\ h264_decoder'.made = TRUE /\ h264_decoder'.ref = Reference(m.data)
  BY <1>1
<1>6. Decoder'
  BY <1>1, <1>2, <1>3, <1>5, SameSize DEF Decoder, Newer, Ahead
<1> QED
  BY <1>1, <1>4, <1>5, <1>6, UpdateStays, ReceivedInv

(* The message is lost, and the decoder keeps what it has.                 *)
LEMMA ReceiveErrorInv ==
  ASSUME Inv, ReceiveError
  PROVE  Inv'
<1>1. TakesMessage /\ net' = Tail(net) /\ screen_update' = screen_update
  BY DEF ReceiveError
<1>2. PICK ref \in {h264_decoder.ref, 0} :
        h264_decoder' = [h264_decoder EXCEPT !.made = @ \/ codec, !.ref = ref]
  BY DEF ReceiveError
<1>3. UNCHANGED <<size, screen, grabbed, shown>>
  BY <1>1 DEF TakesMessage, serverVars
<1>4. /\ h264_decoder'.made \in BOOLEAN /\ h264_decoder'.ref \in 0..MaxPictures
      /\ h264_decoder'.held = h264_decoder.held
  BY <1>2, BoundsAssumption DEF Inv, TypeOK, Decoder
<1>5. Decoder'
  BY <1>1, <1>3, <1>4, TakeMessage, HeldStays
<1>6. Len(h264_decoder'.held) <= MaxHeld
  BY <1>4 DEF Inv, TypeOK
<1> QED
  BY <1>1, <1>4, <1>5, <1>6, UpdateStays, ReceivedInv

(* The window is redrawn, or the assertion in ColorImage::from_rgb fails.  *)
LEMMA UpdateInv ==
  ASSUME Inv, UpdateScreen
  PROVE  Inv'
<1>1. /\ UNCHANGED <<size, screen, grabbed, encoder, pts, inside, frames, codec, h264_decoder>>
      /\ screen_update # Nothing /\ screen_update' = Nothing
  BY DEF UpdateScreen, serverVars
<1>2. session
  BY <1>1 DEF Inv, Live
<1>3. CASE screen_update.pixels = ScreenPixels
  <2>1. shown' = screen_update /\ UNCHANGED <<session, net, panic>>
    BY <1>3 DEF UpdateScreen
  <2>2. TypeOK'
    BY <1>1, <1>2, <2>1, SameSize DEF Inv, TypeOK, ImageOK
  <2>3. Channels' /\ Order'
    BY <1>1, <2>1, SameSize DEF Inv, Channels, Order, OnTheWay, Older
  <2>4. OnTheWay' = OnTheWay /\ Pending("h264")' = Pending("h264") /\ Pending("zstd")' = Pending("zstd")
    BY <1>1, <2>1 DEF OnTheWay, Pending
  <2>5. Change' /\ Decoder'
    BY <1>1, <2>1, <2>4, ChangeStays, HeldStays
  <2> QED
    BY <1>1, <1>2, <2>1, <2>2, <2>3, <2>5, SameImages DEF Inv, Live
<1>4. CASE screen_update.pixels # ScreenPixels
  <2>1. /\ shown' = Nothing /\ session' = FALSE /\ net' = <<>>
        /\ panic' = screen_update
    BY <1>4 DEF UpdateScreen
  <2>2. ImageOK(screen_update) /\ screen_update.encoding \in Encodings
    BY <1>1 DEF Inv, TypeOK, ImageOK
  <2>3. TypeOK'
    <3>1. \A i \in 1..Len(net') : FrameOK(net'[i]) /\ net'[i].data # <<>>
      BY <2>1, EmptyNet
    <3> QED
      BY <1>1, <2>1, <2>2, <3>1, SameSize DEF Inv, TypeOK, ImageOK
  <2>4. Channels'
    BY <1>1, <2>1, EmptyNet, SameSize DEF Inv, Channels
  <2>5. Order'
    BY <1>1, <2>1, EmptyNet DEF Inv, Order, OnTheWay, Older, Below
  <2>6. PanicOnlyMisfit'
    <3>1. Fits(screen_update.encoding, screen_update.pixels)
      BY <1>1 DEF Inv, TrueImage
    <3>2. BufferPixels(0) = ScreenPixels
      <4>1. size[1] \in Nat
        BY SizeAssumption DEF Inv, TypeOK
      <4>2. size[1] + 0 = size[1]
        BY <4>1
      <4> QED
        BY <4>2 DEF BufferPixels, ScreenPixels
    <3>3. \/ screen_update.encoding = "H264" /\ EncoderPixels # ScreenPixels
          \/ /\ screen_update.encoding = "ZstdCompressed"
             /\ \E pad \in Pads \ {0} : screen_update.pixels = BufferPixels(pad)
      BY <1>4, <2>2, <3>1, <3>2 DEF Fits, Encodings
    <3> QED
      BY <1>1, <2>1, <3>3, SameSize DEF PanicOnlyMisfit, BufferPixels
  <2>7. Change' /\ Decoder'
    BY <1>1, <2>1, LessUnderWay
  <2> QED
    BY <1>1, <2>1, <2>3, <2>4, <2>5, <2>6, <2>7, SameImages DEF Inv, Live
<1> QED
  BY <1>3, <1>4

(* Every step keeps the invariant.                                         *)
LEMMA NextInv ==
  ASSUME Inv, [Next]_vars
  PROVE  Inv'
<1>1. CASE Next
  BY <1>1, ChangeScreenInv, SoftwareInv, VideoInv, FailInv, DispatchInv, SessionInv,
     ReceiveSoftwareInv, ReceiveVideoInv, ReceiveNoneInv, ReceiveErrorInv, UpdateInv
     DEF Next, CaptureStep, ReceiveStep
<1>2. CASE UNCHANGED vars
  <2>1. UNCHANGED <<size, screen, grabbed, encoder, pts, inside, frames, session, net, codec,
                    h264_decoder, screen_update, shown, panic>>
    BY <1>2 DEF vars, serverVars, clientVars
  <2>2. TypeOK'
    BY <2>1, SameSize DEF Inv, TypeOK, ImageOK
  <2>3. Channels' /\ Order'
    BY <2>1, SameSize DEF Inv, Channels, Order, OnTheWay, Older
  <2>4. OnTheWay' = OnTheWay /\ Pending("h264")' = Pending("h264") /\ Pending("zstd")' = Pending("zstd")
    BY <2>1 DEF OnTheWay, Pending
  <2>5. Change' /\ Decoder'
    BY <2>1, <2>4, ChangeStays, HeldStays
  <2> QED
    BY <2>1, <2>2, <2>3, <2>5, SameImages DEF Inv, Live
<1> QED
  BY <1>1, <1>2

(* So it holds in every reachable state.                                   *)
LEMMA Invariance == Spec => []Inv
<1>1. Init => Inv
  BY InitInv
<1>2. Inv /\ [Next]_vars => Inv'
  BY NextInv
<1> QED
  BY <1>1, <1>2, PTL DEF Spec

(* What is in the encoder, the channels, the decoder and the window was    *)
(* captured, in the order of the packets; a message has data, and nothing  *)
(* is shown without a session.                                             *)
THEOREM TypeCorrect == Spec => []TypeOK
<1>1. Inv => TypeOK
  BY DEF Inv
<1> QED
  BY <1>1, Invariance, PTL

(* No picture decoded without the one it refers to reaches the window,     *)
(* whatever pacing skipped and the capture loop dropped, but from data     *)
(* with several pictures (server.rs, the match on frame_type; app.rs).     *)
THEOREM NoArtifact == Spec => []NoArtifacts
<1>1. ASSUME Inv PROVE NoArtifacts
  <2>1. CASE shown = Nothing
    BY <2>1 DEF NoArtifacts, Nothing, Image
  <2>2. CASE shown # Nothing
    BY <1>1, <2>2 DEF Inv, TrueImage, NoArtifacts
  <2> QED
    BY <2>1, <2>2
<1> QED
  BY <1>1, Invariance, PTL

(* The assertion in ColorImage::from_rgb fails only for the cropped frames *)
(* of a video encoder and for software frames with padded rows.            *)
THEOREM PanicsOnlyMisfit == Spec => []PanicOnlyMisfit
<1>1. Inv => PanicOnlyMisfit
  BY DEF Inv
<1> QED
  BY <1>1, Invariance, PTL

(* Within a connection the window never goes back to an earlier picture,   *)
(* however late encoder and decoder give out what they hold and wherever   *)
(* they fail.                                                              *)
THEOREM NeverBack == Spec => ShownForward
<1>1. ASSUME Inv, [Next]_vars
      PROVE  [shown # Nothing /\ shown' # Nothing => shown'.pic >= shown.pic]_vars
  <2> SUFFICES ASSUME shown # Nothing, shown' # Nothing, Next PROVE shown'.pic >= shown.pic
    BY <1>1
  <2>0. shown.pic \in Nat
    BY <1>1, BoundsAssumption DEF Inv, TypeOK, ImageOK, Pictures
  <2>1. CASE UpdateScreen
    <3>1. shown' = screen_update /\ screen_update # Nothing
      BY <2>1 DEF UpdateScreen
    <3>2. shown.pic <= screen_update.pic /\ screen_update.pic \in Nat
      BY <1>1, <3>1, BoundsAssumption DEF Inv, Order, TypeOK, ImageOK, Pictures
    <3> QED
      BY <2>0, <3>1, <3>2
  <2>2. CASE ~UpdateScreen
    <3>1. shown' = shown
      BY <2>2 DEF Next, ChangeScreen, CaptureStep, CaptureSoftware, CaptureWebP, CaptureVideo,
         EncoderFails, Grab, DispatchFrame, Connect, Disconnect, ReceiveStep, ReceiveSoftware,
         ReceiveVideo, ReceiveNone, ReceiveError, TakesMessage, clientVars
    <3> QED
      BY <2>0, <3>1
  <2> QED
    BY <2>1, <2>2
<1> QED
  BY <1>1, Invariance, PTL DEF Spec, ShownForward
=============================================================================
