--------------------------- MODULE FramingProofs ---------------------------
(***************************************************************************)
(* The frames implement a stream of messages, for every set of payloads    *)
(* shorter than a 4-byte length can say, every number of messages, and     *)
(* every way the bytes are cut into chunks.                                *)
(***************************************************************************)
EXTENDS Framing, SequenceTheorems, FiniteSetTheorems, TLAPS

(* Where frame i begins, or would begin if there were one more.            *)
Start(i) == IF i = 1 THEN 0 ELSE ends[i - 1]

(* Frame i of the wire is the frame of message i.                          *)
Holds(i) ==
    /\ ends[i] = Start(i) + 4 + Len(sent[i])
    /\ ends[i] <= Len(wire)
    /\ \A k \in 1..4 : wire[Start(i) + k] = to_be_bytes(Len(sent[i]))[k]
    /\ \A k \in 1..Len(sent[i]) : wire[Start(i) + 4 + k] = sent[i][k]

(* The wire is the frames of the messages taken, one after the other.      *)
Layout ==
    /\ Len(ends) = taken
    /\ Len(wire) = Start(taken + 1)
    /\ \A i \in 1..taken : Holds(i)
    /\ \A i, j \in 1..taken : i < j => ends[i] < ends[j]

(* The next message to be received is in the buffer.                       *)
HasNext == Len(received) < taken /\ ends[Len(received) + 1] <= got

(* What was taken out is what was sent, up to the frame the receiver is    *)
(* at; read_exact does not read beyond that frame, and the buffered reader *)
(* has none of the handshake left, nor waits while the frame is there.     *)
TakenOut ==
    /\ Len(received) <= taken
    /\ \A i \in 1..Len(received) : received[i] = sent[i]
    /\ parsed = Start(Len(received) + 1)
    /\ Len(received) < exact /\ Len(received) < taken => got <= ends[Len(received) + 1]
    /\ reader = "parse" => Len(received) >= exact
    /\ reader = "read" /\ Len(received) >= exact => ~HasNext

(* Nothing follows a Disconnect.                                           *)
DisconnectLast == \A i \in 1..Len(sent) : sent[i] = Disconnect => i = Len(sent)

Inv == TypeOK /\ Layout /\ TakenOut /\ DisconnectLast
-----------------------------------------------------------------------------
(* Division by the base: quotient and remainder.                           *)
LEMMA Division ==
  ASSUME NEW n \in Nat
  PROVE  /\ n \div Base \in Nat /\ n % Base \in Byte
         /\ n = (n \div Base) * Base + (n % Base)
BY BaseAssumption DEF Byte

(* A number below Base * m has a quotient below m.                         *)
LEMMA QuotientBound ==
  ASSUME NEW n \in Nat, NEW m \in Nat, n < m * Base
  PROVE  n \div Base < m
<1> DEFINE q == n \div Base
<1>1. q \in Nat /\ n >= q * Base
  BY Division, BaseAssumption DEF Byte
<1>2. Base \in Nat
  BY BaseAssumption
<1> HIDE DEF q
<1>3. CASE q >= m
  <2>1. q * Base >= m * Base
    BY <1>1, <1>2, <1>3
  <2>2. q * Base \in Nat /\ m * Base \in Nat
    BY <1>1, <1>2
  <2> QED
    BY <1>1, <2>1, <2>2
<1> QED
  BY <1>1, <1>3 DEF q

(* The four bytes of a length that fits into them are bytes, and give the  *)
(* length again (u32::to_be_bytes and u32::from_be_bytes).                 *)
LEMMA Digits ==
  ASSUME NEW n \in Nat, n < Base * Base * Base * Base
  PROVE  LET d == to_be_bytes(n)
         IN  /\ d \in Seq(Byte) /\ Len(d) = 4
             /\ n = ((d[1] * Base + d[2]) * Base + d[3]) * Base + d[4]
<1> DEFINE n1 == n \div Base
           n2 == n1 \div Base
           n3 == n2 \div Base
<1>0. /\ Base \in Nat /\ Base * Base \in Nat /\ Base * Base * Base \in Nat
  BY BaseAssumption
<1>1. /\ n1 \in Nat /\ n % Base \in Byte /\ n = n1 * Base + (n % Base)
  BY Division
<1> n1 < Base * Base * Base
  BY <1>0, QuotientBound
<1> HIDE DEF n1
<1>2. /\ n2 \in Nat /\ n1 % Base \in Byte /\ n1 = n2 * Base + (n1 % Base)
  BY <1>1, Division
<1> n2 < Base * Base
  BY <1>0, <1>1, QuotientBound
<1> HIDE DEF n2
<1>3. /\ n3 \in Nat /\ n2 % Base \in Byte /\ n2 = n3 * Base + (n2 % Base)
  BY <1>2, Division
<1> n3 < Base
  BY <1>0, <1>2, QuotientBound
<1> HIDE DEF n3
<1>4. n3 % Base = n3 /\ n3 \in Byte
  BY <1>0, <1>3 DEF Byte
<1>5. to_be_bytes(n) = << n3, n2 % Base, n1 % Base, n % Base >>
  BY <1>4 DEF to_be_bytes, n1, n2, n3
<1> DEFINE d == << n3, n2 % Base, n1 % Base, n % Base >>
<1>6. /\ d \in Seq(Byte) /\ Len(d) = 4
      /\ d[1] = n3 /\ d[2] = n2 % Base /\ d[3] = n1 % Base /\ d[4] = n % Base
  BY <1>1, <1>2, <1>3, <1>4
<1>7. n = ((d[1] * Base + d[2]) * Base + d[3]) * Base + d[4]
  BY <1>1, <1>2, <1>3, <1>6
<1> QED
  BY <1>5, <1>6, <1>7

(* The frame of a payload: four bytes that say its length, and its bytes.  *)
LEMMA FrameProperties ==
  ASSUME NEW p \in Payloads
  PROVE  /\ Frame(p) \in Seq(Byte) /\ Len(Frame(p)) = 4 + Len(p) /\ Len(p) \in Nat
         /\ \A k \in 1..4 : Frame(p)[k] = to_be_bytes(Len(p))[k]
         /\ \A k \in 1..Len(p) : Frame(p)[4 + k] = p[k]
<1> DEFINE d == to_be_bytes(Len(p))
<1>1. p \in Seq(Byte) /\ Len(p) \in Nat /\ Len(p) < Base * Base * Base * Base
  BY PayloadsAssumption, LengthAssumption, LenProperties
<1>2. d \in Seq(Byte) /\ Len(d) = 4
  BY <1>1, Digits
<1> HIDE DEF d
<1>3. /\ d \o p \in Seq(Byte) /\ Len(d \o p) = 4 + Len(p)
      /\ \A i \in 1..(4 + Len(p)) : (d \o p)[i] = IF i <= 4 THEN d[i] ELSE p[i - 4]
  <2>1. /\ d \o p \in Seq(Byte) /\ Len(d \o p) = Len(d) + Len(p)
        /\ \A i \in 1..(Len(d) + Len(p)) :
             (d \o p)[i] = IF i <= Len(d) THEN d[i] ELSE p[i - Len(d)]
    BY <1>1, <1>2, ConcatProperties, Zenon
  <2> QED
    BY <1>2, <2>1, Zenon
<1>4. \A k \in 1..4 : (d \o p)[k] = d[k]
  BY <1>1, <1>3
<1>5. \A k \in 1..Len(p) : (d \o p)[4 + k] = p[k]
  BY <1>1, <1>3
<1>6. Frame(p) = d \o p
  BY DEF Frame, d
<1> QED
  BY <1>1, <1>3, <1>4, <1>5, <1>6 DEF d

(* Lengths and offsets are numbers.                                        *)
LEMMA Numbers ==
  ASSUME TypeOK
  PROVE  /\ Len(sent) \in Nat /\ Len(received) \in Nat /\ Len(wire) \in Nat /\ Len(ends) \in Nat
         /\ taken \in Nat /\ written \in Nat /\ got \in Nat /\ parsed \in Nat /\ exact \in Nat
         /\ taken <= Len(sent) /\ written <= Len(wire) /\ got <= written /\ parsed <= got
BY LenProperties, CountsAssumption DEF TypeOK

(* A frame begins within the wire and ends within it.                      *)
LEMMA StartProperties ==
  ASSUME TypeOK, Layout, NEW i \in 1..taken
  PROVE  /\ Start(i) \in Nat /\ ends[i] \in Nat /\ sent[i] \in Payloads /\ Len(sent[i]) \in Nat
         /\ ends[i] = Start(i) + 4 + Len(sent[i]) /\ ends[i] <= Len(wire)
         /\ Start(i + 1) = ends[i]
<1>1. i \in 1..Len(ends) /\ i \in 1..Len(sent) /\ i \in Nat
  BY Numbers DEF Layout
<1>2. ends[i] \in Nat /\ sent[i] \in Payloads
  BY <1>1, ElementOfSeq DEF TypeOK
<1>3. i # 1 => ends[i - 1] \in Nat
  <2> SUFFICES ASSUME i # 1 PROVE ends[i - 1] \in Nat
    OBVIOUS
  <2>1. i - 1 \in 1..Len(ends)
    BY <1>1, Numbers
  <2> QED
    BY <2>1, ElementOfSeq DEF TypeOK
<1>4. Holds(i)
  BY DEF Layout
<1>5. Start(i + 1) = ends[i]
  BY <1>1 DEF Start
<1> QED
  BY <1>2, <1>3, <1>4, <1>5, FrameProperties DEF Start, Holds

(* What the receiver reads at the beginning of frame i: the length and the *)
(* payload of message i.                                                   *)
LEMMA FrameRead ==
  ASSUME TypeOK, Layout, NEW i \in 1..taken
  PROVE  from_be_bytes(Start(i)) = Len(sent[i]) /\ Payload(Start(i)) = sent[i]
<1> DEFINE o == Start(i)
           p == sent[i]
           d == to_be_bytes(Len(p))
<1>1. /\ o \in Nat /\ p \in Payloads /\ Len(p) \in Nat
      /\ ends[i] = o + 4 + Len(p) /\ ends[i] <= Len(wire)
  BY StartProperties
<1>2. Len(p) < Base * Base * Base * Base /\ p \in Seq(Byte)
  BY <1>1, PayloadsAssumption, LengthAssumption
<1>3. Len(p) = ((d[1] * Base + d[2]) * Base + d[3]) * Base + d[4]
  BY <1>1, <1>2, Digits
<1>4. /\ \A k \in 1..4 : wire[o + k] = d[k]
      /\ \A k \in 1..Len(p) : wire[o + 4 + k] = p[k]
  BY DEF Layout, Holds
<1> HIDE DEF o, p, d
<1>5. wire[o + 1] = d[1] /\ wire[o + 2] = d[2] /\ wire[o + 3] = d[3] /\ wire[o + 4] = d[4]
  BY <1>4
<1>6. from_be_bytes(o) = Len(p)
  BY <1>3, <1>5 DEF from_be_bytes
<1>7. SubSeq(wire, o + 5, o + 4 + Len(p)) = p
  <2> DEFINE s == SubSeq(wire, o + 5, o + 4 + Len(p))
  <2>1. \A j \in (o + 5)..(o + 4 + Len(p)) : wire[j] \in Byte
    <3> SUFFICES ASSUME NEW j \in (o + 5)..(o + 4 + Len(p)) PROVE wire[j] \in Byte
      OBVIOUS
    <3>1. j \in 1..Len(wire)
      BY <1>1, Numbers
    <3> QED
      BY <3>1, ElementOfSeq DEF TypeOK
  <2>2. o + 5 \in Int /\ o + 4 + Len(p) \in Int
    BY <1>1
  <2>3. /\ s \in Seq(Byte)
        /\ Len(s) = IF o + 5 <= o + 4 + Len(p) THEN (o + 4 + Len(p)) - (o + 5) + 1 ELSE 0
        /\ \A k \in 1..((o + 4 + Len(p)) - (o + 5) + 1) : s[k] = wire[(o + 5) + k - 1]
    BY <2>1, <2>2, SubSeqProperties
  <2> HIDE DEF s
  <2>4. Len(s) = Len(p)
    BY <1>1, <2>3
  <2>5. \A k \in 1..Len(p) : s[k] = p[k]
    <3> SUFFICES ASSUME NEW k \in 1..Len(p) PROVE s[k] = p[k]
      OBVIOUS
    <3>1. k \in 1..((o + 4 + Len(p)) - (o + 5) + 1) /\ (o + 5) + k - 1 = o + 4 + k
      BY <1>1
    <3> QED
      BY <1>4, <2>3, <3>1
  <2>6. s = p
    BY <1>2, <2>3, <2>4, <2>5, SeqEqual
  <2> QED
    BY <2>6 DEF s
<1> QED
  BY <1>6, <1>7 DEF Payload, o, p

(* The receiver is at the frame of the next message.                       *)
LEMMA AtFrame ==
  ASSUME Inv, Len(received) < taken
  PROVE  /\ Len(received) + 1 \in 1..taken
         /\ parsed = Start(Len(received) + 1)
         /\ from_be_bytes(parsed) = Len(sent[Len(received) + 1])
         /\ Payload(parsed) = sent[Len(received) + 1]
         /\ ends[Len(received) + 1] \in Nat /\ Len(sent[Len(received) + 1]) \in Nat
         /\ ends[Len(received) + 1] = parsed + 4 + Len(sent[Len(received) + 1])
<1>1. Len(received) + 1 \in 1..taken
  BY Numbers DEF Inv
<1> QED
  BY <1>1, FrameRead, StartProperties DEF Inv, TakenOut

(* Where there is no next message, the receiver is at the end of the wire. *)
LEMMA AtEnd ==
  ASSUME Inv, ~(Len(received) < taken)
  PROVE  Len(received) = taken /\ parsed = Len(wire) /\ got = parsed /\ written = parsed
<1>1. Len(received) = taken
  BY Numbers DEF Inv, TakenOut
<1> QED
  BY <1>1, Numbers DEF Inv, TakenOut, Layout

(* The loop's test finds out whether the next message is in the buffer.    *)
LEMMA CompleteIffHasNext ==
  ASSUME Inv
  PROVE  Complete(parsed) <=> HasNext
<1>1. CASE Len(received) < taken
  <2>0. PICK k \in Nat, l \in Nat : k = Len(received) + 1 /\ l = Len(sent[k])
    BY <1>1, AtFrame
  <2>1. from_be_bytes(parsed) = l /\ ends[k] = parsed + 4 + l
    BY <1>1, <2>0, AtFrame
  <2>2. got \in Nat /\ parsed \in Nat
    BY Numbers DEF Inv
  <2>3. Complete(parsed) <=> ends[k] <= got
    BY <2>1, <2>2 DEF Complete
  <2> QED
    BY <1>1, <2>0, <2>3 DEF HasNext
<1>2. CASE ~(Len(received) < taken)
  BY <1>2, AtEnd, Numbers DEF Inv, Complete, HasNext
<1> QED
  BY <1>1, <1>2

-----------------------------------------------------------------------------
(* The invariant holds in the beginning,                                   *)
LEMMA InitInv ==
  ASSUME Init
  PROVE  Inv
<1>1. /\ sent \in Seq(Payloads) /\ received \in Seq(Payloads)
      /\ wire \in Seq(Byte) /\ ends \in Seq(Nat)
      /\ Len(sent) = 0 /\ Len(received) = 0 /\ Len(wire) = 0 /\ Len(ends) = 0
  BY EmptySeq DEF Init
<1>2. TypeOK
  BY <1>1 DEF Init, TypeOK
<1>3. Layout
  BY <1>1 DEF Init, Layout, Start
<1>4. TakenOut
  BY <1>1 DEF Init, TakenOut, Start, HasNext
<1>5. DisconnectLast
  BY <1>1 DEF DisconnectLast
<1> QED
  BY <1>2, <1>3, <1>4, <1>5 DEF Inv

(* the steps that put nothing on the wire keep its layout,                 *)
LEMMA SameLayout ==
  ASSUME Inv, UNCHANGED <<sent, taken, wire, ends>>
  PROVE  Layout' /\ DisconnectLast'
BY DEF Inv, Layout, Holds, Start, DisconnectLast

(* and so do the actions of the sender                                     *)
LEMMA SendInv ==
  ASSUME Inv, Send
  PROVE  Inv'
<1>1. PICK p \in Payloads : sent' = Append(sent, p)
  BY DEF Send
<1>2. UNCHANGED <<taken, wire, ends, written, writer, got, parsed, received, reader, exact>>
  BY DEF Send, readerVars
<1>3. /\ sent' \in Seq(Payloads) /\ Len(sent') = Len(sent) + 1
      /\ \A i \in 1..Len(sent) : sent'[i] = sent[i]
  BY <1>1, AppendProperties DEF Inv, TypeOK
<1>4. TypeOK'
  BY <1>2, <1>3, Numbers DEF Inv, TypeOK
<1>5. \A i \in 1..taken : sent'[i] = sent[i]
  BY <1>3, Numbers DEF Inv
<1>6. Layout'
  <2>1. ASSUME NEW i \in 1..taken PROVE Holds(i)'
    <3>1. Holds(i) /\ sent'[i] = sent[i] /\ Start(i)' = Start(i)
      BY <1>2, <1>5 DEF Inv, Layout, Start
    <3> QED
      BY <1>2, <3>1 DEF Holds
  <2> QED
    BY <1>2, <2>1 DEF Inv, Layout, Start
<1>7. TakenOut'
  <2>1. \A i \in 1..Len(received) : i \in 1..taken
    BY Numbers DEF Inv, TakenOut
  <2> QED
    BY <1>2, <1>5, <2>1 DEF Inv, TakenOut, Start, HasNext
<1>8. DisconnectLast'
  <2>1. ASSUME NEW i \in 1..Len(sent), sent[i] = Disconnect PROVE FALSE
    <3>1. i = Len(sent) /\ sent # <<>>
      BY <2>1, EmptySeq, Numbers DEF Inv, DisconnectLast
    <3> QED
      BY <2>1, <3>1 DEF Send
  <2> QED
    BY <1>3, <2>1, Numbers DEF Inv, DisconnectLast
<1> QED
  BY <1>4, <1>6, <1>7, <1>8 DEF Inv

(* The writer task takes a message and puts its frame on the wire: the new *)
(* frame lies right behind the others and says the length of its payload.  *)
LEMMA TakeInv ==
  ASSUME Inv, Take
  PROVE  Inv'
<1> DEFINE p == sent[taken + 1]
           e == Len(wire) + 4 + Len(p)
<1>0. /\ written = Len(wire) /\ taken < Len(sent) /\ taken' = taken + 1
      /\ wire' = wire \o Frame(p) /\ ends' = Append(ends, e)
      /\ UNCHANGED <<sent, written, writer, got, parsed, received, reader, exact>>
  BY DEF Take, readerVars
<1>1. taken + 1 \in 1..Len(sent)
  BY <1>0, Numbers DEF Inv
<1>2. p \in Payloads
  BY <1>1, ElementOfSeq DEF Inv, TypeOK
<1> HIDE DEF p
<1>3. Len(p) \in Nat /\ e \in Nat /\ e > Len(wire)
  <2>1. Len(p) \in Nat
    BY <1>2, FrameProperties
  <2> QED
    BY <2>1, Numbers DEF Inv
<1> HIDE DEF e
<1> PICK t \in Nat : t = taken
  BY Numbers DEF Inv
<1> PICK n \in Nat : n = Len(received)
  BY Numbers DEF Inv
<1>4. /\ wire' \in Seq(Byte) /\ Len(wire') = e
      /\ \A i \in 1..Len(wire) : wire'[i] = wire[i]
      /\ \A i \in 1..(4 + Len(p)) : wire'[Len(wire) + i] = Frame(p)[i]
  <2>1. /\ wire \in Seq(Byte) /\ Frame(p) \in Seq(Byte) /\ Len(Frame(p)) = 4 + Len(p)
        /\ Len(wire) \in Nat
    <3>1. Frame(p) \in Seq(Byte) /\ Len(Frame(p)) = 4 + Len(p)
      BY <1>2, FrameProperties
    <3>2. wire \in Seq(Byte)
      BY DEF Inv, TypeOK
    <3>3. Len(wire) \in Nat
      BY Numbers DEF Inv
    <3> QED
      BY <3>1, <3>2, <3>3
  <2> DEFINE w == wire \o Frame(p)
  <2>2. /\ w \in Seq(Byte) /\ Len(w) = Len(wire) + Len(Frame(p))
        /\ \A i \in 1..(Len(wire) + Len(Frame(p))) :
             w[i] = IF i <= Len(wire) THEN wire[i] ELSE Frame(p)[i - Len(wire)]
    BY <2>1, ConcatProperties, ZenonT(60)
  <2> HIDE DEF w
  <2>3. Len(w) = e
    BY <1>3, <2>1, <2>2 DEF e
  <2>4. \A i \in 1..Len(wire) : w[i] = wire[i]
    BY <1>3, <2>1, <2>2
  <2>5. \A i \in 1..(4 + Len(p)) : w[Len(wire) + i] = Frame(p)[i]
    <3> SUFFICES ASSUME NEW i \in 1..(4 + Len(p)) PROVE w[Len(wire) + i] = Frame(p)[i]
      OBVIOUS
    <3>1. /\ Len(wire) + i \in 1..(Len(wire) + Len(Frame(p)))
          /\ ~(Len(wire) + i <= Len(wire)) /\ (Len(wire) + i) - Len(wire) = i
      BY <1>3, <2>1
    <3> QED
      BY <2>2, <3>1
  <2> QED
    BY <1>0, <2>2, <2>3, <2>4, <2>5 DEF w
<1>5. /\ ends' \in Seq(Nat) /\ Len(ends') = taken + 1
      /\ \A i \in 1..taken : ends'[i] = ends[i]
      /\ ends'[taken + 1] = e
  <2>1. ends \in Seq(Nat) /\ Len(ends) = taken
    BY DEF Inv, TypeOK, Layout
  <2> QED
    BY <1>0, <1>3, <2>1, AppendProperties
<1>6. TypeOK'
  BY <1>0, <1>1, <1>3, <1>4, <1>5, Numbers DEF Inv, TypeOK
<1>7. ASSUME NEW i \in 1..(t + 1)
      PROVE  Start(i)' = IF i = t + 1 THEN Len(wire) ELSE Start(i)
  <2>1. i = 1 \/ i - 1 \in 1..t
    BY Numbers DEF Inv
  <2> QED
    BY <1>5, <1>7, <2>1, Numbers DEF Inv, Layout, Start
<1>8. Layout'
  <2>1. Len(wire') = Start(t + 2)' /\ taken' + 1 = t + 2
    <3>1. taken' + 1 = t + 2 /\ t + 2 # 1 /\ (t + 2) - 1 = t + 1
      BY <1>0
    <3>2. Start(t + 2)' = ends'[t + 1]
      BY <3>1 DEF Start
    <3>3. ends'[t + 1] = Len(wire')
      BY <1>4, <1>5
    <3> QED
      BY <3>1, <3>2, <3>3
  <2>2. ASSUME NEW i \in 1..t PROVE Holds(i)'
    <3>1. /\ Start(i)' = Start(i) /\ ends'[i] = ends[i] /\ sent'[i] = sent[i]
          /\ Start(i) \in Nat /\ ends[i] \in Nat /\ Len(sent[i]) \in Nat
          /\ ends[i] = Start(i) + 4 + Len(sent[i]) /\ ends[i] <= Len(wire)
      <4>1. i \in 1..(t + 1) /\ i # t + 1 /\ i \in 1..taken
        OBVIOUS
      <4>2. Start(i)' = Start(i)
        BY <1>7, <4>1
      <4>3. ends'[i] = ends[i] /\ sent' = sent
        BY <1>0, <1>5, <4>1
      <4>4. /\ Start(i) \in Nat /\ ends[i] \in Nat /\ Len(sent[i]) \in Nat
            /\ ends[i] = Start(i) + 4 + Len(sent[i]) /\ ends[i] <= Len(wire)
        BY <4>1, StartProperties DEF Inv
      <4> QED
        BY <4>2, <4>3, <4>4
    <3>2. Holds(i)
      BY DEF Inv, Layout
    <3> PICK o \in Nat, l \in Nat : o = Start(i) /\ l = Len(sent[i])
      BY <3>1
    <3>6. o + 4 + l <= Len(wire) /\ Len(wire) \in Nat
      BY <3>1, Numbers DEF Inv
    <3>3. ends'[i] = Start(i)' + 4 + Len(sent'[i]) /\ ends'[i] <= Len(wire')
      BY <1>3, <1>4, <3>1, Numbers, SMTT(30) DEF Inv
    <3>4. \A k \in 1..4 : wire'[Start(i)' + k] = to_be_bytes(Len(sent'[i]))[k]
      <4> SUFFICES ASSUME NEW k \in 1..4
                   PROVE  wire'[Start(i)' + k] = to_be_bytes(Len(sent'[i]))[k]
        OBVIOUS
      <4>1. o + k \in 1..Len(wire)
        BY <3>6, SMTT(30)
      <4> QED
        BY <1>4, <3>1, <3>2, <4>1 DEF Holds
    <3>5. \A k \in 1..Len(sent'[i]) : wire'[Start(i)' + 4 + k] = sent'[i][k]
      <4> SUFFICES ASSUME NEW k \in 1..Len(sent[i])
                   PROVE  wire'[Start(i) + 4 + k] = sent[i][k]
        BY <3>1
      <4>1. o + 4 + k \in 1..Len(wire)
        BY <3>6
      <4> QED
        BY <1>4, <3>2, <4>1 DEF Holds
    <3> QED
      BY <3>3, <3>4, <3>5 DEF Holds
  <2>3. Holds(t + 1)'
    <3>1. Start(t + 1)' = Len(wire) /\ sent'[t + 1] = p
      BY <1>0, <1>7, Numbers DEF Inv, p
    <3>2. ends'[t + 1] = Len(wire) + 4 + Len(p) /\ ends'[t + 1] <= Len(wire')
      BY <1>3, <1>4, <1>5 DEF e
    <3>3. \A k \in 1..4 : wire'[Len(wire) + k] = to_be_bytes(Len(p))[k]
      BY <1>2, <1>3, <1>4, FrameProperties, SMTT(30)
    <3>4. \A k \in 1..Len(p) : wire'[Len(wire) + 4 + k] = p[k]
      <4> SUFFICES ASSUME NEW k \in 1..Len(p) PROVE wire'[Len(wire) + 4 + k] = p[k]
        OBVIOUS
      <4>1. 4 + k \in 1..(4 + Len(p)) /\ Len(wire) + 4 + k = Len(wire) + (4 + k)
        BY <1>3, Numbers DEF Inv
      <4> QED
        BY <1>2, <1>4, <4>1, FrameProperties
    <3> QED
      BY <3>1, <3>2, <3>3, <3>4 DEF Holds
  <2>4. \A i \in 1..(t + 1) : Holds(i)'
    BY <2>2, <2>3, Numbers DEF Inv
  <2>5. \A i, j \in 1..(t + 1) : i < j => ends'[i] < ends'[j]
    <3> SUFFICES ASSUME NEW i \in 1..(t + 1), NEW j \in 1..(t + 1), i < j
                 PROVE  ends'[i] < ends'[j]
      OBVIOUS
    <3>1. i \in 1..t
      BY Numbers DEF Inv
    <3>2. ends[i] \in Nat /\ ends[i] <= Len(wire) /\ ends'[i] = ends[i]
      <4>1. ends[i] \in Nat /\ ends[i] <= Len(wire)
        BY <3>1, StartProperties DEF Inv
      <4> QED
        BY <1>5, <3>1, <4>1
    <3>3. CASE j = t + 1
      <4>1. ends'[j] = e /\ e \in Nat /\ e > Len(wire)
        BY <1>3, <1>5, <3>3
      <4>2. Len(wire) \in Nat
        BY Numbers DEF Inv
      <4> QED
        BY <3>2, <4>1, <4>2
    <3>4. CASE j \in 1..t
      BY <1>5, <3>1, <3>2, <3>4 DEF Inv, Layout
    <3> QED
      BY <3>3, <3>4, Numbers DEF Inv
  <2> QED
    BY <1>0, <1>5, <2>1, <2>4, <2>5 DEF Layout
<1>9. TakenOut'
  <2>0. n <= taken /\ taken \in Nat
    BY Numbers DEF Inv, TakenOut
  <2>1. CASE n < taken
    <3>1. n + 1 \in 1..t /\ ends'[n + 1] = ends[n + 1] /\ Start(n + 1)' = Start(n + 1)
      BY <1>5, <1>7, <2>0, <2>1
    <3>2. HasNext' <=> HasNext
      BY <1>0, <2>0, <2>1, <3>1 DEF HasNext
    <3>3. parsed' = Start(n + 1)' /\ n <= taken' /\ \A i \in 1..n : received'[i] = sent'[i]
      BY <1>0, <2>0, <3>1 DEF Inv, TakenOut
    <3>4. n < exact /\ n < taken => got <= ends'[n + 1]
      BY <3>1 DEF Inv, TakenOut
    <3>5. /\ reader = "read" /\ n >= exact => ~HasNext
          /\ reader = "parse" => n >= exact
      BY DEF Inv, TakenOut
    <3>6. n = Len(received')
      BY <1>0
    <3> QED
      BY <1>0, <2>1, <3>2, <3>3, <3>4, <3>5, <3>6 DEF TakenOut, Start
  <2>2. CASE n = taken
    <3>1. parsed = Len(wire) /\ got = Len(wire) /\ Start(n + 1)' = Len(wire)
      BY <1>7, <2>0, <2>2, AtEnd
    <3>2. ends'[n + 1] = e /\ e > got /\ got \in Nat
      BY <1>3, <1>5, <2>2, <3>1, Numbers DEF Inv
    <3>3. ~HasNext' /\ got' <= ends'[n + 1]
      BY <1>0, <1>3, <3>2 DEF HasNext
    <3>4. /\ n <= taken' /\ \A i \in 1..n : received'[i] = sent'[i]
          /\ reader = "parse" => n >= exact
      BY <1>0, <2>0 DEF Inv, TakenOut
    <3>5. parsed' = Start(n + 1)' /\ n = Len(received')
      BY <1>0, <3>1
    <3> QED
      BY <1>0, <3>3, <3>4, <3>5 DEF TakenOut, Start
  <2> QED
    BY <2>0, <2>1, <2>2
<1>10. DisconnectLast'
  BY <1>0 DEF Inv, DisconnectLast
<1> QED
  BY <1>6, <1>8, <1>9, <1>10 DEF Inv

(* that only move bytes or end the task,                                   *)
LEMMA WriterInv ==
  ASSUME Inv, Write \/ DropSenders \/ WriterEnds \/ WriterAborted \/ Reset
  PROVE  Inv'
<1>1. UNCHANGED <<sent, taken, wire, ends, got, parsed, received, reader, exact>>
  BY DEF Write, DropSenders, WriterEnds, WriterAborted, Reset, readerVars
<1>2. written' \in got..Len(wire)
  BY Numbers DEF Inv, Write, DropSenders, WriterEnds, WriterAborted, Reset
<1>3. writer' \in {"open", "draining", "closed"}
  BY DEF Inv, TypeOK, Write, DropSenders, WriterEnds, WriterAborted, Reset
<1>4. TypeOK'
  BY <1>1, <1>2, <1>3, Numbers DEF Inv, TypeOK
<1>5. TakenOut'
  BY <1>1 DEF Inv, TakenOut, Start, HasNext
<1> QED
  BY <1>1, <1>4, <1>5, SameLayout DEF Inv

(* those of the receiver that read,                                        *)
LEMMA ReadExactInv ==
  ASSUME Inv, ReadExact
  PROVE  Inv'
<1> PICK n \in Nat : n = Len(received)
  BY Numbers DEF Inv
<1>1. /\ UNCHANGED <<sent, taken, wire, ends, written, writer, parsed, received, reader, exact>>
      /\ n < exact /\ ~Complete(parsed)
  BY DEF ReadExact, writerVars
<1>2. got' \in (got + 1)..written
  BY DEF ReadExact
<1>3. TypeOK'
  BY <1>1, <1>2, Numbers DEF Inv, TypeOK
<1>4. n < taken => got' <= ends[n + 1]
  <2> SUFFICES ASSUME n < taken PROVE got' <= ends[n + 1]
    OBVIOUS
  <2>0. PICK l \in Nat : l = Len(sent[n + 1])
    BY AtFrame
  <2>1. from_be_bytes(parsed) = l /\ ends[n + 1] = parsed + 4 + l
    BY <2>0, AtFrame
  <2>2. got' <= parsed + (IF got - parsed < 4 THEN 4 ELSE 4 + l)
    BY <2>1 DEF ReadExact
  <2>3. got \in Nat /\ parsed \in Nat /\ written \in Nat
    BY Numbers DEF Inv
  <2>4. got' \in Nat
    BY <1>2, <2>3
  <2> QED
    BY <2>1, <2>2, <2>3, <2>4
<1>5. TakenOut'
  <2>1. ~(n >= exact)
    BY <1>1, Numbers DEF Inv
  <2> QED
    BY <1>1, <1>4, <2>1 DEF Inv, TakenOut, Start
<1> QED
  BY <1>1, <1>3, <1>5, SameLayout DEF Inv

(* read_buf moves bytes from the socket into the buffer and keeps the      *)
(* place where the receiver is.                                            *)
LEMMA ReadBufInv ==
  ASSUME Inv, ReadBuf
  PROVE  Inv'
<1>1. /\ UNCHANGED <<sent, taken, wire, ends, written, writer, parsed, received, exact>>
      /\ Len(received) >= exact /\ reader' = "parse"
  BY DEF ReadBuf, writerVars
<1>2. got' \in (got + 1)..written
  BY DEF ReadBuf
<1>3. TypeOK'
  BY <1>1, <1>2, Numbers DEF Inv, TypeOK
<1>4. TakenOut'
  <2>1. ~(Len(received) < exact)
    BY <1>1, Numbers DEF Inv
  <2> QED
    BY <1>1, <2>1 DEF Inv, TakenOut, Start
<1> QED
  BY <1>1, <1>3, <1>4, SameLayout DEF Inv

(* What taking out the next message does: the offset moves to the frame    *)
(* after it.                                                               *)
LEMMA TakeOut ==
  ASSUME Inv, HasNext,
         received' = Append(received, Payload(parsed)),
         parsed' = ends[Len(received) + 1],
         UNCHANGED <<sent, taken, wire, ends, written, writer, got, exact>>,
         reader' \in {"read", "parse"}, reader' = "parse" => Len(received) >= exact,
         reader' = "read" /\ Len(received) + 1 >= exact => ~HasNext',
         Len(received) + 1 < exact => got = ends[Len(received) + 1]
  PROVE  Inv' /\ Len(received') = Len(received) + 1
<1> PICK n \in Nat : n = Len(received)
  BY Numbers DEF Inv
<1>0. n < taken
  BY DEF HasNext
<1>1. /\ n + 1 \in 1..taken /\ Payload(parsed) = sent[n + 1]
      /\ ends[n + 1] \in Nat /\ ends[n + 1] <= got
  BY <1>0, AtFrame DEF HasNext
<1>2. n + 1 \in 1..Len(sent)
  BY <1>1, Numbers DEF Inv
<1>3. sent[n + 1] \in Payloads
  BY <1>2, ElementOfSeq DEF Inv, TypeOK
<1>4. /\ received' \in Seq(Payloads) /\ Len(received') = n + 1
      /\ \A i \in 1..n : received'[i] = received[i]
      /\ received'[n + 1] = sent[n + 1]
  BY <1>1, <1>3, AppendProperties DEF Inv, TypeOK
<1>5. TypeOK'
  BY <1>1, <1>4, Numbers DEF Inv, TypeOK
<1>6. TakenOut'
  <2>1. n + 1 <= taken'
    BY <1>1, Numbers DEF Inv
  <2>2. \A i \in 1..(n + 1) : received'[i] = sent'[i]
    <3> SUFFICES ASSUME NEW i \in 1..(n + 1) PROVE received'[i] = sent[i]
      OBVIOUS
    <3>1. i \in 1..n \/ i = n + 1
      OBVIOUS
    <3> QED
      BY <1>4, <3>1 DEF Inv, TakenOut
  <2>3. parsed' = Start(n + 2)'
    BY DEF Start
  <2>4. n + 1 < exact /\ n + 1 < taken => got <= ends[n + 2]
    <3> SUFFICES ASSUME n + 1 < exact, n + 1 < taken PROVE got <= ends[n + 2]
      OBVIOUS
    <3>1. n + 2 \in 1..taken /\ n + 1 < n + 2
      BY Numbers DEF Inv
    <3>2. ends[n + 1] < ends[n + 2] /\ ends[n + 2] \in Nat
      BY <1>1, <3>1, StartProperties DEF Inv, Layout
    <3> QED
      BY <1>1, <3>2, Numbers DEF Inv
  <2>5. (n + 1) + 1 = n + 2 /\ (n >= exact => n + 1 >= exact)
    BY Numbers DEF Inv
  <2> QED
    BY <1>4, <2>1, <2>2, <2>3, <2>4, <2>5 DEF TakenOut
<1> QED
  BY <1>4, <1>5, <1>6, SameLayout DEF Inv

(* receive_message takes out a message that is there: the next one sent.   *)
LEMMA ReceiveExactInv ==
  ASSUME Inv, ReceiveExact
  PROVE  Inv' /\ HasNext
<1>1. /\ UNCHANGED <<sent, taken, wire, ends, written, writer, got, reader, exact>>
      /\ reader = "read" /\ Len(received) < exact /\ parsed' = got
      /\ received' = Append(received, Payload(parsed))
  BY DEF ReceiveExact, writerVars
<1>2. HasNext
  BY CompleteIffHasNext DEF ReceiveExact
<1> PICK n \in Nat : n = Len(received)
  BY Numbers DEF Inv
<1>3. /\ ends[n + 1] = got /\ ends[n + 1] \in Nat
  BY <1>1, <1>2, AtFrame, Numbers DEF Inv, TakenOut, HasNext
<1>4. ~HasNext'
  <2> SUFFICES ASSUME n + 1 < taken PROVE ~(ends[n + 2] <= got)
    <3>1. Len(received') = n + 1 /\ (n + 1) + 1 = n + 2
      <4>1. Payload(parsed) \in Payloads
        <5>1. n + 1 \in 1..Len(sent) /\ Payload(parsed) = sent[n + 1]
          BY <1>2, AtFrame, Numbers DEF Inv, HasNext
        <5> QED
          BY <5>1, ElementOfSeq DEF Inv, TypeOK
      <4> QED
        BY <1>1, <4>1, AppendProperties DEF Inv, TypeOK
    <3> QED
      BY <1>1, <3>1 DEF HasNext
  <2>1. n + 1 \in 1..taken /\ n + 2 \in 1..taken /\ n + 1 < n + 2
    BY Numbers DEF Inv
  <2>2. ends[n + 1] < ends[n + 2] /\ ends[n + 2] \in Nat
    BY <2>1, StartProperties DEF Inv, Layout
  <2> QED
    BY <1>3, <2>2
<1> QED
  BY <1>1, <1>2, <1>3, <1>4, TakeOut

(* So does the server's inner loop, which has already seen that the frame  *)
(* is complete.                                                            *)
LEMMA ParseInv ==
  ASSUME Inv, Parse
  PROVE  Inv' /\ HasNext
<1>1. /\ UNCHANGED <<sent, taken, wire, ends, written, writer, got, exact>>
      /\ reader = "parse" /\ parsed' = parsed + 4 + from_be_bytes(parsed)
      /\ received' = Append(received, Payload(parsed))
      /\ reader' = IF exact = 0 /\ Payload(parsed) = Disconnect THEN "read" ELSE "parse"
  BY DEF Parse, writerVars
<1>2. HasNext
  BY CompleteIffHasNext DEF Parse
<1> PICK n \in Nat : n = Len(received)
  BY Numbers DEF Inv
<1>3. /\ n + 1 \in 1..taken /\ Payload(parsed) = sent[n + 1]
      /\ ends[n + 1] \in Nat /\ parsed' = ends[n + 1]
  BY <1>1, <1>2, AtFrame DEF HasNext
<1>4. n >= exact /\ ~(n + 1 < exact)
  BY <1>1, Numbers DEF Inv, TakenOut
<1>5. reader' = "read" => ~HasNext'
  <2> SUFFICES ASSUME sent[n + 1] = Disconnect PROVE ~HasNext'
    BY <1>1, <1>3
  <2>1. n + 1 \in 1..Len(sent)
    BY <1>3, Numbers DEF Inv
  <2>2. n + 1 = Len(sent)
    BY <2>1 DEF Inv, DisconnectLast
  <2>3. Len(received') = n + 1
    <3>1. sent[n + 1] \in Payloads
      BY <2>1, ElementOfSeq DEF Inv, TypeOK
    <3> QED
      BY <1>1, <1>3, <3>1, AppendProperties DEF Inv, TypeOK
  <2> QED
    BY <1>1, <2>2, <2>3, Numbers DEF Inv, HasNext
<1> QED
  BY <1>1, <1>2, <1>3, <1>4, <1>5, TakeOut

(* and those that only change where its loop is.                           *)
LEMMA LoopInv ==
  ASSUME Inv, ParseDone \/ ReadEnd \/ ReaderStops
  PROVE  Inv'
<1>1. UNCHANGED <<sent, taken, wire, ends, written, writer, got, parsed, received, exact>>
  BY DEF ParseDone, ReadEnd, ReaderStops, writerVars
<1>2. HasNext' <=> HasNext
  BY <1>1 DEF HasNext
<1>3. (reader' = "read" /\ ~HasNext) \/ reader' = "stopped"
  BY CompleteIffHasNext DEF ParseDone, ReadEnd, ReaderStops
<1>4. TypeOK'
  BY <1>1, <1>3 DEF Inv, TypeOK
<1>5. TakenOut'
  BY <1>1, <1>2, <1>3 DEF Inv, TakenOut, Start
<1> QED
  BY <1>1, <1>4, <1>5, SameLayout DEF Inv

(* Every step keeps the invariant.                                         *)
LEMMA NextInv ==
  ASSUME Inv, [Next]_vars
  PROVE  Inv'
<1>1. CASE Next
  BY <1>1, SendInv, TakeInv, WriterInv, ReadExactInv, ReceiveExactInv, ReadBufInv, ParseInv,
     LoopInv DEF Next
<1>2. CASE UNCHANGED vars
  <2>1. UNCHANGED <<sent, taken, wire, ends, written, writer, got, parsed, received,
                    reader, exact>>
    BY <1>2 DEF vars, writerVars, readerVars
  <2>2. TypeOK'
    BY <2>1 DEF Inv, TypeOK
  <2>3. TakenOut'
    BY <2>1 DEF Inv, TakenOut, Start, HasNext
  <2> QED
    BY <2>1, <2>2, <2>3, SameLayout DEF Inv
<1> QED
  BY <1>1, <1>2

(* The layout of the wire and the receiver's place on a frame boundary     *)
(* hold in every reachable state.                                          *)
LEMMA Invariance == Spec => []Inv
<1>1. Init => Inv
  BY InitInv
<1>2. Inv /\ [Next]_vars => Inv'
  BY NextInv
<1> QED
  BY <1>1, <1>2, PTL DEF Spec

(* The offsets of both ends stay within the bytes that exist, and what the *)
(* receiver hands on are payloads (server.rs 102-118, connection.rs        *)
(* 118-135 and 205-239).                                                   *)
THEOREM TypeCorrect == Spec => []TypeOK
<1>1. Inv => TypeOK
  BY DEF Inv
<1> QED
  BY <1>1, Invariance, PTL

(* The receiver is always at the beginning of a frame, also where the      *)
(* client's reader takes the socket over from the handshake.               *)
THEOREM Alignment == Spec => []Aligned
<1>1. ASSUME Inv PROVE Aligned
  <2>1. received = <<>> <=> Len(received) = 0
    BY <1>1, EmptySeq DEF Inv, TypeOK
  <2> PICK n \in Nat : n = Len(received)
    BY <1>1, Numbers DEF Inv
  <2>2. parsed = IF n + 1 = 1 THEN 0 ELSE ends[(n + 1) - 1]
    BY <1>1 DEF Inv, TakenOut, Start
  <2>3. (n + 1 = 1 <=> n = 0) /\ (n + 1) - 1 = n
    OBVIOUS
  <2> QED
    BY <2>1, <2>2, <2>3 DEF Aligned
<1> QED
  BY <1>1, Invariance, PTL

(* The buffered receivers never wait for bytes while a complete message is *)
(* in the buffer, also after the server's "break" on Disconnect.           *)
THEOREM NoStalling == Spec => []NoStall
<1>1. ASSUME Inv PROVE NoStall
  BY <1>1, CompleteIffHasNext DEF Inv, TakenOut, NoStall
<1> QED
  BY <1>1, Invariance, PTL

-----------------------------------------------------------------------------
(* The frames that went out whole, when the kernel accepted w bytes.       *)
WholeUpTo(w) == {i \in DOMAIN ends : ends[i] <= w}

(* They are at most the messages taken, fewer bytes hold no more of them,  *)
(* and the first n are among them where frame n is.                        *)
LEMMA WholeCount ==
  ASSUME Inv, NEW w \in Nat
  PROVE  /\ Cardinality(WholeUpTo(w)) \in 0..taken
         /\ \A v \in 0..w : Cardinality(WholeUpTo(v)) <= Cardinality(WholeUpTo(w))
         /\ \A n \in 0..taken : (n = 0 \/ ends[n] <= w) => n <= Cardinality(WholeUpTo(w))
<1>0. taken \in Nat /\ DOMAIN ends = 1..taken
  BY Numbers, LenProperties DEF Inv, TypeOK, Layout
<1>1. /\ IsFiniteSet(1..taken) /\ Cardinality(1..taken) = taken
  <2>1. 0 \in Int /\ taken \in Int /\ 1 \in Int
    BY <1>0
  <2>2. /\ IsFiniteSet(1..taken)
        /\ Cardinality(1..taken) = IF 1 > taken THEN 0 ELSE taken - 1 + 1
    BY <2>1, FS_Interval
  <2> QED
    BY <1>0, <2>2
<1>2. WholeUpTo(w) \subseteq 1..taken
  BY <1>0 DEF WholeUpTo
<1>3. /\ IsFiniteSet(WholeUpTo(w)) /\ Cardinality(WholeUpTo(w)) \in Nat
      /\ Cardinality(WholeUpTo(w)) <= taken
  BY <1>1, <1>2, FS_Subset, FS_CardinalityType
<1>4. ASSUME NEW v \in 0..w PROVE Cardinality(WholeUpTo(v)) <= Cardinality(WholeUpTo(w))
  <2>1. \A i \in 1..taken : ends[i] \in Nat
    BY StartProperties DEF Inv
  <2>2. WholeUpTo(v) \subseteq WholeUpTo(w)
    BY <1>0, <2>1 DEF WholeUpTo
  <2> QED
    BY <1>3, <2>2, FS_Subset
<1>5. ASSUME NEW n \in 0..taken, n = 0 \/ ends[n] <= w
      PROVE  n <= Cardinality(WholeUpTo(w))
  <2>1. 1..n \subseteq WholeUpTo(w)
    <3> SUFFICES ASSUME NEW i \in 1..n PROVE i \in WholeUpTo(w)
      OBVIOUS
    <3>1. i \in 1..taken /\ n \in 1..taken /\ n # 0
      BY <1>0
    <3>2. ends[i] \in Nat /\ ends[n] \in Nat /\ (i < n => ends[i] < ends[n])
      BY <3>1, StartProperties DEF Inv, Layout
    <3> QED
      BY <1>0, <1>5, <3>1, <3>2 DEF WholeUpTo
  <2>2. Cardinality(1..n) = n
    <3>1. Cardinality(1..n) = IF 1 > n THEN 0 ELSE n - 1 + 1
      BY <1>0, FS_Interval
    <3> QED
      BY <1>0, <3>1
  <2>3. Cardinality(1..n) <= Cardinality(WholeUpTo(w))
    BY <1>3, <2>1, FS_Subset
  <2> QED
    BY <2>2, <2>3
<1> QED
  BY <1>0, <1>3, <1>4, <1>5

(* What is owed lies between what was received and what was sent.          *)
LEMMA OwedBetween ==
  ASSUME Inv
  PROVE  /\ Owed \in Len(received)..Len(sent)
         /\ Cardinality(WholeUpTo(written)) \in Len(received)..Len(sent)
         /\ Cardinality(WholeUpTo(got)) \in Len(received)..Cardinality(WholeUpTo(written))
         /\ HasNext => Len(received) < Cardinality(WholeUpTo(written)) /\ Len(received) < Len(sent)
         /\ written = Len(wire) => Cardinality(WholeUpTo(written)) = taken
<1> PICK n \in Nat : n = Len(received)
  BY Numbers DEF Inv
<1> DEFINE c == Cardinality(WholeUpTo(written))
           g == Cardinality(WholeUpTo(got))
<1>0. n <= taken /\ taken \in Nat /\ taken <= Len(sent) /\ Len(sent) \in Nat
  BY Numbers DEF Inv, TakenOut
<1>1. written \in Nat /\ got \in 0..written /\ got \in Nat /\ parsed \in Nat /\ parsed <= got
  BY Numbers DEF Inv
<1>2. c \in 0..taken /\ g \in 0..taken /\ g <= c
  BY <1>1, WholeCount
<1> HIDE DEF c, g
<1>3. n <= g
  <2>1. n = 0 \/ ends[n] <= got
    <3>1. (n + 1 = 1 <=> n = 0) /\ (n + 1) - 1 = n
      OBVIOUS
    <3>2. n # 0 => parsed = ends[n]
      BY <3>1 DEF Inv, TakenOut, Start
    <3> QED
      BY <1>1, <3>2
  <2>2. n \in 0..taken
    BY <1>0
  <2> QED
    BY <1>1, <2>1, <2>2, WholeCount DEF g
<1>4. HasNext => n < c /\ n < Len(sent)
  <2> SUFFICES ASSUME HasNext PROVE n < c
    BY <1>0, <1>2
  <2>1. n + 1 \in 0..taken /\ ends[n + 1] <= got /\ ends[n + 1] \in Nat
    BY AtFrame DEF HasNext
  <2>2. ends[n + 1] <= written
    BY <1>1, <2>1
  <2>3. n + 1 <= c
    BY <1>1, <2>1, <2>2, WholeCount DEF c
  <2> QED
    BY <1>2, <2>3
<1>5. written = Len(wire) => c = taken
  <2> SUFFICES ASSUME written = Len(wire) PROVE taken <= c
    BY <1>0, <1>2
  <2>1. taken = 0 \/ ends[taken] <= written
    <3>1. taken # 0 => taken \in 1..taken
      BY <1>0
    <3> QED
      BY <3>1, StartProperties DEF Inv
  <2>2. taken \in 0..taken
    BY <1>0
  <2> QED
    BY <1>1, <2>1, <2>2, WholeCount DEF c
<1>6. c \in n..Len(sent) /\ g \in n..c
  BY <1>0, <1>2, <1>3
<1>7. Owed \in n..Len(sent)
  <2>1. Owed = IF reader = "stopped" THEN n ELSE IF writer = "closed" THEN c ELSE Len(sent)
    BY DEF Owed, WholeUpTo, c
  <2> QED
    BY <1>0, <1>6, <2>1
<1> QED
  BY <1>4, <1>5, <1>6, <1>7 DEF c, g

(* A message taken out of the buffer was owed, and is the next one sent.   *)
LEMMA ReceiveStep ==
  ASSUME Inv, ReceiveExact \/ Parse
  PROVE  Stream!Receive
<1>1. /\ UNCHANGED <<sent, taken, wire, ends, written, writer, got, exact>>
      /\ reader # "stopped" /\ reader' # "stopped"
      /\ received' = Append(received, Payload(parsed))
  BY DEF ReceiveExact, Parse, writerVars
<1>2. HasNext
  BY ReceiveExactInv, ParseInv
<1>3. Payload(parsed) = sent[Len(received) + 1]
  BY <1>2, AtFrame DEF HasNext
<1>4. Len(received) < Owed
  BY <1>1, <1>2, OwedBetween DEF Owed, WholeUpTo
<1>5. Owed' = Owed
  BY <1>1 DEF Owed
<1> QED
  BY <1>1, <1>3, <1>4, <1>5 DEF Stream!Receive

(* A message sent while both ends are there is owed.                       *)
LEMMA SendStep ==
  ASSUME Inv, Send
  PROVE  Stream!Send
<1>1. PICK p \in Payloads : sent' = Append(sent, p)
  BY DEF Send
<1>2. UNCHANGED <<taken, wire, ends, written, writer, received, reader>> /\ writer # "closed"
  BY DEF Send, readerVars
<1>3. Len(sent') = Len(sent) + 1
  BY <1>1, AppendProperties DEF Inv, TypeOK
<1>4. Owed' = IF reader = "stopped" THEN Owed ELSE Owed + 1
  BY <1>2, <1>3 DEF Owed
<1> QED
  BY <1>1, <1>2, <1>4 DEF Stream!Send

(* The end of the writer, or of what it wrote, cuts the stream, if it      *)
(* loses anything.                                                         *)
LEMMA WriterStep ==
  ASSUME Inv, WriterEnds \/ WriterAborted \/ Reset
  PROVE  Stream!Cut \/ UNCHANGED Stream!vars
<1> DEFINE c == Cardinality(WholeUpTo(written))
           d == Cardinality(WholeUpTo(written'))
<1>1. UNCHANGED <<sent, taken, wire, ends, got, received, reader>> /\ writer' = "closed"
  BY DEF WriterEnds, WriterAborted, Reset, readerVars
<1>2. CASE reader = "stopped"
  BY <1>1, <1>2 DEF Owed, Stream!vars
<1>3. CASE reader # "stopped"
  <2>1. Owed' = d /\ Owed = IF writer = "closed" THEN c ELSE Len(sent)
    BY <1>1, <1>3 DEF Owed, WholeUpTo
  <2>2. written' = written \/ written' = got
    BY DEF WriterEnds, WriterAborted, Reset
  <2>3. /\ c \in Len(received)..Len(sent) /\ d \in Len(received)..c
        /\ Len(received) \in Nat /\ Len(sent) \in Nat
    BY <2>2, OwedBetween, Numbers DEF Inv
  <2> HIDE DEF c, d
  <2>4. CASE d < Len(sent)
    <3>1. Owed' \in Len(received)..Owed
      BY <2>1, <2>3
    <3>2. Owed' < Len(sent')
      BY <1>1, <2>1, <2>4
    <3> QED
      BY <1>1, <3>1, <3>2 DEF Stream!Cut
  <2>5. CASE ~(d < Len(sent))
    <3>1. d = Len(sent) /\ c = Len(sent)
      BY <2>3, <2>5
    <3>2. Owed' = Owed /\ ~(Owed < Len(sent))
      BY <2>1, <2>3, <3>1
    <3> QED
      BY <1>1, <1>3, <3>2 DEF Stream!vars
  <2> QED
    BY <2>4, <2>5
<1> QED
  BY <1>2, <1>3

(* The end of the receiver cuts it; the other steps are inside.            *)
LEMMA StopStep ==
  ASSUME Inv, ReadEnd \/ ReaderStops
  PROVE  Stream!Cut
<1>1. UNCHANGED <<sent, received>> /\ reader' = "stopped"
  BY DEF ReadEnd, ReaderStops, writerVars
<1>2. Owed' = Len(received)
  BY <1>1 DEF Owed
<1>3. Len(received) \in Len(received)..Owed
  BY OwedBetween, Numbers DEF Inv
<1> QED
  BY <1>1, <1>2, <1>3 DEF Stream!Cut

(* The steps that move bytes or messages inside an end are stutters of the *)
(* stream.                                                                 *)
LEMMA InsideStep ==
  ASSUME Inv, Take \/ Write \/ DropSenders \/ ReadExact \/ ReadBuf \/ ParseDone
  PROVE  UNCHANGED Stream!vars
<1>1. /\ UNCHANGED <<sent, received>>
      /\ reader' = "stopped" <=> reader = "stopped"
      /\ writer' = "closed" <=> writer = "closed"
      /\ writer = "closed" => UNCHANGED <<ends, written>>
  BY DEF Take, Write, DropSenders, ReadExact, ReadBuf, ParseDone, writerVars, readerVars
<1>2. Owed' = Owed
  BY <1>1 DEF Owed
<1> QED
  BY <1>1, <1>2 DEF Stream!vars

(* The frames implement the stream of messages (its safety): what          *)
(* send_message puts on a TCP connection, aborted or reset anywhere, comes *)
(* out of the two receivers in order, each message once, none torn, none   *)
(* made up, and nothing is skipped that went out whole.                    *)
THEOREM FramesImplementStream == Spec => Stream!Safety
<1>1. Init => Stream!Init
  <2> SUFFICES ASSUME Init PROVE Stream!Init
    OBVIOUS
  <2>1. Len(sent) = 0
    BY EmptySeq DEF Init
  <2>2. Owed = 0
    BY <2>1 DEF Init, Owed
  <2> QED
    BY <2>2 DEF Init, Stream!Init
<1>2. ASSUME Inv, [Next]_vars PROVE [Stream!Next]_(Stream!vars)
  <2>1. CASE Send
    BY <1>2, <2>1, SendStep DEF Stream!Next
  <2>2. CASE ReceiveExact \/ Parse
    BY <1>2, <2>2, ReceiveStep DEF Stream!Next
  <2>3. CASE WriterEnds \/ WriterAborted \/ Reset
    BY <1>2, <2>3, WriterStep DEF Stream!Next
  <2>4. CASE ReadEnd \/ ReaderStops
    BY <1>2, <2>4, StopStep DEF Stream!Next
  <2>5. CASE Take \/ Write \/ DropSenders \/ ReadExact \/ ReadBuf \/ ParseDone
    BY <1>2, <2>5, InsideStep
  <2>6. CASE UNCHANGED vars
    <3>1. UNCHANGED <<sent, ends, written, writer, received, reader>>
      BY <2>6 DEF vars, writerVars, readerVars
    <3>2. Owed' = Owed
      BY <3>1 DEF Owed
    <3> QED
      BY <3>1, <3>2 DEF Stream!vars
  <2> QED
    BY <1>2, <2>1, <2>2, <2>3, <2>4, <2>5, <2>6 DEF Next
<1> QED
  BY <1>1, <1>2, Invariance, PTL DEF Spec, Stream!Safety
=============================================================================
