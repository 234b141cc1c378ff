-------------------------- MODULE VoxSystemProofs ---------------------------
(***************************************************************************)
(* What the composed system promises, for every number of connections,     *)
(* every window and every number of frames, inputs and requests:           *)
(*                                                                         *)
(*   types, the session table, the agreement of keys and the absence of    *)
(*   protocol errors, which follow from Inv (VoxInvariant);                *)
(*                                                                         *)
(*   the order of frames, the truth of the state in the window, the        *)
(*   confirmation of a chosen quality and the order of inputs, each with   *)
(*   an invariant of its own, proved on top of Inv: FramesInv, HonestInv,  *)
(*   QualityInv and InputsInv. For these, every step of the system is      *)
(*   first classified by what it does to a connection's way down           *)
(*   (DownStep), its stage (StageStep), its reports (ReportStep) or its way*)
(*   up (UpStep), so that an invariant is checked for a handful of cases.  *)
(***************************************************************************)
EXTENDS VoxClientProofs

(* The initial states satisfy the invariant.                               *)
LEMMA InitInv ==
  ASSUME Init
  PROVE  Inv
<1> USE DEF Init, WireInit, ServerInit, ClientInit
<1>1. WireTypeOK
  BY EmptySeq DEF WireTypeOK
<1>2. ServerTypeOK
  BY EmptySeq, FramesAssumption DEF ServerTypeOK, HandlerStates, Keys
<1>3. ClientTypeOK
  BY EmptySeq, MaxConnAssumption, ModesAssumption, InputsAssumption
  DEF ClientTypeOK, Keys, AppStates, NoTexture
<1>4. SessionTable /\ \A c \in Conns : NoSession(c)
  BY DEF SessionTable, NoSession
<1>5. ASSUME NEW c \in Conns PROVE ConnInv(c)
  <2>1. Queues(c)
    BY EmptySeq DEF Queues
  <2>2. /\ Len(hbuf[c]) + Len(toServer[c]) = 0 /\ Len(txq[c]) + Len(toClient[c]) = 0
        /\ Len(hbuf[c]) + Len(toServer[c]) <= 1
    <3>1. Len(hbuf[c]) = 0 /\ Len(toServer[c]) = 0 /\ Len(txq[c]) = 0 /\ Len(toClient[c]) = 0
      OBVIOUS
    <3> QED
      BY <3>1
  <2>3. BeforeTcp(c) /\ BeforeAck(c) /\ AfterAck(c) /\ Handler(c)
    BY <2>2 DEF BeforeTcp, BeforeAck, AfterAck, Handler
  <2>4. BeforeUp(c)
    BY <1>4, <2>2 DEF BeforeUp
  <2> QED
    BY <2>1, <2>3, <2>4 DEF ConnInv
<1> QED
  BY <1>1, <1>2, <1>3, <1>4, <1>5 DEF Inv, TypeOK

(* Every step of the server keeps it,                                      *)
LEMMA ServerNextInv ==
  ASSUME Inv, ServerNext, UNCHANGED clientVars
  PROVE  Inv'
<1>1. ASSUME NEW c \in Conns, HandlerStep(c) PROVE Inv'
  BY <1>1, AcceptInv, ReadBufInv, CleanupInv, HandlerErrorInv, HandleKeyExchangeInv,
     HandleAuthRequestInv, AuthReplyInv, HandleStartStreamInv, HandleQualityRequestInv,
     HandleInputInv, HandleOtherInv, HandleDisconnectInv
  DEF HandlerStep
<1>2. ASSUME NEW c \in Conns, ServerWriterStep(c) PROVE Inv'
  BY <1>2, ServerWriteInv, ServerWriterEndsInv DEF ServerWriterStep
<1>3. ASSUME VisitStep PROVE Inv'
  BY <1>3, SkipSessionInv, SendFrameInv DEF VisitStep
<1> QED
  BY <1>1, <1>2, <1>3, CaptureInv, ExpireCodeInv, ServerExitInv DEF ServerNext

(* every step of the client,                                               *)
LEMMA ClientNextInv ==
  ASSUME Inv, ClientNext, UNCHANGED serverVars
  PROVE  Inv'
<1>1. ASSUME NEW c \in Conns, ConnectStep(c) PROVE Inv'
  BY <1>1, TcpConnectInv, TcpRefusedInv, RecvAckInv, RecvAuthInv, HandshakeClosedInv
  DEF ConnectStep
<1>2. ASSUME NEW c \in Conns, TaskStep(c) PROVE Inv'
  BY <1>2, ReaderRecvInv, ReaderEndsInv, MainForwardInv, MainEndsInv, ForwarderSendInv,
     ForwarderEndsInv, WriterSendInv, WriterEndsInv
  DEF TaskStep
<1>3. ASSUME UserStep PROVE Inv'
  BY <1>3, ConnectInv, DisconnectInv, UserInputInv, ExitInv, RequestQualityInv DEF UserStep
<1> QED
  BY <1>1, <1>2, <1>3, UpdateInv DEF ClientNext

(* and every step of something else.                                       *)
LEMMA StutterInv ==
  ASSUME Inv, UNCHANGED vars
  PROVE  Inv'
<1>1. TypeOK' /\ TableCalm
  BY DEF vars, wireVars, serverVars, clientVars, Inv, TypeOK, WireTypeOK, ServerTypeOK,
         ClientTypeOK, TableCalm
<1>2. \A d \in Conns : (NoSession(d) => NoSession(d)') => Same(d)
  BY DEF vars, wireVars, serverVars, clientVars, Same
<1> QED
  BY <1>1, <1>2, AllSame

(* The invariant is inductive.                                             *)
LEMMA NextInv == Inv /\ [Next]_vars => Inv'
  BY ServerNextInv, ClientNextInv, StutterInv DEF Next

(* Inv holds in every reachable state: which messages can be under way at  *)
(* which stage of a connection, for any number of connections              *)
(* (client/connection.rs and server/server.rs together).                   *)
THEOREM Invariance == Spec => []Inv
  BY InitInv, NextInv, PTL DEF Spec

(* Every variable keeps its type; in particular the sessions the capture   *)
(* loop still has to visit stay in the table while it holds the read guard *)
(* (screen_capture_loop).                                                  *)
THEOREM TypeCorrect == Spec => []TypeOK
<1>1. Inv => TypeOK
  BY DEF Inv
<1> QED
  BY <1>1, Invariance, PTL

(* An entry of the session table was made by the handler of its            *)
(* connection, for the displayed code, with that connection's key, is that *)
(* handler's only one, and is gone once the handler has cleaned up         *)
(* (handle_client, AuthRequest and Cleanup).                               *)
THEOREM TableCorrect == Spec => []SessionTable
<1>1. Inv => SessionTable
  BY DEF Inv
<1> QED
  BY <1>1, Invariance, PTL

(* Queues over messages under one key are readable with it.                *)
LEMMA AllUnderFacts ==
  ASSUME NEW S, NEW q \in Seq(S), NEW key, \A m \in S : m.key = key
  PROVE  AllUnder(q, key)
  BY ElementOfSeq DEF AllUnder, Decrypts

(* Whatever is under way can be decrypted by whoever will read it: the     *)
(* client's messages by the handler, and once the client has its key, the  *)
(* handler's and the capture loop's by the client (the repair in           *)
(* FIXES_SUMMARY.md).                                                      *)
THEOREM KeysAgree == Spec => []InFlightReadable
<1>1. ASSUME Inv PROVE InFlightReadable
  <2> SUFFICES ASSUME NEW c \in Conns
               PROVE  /\ AllUnder(hbuf[c], hkey[c]) /\ AllUnder(toServer[c], hkey[c])
                      /\ cst[c] \in {"auth", "up"} =>
                            AllUnder(txq[c], ckey[c]) /\ AllUnder(toClient[c], ckey[c])
    BY DEF InFlightReadable
  <2>1. Queues(c)
    BY <1>1 DEF Inv, ConnInv
  <2>2. \A m \in Up(c) : m.key = hkey[c]
    BY DEF Up, UpMessages
  <2>3. cst[c] \in {"auth", "up"} => \A m \in Down(c) : m.key = ckey[c]
    BY DEF Down, DownMessages
  <2> QED
    BY <2>1, <2>2, <2>3, AllUnderFacts DEF Queues
<1> QED
  BY <1>1, Invariance, PTL

(* The shipped client never drives a handler into a protocol error: no     *)
(* message fails to decrypt or comes before the key exchange, and the      *)
(* first thing the client reads is the KeyExchangeAck.                     *)
THEOREM ProtocolErrors == Spec => []NoProtocolError
<1>1. Inv => NoProtocolError
  BY DEF Inv, ConnInv, Handler, NoProtocolError
<1> QED
  BY <1>1, Invariance, PTL

-----------------------------------------------------------------------------
(* The numbers that the messages of a type carry along a queue, and their  *)
(* order: each is at least `gap' above the ones before it.                 *)
Args(q, type) == {q[i].arg : i \in Places(q, type)}
Below(A, B, gap) == \A a \in A, b \in B : a + gap <= b
Rising(q, type, gap) ==
    \A i, j \in Places(q, type) : i < j => q[i].arg + gap <= q[j].arg

(* The numbers of one message.                                             *)
ArgOf(m, type) == IF m.type = type THEN {m.arg} ELSE {}

(* An empty queue.                                                         *)
LEMMA ArgsNone ==
  ASSUME NEW type, NEW gap
  PROVE  Args(<<>>, type) = {} /\ Rising(<<>>, type, gap) /\ Places(<<>>, type) = {}
  BY DEF Args, Rising, Places

(* A message put behind the others.                                        *)
LEMMA ArgsAppend ==
  ASSUME NEW q \in Seq(Messages), NEW m \in Messages, NEW type
  PROVE  /\ Append(q, m) \in Seq(Messages)
         /\ Args(Append(q, m), type) = Args(q, type) \cup ArgOf(m, type)
         /\ \A gap : Rising(q, type, gap) /\ Below(Args(q, type), ArgOf(m, type), gap)
                        => Rising(Append(q, m), type, gap)
<1> DEFINE s == Append(q, m)
<1>1. /\ s \in Seq(Messages) /\ Len(q) \in Nat /\ Len(s) = Len(q) + 1 /\ s[Len(s)] = m
      /\ \A i \in 1..Len(q) : s[i] = q[i]
  BY AppendProperties, LenProperties
<1> HIDE DEF s
<1>2. Places(s, type) = Places(q, type) \cup (IF m.type = type THEN {Len(s)} ELSE {})
  BY <1>1 DEF Places
<1>3. /\ \A i \in Places(q, type) : i \in 1..Len(q) /\ s[i] = q[i]
      /\ \A i \in Places(q, type) : i \in Nat /\ i < Len(s)
  BY <1>1 DEF Places
<1>4. Args(s, type) = Args(q, type) \cup ArgOf(m, type)
  <2>1. ASSUME NEW a \in Args(s, type) PROVE a \in Args(q, type) \cup ArgOf(m, type)
    BY <1>1, <1>2, <1>3 DEF Args, ArgOf
  <2>2. ASSUME NEW a \in Args(q, type) \cup ArgOf(m, type) PROVE a \in Args(s, type)
    <3>1. CASE a \in Args(q, type)
      BY <1>2, <1>3, <3>1 DEF Args
    <3>2. CASE a \in ArgOf(m, type)
      BY <1>1, <1>2, <3>2 DEF Args, ArgOf
    <3> QED
      BY <3>1, <3>2
  <2> QED
    BY <2>1, <2>2
<1>5. ASSUME NEW gap, Rising(q, type, gap), Below(Args(q, type), ArgOf(m, type), gap)
      PROVE  Rising(s, type, gap)
  <2> SUFFICES ASSUME NEW i \in Places(s, type), NEW j \in Places(s, type), i < j
               PROVE  s[i].arg + gap <= s[j].arg
    BY DEF Rising
  <2>1. i \in Places(q, type)
    BY <1>1, <1>2, <1>3
  <2>2. CASE j \in Places(q, type)
    BY <1>3, <1>5, <2>1, <2>2 DEF Rising
  <2>3. CASE j \notin Places(q, type)
    <3>1. m.type = type /\ j = Len(s)
      BY <1>2, <2>3
    <3>2. q[i].arg \in Args(q, type) /\ m.arg \in ArgOf(m, type)
      BY <2>1, <3>1 DEF Args, ArgOf
    <3> QED
      BY <1>1, <1>3, <1>5, <2>1, <3>1, <3>2 DEF Below
  <2> QED
    BY <2>2, <2>3
<1> QED
  BY <1>1, <1>4, <1>5 DEF s

(* The first message and the others.                                       *)
LEMMA ArgsFirst ==
  ASSUME NEW q \in Seq(Messages), q # <<>>, NEW type
  PROVE  /\ Head(q) \in Messages /\ Tail(q) \in Seq(Messages)
         /\ Args(q, type) = ArgOf(Head(q), type) \cup Args(Tail(q), type)
         /\ \A gap : Rising(q, type, gap) =>
               Rising(Tail(q), type, gap) /\ Below(ArgOf(Head(q), type), Args(Tail(q), type), gap)
<1> DEFINE s == Tail(q)
<1>1. /\ Head(q) \in Messages /\ s \in Seq(Messages) /\ Len(q) \in Nat \ {0} /\ Len(s) = Len(q) - 1
      /\ Head(q) = q[1] /\ \A i \in 1..Len(s) : s[i] = q[i + 1]
  BY HeadTailProperties, EmptySeq, LenProperties
<1> HIDE DEF s
<1>2. \A i \in Places(s, type) : i + 1 \in Places(q, type) /\ i \in Nat \ {0} /\ s[i] = q[i + 1]
  BY <1>1 DEF Places
<1>3. \A i \in Places(q, type) :
         i \in Nat /\ ((i = 1 /\ Head(q).type = type) \/ (i - 1 \in Places(s, type) /\ s[i - 1] = q[i]))
  <2> SUFFICES ASSUME NEW i \in Places(q, type), i # 1
               PROVE  i - 1 \in Places(s, type) /\ s[i - 1] = q[i]
    BY <1>1 DEF Places
  <2>1. i \in 1..Len(q) /\ i - 1 \in 1..Len(s) /\ (i - 1) + 1 = i /\ q[i].type = type
    BY <1>1 DEF Places
  <2>2. s[i - 1] = q[(i - 1) + 1]
    BY <1>1, <2>1
  <2> QED
    BY <2>1, <2>2 DEF Places
<1>4. Head(q).type = type => 1 \in Places(q, type)
  BY <1>1 DEF Places
<1>5. Args(q, type) = ArgOf(Head(q), type) \cup Args(s, type)
  <2>1. ASSUME NEW a \in Args(q, type) PROVE a \in ArgOf(Head(q), type) \cup Args(s, type)
    BY <1>1, <1>3 DEF Args, ArgOf
  <2>2. ASSUME NEW a \in Args(s, type) PROVE a \in Args(q, type)
    BY <1>2 DEF Args
  <2>3. ASSUME NEW a \in ArgOf(Head(q), type) PROVE a \in Args(q, type)
    BY <1>1, <1>4 DEF Args, ArgOf
  <2> QED
    BY <2>1, <2>2, <2>3
<1>6. ASSUME NEW gap, Rising(q, type, gap)
      PROVE  Rising(s, type, gap) /\ Below(ArgOf(Head(q), type), Args(s, type), gap)
  <2>1. ASSUME NEW i \in Places(s, type), NEW j \in Places(s, type), i < j
        PROVE  s[i].arg + gap <= s[j].arg
    <3>1. i + 1 \in Places(q, type) /\ j + 1 \in Places(q, type) /\ i + 1 < j + 1
      BY <1>2, <2>1
    <3> QED
      BY <1>2, <1>6, <3>1 DEF Rising
  <2>2. ASSUME NEW a \in ArgOf(Head(q), type), NEW b \in Args(s, type) PROVE a + gap <= b
    <3>1. a = q[1].arg /\ 1 \in Places(q, type)
      BY <1>1, <1>4 DEF ArgOf
    <3>2. PICK j \in Places(s, type) : b = s[j].arg
      BY DEF Args
    <3>3. j + 1 \in Places(q, type) /\ 1 < j + 1 /\ b = q[j + 1].arg
      BY <1>2, <3>2
    <3> QED
      BY <1>6, <3>1, <3>3 DEF Rising
  <2> QED
    BY <2>1, <2>2 DEF Rising, Below
<1> QED
  BY <1>1, <1>5, <1>6 DEF s

(* Two queues in a row, and a queue cut in two.                            *)
LEMMA ArgsConcat ==
  ASSUME NEW q \in Seq(Messages), NEW r \in Seq(Messages), NEW type
  PROVE  /\ q \o r \in Seq(Messages)
         /\ Args(q \o r, type) = Args(q, type) \cup Args(r, type)
         /\ \A gap : Rising(q, type, gap) /\ Rising(r, type, gap)
                     /\ Below(Args(q, type), Args(r, type), gap) <=> Rising(q \o r, type, gap)
<1> DEFINE s == q \o r
<1>1. /\ s \in Seq(Messages) /\ Len(q) \in Nat /\ Len(r) \in Nat /\ Len(s) = Len(q) + Len(r)
      /\ \A i \in 1..Len(s) : s[i] = IF i <= Len(q) THEN q[i] ELSE r[i - Len(q)]
  BY ConcatProperties, LenProperties
<1> HIDE DEF s
<1>2. \A i \in Places(q, type) : i \in 1..Len(q) /\ i \in Places(s, type) /\ s[i] = q[i]
  BY <1>1 DEF Places
<1>3. \A i \in Places(r, type) :
         i \in 1..Len(r) /\ i + Len(q) \in Places(s, type) /\ s[i + Len(q)] = r[i]
  <2> SUFFICES ASSUME NEW i \in Places(r, type)
               PROVE  i + Len(q) \in Places(s, type) /\ s[i + Len(q)] = r[i]
    BY <1>1 DEF Places
  <2>1. i \in 1..Len(r) /\ r[i].type = type
    BY DEF Places
  <2>2. i + Len(q) \in 1..Len(s) /\ ~(i + Len(q) <= Len(q)) /\ (i + Len(q)) - Len(q) = i
    BY <1>1, <2>1
  <2> QED
    BY <1>1, <2>1, <2>2 DEF Places
<1>4. \A i \in Places(s, type) :
         /\ i \in Nat
         /\ \/ i \in Places(q, type) /\ i <= Len(q) /\ s[i] = q[i]
            \/ i - Len(q) \in Places(r, type) /\ i > Len(q) /\ s[i] = r[i - Len(q)]
  <2> SUFFICES ASSUME NEW i \in Places(s, type)
               PROVE  \/ i \in Places(q, type) /\ i <= Len(q) /\ s[i] = q[i]
                      \/ i - Len(q) \in Places(r, type) /\ i > Len(q) /\ s[i] = r[i - Len(q)]
    BY <1>1 DEF Places
  <2>1. i \in 1..Len(s) /\ s[i].type = type
    BY DEF Places
  <2> QED
    BY <1>1, <2>1 DEF Places
<1>5. Args(s, type) = Args(q, type) \cup Args(r, type)
  <2>1. ASSUME NEW a \in Args(s, type) PROVE a \in Args(q, type) \cup Args(r, type)
    BY <1>4 DEF Args
  <2>2. ASSUME NEW a \in Args(q, type) PROVE a \in Args(s, type)
    BY <1>2 DEF Args
  <2>3. ASSUME NEW a \in Args(r, type) PROVE a \in Args(s, type)
    <3>1. PICK i \in Places(r, type) : a = r[i].arg
      BY DEF Args
    <3>2. i + Len(q) \in Places(s, type) /\ s[i + Len(q)].arg = a
      BY <1>3, <3>1
    <3> QED
      BY <3>2 DEF Args
  <2> QED
    BY <2>1, <2>2, <2>3
<1>6. ASSUME NEW gap, Rising(q, type, gap), Rising(r, type, gap),
             Below(Args(q, type), Args(r, type), gap)
      PROVE  Rising(s, type, gap)
  <2> SUFFICES ASSUME NEW i \in Places(s, type), NEW j \in Places(s, type), i < j
               PROVE  s[i].arg + gap <= s[j].arg
    BY DEF Rising
  <2>1. CASE i > Len(q)
    <3>1. /\ i - Len(q) \in Places(r, type) /\ j - Len(q) \in Places(r, type)
          /\ i - Len(q) < j - Len(q) /\ s[i] = r[i - Len(q)] /\ s[j] = r[j - Len(q)]
      BY <1>1, <1>4, <2>1
    <3> QED
      BY <1>6, <3>1 DEF Rising
  <2>2. CASE j <= Len(q)
    <3>1. i \in Places(q, type) /\ j \in Places(q, type) /\ s[i] = q[i] /\ s[j] = q[j]
      BY <1>1, <1>4, <2>2
    <3> QED
      BY <1>6, <3>1 DEF Rising
  <2>3. CASE i <= Len(q) /\ j > Len(q)
    <3>1. i \in Places(q, type) /\ s[i] = q[i]
      BY <1>1, <1>4, <2>3
    <3>2. j - Len(q) \in Places(r, type) /\ s[j] = r[j - Len(q)]
      BY <1>1, <1>4, <2>3
    <3>3. s[i].arg \in Args(q, type) /\ s[j].arg \in Args(r, type)
      BY <3>1, <3>2 DEF Args
    <3> QED
      BY <1>6, <3>3 DEF Below
  <2> QED
    BY <1>1, <1>4, <2>1, <2>2, <2>3
<1>7. ASSUME NEW gap, Rising(s, type, gap)
      PROVE  Rising(q, type, gap) /\ Rising(r, type, gap) /\ Below(Args(q, type), Args(r, type), gap)
  <2>1. Rising(q, type, gap)
    BY <1>2, <1>7 DEF Rising
  <2>2. Rising(r, type, gap)
    <3> SUFFICES ASSUME NEW i \in Places(r, type), NEW j \in Places(r, type), i < j
                 PROVE  r[i].arg + gap <= r[j].arg
      BY DEF Rising
    <3>1. i + Len(q) < j + Len(q)
      BY <1>1, <1>3
    <3> QED
      BY <1>3, <1>7, <3>1 DEF Rising
  <2>3. ASSUME NEW a \in Args(q, type), NEW b \in Args(r, type) PROVE a + gap <= b
    <3>1. PICK i \in Places(q, type), j \in Places(r, type) : a = q[i].arg /\ b = r[j].arg
      BY DEF Args
    <3>2. i < j + Len(q)
      BY <1>1, <1>2, <1>3
    <3> QED
      BY <1>2, <1>3, <1>7, <3>1, <3>2 DEF Rising
  <2> QED
    BY <2>1, <2>2, <2>3 DEF Below
<1> QED
  BY <1>1, <1>5, <1>6, <1>7 DEF s
-----------------------------------------------------------------------------
(* The sockets.                                                            *)

(* A handshake has the whole socket, a reader has its half of it, and so   *)
(* has a handler that runs or will.                                        *)
Sockets(c) ==
    /\ cst[c] \in {"ack", "auth"} => cOpen[c] = Halves
    /\ "reader" \in tasks[c] => "r" \in cOpen[c]
    /\ hst[c] \in Live \cup {"none"} /\ link[c] # "none" => "r" \in sOpen[c]
    /\ link[c] = "none" =>
          toServer[c] = <<>> /\ toClient[c] = <<>> /\ cst[c] \notin {"ack", "auth", "up"}

(* A step of the client that leaves the server's halves and what the       *)
(* connection is alone, but for a reset.                                   *)
LEMMA SocketsClient ==
  ASSUME NEW d \in Conns, Sockets(d), UNCHANGED serverVars, sOpen'[d] = sOpen[d],
         link'[d] # "none" => link[d] # "none",
         link'[d] = "none" => /\ link[d] = "none" /\ toServer'[d] \in {toServer[d], <<>>}
                              /\ toClient'[d] \in {toClient[d], <<>>},
         \/ cOpen'[d] = cOpen[d] /\ tasks'[d] \subseteq tasks[d] /\ cst'[d] = cst[d]
         \/ cst'[d] \notin {"ack", "auth", "up"} /\ "reader" \notin tasks'[d]
  PROVE  Sockets(d)'
  BY DEF Sockets, serverVars

(* The halves of the server change only when a handler or a writer ends.   *)
LEMMA ServerSockets ==
  ASSUME Inv, \A c \in Conns : Sockets(c), ServerNext, UNCHANGED clientVars
  PROVE  \A c \in Conns : Sockets(c)'
<1> SUFFICES ASSUME NEW d \in Conns PROVE Sockets(d)'
  OBVIOUS
<1>0. TypeOK /\ Sockets(d)
  BY DEF Inv
<1>1. ASSUME NEW c \in Conns, NEW why \in Failed, Fail(c, why),
             UNCHANGED <<cOpen, toClient>>
      PROVE  Sockets(d)'
  <2>1. hst'[c] = why /\ why \notin Live \cup {"none"}
    BY <1>0, <1>1 DEF Fail, TypeOK, ServerTypeOK, Failed, Live
  <2>2. /\ d # c => hst'[d] = hst[d] /\ sOpen'[d] = sOpen[d] /\ link'[d] = link[d]
        /\ link'[d] \in {link[d], "reset"} /\ toServer'[d] \in {toServer[d], <<>>}
    BY <1>0, <1>1 DEF Fail, ServerDrops, TypeOK, ServerTypeOK, WireTypeOK
  <2> QED
    BY <1>0, <1>1, <2>1, <2>2 DEF Sockets, clientVars
<1>2. ASSUME NEW c \in Conns, hst[c] \in {"parse", "reply"}, Advance(c),
             UNCHANGED <<cOpen, sOpen, link, toServer, toClient>>
      PROVE  Sockets(d)'
  BY <1>0, <1>2 DEF Advance, TypeOK, ServerTypeOK, Live, Sockets, clientVars
<1>3. ASSUME NEW c \in Conns, NEW m, hst[c] \in {"parse", "reply"}, Respond(c, m),
             UNCHANGED <<cOpen, toClient>>
      PROVE  Sockets(d)'
  BY <1>1, <1>2, <1>3, FinishAdvances DEF Respond, Failed
<1>4. ASSUME NEW c \in Conns, Accept(c) PROVE Sockets(d)'
  BY <1>0, <1>4 DEF Accept, wireVars, TypeOK, ServerTypeOK, Live, Sockets, clientVars
<1>5. ASSUME NEW c \in Conns, ReadBuf(c) PROVE Sockets(d)'
  <2>1. toServer[c] # <<>>
    BY <1>5 DEF ReadBuf
  <2>2. d # c => toServer'[d] = toServer[d]
    BY <1>0, <1>5 DEF ReadBuf, TypeOK, WireTypeOK
  <2> QED
    BY <1>0, <1>5, <2>1, <2>2 DEF ReadBuf, handlerFrame, TypeOK, ServerTypeOK, Live, Sockets, clientVars
<1>6. ASSUME NEW c \in Conns, Cleanup(c) PROVE Sockets(d)'
  <2>1. /\ hst'[c] = "done" /\ (d # c => hst'[d] = hst[d] /\ sOpen'[d] = sOpen[d] /\ link'[d] = link[d])
        /\ link'[d] = link[d] /\ toServer'[d] \in {toServer[d], <<>>}
    BY <1>0, <1>6 DEF Cleanup, ServerDrops, TypeOK, ServerTypeOK, WireTypeOK
  <2> QED
    BY <1>0, <1>6, <2>1 DEF Cleanup, Sockets, clientVars, Live
<1>7. ASSUME NEW c \in Conns, HandlerError(c) PROVE Sockets(d)'
  BY <1>1, <1>7 DEF HandlerError, ErrorOf, Failed, handlerFrame
<1>8. ASSUME NEW c \in Conns, HandleKeyExchange(c) PROVE Sockets(d)'
  BY <1>3, <1>8 DEF HandleKeyExchange, Takes, handlerFrame
<1>9. ASSUME NEW c \in Conns, HandleAuthRequest(c) PROVE Sockets(d)'
  <2>1. hst[c] = "parse" /\ UNCHANGED <<cOpen, toClient>>
    BY <1>9 DEF HandleAuthRequest, Takes, handlerFrame
  <2>2. CASE hkey[c] = NoKey
    BY <1>1, <1>9, <2>1, <2>2 DEF HandleAuthRequest, Failed
  <2>3. CASE hkey[c] # NoKey /\ Verified(Incoming(c))
    <3>1. Login(c, hkey[c])
      BY <1>9, <2>3 DEF HandleAuthRequest
    <3> QED
      BY <1>0, <2>1, <3>1 DEF Login, TypeOK, ServerTypeOK, Live, Sockets, clientVars
  <2>4. CASE hkey[c] # NoKey /\ ~Verified(Incoming(c))
    <3>1. Refuse(c)
      BY <1>9, <2>4 DEF HandleAuthRequest
    <3> QED
      BY <1>3, <2>1, <3>1 DEF Refuse
  <2> QED
    BY <2>2, <2>3, <2>4
<1>10. ASSUME NEW c \in Conns, AuthReply(c) PROVE Sockets(d)'
  BY <1>3, <1>10 DEF AuthReply, handlerFrame
<1>11. ASSUME NEW c \in Conns, HandleStartStream(c) PROVE Sockets(d)'
  BY <1>2, <1>3, <1>11, FinishAdvances DEF HandleStartStream, Takes, handlerFrame
<1>12. ASSUME NEW c \in Conns, HandleQualityRequest(c) PROVE Sockets(d)'
  BY <1>2, <1>3, <1>12, FinishAdvances DEF HandleQualityRequest, Takes, handlerFrame
<1>13. ASSUME NEW c \in Conns, HandleInput(c) PROVE Sockets(d)'
  BY <1>1, <1>2, <1>13, FinishAdvances DEF HandleInput, Takes, handlerFrame, Failed
<1>14. ASSUME NEW c \in Conns, HandleOther(c) PROVE Sockets(d)'
  BY <1>2, <1>14, FinishAdvances DEF HandleOther, Takes, handlerFrame
<1>15. ASSUME NEW c \in Conns, HandleDisconnect(c) PROVE Sockets(d)'
  BY <1>2, <1>15 DEF HandleDisconnect, Takes, handlerFrame, Advance
<1>16. ASSUME NEW c \in Conns, ServerWrite(c) PROVE Sockets(d)'
  <2>1. /\ (link'[d] # "none" => link[d] # "none") /\ link'[d] \in {link[d], "reset"}
        /\ link[d] = "none" => toClient'[d] = toClient[d]
    BY <1>0, <1>16 DEF ServerWrite, ServerCanWrite, ServerPuts, TypeOK, WireTypeOK
  <2> QED
    BY <1>0, <1>16, <2>1 DEF ServerWrite, writerFrame, Sockets, clientVars
<1>17. ASSUME NEW c \in Conns, ServerWriterEnds(c) PROVE Sockets(d)'
  <2>1. /\ "r" \in sOpen[d] => "r" \in sOpen'[d]
        /\ toServer'[d] \in {toServer[d], <<>>}
        /\ link'[d] = link[d] \/ (link'[d] = "reset" /\ toServer[d] # <<>>)
    BY <1>0, <1>17 DEF ServerWriterEnds, ServerDrops, TypeOK, WireTypeOK
  <2> QED
    BY <1>0, <1>17, <2>1 DEF ServerWriterEnds, Sockets, clientVars
<1>18. ASSUME Capture \/ VisitStep \/ ExpireCode PROVE Sockets(d)'
  BY <1>0, <1>18 DEF Capture, VisitStep, SkipSession, SendFrame, ExpireCode, captureFrame,
     wireVars, Sockets, clientVars
<1>19. ASSUME ServerExit PROVE Sockets(d)'
  <2>1. hst'[d] \notin Live \cup {"none"} /\ toServer'[d] = <<>>
    BY <1>19 DEF ServerExit, Live
  <2> QED
    BY <1>0, <1>19, <2>1 DEF ServerExit, Sockets, clientVars
<1> QED
  BY <1>4, <1>5, <1>6, <1>7, <1>8, <1>9, <1>10, <1>11, <1>12, <1>13, <1>14, <1>15, <1>16,
     <1>17, <1>18, <1>19
  DEF ServerNext, HandlerStep, ServerWriterStep

(* Those of the client when it connects and when a task ends.              *)
LEMMA ClientSockets ==
  ASSUME Inv, \A c \in Conns : Sockets(c), ClientNext, UNCHANGED serverVars
  PROVE  \A c \in Conns : Sockets(c)'
<1> SUFFICES ASSUME NEW d \in Conns PROVE Sockets(d)'
  OBVIOUS
<1>0. TypeOK /\ Sockets(d)
  BY DEF Inv
<1>1. ASSUME NEW c \in Conns, NEW why, NEW rest, ConnectFails(c, why, rest),
             why \in Failures, cst[c] # "up", link[c] = "none" => rest = <<>>
      PROVE  Sockets(d)'
  <2>1. tasks[c] = {}
    BY <1>1 DEF Inv, ConnInv, BeforeUp
  <2>2. d = c => cst'[d] = why /\ "reader" \notin tasks'[d]
    BY <1>0, <1>1, <2>1 DEF ConnectFails, TypeOK, ClientTypeOK
  <2>3. d # c => cst'[d] = cst[d] /\ cOpen'[d] = cOpen[d] /\ tasks'[d] = tasks[d] /\ link'[d] = link[d]
    BY <1>0, <1>1 DEF ConnectFails, ClientDrops, TypeOK, ClientTypeOK, WireTypeOK
  <2>4. /\ link'[d] = link[d] \/ (link'[d] = "reset" /\ link[d] # "none")
        /\ link[d] = "none" => toClient'[d] \in {toClient[d], <<>>}
    BY <1>0, <1>1 DEF ConnectFails, ClientDrops, TypeOK, WireTypeOK
  <2>5. sOpen'[d] = sOpen[d] /\ toServer'[d] = toServer[d]
    BY <1>1 DEF ConnectFails
  <2> QED
    BY <1>0, <1>1, <2>2, <2>3, <2>4, <2>5, SocketsClient DEF Failures
<1>2. ASSUME NEW c \in Conns, TcpConnect(c) PROVE Sockets(d)'
  <2>1. CASE d = c
    <3>1. sOpen'[d] = Halves /\ cOpen'[d] = Halves /\ link'[d] = "open"
      BY <1>0, <1>2, <2>1 DEF TcpConnect, TypeOK, WireTypeOK
    <3> QED
      BY <3>1 DEF Sockets, Halves
  <2>2. CASE d # c
    <3>1. /\ sOpen'[d] = sOpen[d] /\ cOpen'[d] = cOpen[d] /\ link'[d] = link[d]
          /\ cst'[d] = cst[d] /\ toServer'[d] = toServer[d] /\ tasks'[d] = tasks[d]
          /\ toClient'[d] = toClient[d]
      BY <1>0, <1>2, <2>2 DEF TcpConnect, TypeOK, WireTypeOK, ClientTypeOK
    <3> QED
      BY <1>0, <3>1, SocketsClient
  <2> QED
    BY <2>1, <2>2
<1>3. ASSUME NEW c \in Conns, TcpRefused(c) PROVE Sockets(d)'
  BY <1>1, <1>3 DEF TcpRefused, Failures
<1>4. ASSUME NEW c \in Conns, RecvAck(c) PROVE Sockets(d)'
  <2>1. CASE Decrypts(NoKey, Head(toClient[c])) /\ Head(toClient[c]).type = "KeyExchangeAck"
    <3>1. PICK key : ClientPuts(c, Encrypt(key, Message("AuthRequest", code[c])))
      BY <1>4, <2>1 DEF RecvAck
    <3>2. /\ cst' = [cst EXCEPT ![c] = "auth"] /\ UNCHANGED <<sOpen, cOpen, tasks>> /\ cst[c] = "ack"
          /\ link[c] = "open" /\ toClient' = [toClient EXCEPT ![c] = Tail(@)]
      BY <1>4, <2>1 DEF RecvAck, appFrame
    <3>3. (link'[d] = link[d] \/ (link'[d] = "reset" /\ link[d] # "none"))
      BY <1>0, <3>1, <3>2 DEF ClientPuts, TypeOK, WireTypeOK
    <3>4. d # c => toServer'[d] = toServer[d] /\ cst'[d] = cst[d] /\ toClient'[d] = toClient[d]
      BY <1>0, <3>1, <3>2 DEF ClientPuts, TypeOK, WireTypeOK, ClientTypeOK
    <3>5. d = c => cOpen[d] = Halves /\ tasks[d] = {}
      BY <1>0, <3>2 DEF Sockets, Inv, ConnInv, BeforeUp
    <3>6. d = c => Sockets(d)'
      BY <1>0, <3>2, <3>3, <3>5 DEF Sockets, serverVars
    <3> QED
      BY <1>0, <3>2, <3>3, <3>4, <3>6, SocketsClient
  <2>2. CASE ~(Decrypts(NoKey, Head(toClient[c])) /\ Head(toClient[c]).type = "KeyExchangeAck")
    <3>1. ConnectFails(c, "expected_ack", Tail(toClient[c])) /\ cst[c] = "ack" /\ link[c] = "open"
      BY <1>4, <2>2 DEF RecvAck
    <3> QED
      BY <1>1, <3>1 DEF Failures
  <2> QED
    BY <2>1, <2>2
<1>5. ASSUME NEW c \in Conns, RecvAuth(c) PROVE Sockets(d)'
  <2>1. cst[c] = "auth" /\ link[c] = "open"
    BY <1>5 DEF RecvAuth
  <2>2. CASE ~Decrypts(ckey[c], Head(toClient[c])) \/ Head(toClient[c]).type # "AuthResponse"
    <3>1. ConnectFails(c, "expected_auth", Tail(toClient[c]))
      BY <1>5, <2>2 DEF RecvAuth
    <3> QED
      BY <1>1, <2>1, <3>1 DEF Failures
  <2>3. CASE ~(~Decrypts(ckey[c], Head(toClient[c])) \/ Head(toClient[c]).type # "AuthResponse")
    <3>1. CASE Head(toClient[c]).arg = 0
      <4>1. ConnectFails(c, "denied", Tail(toClient[c]))
        BY <1>5, <2>3, <3>1 DEF RecvAuth
      <4> QED
        BY <1>1, <2>1, <4>1 DEF Failures
    <3>2. CASE Head(toClient[c]).arg # 0
      <4>1. /\ cst' = [cst EXCEPT ![c] = "up"] /\ tasks' = [tasks EXCEPT ![c] = Tasks]
            /\ UNCHANGED <<sOpen, cOpen, link, toServer>>
            /\ toClient' = [toClient EXCEPT ![c] = Tail(@)]
        BY <1>5, <2>3, <3>2 DEF RecvAuth
      <4>2. d = c => cOpen[d] = Halves /\ link[d] = "open"
        BY <1>0, <2>1 DEF Sockets
      <4>3. d # c => /\ cst'[d] = cst[d] /\ tasks'[d] = tasks[d] /\ toClient'[d] = toClient[d]
        BY <1>0, <4>1 DEF TypeOK, ClientTypeOK, WireTypeOK
      <4> QED
        BY <1>0, <4>1, <4>2, <4>3 DEF Sockets, serverVars, Halves
    <3> QED
      BY <3>1, <3>2
  <2> QED
    BY <2>2, <2>3
<1>6. ASSUME NEW c \in Conns, HandshakeClosed(c) PROVE Sockets(d)'
  BY <1>1, <1>6 DEF HandshakeClosed, Failures
<1>7. ASSUME NEW c \in Conns, NEW task \in {"reader", "writer"}, task \in tasks[c], Ends(c, task),
             NEW half \in Halves, half = (IF task = "reader" THEN "r" ELSE "w"),
             NEW rest, ClientDrops(c, {half}, rest),
             UNCHANGED <<cst, sOpen, toServer>>
      PROVE  Sockets(d)'
  <2>1. cst[c] = "up"
    BY <1>7, RunningTask
  <2>2. Sockets(c) /\ link[c] # "none"
    BY <2>1 DEF Sockets
  <2>3. d = c => Sockets(d)'
    <3>1. cOpen'[c] = cOpen[c] \ {half} /\ tasks'[c] = tasks[c] \ {task}
      BY <1>0, <1>7 DEF ClientDrops, Ends, TypeOK, WireTypeOK, ClientTypeOK
    <3>2. link'[c] \in {link[c], "reset"}
      BY <1>0, <1>7 DEF ClientDrops, TypeOK, WireTypeOK
    <3> QED
      BY <1>7, <2>1, <2>2, <3>1, <3>2 DEF Sockets, serverVars, Halves
  <2>4. d # c => /\ cOpen'[d] = cOpen[d] /\ tasks'[d] = tasks[d] /\ link'[d] = link[d]
                 /\ toClient'[d] = toClient[d]
    BY <1>0, <1>7 DEF ClientDrops, Ends, TypeOK, WireTypeOK, ClientTypeOK
  <2> QED
    BY <1>0, <1>7, <2>3, <2>4, SocketsClient
<1>8. ASSUME NEW c \in Conns, ReaderRecv(c) PROVE Sockets(d)'
  <2>1. CASE Decrypts(ckey[c], Head(toClient[c])) /\ "main" \notin tasks[c]
    BY <1>7, <1>8, <2>1 DEF ReaderRecv, Halves
  <2>2. CASE ~(Decrypts(ckey[c], Head(toClient[c])) /\ "main" \notin tasks[c])
    <3>1. UNCHANGED <<cst, tasks, link, cOpen, sOpen, toServer>> /\ toClient[c] # <<>>
      BY <1>8, <2>2 DEF ReaderRecv
    <3>2. d # c => toClient'[d] = toClient[d]
      BY <1>0, <1>8, <2>2 DEF ReaderRecv, TypeOK, WireTypeOK
    <3>3. Sockets(c)
      OBVIOUS
    <3> QED
      BY <1>0, <3>1, <3>2, <3>3 DEF Sockets, serverVars
  <2> QED
    BY <2>1, <2>2
<1>9. ASSUME NEW c \in Conns, ReaderEnds(c) PROVE Sockets(d)'
  BY <1>7, <1>9 DEF ReaderEnds, Halves
<1>10. ASSUME NEW c \in Conns, WriterEnds(c) PROVE Sockets(d)'
  BY <1>7, <1>10 DEF WriterEnds, Halves
<1>11. ASSUME NEW c \in Conns, WriterSend(c) PROVE Sockets(d)'
  <2>1. UNCHANGED <<cst, tasks, cOpen, sOpen, toClient>> /\ link[c] = "open"
    BY <1>11 DEF WriterSend, ClientCanWrite
  <2>2. /\ link'[d] = link[d] \/ (link'[d] = "reset" /\ link[d] # "none")
        /\ d # c => toServer'[d] = toServer[d]
    BY <1>0, <1>11, <2>1 DEF WriterSend, ClientPuts, TypeOK, WireTypeOK
  <2> QED
    BY <1>0, <2>1, <2>2, SocketsClient
<1>12. ASSUME NEW c \in Conns, MainForward(c) \/ MainEnds(c) \/ ForwarderSend(c) \/ ForwarderEnds(c)
       PROVE  Sockets(d)'
  <2>1. UNCHANGED wireVars /\ UNCHANGED cst /\ tasks'[d] \subseteq tasks[d]
    <3>1. CASE MainForward(c) \/ ForwarderSend(c)
      BY <3>1 DEF MainForward, ForwarderSend
    <3>2. CASE MainEnds(c) \/ ForwarderEnds(c)
      <4>1. UNCHANGED wireVars /\ UNCHANGED cst
        BY <3>2 DEF MainEnds, ForwarderEnds
      <4>2. Ends(c, "main") \/ Ends(c, "forwarder")
        BY <3>2 DEF MainEnds, ForwarderEnds
      <4>3. tasks \in [Conns -> SUBSET Tasks]
        BY <1>0 DEF TypeOK, ClientTypeOK
      <4> QED
        BY <4>1, <4>2, <4>3 DEF Ends
    <3> QED
      BY <1>12, <3>1, <3>2
  <2> QED
    BY <1>0, <2>1, SocketsClient DEF wireVars
<1>13. ASSUME NEW c \in Conns, NEW typed \in Codes, Connect(c, typed) PROVE Sockets(d)'
  <2>1. UNCHANGED wireVars /\ UNCHANGED tasks
    BY <1>13 DEF Connect
  <2>2. d # c => cst'[d] = cst[d]
    BY <1>0, <1>13 DEF Connect, TypeOK, ClientTypeOK
  <2>3. d = c => cst'[d] = "tcp" /\ tasks[d] = {}
    <3>1. c > made /\ cst[c] = "none"
      BY <1>13 DEF Connect, Inv, ConnInv, TypeOK, ClientTypeOK
    <3> QED
      BY <1>0, <1>13, <3>1 DEF Connect, TypeOK, ClientTypeOK, Inv, ConnInv, BeforeUp
  <2> QED
    BY <1>0, <2>1, <2>2, <2>3, SocketsClient DEF wireVars
<1>14. ASSUME Disconnect \/ UserInput \/ Update \/ \E mode \in Choices : RequestQuality(mode)
       PROVE  Sockets(d)'
  <2>1. UNCHANGED wireVars /\ UNCHANGED <<cst, tasks>>
    BY <1>14 DEF Disconnect, UserInput, Update, RequestQuality
  <2> QED
    BY <1>0, <2>1, SocketsClient DEF wireVars
<1>15. ASSUME Exit PROVE Sockets(d)'
  <2>1. /\ tasks'[d] = {} /\ sOpen' = sOpen /\ toServer' = toServer /\ toClient'[d] = <<>>
        /\ cst'[d] = (IF cst[d] \in Handshake THEN "closed" ELSE cst[d])
        /\ link'[d] = (IF toClient[d] # <<>> THEN "reset" ELSE link[d])
    BY <1>15 DEF Exit
  <2> QED
    BY <1>0, <1>15, <2>1 DEF Sockets, serverVars, Handshake
<1> QED
  BY <1>2, <1>3, <1>4, <1>5, <1>6, <1>8, <1>9, <1>10, <1>11, <1>12, <1>13, <1>14, <1>15
  DEF ClientNext, ConnectStep, TaskStep, UserStep

-----------------------------------------------------------------------------
(* The way of a message from a handler or the capture loop to the window:  *)
(* txq, the socket, outq and msgq.                                         *)

(* Messages of d go all the way.                                           *)
Flow(d) == cur = d /\ {"reader", "main"} \subseteq tasks[d] /\ link[d] = "open" /\ writing[d]

(* Place i holds the last message that changes the quality.                *)
LastChange(q, i) ==
    i \in Places(q, "QualityChange") /\ \A j \in Places(q, "QualityChange") : j <= i

DownStill(d) ==
    txq'[d] = txq[d] /\ toClient'[d] = toClient[d] /\ outq'[d] = outq[d] /\ msgq'[d] = msgq[d]

Shorter(q, p) == p = q \/ p = <<>> \/ (q # <<>> /\ p = Tail(q))

(* Messages get lost, and the rest does not go all the way.                *)
DownCut(d) ==
    /\ Shorter(txq[d], txq'[d]) /\ Shorter(toClient[d], toClient'[d])
    /\ Shorter(outq[d], outq'[d]) /\ Shorter(msgq[d], msgq'[d])
    /\ ~Flow(d)'

(* What the server may say to d.                                           *)
Reply(d, m) ==
    \/ m.type = "KeyExchangeAck"
    \/ m.type = "ScreenFrame" /\ m.arg = frame
    \/ /\ m.type = "QualityChange"
       /\ \A i \in DOMAIN sessions' : sessions'[i].conn = d => sessions'[i].mode = m.arg
    \/ /\ m.type = "AuthResponse" /\ m.arg \in {0, 1} /\ Unanswered(d)
       /\ IF m.arg = 0 THEN cst[d] # "up" ELSE hst[d] = "reply"

Queued(d) ==
    /\ \E m \in Messages : Reply(d, m) /\ txq'[d] = Append(txq[d], m)
    /\ toClient'[d] = toClient[d] /\ outq'[d] = outq[d] /\ msgq'[d] = msgq[d]
Written(d) ==
    /\ txq[d] # <<>> /\ txq'[d] = Tail(txq[d]) /\ toClient'[d] = Append(toClient[d], Head(txq[d]))
    /\ outq'[d] = outq[d] /\ msgq'[d] = msgq[d]
Received(d) ==
    /\ toClient[d] # <<>> /\ toClient'[d] = Tail(toClient[d]) /\ tasks[d] # {}
    /\ outq'[d] = Append(outq[d], Head(toClient[d]))
    /\ txq'[d] = txq[d] /\ msgq'[d] = msgq[d]
Forwarded(d) ==
    /\ outq[d] # <<>> /\ outq'[d] = Tail(outq[d]) /\ msgq'[d] = Append(msgq[d], Head(outq[d]))
    /\ txq'[d] = txq[d] /\ toClient'[d] = toClient[d]
LoggedIn(d) ==
    /\ cst[d] = "auth" /\ toClient[d] # <<>> /\ Head(toClient[d]).type = "AuthResponse"
    /\ toClient'[d] = Tail(toClient[d])
    /\ txq'[d] = txq[d] /\ outq'[d] = outq[d] /\ msgq'[d] = msgq[d]
Displayed(d) ==
    /\ cur = d /\ msgq'[d] = <<>>
    /\ txq'[d] = txq[d] /\ toClient'[d] = toClient[d] /\ outq'[d] = outq[d]
    /\ \/ shown' = shown
       \/ shown'.conn = d /\ shown'.frame \in Args(msgq[d], "ScreenFrame")
    /\ \/ Quiet(msgq[d]) /\ quality' = quality
       \/ \E i \in 1..Len(msgq[d]) : LastChange(msgq[d], i) /\ quality' = msgq[d][i].arg

DownStep(d) ==
    \/ DownStill(d) \/ DownCut(d) \/ Queued(d) \/ Written(d) \/ Received(d) \/ Forwarded(d)
    \/ LoggedIn(d) \/ Displayed(d)

(* A handler answers, if its writer task runs.                             *)
LEMMA RespondDown ==
  ASSUME TypeOK, NEW c \in Conns, NEW m \in Messages, Respond(c, m), Reply(c, m),
         UNCHANGED toClient, UNCHANGED clientVars
  PROVE  \A d \in Conns : DownStep(d)
<1>1. CASE writing[c]
  <2>1. txq' = [txq EXCEPT ![c] = Append(@, m)]
    BY <1>1 DEF Respond
  <2>2. txq'[c] = Append(txq[c], m) /\ \A d \in Conns : d # c => txq'[d] = txq[d]
    BY <2>1 DEF TypeOK, ServerTypeOK
  <2>3. Queued(c) /\ \A d \in Conns : d # c => DownStill(d)
    BY <2>2 DEF Queued, DownStill, clientVars
  <2> QED
    BY <2>3 DEF DownStep
<1>2. CASE ~writing[c]
  BY <1>2 DEF Respond, DownStep, DownStill, clientVars
<1> QED
  BY <1>1, <1>2

(* The steps of the server.                                                *)
LEMMA ServerDown ==
  ASSUME Inv, ServerNext, UNCHANGED clientVars
  PROVE  \A d \in Conns : DownStep(d)
<1>0. TypeOK
  BY DEF Inv
<1>1. ASSUME UNCHANGED <<txq, toClient>> PROVE \A d \in Conns : DownStep(d)
  BY <1>1 DEF DownStep, DownStill, clientVars
<1>2. ASSUME NEW c \in Conns, HandleKeyExchange(c) PROVE \A d \in Conns : DownStep(d)
  <2>1. Message("KeyExchangeAck", nextEph) \in Messages /\ Message("KeyExchangeAck", nextEph).type = "KeyExchangeAck"
    BY <1>0 DEF TypeOK, ServerTypeOK, Message, Messages, MessageTypes, Keys
  <2> QED
    BY <1>0, <1>2, <2>1, RespondDown DEF HandleKeyExchange, handlerFrame, Reply
<1>3. ASSUME NEW c \in Conns, NEW type \in MessageTypes, NEW arg \in Nat, hst[c] \in {"parse", "reply"},
             Respond(c, Encrypt(hkey[c], Message(type, arg))), UNCHANGED toClient,
             \/ type = "QualityChange" /\ \A i \in DOMAIN sessions' : sessions'[i].conn = c => sessions'[i].mode = arg
             \/ type = "AuthResponse" /\ arg \in {0, 1} /\ IF arg = 0 THEN cst[c] # "up" ELSE hst[c] = "reply"
      PROVE \A d \in Conns : DownStep(d)
  <2> DEFINE m == Encrypt(hkey[c], Message(type, arg))
  <2>1. m \in Messages /\ m.type = type /\ m.arg = arg
    BY <1>0, MessageFacts DEF TypeOK, ServerTypeOK
  <2>2. Unanswered(c)
    <3>1. Len(hbuf[c]) > 0 /\ QueueTypes
      BY <1>0, <1>3, QueueTyping DEF Inv, ConnInv, Handler
    <3> QED
      BY <3>1 DEF Unanswered, QueueTypes
  <2> HIDE DEF m
  <2>3. Reply(c, m)
    BY <1>3, <2>1, <2>2 DEF Reply
  <2> QED
    BY <1>0, <1>3, <2>1, <2>3, RespondDown DEF m
<1>4. ASSUME NEW c \in Conns, HandleAuthRequest(c) PROVE \A d \in Conns : DownStep(d)
  <2>1. hst[c] = "parse" /\ UNCHANGED toClient /\ Incoming(c).type = "AuthRequest"
    BY <1>4 DEF HandleAuthRequest, Takes, handlerFrame
  <2>2. CASE hkey[c] = NoKey
    BY <1>1, <1>4, <2>1, <2>2 DEF HandleAuthRequest
  <2>3. CASE hkey[c] # NoKey /\ Verified(Incoming(c))
    BY <1>1, <1>4, <2>1, <2>3 DEF HandleAuthRequest, Login
  <2>4. CASE hkey[c] # NoKey /\ ~Verified(Incoming(c))
    <3>1. Respond(c, Encrypt(hkey[c], Message("AuthResponse", 0)))
      BY <1>4, <2>4 DEF HandleAuthRequest, Refuse, AuthResponse
    <3>2. cst[c] # "up"
      <4>1. Incoming(c) \in Up(c)
        BY <2>1, IncomingFacts
      <4> QED
        BY <2>1, <2>4, <4>1 DEF Up, UpMessages, AppTypes
    <3> QED
      BY <1>3, <2>1, <3>1, <3>2 DEF MessageTypes
  <2> QED
    BY <2>2, <2>3, <2>4
<1>5. ASSUME NEW c \in Conns, AuthReply(c) PROVE \A d \in Conns : DownStep(d)
  BY <1>3, <1>5 DEF AuthReply, AuthResponse, handlerFrame, MessageTypes
<1>6. ASSUME NEW c \in Conns, HasSession(c) PROVE \A i \in DOMAIN sessions : sessions[i].conn = c => i = hsid[c]
  BY DEF Inv, SessionTable
<1>7. ASSUME NEW c \in Conns, HandleStartStream(c) PROVE \A d \in Conns : DownStep(d)
  <2>1. CASE HasSession(c)
    <3>1. sessions[hsid[c]].mode \in Nat
      BY <1>0, <2>1 DEF HasSession, TypeOK, ServerTypeOK, Session
    <3>2. \A i \in DOMAIN sessions' : sessions'[i].conn = c => sessions'[i].mode = sessions[hsid[c]].mode
      BY <1>6, <1>7, <2>1 DEF HandleStartStream
    <3> QED
      BY <1>3, <1>7, <2>1, <3>1, <3>2 DEF HandleStartStream, Takes, handlerFrame, MessageTypes
  <2>2. CASE ~HasSession(c)
    BY <1>1, <1>7, <2>2 DEF HandleStartStream, handlerFrame
  <2> QED
    BY <2>1, <2>2
<1>8. ASSUME NEW c \in Conns, HandleQualityRequest(c) PROVE \A d \in Conns : DownStep(d)
  <2>1. CASE HasSession(c)
    <3>0. hst[c] = "parse" /\ UNCHANGED toClient
      BY <1>8 DEF HandleQualityRequest, Takes, handlerFrame
    <3>1. Incoming(c).arg \in Nat
      BY <3>0, IncomingFacts DEF Messages
    <3>2. /\ Respond(c, Encrypt(hkey[c], Message("QualityChange", Incoming(c).arg)))
          /\ sessions' = [sessions EXCEPT ![hsid[c]].mode = Incoming(c).arg, ![hsid[c]].forced = TRUE]
      BY <1>8, <2>1 DEF HandleQualityRequest
    <3>3. sessions \in [DOMAIN sessions -> Session]
      BY <1>0 DEF TypeOK, ServerTypeOK
    <3>4. \A i \in DOMAIN sessions' : sessions'[i].conn = c => sessions'[i].mode = Incoming(c).arg
      BY <1>6, <2>1, <3>2, <3>3 DEF HasSession, Session
    <3> QED
      BY <1>3, <3>0, <3>1, <3>2, <3>4 DEF MessageTypes
  <2>2. CASE ~HasSession(c)
    BY <1>1, <1>8, <2>2 DEF HandleQualityRequest, handlerFrame
  <2> QED
    BY <2>1, <2>2
<1>9. ASSUME NEW c \in Conns, writing' = [writing EXCEPT ![c] = FALSE], txq' = [txq EXCEPT ![c] = <<>>],
             UNCHANGED toClient
      PROVE  \A d \in Conns : DownStep(d)
  <2>1. ~writing'[c] /\ txq'[c] = <<>> /\ \A d \in Conns : d # c => txq'[d] = txq[d]
    BY <1>0, <1>9 DEF TypeOK, ServerTypeOK
  <2>2. DownCut(c) /\ \A d \in Conns : d # c => DownStill(d)
    BY <1>9, <2>1 DEF DownCut, DownStill, Shorter, Flow, clientVars
  <2> QED
    BY <2>2 DEF DownStep
<1>10. ASSUME NEW c \in Conns, ServerWrite(c) PROVE \A d \in Conns : DownStep(d)
  <2>1. txq[c] # <<>> /\ txq'[c] = Tail(txq[c]) /\ \A d \in Conns : d # c => txq'[d] = txq[d]
    BY <1>0, <1>10 DEF ServerWrite, TypeOK, ServerTypeOK
  <2>2. CASE cOpen[c] = {}
    <3>1. link'[c] = "reset" /\ UNCHANGED toClient
      BY <1>0, <1>10, <2>2 DEF ServerWrite, ServerPuts, TypeOK, WireTypeOK
    <3>2. DownCut(c) /\ \A d \in Conns : d # c => DownStill(d)
      BY <2>1, <3>1 DEF DownCut, DownStill, Shorter, Flow, clientVars
    <3> QED
      BY <3>2 DEF DownStep
  <2>3. CASE cOpen[c] # {}
    <3>1. toClient'[c] = Append(toClient[c], Head(txq[c])) /\ \A d \in Conns : d # c => toClient'[d] = toClient[d]
      BY <1>0, <1>10, <2>3 DEF ServerWrite, ServerPuts, TypeOK, WireTypeOK
    <3>2. Written(c) /\ \A d \in Conns : d # c => DownStill(d)
      BY <2>1, <3>1 DEF Written, DownStill, clientVars
    <3> QED
      BY <3>2 DEF DownStep
  <2> QED
    BY <2>2, <2>3
<1>11. ASSUME NEW id \in visiting, SendFrame(id) PROVE \A d \in Conns : DownStep(d)
  <2> DEFINE c == sessions[id].conn
             m == Encrypt(sessions[id].key, Message("ScreenFrame", frame))
  <2>1. c \in Conns /\ sessions[id].key \in Keys /\ frame \in Nat
    BY <1>0, FramesAssumption DEF TypeOK, ServerTypeOK, Session
  <2>2. m \in Messages /\ m.type = "ScreenFrame" /\ m.arg = frame
    BY <2>1, MessageFacts DEF MessageTypes
  <2>3. txq' = [txq EXCEPT ![c] = IF writing[c] THEN Append(@, m) ELSE @] /\ UNCHANGED toClient
    BY <1>11 DEF SendFrame, captureFrame, wireVars
  <2> HIDE DEF c, m
  <2>4. /\ txq'[c] = (IF writing[c] THEN Append(txq[c], m) ELSE txq[c])
        /\ \A d \in Conns : d # c => txq'[d] = txq[d]
    BY <1>0, <2>1, <2>3 DEF TypeOK, ServerTypeOK
  <2>5. DownStill(c) \/ Queued(c)
    BY <2>2, <2>3, <2>4 DEF DownStill, Queued, Reply, clientVars
  <2>6. \A d \in Conns : d # c => DownStill(d)
    BY <2>3, <2>4 DEF DownStill, clientVars
  <2> QED
    BY <2>5, <2>6 DEF DownStep
<1>12. ASSUME ServerExit PROVE \A d \in Conns : DownStep(d)
  <2>1. \A d \in Conns : DownCut(d)
    BY <1>12 DEF ServerExit, DownCut, Shorter, Flow, clientVars
  <2> QED
    BY <2>1 DEF DownStep
<1>13. ASSUME NEW c \in Conns, HandlerStep(c) PROVE \A d \in Conns : DownStep(d)
  <2>1. CASE Accept(c) \/ ReadBuf(c) \/ HandlerError(c) \/ HandleInput(c) \/ HandleOther(c) \/ HandleDisconnect(c)
    BY <1>1, <2>1 DEF Accept, ReadBuf, HandlerError, HandleInput, HandleOther, HandleDisconnect,
       handlerFrame, wireVars
  <2>2. CASE Cleanup(c)
    BY <1>9, <2>2 DEF Cleanup
  <2> QED
    BY <1>2, <1>4, <1>5, <1>7, <1>8, <1>13, <2>1, <2>2 DEF HandlerStep
<1>14. ASSUME NEW c \in Conns, ServerWriterStep(c) PROVE \A d \in Conns : DownStep(d)
  BY <1>9, <1>10, <1>14 DEF ServerWriterStep, ServerWriterEnds
<1>15. ASSUME Capture \/ ExpireCode PROVE \A d \in Conns : DownStep(d)
  BY <1>1, <1>15 DEF Capture, ExpireCode, captureFrame, wireVars
<1>16. ASSUME VisitStep PROVE \A d \in Conns : DownStep(d)
  BY <1>1, <1>11, <1>16 DEF VisitStep, SkipSession, captureFrame, wireVars
<1> QED
  BY <1>12, <1>13, <1>14, <1>15, <1>16 DEF ServerNext

(* update takes what the channel of messages holds.                        *)
LEMMA UpdateDown ==
  ASSUME Inv, Update, UNCHANGED serverVars
  PROVE  cur \in Conns /\ Displayed(cur) /\ \A d \in Conns : DownStep(d)
<1>1. cur \in Conns /\ TypeOK
  <2>1. TypeOK /\ cur \in 0..made /\ made \in 0..MaxConn /\ cur # 0
    BY DEF Inv, Update, TypeOK, ClientTypeOK
  <2> QED
    BY <2>1, MaxConnAssumption DEF Conns
<1> DEFINE q == msgq[cur]
<1>2. q \in Seq(Messages) /\ Len(q) \in Nat
  BY <1>1, LenProperties DEF TypeOK, ClientTypeOK
<1>3. msgq'[cur] = <<>> /\ \A d \in Conns : d # cur => msgq'[d] = msgq[d]
  BY <1>1 DEF Update, TypeOK, ClientTypeOK
<1>4. UNCHANGED <<txq, toClient, outq>>
  BY DEF Update, wireVars, serverVars
<1>5. shown' = shown \/ (shown'.conn = cur /\ shown'.frame \in Args(q, "ScreenFrame"))
  <2>1. PICK frames \in SUBSET Places(q, "ScreenFrame") :
           shown' = IF frames = {} THEN shown ELSE [conn |-> cur, frame |-> LastArg(q, frames)]
    BY DEF Update
  <2>2. ASSUME frames # {} PROVE LastArg(q, frames) \in Args(q, "ScreenFrame")
    <3>1. frames \in SUBSET (1..Len(q))
      BY DEF Places
    <3>2. \E i \in frames : \A j \in frames : j <= i
      BY <1>2, <2>2, <3>1, LastPlace
    <3> QED
      BY <3>2 DEF LastArg, Args
  <2> QED
    BY <2>1, <2>2
<1>6. \/ Quiet(q) /\ quality' = quality
      \/ \E i \in 1..Len(q) : LastChange(q, i) /\ quality' = q[i].arg
  <2> DEFINE P == Places(q, "QualityChange")
  <2>1. quality' = IF P = {} THEN quality ELSE LastArg(q, P)
    BY DEF Update
  <2>2. ASSUME P # {} PROVE \E i \in 1..Len(q) : LastChange(q, i) /\ LastArg(q, P) = q[i].arg
    <3>1. P \in SUBSET (1..Len(q))
      BY DEF Places
    <3>2. \E i \in P : \A j \in P : j <= i
      <4> HIDE DEF P
      <4> QED
        BY <1>2, <2>2, <3>1, LastPlace
    <3>3. PICK i \in P : (\A j \in P : j <= i) /\ LastArg(q, P) = q[i].arg
      BY <3>2 DEF LastArg
    <3> QED
      BY <3>1, <3>3 DEF LastChange
  <2> QED
    BY <2>1, <2>2 DEF Quiet
<1>7. Displayed(cur)
  BY <1>3, <1>4, <1>5, <1>6 DEF Displayed
<1>8. \A d \in Conns : d # cur => DownStill(d)
  BY <1>3, <1>4 DEF DownStill
<1> QED
  BY <1>1, <1>7, <1>8 DEF DownStep

(* The other steps of the client.                                          *)
LEMMA ClientDown ==
  ASSUME Inv, \A c \in Conns : Sockets(c), ClientNext, UNCHANGED serverVars
  PROVE  \A d \in Conns : DownStep(d)
<1>0. TypeOK /\ UNCHANGED <<txq, writing>>
  BY DEF Inv, serverVars
<1>1. ASSUME UNCHANGED <<toClient, outq, msgq>> PROVE \A d \in Conns : DownStep(d)
  BY <1>0, <1>1 DEF DownStep, DownStill
<1>2. ASSUME NEW c \in Conns, ~Flow(c)', UNCHANGED <<outq, msgq>>, Shorter(toClient[c], toClient'[c]),
             \A d \in Conns : d # c => toClient'[d] = toClient[d]
      PROVE  \A d \in Conns : DownStep(d)
  <2>1. DownCut(c) /\ \A d \in Conns : d # c => DownStill(d)
    BY <1>0, <1>2 DEF DownCut, DownStill, Shorter
  <2> QED
    BY <2>1 DEF DownStep
<1>3. ASSUME NEW c \in Conns, cst[c] # "up" PROVE tasks[c] = {}
  BY <1>3 DEF Inv, ConnInv, BeforeUp
<1>4. ASSUME NEW c \in Conns, NEW why, NEW rest, ConnectFails(c, why, rest), cst[c] # "up",
             rest = <<>> \/ (toClient[c] # <<>> /\ rest = Tail(toClient[c]))
      PROVE  \A d \in Conns : DownStep(d)
  <2>1. toClient'[c] \in {rest, <<>>} /\ \A d \in Conns : d # c => toClient'[d] = toClient[d]
    BY <1>0, <1>4 DEF ConnectFails, ClientDrops, TypeOK, WireTypeOK
  <2>2. ~Flow(c)'
    BY <1>3, <1>4 DEF ConnectFails, Flow
  <2> QED
    BY <1>2, <1>4, <2>1, <2>2 DEF ConnectFails, Shorter
<1>5. ASSUME NEW c \in Conns, RecvAck(c) PROVE \A d \in Conns : DownStep(d)
  <2>1. toClient[c] # <<>> /\ cst[c] = "ack"
    BY <1>5 DEF RecvAck
  <2>2. CASE Decrypts(NoKey, Head(toClient[c])) /\ Head(toClient[c]).type = "KeyExchangeAck"
    <3>1. toClient' = [toClient EXCEPT ![c] = Tail(@)] /\ UNCHANGED <<outq, msgq, tasks>>
      BY <1>5, <2>2 DEF RecvAck
    <3>2. Shorter(toClient[c], toClient'[c]) /\ \A d \in Conns : d # c => toClient'[d] = toClient[d]
      BY <1>0, <2>1, <3>1 DEF Shorter, TypeOK, WireTypeOK
    <3>3. ~Flow(c)'
      BY <1>3, <2>1, <3>1 DEF Flow
    <3> QED
      BY <1>2, <3>1, <3>2, <3>3
  <2>3. CASE ~(Decrypts(NoKey, Head(toClient[c])) /\ Head(toClient[c]).type = "KeyExchangeAck")
    <3>1. ConnectFails(c, "expected_ack", Tail(toClient[c]))
      BY <1>5, <2>3 DEF RecvAck
    <3> QED
      BY <1>4, <2>1, <3>1
  <2> QED
    BY <2>2, <2>3
<1>6. ASSUME NEW c \in Conns, RecvAuth(c) PROVE \A d \in Conns : DownStep(d)
  <2>1. toClient[c] # <<>> /\ cst[c] = "auth"
    BY <1>6 DEF RecvAuth
  <2>2. CASE ~Decrypts(ckey[c], Head(toClient[c])) \/ Head(toClient[c]).type # "AuthResponse"
    <3>1. ConnectFails(c, "expected_auth", Tail(toClient[c]))
      BY <1>6, <2>2 DEF RecvAuth
    <3> QED
      BY <1>4, <2>1, <3>1
  <2>3. CASE ~(~Decrypts(ckey[c], Head(toClient[c])) \/ Head(toClient[c]).type # "AuthResponse")
    <3>1. CASE Head(toClient[c]).arg = 0
      <4>1. ConnectFails(c, "denied", Tail(toClient[c]))
        BY <1>6, <2>3, <3>1 DEF RecvAuth
      <4> QED
        BY <1>4, <2>1, <4>1
    <3>2. CASE Head(toClient[c]).arg # 0
      <4>1. toClient' = [toClient EXCEPT ![c] = Tail(@)] /\ UNCHANGED <<outq, msgq>>
        BY <1>6, <2>3, <3>2 DEF RecvAuth
      <4>2. toClient'[c] = Tail(toClient[c]) /\ \A d \in Conns : d # c => toClient'[d] = toClient[d]
        BY <1>0, <4>1 DEF TypeOK, WireTypeOK
      <4>3. LoggedIn(c) /\ \A d \in Conns : d # c => DownStill(d)
        BY <1>0, <2>1, <2>3, <4>1, <4>2 DEF LoggedIn, DownStill
      <4> QED
        BY <4>3 DEF DownStep
    <3> QED
      BY <3>1, <3>2
  <2> QED
    BY <2>2, <2>3
<1>7. ASSUME NEW c \in Conns, TcpRefused(c) \/ HandshakeClosed(c) PROVE \A d \in Conns : DownStep(d)
  BY <1>4, <1>7 DEF TcpRefused, HandshakeClosed
<1>8. ASSUME NEW c \in Conns, ReaderRecv(c) PROVE \A d \in Conns : DownStep(d)
  <2>1. toClient[c] # <<>> /\ "reader" \in tasks[c] /\ UNCHANGED msgq
    BY <1>8 DEF ReaderRecv
  <2>2. Decrypts(ckey[c], Head(toClient[c]))
    <3>1. cst[c] = "up" /\ toClient[c] \in Seq(Down(c))
      BY <2>1, RunningTask DEF Inv, ConnInv, Queues
    <3>2. Head(toClient[c]) \in Down(c)
      BY <2>1, <3>1, SeqFacts
    <3> QED
      BY <3>1, <3>2 DEF Down, DownMessages, Decrypts
  <2>3. CASE "main" \notin tasks[c]
    <3>1. Ends(c, "reader") /\ ClientDrops(c, {"r"}, Tail(toClient[c])) /\ UNCHANGED outq
      BY <1>8, <2>2, <2>3 DEF ReaderRecv
    <3>2. toClient'[c] \in {Tail(toClient[c]), <<>>} /\ \A d \in Conns : d # c => toClient'[d] = toClient[d]
      BY <1>0, <3>1 DEF ClientDrops, TypeOK, WireTypeOK
    <3>3. ~Flow(c)'
      BY <1>0, <3>1 DEF Flow, Ends, TypeOK, ClientTypeOK
    <3> QED
      BY <1>2, <2>1, <3>1, <3>2, <3>3 DEF Shorter
  <2>4. CASE "main" \in tasks[c]
    <3>1. outq' = [outq EXCEPT ![c] = Append(@, Head(toClient[c]))] /\ toClient' = [toClient EXCEPT ![c] = Tail(@)]
      BY <1>8, <2>2, <2>4 DEF ReaderRecv
    <3>2. /\ outq'[c] = Append(outq[c], Head(toClient[c])) /\ toClient'[c] = Tail(toClient[c])
          /\ \A d \in Conns : d # c => outq'[d] = outq[d] /\ toClient'[d] = toClient[d]
      BY <1>0, <3>1 DEF TypeOK, WireTypeOK, ClientTypeOK
    <3>3. Received(c) /\ \A d \in Conns : d # c => DownStill(d)
      BY <1>0, <2>1, <3>2 DEF Received, DownStill
    <3> QED
      BY <3>3 DEF DownStep
  <2> QED
    BY <2>3, <2>4
<1>9. ASSUME NEW c \in Conns, ReaderEnds(c) PROVE \A d \in Conns : DownStep(d)
  <2>1. Ends(c, "reader") /\ ClientDrops(c, {"r"}, toClient[c]) /\ UNCHANGED <<outq, msgq>>
    BY <1>9 DEF ReaderEnds
  <2>2. toClient'[c] \in {toClient[c], <<>>} /\ \A d \in Conns : d # c => toClient'[d] = toClient[d]
    BY <1>0, <2>1 DEF ClientDrops, TypeOK, WireTypeOK
  <2>3. ~Flow(c)'
    BY <1>0, <2>1 DEF Flow, Ends, TypeOK, ClientTypeOK
  <2> QED
    BY <1>2, <2>1, <2>2, <2>3 DEF Shorter
<1>10. ASSUME NEW c \in Conns, WriterEnds(c) PROVE \A d \in Conns : DownStep(d)
  <2>1. Ends(c, "writer") /\ ClientDrops(c, {"w"}, toClient[c]) /\ UNCHANGED <<outq, msgq>>
    BY <1>10 DEF WriterEnds
  <2>2. /\ toClient'[c] = (IF cOpen[c] \ {"w"} = {} THEN <<>> ELSE toClient[c])
        /\ \A d \in Conns : d # c => toClient'[d] = toClient[d]
    BY <1>0, <2>1 DEF ClientDrops, TypeOK, WireTypeOK
  <2>3. CASE "reader" \in tasks[c]
    <3>1. toClient'[c] = toClient[c]
      BY <2>2, <2>3 DEF Sockets
    <3> QED
      BY <1>0, <2>1, <2>2, <3>1 DEF DownStep, DownStill
  <2>4. CASE "reader" \notin tasks[c]
    <3>1. ~Flow(c)'
      BY <1>0, <2>1, <2>4 DEF Flow, Ends, TypeOK, ClientTypeOK
    <3> QED
      BY <1>2, <2>1, <2>2, <3>1 DEF Shorter
  <2> QED
    BY <2>3, <2>4
<1>11. ASSUME NEW c \in Conns, MainForward(c) PROVE \A d \in Conns : DownStep(d)
  <2>1. /\ outq[c] # <<>> /\ UNCHANGED toClient
        /\ msgq'[c] = Append(msgq[c], Head(outq[c])) /\ outq'[c] = Tail(outq[c])
        /\ \A d \in Conns : d # c => msgq'[d] = msgq[d] /\ outq'[d] = outq[d]
    BY <1>0, <1>11 DEF MainForward, wireVars, TypeOK, ClientTypeOK
  <2>2. Forwarded(c) /\ \A d \in Conns : d # c => DownStill(d)
    BY <1>0, <2>1 DEF Forwarded, DownStill
  <2> QED
    BY <2>2 DEF DownStep
<1>12. ASSUME NEW c \in Conns, MainEnds(c) PROVE \A d \in Conns : DownStep(d)
  <2>1. /\ UNCHANGED <<toClient, msgq>> /\ "main" \notin tasks'[c] /\ outq'[c] = <<>>
        /\ \A d \in Conns : d # c => outq'[d] = outq[d]
    BY <1>0, <1>12 DEF MainEnds, Ends, wireVars, TypeOK, ClientTypeOK
  <2>2. DownCut(c) /\ \A d \in Conns : d # c => DownStill(d)
    BY <1>0, <2>1 DEF DownCut, Shorter, Flow, DownStill
  <2> QED
    BY <2>2 DEF DownStep
<1>13. ASSUME NEW c \in Conns, NEW typed \in Codes, Connect(c, typed) PROVE \A d \in Conns : DownStep(d)
  <2>1. /\ UNCHANGED <<toClient, outq>> /\ cur' # cur
        /\ \A d \in Conns : msgq'[d] = IF d = cur THEN <<>> ELSE msgq[d]
    BY <1>0, <1>13 DEF Connect, wireVars, TypeOK, ClientTypeOK
  <2>2. \A d \in Conns : IF d = cur THEN DownCut(d) ELSE DownStill(d)
    BY <1>0, <2>1 DEF DownCut, Shorter, Flow, DownStill
  <2> QED
    BY <2>2 DEF DownStep
<1>14. ASSUME Disconnect PROVE \A d \in Conns : DownStep(d)
  <2>1. /\ UNCHANGED <<toClient, outq>> /\ cur' = 0
        /\ \A d \in Conns : msgq'[d] = IF d = cur THEN <<>> ELSE msgq[d]
    BY <1>0, <1>14 DEF Disconnect, wireVars, TypeOK, ClientTypeOK
  <2>2. \A d \in Conns : d # 0
    BY MaxConnAssumption DEF Conns
  <2>3. \A d \in Conns : IF d = cur THEN DownCut(d) ELSE DownStill(d)
    BY <1>0, <2>1, <2>2 DEF DownCut, Shorter, Flow, DownStill
  <2> QED
    BY <2>3 DEF DownStep
<1>15. ASSUME Exit PROVE \A d \in Conns : DownStep(d)
  <2>1. \A d \in Conns : d # 0
    BY MaxConnAssumption DEF Conns
  <2>2. \A d \in Conns : DownCut(d)
    BY <1>0, <1>15, <2>1 DEF Exit, DownCut, Shorter, Flow
  <2> QED
    BY <2>2 DEF DownStep
<1>16. ASSUME \/ \E c \in Conns : TcpConnect(c) \/ ForwarderSend(c) \/ ForwarderEnds(c) \/ WriterSend(c)
              \/ UserInput \/ \E mode \in Choices : RequestQuality(mode)
       PROVE  \A d \in Conns : DownStep(d)
  BY <1>1, <1>16 DEF TcpConnect, ForwarderSend, ForwarderEnds, WriterSend, UserInput, RequestQuality, wireVars
<1> QED
  BY <1>5, <1>6, <1>7, <1>8, <1>9, <1>10, <1>11, <1>12, <1>13, <1>14, <1>15, <1>16, UpdateDown
  DEF ClientNext, ConnectStep, TaskStep, UserStep

(* What the window shows changes only in update and when the user          *)
(* disconnects; the application holds the newest connection or none.       *)
WindowStep ==
    /\ frame <= frame'
    /\ (made' = made /\ cur' \in {cur, 0}) \/ (made' = made + 1 /\ cur' = made')
    /\ \/ shown' = shown /\ quality' = quality
       \/ shown' = NoTexture /\ quality' = quality
       \/ cur \in Conns /\ Displayed(cur)

(* So do the steps.                                                        *)
LEMMA WindowSteps ==
  ASSUME Inv, Next
  PROVE  WindowStep
<1>1. frame \in Nat /\ frame' \in {frame, frame + 1}
  <2>1. frame \in Nat
    BY FramesAssumption DEF Inv, TypeOK, ServerTypeOK
  <2>2. ServerNext => frame' \in {frame, frame + 1}
    BY DEF ServerNext, HandlerStep, ServerWriterStep, VisitStep, Capture, SkipSession, SendFrame,
       ExpireCode, ServerExit, Accept, ReadBuf, Cleanup, HandlerError, HandleKeyExchange,
       HandleAuthRequest, AuthReply, HandleStartStream, HandleQualityRequest, HandleInput,
       HandleOther, HandleDisconnect, ServerWrite, ServerWriterEnds, handlerFrame, writerFrame
  <2> QED
    BY <2>1, <2>2 DEF Next, serverVars
<1>2. CASE UNCHANGED clientVars
  BY <1>1, <1>2 DEF WindowStep, clientVars
<1>3. CASE ClientNext /\ UNCHANGED serverVars
  <2>1. ASSUME NEW c \in Conns, ConnectStep(c) \/ TaskStep(c)
        PROVE  UNCHANGED <<made, cur, shown, quality>>
    BY <2>1 DEF ConnectStep, TaskStep, TcpConnect, TcpRefused, RecvAck, RecvAuth, HandshakeClosed,
       ConnectFails, ReaderRecv, ReaderEnds, MainForward, MainEnds, ForwarderSend, ForwarderEnds,
       WriterSend, WriterEnds, appFrame
  <2>2. ASSUME NEW c \in Conns, NEW typed \in Codes, Connect(c, typed)
        PROVE  made' = made + 1 /\ cur' = made' /\ UNCHANGED <<shown, quality>>
    BY <2>2 DEF Connect
  <2>3. ASSUME Disconnect PROVE UNCHANGED <<made, quality>> /\ cur' = 0 /\ shown' = NoTexture
    BY <2>3 DEF Disconnect
  <2>4. ASSUME UserInput \/ \E mode \in Choices : RequestQuality(mode)
        PROVE  UNCHANGED <<made, cur, shown, quality>>
    BY <2>4 DEF UserInput, RequestQuality
  <2>5. ASSUME Exit PROVE UNCHANGED <<made, shown, quality>> /\ cur' = 0
    BY <2>5 DEF Exit
  <2>6. ASSUME Update PROVE UNCHANGED <<made, cur>> /\ cur \in Conns /\ Displayed(cur)
    BY <1>3, <2>6, UpdateDown DEF Update
  <2> QED
    BY <1>1, <1>3, <2>1, <2>2, <2>3, <2>4, <2>5, <2>6 DEF ClientNext, UserStep, WindowStep
<1> QED
  BY <1>2, <1>3 DEF Next

(* The numbers are natural.                                                *)
LEMMA ArgsNat ==
  ASSUME NEW q \in Seq(Messages), NEW type
  PROVE  Args(q, type) \subseteq Nat
<1>1. \A i \in 1..Len(q) : q[i] \in Messages
  BY ElementOfSeq
<1> QED
  BY <1>1 DEF Args, Places, Messages

(* A queue that was cut holds nothing new, in the same order.              *)
LEMMA ArgsShorter ==
  ASSUME NEW q \in Seq(Messages), NEW p, Shorter(q, p), NEW type
  PROVE  /\ p \in Seq(Messages) /\ Args(p, type) \subseteq Args(q, type)
         /\ \A gap : Rising(q, type, gap) => Rising(p, type, gap)
<1>1. CASE p = q
  BY <1>1
<1>2. CASE p = <<>>
  BY <1>2, ArgsNone, EmptySeq
<1>3. CASE q # <<>> /\ p = Tail(q)
  BY <1>3, ArgsFirst
<1> QED
  BY <1>1, <1>2, <1>3 DEF Shorter

-----------------------------------------------------------------------------
(* Frames arrive in the order they were captured in.                       *)

FramesIn(q) == Args(q, "ScreenFrame")
FramesUnderWay(d) == FramesIn(msgq[d]) \cup FramesIn(outq[d]) \cup FramesIn(toClient[d]) \cup FramesIn(txq[d])
FramesRise(q) == Rising(q, "ScreenFrame", 0)
NotAbove(A, B) == Below(A, B, 0)

(* Along the whole way no frame is older than one in front of it, and none *)
(* is older than the one that is shown.                                    *)
InOrder(d) ==
    /\ FramesRise(msgq[d]) /\ FramesRise(outq[d]) /\ FramesRise(toClient[d]) /\ FramesRise(txq[d])
    /\ NotAbove(FramesIn(msgq[d]), FramesIn(outq[d]) \cup FramesIn(toClient[d]) \cup FramesIn(txq[d]))
    /\ NotAbove(FramesIn(outq[d]), FramesIn(toClient[d]) \cup FramesIn(txq[d]))
    /\ NotAbove(FramesIn(toClient[d]), FramesIn(txq[d]))
    /\ \A f \in FramesUnderWay(d) : f <= frame /\ (shown.conn = d => shown.frame <= f)

FramesInv ==
    /\ shown.conn <= made /\ cur \in {0, made} /\ shown.frame <= frame
    /\ \A d \in Conns : InOrder(d)

(* The queues on the way to the window, as functions.                      *)
LEMMA DownTypes ==
  ASSUME TypeOK, NEW d \in Conns
  PROVE  /\ txq[d] \in Seq(Messages) /\ toClient[d] \in Seq(Messages)
         /\ outq[d] \in Seq(Messages) /\ msgq[d] \in Seq(Messages)
         /\ FramesUnderWay(d) \subseteq Nat
         /\ frame \in Nat /\ made \in Nat /\ shown \in [conn : Nat, frame : Nat]
<1>1. /\ txq[d] \in Seq(Messages) /\ toClient[d] \in Seq(Messages)
      /\ outq[d] \in Seq(Messages) /\ msgq[d] \in Seq(Messages)
  BY DEF TypeOK, WireTypeOK, ServerTypeOK, ClientTypeOK
<1>2. frame \in Nat /\ made \in Nat /\ shown \in [conn : Nat, frame : Nat]
  BY FramesAssumption, MaxConnAssumption DEF TypeOK, ServerTypeOK, ClientTypeOK
<1> QED
  BY <1>1, <1>2, ArgsNat DEF FramesUnderWay, FramesIn

(* The order after a step, from what becomes of the sets of numbers.       *)
LEMMA OrderKept ==
  ASSUME TypeOK, TypeOK', FramesInv, WindowStep, NEW d \in Conns, DownStep(d),
         shown'.conn = d => shown' = shown
  PROVE  InOrder(d)'
<1> DEFINE A == FramesIn(msgq[d])   Ap == FramesIn(msgq'[d])
           B == FramesIn(outq[d])   Bp == FramesIn(outq'[d])
           C == FramesIn(toClient[d])   Cp == FramesIn(toClient'[d])
           D == FramesIn(txq[d])    Dp == FramesIn(txq'[d])
<1>0. /\ txq[d] \in Seq(Messages) /\ toClient[d] \in Seq(Messages)
      /\ outq[d] \in Seq(Messages) /\ msgq[d] \in Seq(Messages)
      /\ A \cup B \cup C \cup D \subseteq Nat
      /\ frame \in Nat /\ frame' \in Nat /\ frame <= frame'
  <2>1. frame' \in Nat
    BY FramesAssumption DEF TypeOK, ServerTypeOK
  <2> QED
    BY <2>1, DownTypes DEF FramesUnderWay, WindowStep
<1>1. InOrder(d) /\ shown.frame <= frame /\ shown.frame \in Nat
  BY DownTypes DEF FramesInv
<1>2. SUFFICES /\ FramesRise(msgq'[d]) /\ FramesRise(outq'[d]) /\ FramesRise(toClient'[d]) /\ FramesRise(txq'[d])
               /\ NotAbove(Ap, Bp \cup Cp \cup Dp) /\ NotAbove(Bp, Cp \cup Dp) /\ NotAbove(Cp, Dp)
               /\ \A f \in Ap \cup Bp \cup Cp \cup Dp :
                     f <= frame' /\ (shown.conn = d => shown.frame <= f)
  BY DEF InOrder, FramesUnderWay
<1>3. /\ FramesRise(msgq[d]) /\ FramesRise(outq[d]) /\ FramesRise(toClient[d]) /\ FramesRise(txq[d])
      /\ NotAbove(A, B \cup C \cup D) /\ NotAbove(B, C \cup D) /\ NotAbove(C, D)
      /\ \A f \in A \cup B \cup C \cup D : f <= frame /\ (shown.conn = d => shown.frame <= f)
  BY <1>1 DEF InOrder, FramesUnderWay
<1> HIDE DEF A, B, C, D, Ap, Bp, Cp, Dp
<1>4. CASE DownStill(d)
  <2>1. Ap = A /\ Bp = B /\ Cp = C /\ Dp = D
    BY <1>4 DEF DownStill, A, B, C, D, Ap, Bp, Cp, Dp
  <2> QED
    BY <1>0, <1>3, <1>4, <2>1 DEF DownStill
<1>5. CASE /\ Shorter(txq[d], txq'[d]) /\ Shorter(toClient[d], toClient'[d])
           /\ Shorter(outq[d], outq'[d]) /\ Shorter(msgq[d], msgq'[d])
  <2>1. Ap \subseteq A /\ Bp \subseteq B /\ Cp \subseteq C /\ Dp \subseteq D
    BY <1>0, <1>5, ArgsShorter DEF A, B, C, D, Ap, Bp, Cp, Dp, FramesIn
  <2>2. FramesRise(msgq'[d]) /\ FramesRise(outq'[d]) /\ FramesRise(toClient'[d]) /\ FramesRise(txq'[d])
    BY <1>0, <1>3, <1>5, ArgsShorter DEF FramesRise
  <2> QED
    BY <1>0, <1>3, <2>1, <2>2 DEF NotAbove, Below
<1>6. CASE Queued(d)
  <2>1. PICK m \in Messages : Reply(d, m) /\ txq'[d] = Append(txq[d], m)
    BY <1>6 DEF Queued
  <2> DEFINE h == ArgOf(m, "ScreenFrame")
  <2>2. \A f \in h : f = frame
    BY <2>1 DEF ArgOf, Reply
  <2>3. Ap = A /\ Bp = B /\ Cp = C /\ Dp = D \cup h
    BY <1>0, <1>6, <2>1, ArgsAppend DEF Queued, A, B, C, D, Ap, Bp, Cp, Dp, FramesIn
  <2>4. NotAbove(D, h)
    BY <1>0, <1>3, <2>2 DEF NotAbove, Below
  <2>5. FramesRise(txq'[d])
    BY <1>0, <1>3, <2>1, <2>4, ArgsAppend DEF FramesRise, NotAbove, D, FramesIn
  <2> HIDE DEF h
  <2> QED
    BY <1>0, <1>1, <1>3, <1>6, <2>2, <2>3, <2>5 DEF NotAbove, Below, Queued
<1>7. CASE Written(d)
  <2> DEFINE m == Head(txq[d])   h == ArgOf(m, "ScreenFrame")
  <2>1. m \in Messages /\ D = h \cup Dp /\ FramesRise(txq'[d]) /\ NotAbove(h, Dp)
    BY <1>0, <1>3, <1>7, ArgsFirst DEF Written, FramesRise, NotAbove, D, Dp, FramesIn
  <2>2. Ap = A /\ Bp = B /\ Cp = C \cup h
    BY <1>0, <1>7, <2>1, ArgsAppend DEF Written, A, B, C, Ap, Bp, Cp, FramesIn
  <2>3. NotAbove(C, h)
    BY <1>3, <2>1 DEF NotAbove, Below
  <2>4. FramesRise(toClient'[d])
    BY <1>0, <1>3, <1>7, <2>1, <2>3, ArgsAppend DEF Written, FramesRise, NotAbove, C, FramesIn
  <2> HIDE DEF h
  <2> QED
    BY <1>0, <1>3, <1>7, <2>1, <2>2, <2>4 DEF NotAbove, Below, Written
<1>8. CASE Received(d)
  <2> DEFINE m == Head(toClient[d])   h == ArgOf(m, "ScreenFrame")
  <2>1. m \in Messages /\ C = h \cup Cp /\ FramesRise(toClient'[d]) /\ NotAbove(h, Cp)
    BY <1>0, <1>3, <1>8, ArgsFirst DEF Received, FramesRise, NotAbove, C, Cp, FramesIn
  <2>2. Ap = A /\ Bp = B \cup h /\ Dp = D
    BY <1>0, <1>8, <2>1, ArgsAppend DEF Received, A, B, D, Ap, Bp, Dp, FramesIn
  <2>3. NotAbove(B, h)
    BY <1>3, <2>1 DEF NotAbove, Below
  <2>4. FramesRise(outq'[d])
    BY <1>0, <1>3, <1>8, <2>1, <2>3, ArgsAppend DEF Received, FramesRise, NotAbove, B, FramesIn
  <2> HIDE DEF h
  <2> QED
    BY <1>0, <1>3, <1>8, <2>1, <2>2, <2>4 DEF NotAbove, Below, Received
<1>9. CASE Forwarded(d)
  <2> DEFINE m == Head(outq[d])   h == ArgOf(m, "ScreenFrame")
  <2>1. m \in Messages /\ B = h \cup Bp /\ FramesRise(outq'[d]) /\ NotAbove(h, Bp)
    BY <1>0, <1>3, <1>9, ArgsFirst DEF Forwarded, FramesRise, NotAbove, B, Bp, FramesIn
  <2>2. Ap = A \cup h /\ Cp = C /\ Dp = D
    BY <1>0, <1>9, <2>1, ArgsAppend DEF Forwarded, A, C, D, Ap, Cp, Dp, FramesIn
  <2>3. NotAbove(A, h)
    BY <1>3, <2>1 DEF NotAbove, Below
  <2>4. FramesRise(msgq'[d])
    BY <1>0, <1>3, <1>9, <2>1, <2>3, ArgsAppend DEF Forwarded, FramesRise, NotAbove, A, FramesIn
  <2> HIDE DEF h
  <2> QED
    BY <1>0, <1>3, <1>9, <2>1, <2>2, <2>4 DEF NotAbove, Below, Forwarded
<1> QED
  BY <1>4, <1>5, <1>6, <1>7, <1>8, <1>9 DEF DownStep, DownCut, LoggedIn, Displayed, Shorter

(* update shows one of the frames it takes: what remains under way is not  *)
(* older than any of them.                                                 *)
LEMMA OrderShown ==
  ASSUME TypeOK, TypeOK', FramesInv, WindowStep, NEW d \in Conns, Displayed(d)
  PROVE  InOrder(d)' /\ (shown' = shown \/ (shown'.conn = d /\ shown'.frame <= frame /\
                                            (shown.conn = d => shown.frame <= shown'.frame)))
<1>1. InOrder(d) /\ msgq'[d] = <<>> /\ UNCHANGED <<txq[d], toClient[d], outq[d]>>
  BY DEF FramesInv, Displayed
<1>2. /\ FramesUnderWay(d) \subseteq Nat /\ frame \in Nat /\ frame' \in Nat /\ frame <= frame'
      /\ shown.frame \in Nat
  <2>1. frame' \in Nat
    BY FramesAssumption DEF TypeOK, ServerTypeOK
  <2> QED
    BY <2>1, DownTypes DEF WindowStep
<1>3. FramesIn(msgq'[d]) = {} /\ FramesRise(msgq'[d])
  BY <1>1, ArgsNone DEF FramesIn, FramesRise
<1>4. \/ shown' = shown
      \/ shown'.conn = d /\ shown'.frame \in FramesIn(msgq[d])
  BY DEF Displayed, FramesIn
<1>5. \A f \in FramesUnderWay(d)' : f \in FramesUnderWay(d) /\ f <= frame' /\ (shown'.conn = d => shown'.frame <= f)
  <2> SUFFICES ASSUME NEW f \in FramesUnderWay(d)'
               PROVE  f \in FramesUnderWay(d) /\ f <= frame' /\ (shown'.conn = d => shown'.frame <= f)
    OBVIOUS
  <2>1. f \in FramesIn(outq[d]) \cup FramesIn(toClient[d]) \cup FramesIn(txq[d])
    BY <1>1, <1>3 DEF FramesUnderWay
  <2>2. f \in FramesUnderWay(d) /\ f <= frame' /\ (shown.conn = d => shown.frame <= f)
    BY <1>1, <1>2, <2>1 DEF InOrder, FramesUnderWay
  <2>3. shown'.frame \in FramesIn(msgq[d]) => shown'.frame <= f
    <3>1. shown'.frame \in FramesIn(msgq[d]) => shown'.frame + 0 <= f /\ shown'.frame \in Nat
      BY <1>1, <1>2, <2>1 DEF InOrder, NotAbove, Below, FramesUnderWay
    <3> QED
      BY <3>1
  <2> QED
    BY <1>4, <2>2, <2>3
<1>6. InOrder(d)'
  BY <1>1, <1>3, <1>5 DEF InOrder, NotAbove, Below, FramesUnderWay
<1>7. shown'.frame \in FramesIn(msgq[d]) =>
         shown'.frame <= frame /\ (shown.conn = d => shown.frame <= shown'.frame)
  BY <1>1 DEF InOrder, FramesUnderWay
<1> QED
  BY <1>4, <1>6, <1>7

(* A step keeps the order and does not show an older frame.                *)
LEMMA FramesStep ==
  ASSUME Inv, Inv', FramesInv, WindowStep, \A d \in Conns : DownStep(d)
  PROVE  /\ FramesInv'
         /\ shown'.conn # 0 =>
               /\ shown'.conn >= shown.conn
               /\ shown'.frame >= shown.frame \/ shown'.conn > shown.conn
<1>0. TypeOK /\ TypeOK'
  BY DEF Inv
<1>1. frame \in Nat /\ made \in Nat /\ shown \in [conn : Nat, frame : Nat] /\ frame' \in Nat
      /\ made' \in Nat /\ cur \in Nat /\ shown' \in [conn : Nat, frame : Nat] /\ frame <= frame'
  BY <1>0, FramesAssumption, MaxConnAssumption DEF TypeOK, ServerTypeOK, ClientTypeOK, WindowStep
<1>2. shown.conn <= made /\ cur \in {0, made} /\ shown.frame <= frame /\ \A d \in Conns : d # 0
  BY MaxConnAssumption DEF FramesInv, Conns
<1>3. cur' \in {0, made'} /\ made <= made'
  BY <1>1, <1>2 DEF WindowStep
<1>4. CASE shown' \in {shown, NoTexture}
  <2>1. \A d \in Conns : shown'.conn = d => shown' = shown
    BY <1>2, <1>4 DEF NoTexture
  <2>2. \A d \in Conns : InOrder(d)'
    BY <1>0, <2>1, OrderKept
  <2>3. shown'.conn <= made' /\ shown'.frame <= frame'
    BY <1>1, <1>2, <1>3, <1>4 DEF NoTexture
  <2> QED
    BY <1>1, <1>3, <1>4, <2>2, <2>3 DEF FramesInv, NoTexture
<1>5. CASE cur \in Conns /\ Displayed(cur)
  <2>0. PICK c \in Conns : c = cur
    BY <1>5
  <2>1. InOrder(c)' /\ (shown' = shown \/ (shown'.conn = c /\ shown'.frame <= frame /\
                                           (shown.conn = c => shown.frame <= shown'.frame)))
    BY <1>0, <1>5, <2>0, OrderShown
  <2>2. \A d \in Conns : d # c => InOrder(d)'
    BY <1>0, <2>1, OrderKept
  <2>3. \A d \in Conns : InOrder(d)'
    BY <2>1, <2>2
  <2>4. cur = made
    BY <1>2, <1>5
  <2>5. shown'.conn <= made' /\ shown'.frame <= frame'
    BY <1>1, <1>2, <1>3, <2>0, <2>1, <2>4
  <2> QED
    BY <1>1, <1>2, <1>3, <2>0, <2>1, <2>3, <2>4, <2>5 DEF FramesInv
<1> QED
  BY <1>4, <1>5 DEF WindowStep

(* At the start nothing is under way.                                      *)
LEMMA FramesInit ==
  ASSUME Init
  PROVE  FramesInv
<1>1. \A d \in Conns : FramesUnderWay(d) = {}
  BY ArgsNone DEF Init, WireInit, ServerInit, ClientInit, FramesUnderWay, FramesIn
<1>2. \A d \in Conns : /\ FramesRise(msgq[d]) /\ FramesRise(outq[d])
                       /\ FramesRise(toClient[d]) /\ FramesRise(txq[d])
  BY ArgsNone DEF Init, WireInit, ServerInit, ClientInit, FramesRise
<1>3. \A d \in Conns : InOrder(d)
  BY <1>1, <1>2 DEF InOrder, FramesUnderWay, NotAbove, Below
<1> QED
  BY <1>3 DEF FramesInv, Init, ServerInit, ClientInit, NoTexture

AllSockets == \A c \in Conns : Sockets(c)

(* The sockets are as they should be in every reachable state.             *)
LEMMA SocketsInvariance == Spec => []AllSockets
<1>1. Init => AllSockets
  BY DEF Init, WireInit, ServerInit, ClientInit, AllSockets, Sockets
<1>2. ASSUME Inv, AllSockets, [Next]_vars PROVE AllSockets'
  <2>1. CASE UNCHANGED vars
    BY <1>2, <2>1 DEF vars, wireVars, serverVars, clientVars, AllSockets, Sockets
  <2> QED
    BY <1>2, <2>1, ServerSockets, ClientSockets DEF Next, AllSockets
<1> QED
  BY <1>1, <1>2, Invariance, PTL DEF Spec

(* Every step is one of those named above, at every connection.            *)
LEMMA DownSteps ==
  ASSUME Inv, AllSockets, [Next]_vars
  PROVE  WindowStep /\ \A d \in Conns : DownStep(d)
<1>1. CASE UNCHANGED vars
  <2>1. frame <= frame'
    BY <1>1, FramesAssumption DEF vars, serverVars, Inv, TypeOK, ServerTypeOK
  <2> QED
    BY <1>1, <2>1 DEF vars, wireVars, serverVars, clientVars, WindowStep, DownStep, DownStill
<1>2. CASE Next
  BY <1>2, WindowSteps, ServerDown, ClientDown DEF Next, AllSockets
<1> QED
  BY <1>1, <1>2

(* Frames stay in order in every reachable state.                          *)
LEMMA FramesInvariance == Spec => []FramesInv
<1>1. Inv /\ Inv' /\ AllSockets /\ FramesInv /\ [Next]_vars => FramesInv'
  BY DownSteps, FramesStep
<1> QED
  BY <1>1, FramesInit, Invariance, SocketsInvariance, PTL DEF Spec

(* The window never goes back to an older frame of a connection nor to a   *)
(* frame of an older connection (screen_capture_loop, the four channels    *)
(* behind it and update), however many of each there are.                  *)
THEOREM FramesNeverBack == Spec => FramesForward
<1> DEFINE Forward == shown'.conn # 0 => /\ shown'.conn >= shown.conn
                                         /\ shown'.frame >= shown.frame \/ shown'.conn > shown.conn
<1>1. Inv /\ Inv' /\ AllSockets /\ FramesInv /\ [Next]_vars => [Forward]_vars
  BY DownSteps, FramesStep
<1> QED
  BY <1>1, Invariance, SocketsInvariance, FramesInvariance, PTL DEF Spec, FramesForward

-----------------------------------------------------------------------------
(* What the window says about its connection.                              *)

Verdicts(q) == Args(q, "AuthResponse")

(* No answer to a login is under way twice, none that grants it without a  *)
(* session having been made, and none when the client has had it. (Being 0 *)
(* or 1, verdicts that rise by 2 are one at most.)                         *)
Answers(d) ==
    /\ Verdicts(txq[d]) \cup Verdicts(toClient[d]) \subseteq {0, 1}
    /\ 1 \in Verdicts(txq[d]) \cup Verdicts(toClient[d]) => hsid[d] # 0
    /\ Verdicts(outq[d]) = {} /\ Verdicts(msgq[d]) = {}
    /\ hst[d] = "reply" => hsid[d] # 0 /\ cst[d] # "up"
    /\ cst[d] = "up" => hsid[d] # 0 /\ Verdicts(txq[d]) \cup Verdicts(toClient[d]) = {}
    /\ cst[d] = "auth" =>
          /\ Rising(txq[d], "AuthResponse", 2) /\ Rising(toClient[d], "AuthResponse", 2)
          /\ Below(Verdicts(toClient[d]), Verdicts(txq[d]), 2)

(* How a connection gets from one stage to the next.                       *)
StageStep(d) ==
    /\ hsid[d] # 0 => hsid'[d] # 0
    /\ hst'[d] = "reply" => hst[d] = "reply" \/ (hsid'[d] # 0 /\ cst'[d] # "up")
    /\ cst'[d] = "up" => cst[d] = "up" \/ (LoggedIn(d) /\ Head(toClient[d]).arg # 0)
    /\ cst'[d] = "auth" => cst[d] = "auth" \/ (txq'[d] = <<>> /\ toClient'[d] = <<>>)
    /\ hst'[d] = "reply" /\ cst'[d] = "up" => cst[d] = "up" /\ hst[d] = "reply"

(* At the server: Login and the answer to it.                              *)
LEMMA ServerStage ==
  ASSUME Inv, ServerNext, UNCHANGED clientVars
  PROVE  \A d \in Conns : StageStep(d)
<1> SUFFICES ASSUME NEW d \in Conns PROVE StageStep(d)
  OBVIOUS
<1>0. TypeOK /\ UNCHANGED cst
  BY DEF Inv, clientVars
<1>1. ASSUME UNCHANGED hsid, hst'[d] = "reply" => hst[d] = "reply" PROVE StageStep(d)
  BY <1>0, <1>1 DEF StageStep
<1>2. ASSUME NEW c \in Conns, NEW why \in Failed, Fail(c, why) PROVE hst'[d] = "reply" => hst[d] = "reply"
  BY <1>0, <1>2 DEF Fail, Failed, TypeOK, ServerTypeOK
<1>3. ASSUME NEW c \in Conns, Finish(c) PROVE hst'[d] = "reply" => hst[d] = "reply"
  BY <1>0, <1>3 DEF Finish, TypeOK, ServerTypeOK
<1>4. ASSUME NEW c \in Conns, NEW m, Respond(c, m) PROVE hst'[d] = "reply" => hst[d] = "reply"
  BY <1>2, <1>3, <1>4 DEF Respond, Failed
<1>5. ASSUME NEW c \in Conns, HandleAuthRequest(c) PROVE StageStep(d)
  <2>1. hst[c] = "parse" /\ Incoming(c).type = "AuthRequest"
    BY <1>5 DEF HandleAuthRequest, Takes
  <2>2. CASE hkey[c] = NoKey
    <3>1. Fail(c, "no_key") /\ UNCHANGED hsid
      BY <1>5, <2>2 DEF HandleAuthRequest
    <3> QED
      BY <1>1, <1>2, <3>1 DEF Failed
  <2>3. CASE hkey[c] # NoKey /\ Verified(Incoming(c))
    <3>1. hsid' = [hsid EXCEPT ![c] = nextSid] /\ hst' = [hst EXCEPT ![c] = "reply"]
      BY <1>5, <2>3 DEF HandleAuthRequest, Login
    <3>2. cst[c] # "up"
      <4>1. Incoming(c) \in Up(c)
        BY <2>1, IncomingFacts
      <4> QED
        BY <2>1, <2>3, <4>1 DEF Up, UpMessages, AppTypes
    <3>3. nextSid # 0
      BY <1>0 DEF TypeOK, ServerTypeOK
    <3> QED
      BY <1>0, <3>1, <3>2, <3>3 DEF StageStep, TypeOK, ServerTypeOK
  <2>4. CASE hkey[c] # NoKey /\ ~Verified(Incoming(c))
    BY <1>1, <1>4, <1>5, <2>4 DEF HandleAuthRequest, Refuse
  <2> QED
    BY <2>2, <2>3, <2>4
<1>6. ASSUME NEW c \in Conns, Accept(c) \/ ReadBuf(c) \/ Cleanup(c) \/ HandleDisconnect(c) PROVE StageStep(d)
  BY <1>0, <1>1, <1>6 DEF Accept, ReadBuf, Cleanup, HandleDisconnect, TypeOK, ServerTypeOK
<1>7. ASSUME NEW c \in Conns, HandlerError(c) PROVE StageStep(d)
  BY <1>1, <1>2, <1>7 DEF HandlerError, ErrorOf, Failed
<1>8. ASSUME NEW c \in Conns, HandleKeyExchange(c) \/ AuthReply(c) PROVE StageStep(d)
  BY <1>1, <1>4, <1>8 DEF HandleKeyExchange, AuthReply
<1>9. ASSUME NEW c \in Conns, HandleStartStream(c) \/ HandleQualityRequest(c) PROVE StageStep(d)
  BY <1>1, <1>3, <1>4, <1>9 DEF HandleStartStream, HandleQualityRequest
<1>10. ASSUME NEW c \in Conns, HandleInput(c) \/ HandleOther(c) PROVE StageStep(d)
  BY <1>1, <1>2, <1>3, <1>10 DEF HandleInput, HandleOther, Failed
<1>11. ASSUME NEW c \in Conns, ServerWriterStep(c) PROVE StageStep(d)
  BY <1>1, <1>11 DEF ServerWriterStep, ServerWrite, ServerWriterEnds, writerFrame
<1>12. ASSUME Capture \/ VisitStep \/ ExpireCode PROVE StageStep(d)
  BY <1>1, <1>12 DEF Capture, VisitStep, SkipSession, SendFrame, ExpireCode, captureFrame
<1>13. ASSUME ServerExit PROVE StageStep(d)
  BY <1>1, <1>13 DEF ServerExit
<1> QED
  BY <1>5, <1>6, <1>7, <1>8, <1>9, <1>10, <1>11, <1>12, <1>13 DEF ServerNext, HandlerStep

(* At the client: the key exchange acknowledged, and the login granted.    *)
LEMMA ClientStage ==
  ASSUME Inv, ClientNext, UNCHANGED serverVars
  PROVE  \A d \in Conns : StageStep(d)
<1> SUFFICES ASSUME NEW d \in Conns PROVE StageStep(d)
  OBVIOUS
<1>0. TypeOK /\ UNCHANGED <<hsid, hst, txq>>
  BY DEF Inv, serverVars
<1>1. ASSUME cst'[d] \notin {"up", "auth"} \/ cst'[d] = cst[d] PROVE StageStep(d)
  BY <1>0, <1>1 DEF StageStep
<1>2. ASSUME NEW c \in Conns, NEW why \in Failures, NEW rest, ConnectFails(c, why, rest) PROVE StageStep(d)
  BY <1>0, <1>1, <1>2 DEF ConnectFails, Failures, TypeOK, ClientTypeOK
<1>3. ASSUME NEW c \in Conns, RecvAck(c) PROVE StageStep(d)
  <2>1. cst[c] = "ack" /\ toClient[c] # <<>>
    BY <1>3 DEF RecvAck
  <2>2. CASE Decrypts(NoKey, Head(toClient[c])) /\ Head(toClient[c]).type = "KeyExchangeAck"
    <3>1. cst' = [cst EXCEPT ![c] = "auth"] /\ toClient' = [toClient EXCEPT ![c] = Tail(@)]
      BY <1>3, <2>2 DEF RecvAck
    <3>2. txq[c] = <<>> /\ Tail(toClient[c]) = <<>>
      <4>1. toClient[c] \in Seq(Messages) /\ txq[c] \in Seq(Messages)
        BY <1>0 DEF TypeOK, WireTypeOK, ServerTypeOK
      <4> DEFINE a == Len(txq[c])   b == Len(toClient[c])
      <4>2. a \in Nat /\ b \in Nat /\ b # 0
        BY <2>1, <4>1, SeqFacts
      <4>3. a + b = 0 \/ a + b <= 1
        BY <2>1 DEF Inv, ConnInv, BeforeAck
      <4>4. Len(txq[c]) = 0 /\ Len(toClient[c]) = 1
        <5>1. a = 0 /\ b = 1
          <6> HIDE DEF a, b
          <6> QED
            BY <4>2, <4>3
        <5> QED
          BY <5>1
      <4>5. Tail(toClient[c]) \in Seq(Messages) /\ Len(Tail(toClient[c])) = 0
        BY <2>1, <4>1, <4>4, SeqFacts
      <4> QED
        BY <4>1, <4>4, <4>5, SeqFacts
    <3>3. /\ d = c => txq'[d] = <<>> /\ toClient'[d] = <<>> /\ cst'[d] = "auth"
          /\ d # c => cst'[d] = cst[d]
      BY <1>0, <3>1, <3>2 DEF TypeOK, WireTypeOK, ClientTypeOK
    <3> QED
      BY <1>0, <1>1, <3>3 DEF StageStep
  <2>3. CASE ~(Decrypts(NoKey, Head(toClient[c])) /\ Head(toClient[c]).type = "KeyExchangeAck")
    <3>1. ConnectFails(c, "expected_ack", Tail(toClient[c]))
      BY <1>3, <2>3 DEF RecvAck
    <3> QED
      BY <1>2, <3>1 DEF Failures
  <2> QED
    BY <2>2, <2>3
<1>4. ASSUME NEW c \in Conns, RecvAuth(c) PROVE StageStep(d)
  <2>1. cst[c] = "auth" /\ toClient[c] # <<>>
    BY <1>4 DEF RecvAuth
  <2> DEFINE m == Head(toClient[c])
  <2>2. CASE ~Decrypts(ckey[c], m) \/ m.type # "AuthResponse" \/ m.arg = 0
    <3>1. PICK why \in Failures : ConnectFails(c, why, Tail(toClient[c]))
      BY <1>4, <2>2 DEF RecvAuth, Failures
    <3> QED
      BY <1>2, <3>1
  <2>3. CASE ~(~Decrypts(ckey[c], m) \/ m.type # "AuthResponse") /\ m.arg # 0
    <3>1. /\ cst' = [cst EXCEPT ![c] = "up"] /\ toClient' = [toClient EXCEPT ![c] = Tail(@)]
          /\ UNCHANGED <<outq, msgq>>
      BY <1>4, <2>3 DEF RecvAuth
    <3>2. /\ d = c => cst'[d] = "up" /\ toClient'[d] = Tail(toClient[d])
          /\ d # c => cst'[d] = cst[d]
      BY <1>0, <3>1 DEF TypeOK, WireTypeOK, ClientTypeOK
    <3>3. d = c => LoggedIn(d) /\ m.arg # 0
      BY <1>0, <2>1, <2>3, <3>1, <3>2 DEF LoggedIn
    <3>4. hst[c] # "reply"
      <4>1. ASSUME Len(hbuf[c]) > 0 PROVE FALSE
        <5>1. Unanswered(c)
          BY <1>0, <4>1, QueueTyping DEF Unanswered, QueueTypes
        <5>2. m \in Down(c)
          BY <2>1, SeqFacts DEF Inv, ConnInv, Queues
        <5> QED
          BY <2>1, <2>3, <5>1, <5>2 DEF Down, DownMessages
      <4> QED
        BY <4>1 DEF Inv, ConnInv, Handler
    <3> QED
      BY <1>0, <1>1, <3>2, <3>3, <3>4 DEF StageStep
  <2> QED
    BY <2>2, <2>3
<1>5. ASSUME NEW c \in Conns, TcpRefused(c) \/ HandshakeClosed(c) PROVE StageStep(d)
  BY <1>2, <1>5 DEF TcpRefused, HandshakeClosed, Failures
<1>6. ASSUME NEW c \in Conns, TcpConnect(c) PROVE StageStep(d)
  BY <1>0, <1>1, <1>6 DEF TcpConnect, TypeOK, ClientTypeOK
<1>7. ASSUME NEW c \in Conns, TaskStep(c) PROVE StageStep(d)
  BY <1>1, <1>7 DEF TaskStep, ReaderRecv, ReaderEnds, MainForward, MainEnds, ForwarderSend,
     ForwarderEnds, WriterSend, WriterEnds
<1>8. ASSUME NEW c \in Conns, NEW typed \in Codes, Connect(c, typed) PROVE StageStep(d)
  BY <1>0, <1>1, <1>8 DEF Connect, TypeOK, ClientTypeOK
<1>9. ASSUME Disconnect \/ UserInput \/ Update \/ \E mode \in Choices : RequestQuality(mode) PROVE StageStep(d)
  BY <1>1, <1>9 DEF Disconnect, UserInput, Update, RequestQuality
<1>10. ASSUME Exit PROVE StageStep(d)
  BY <1>1, <1>10 DEF Exit
<1> QED
  BY <1>3, <1>4, <1>5, <1>6, <1>7, <1>8, <1>9, <1>10 DEF ClientNext, ConnectStep, UserStep

(* An answer given while the client waits for one is the only one.         *)
LEMMA AnswerAlone ==
  ASSUME Inv, NEW d \in Conns, cst[d] = "auth", Unanswered(d)
  PROVE  Verdicts(txq[d]) = {} /\ Verdicts(toClient[d]) = {}
<1>1. txq[d] \in Seq(Down(d)) /\ toClient[d] \in Seq(Down(d))
  BY DEF Inv, ConnInv, Queues
<1>2. \A m \in Down(d) : m.type # "AuthResponse"
  BY DEF Down, DownMessages
<1>3. ASSUME NEW q \in Seq(Down(d)) PROVE Verdicts(q) = {}
  <2>1. \A i \in 1..Len(q) : q[i] \in Down(d)
    BY ElementOfSeq
  <2> QED
    BY <1>2, <2>1 DEF Verdicts, Args, Places
<1> QED
  BY <1>1, <1>3

(* A step keeps what is known about answers.                               *)
LEMMA AnswersStep ==
  ASSUME Inv, NEW d \in Conns, Answers(d), DownStep(d), StageStep(d)
  PROVE  Answers(d)'
<1> DEFINE M == Verdicts(msgq[d])       Mp == Verdicts(msgq'[d])
           O == Verdicts(outq[d])       Op == Verdicts(outq'[d])
           C == Verdicts(toClient[d])   Cp == Verdicts(toClient'[d])
           X == Verdicts(txq[d])        Xp == Verdicts(txq'[d])
           Rise(q) == Rising(q, "AuthResponse", 2)
           Chain == Rise(txq[d]) /\ Rise(toClient[d]) /\ Below(C, X, 2)
           Chained == Rise(txq'[d]) /\ Rise(toClient'[d]) /\ Below(Cp, Xp, 2)
<1>0. /\ txq[d] \in Seq(Messages) /\ toClient[d] \in Seq(Messages)
      /\ outq[d] \in Seq(Messages) /\ msgq[d] \in Seq(Messages)
  BY DownTypes DEF Inv
<1>1. /\ X \cup C \subseteq {0, 1} /\ O = {} /\ M = {}
      /\ 1 \in X \cup C => hsid[d] # 0
      /\ cst[d] = "up" => X \cup C = {}
      /\ cst[d] = "auth" => Chain
  BY DEF Answers
<1>2. SUFFICES /\ Xp \cup Cp \subseteq {0, 1} /\ Op = {} /\ Mp = {}
               /\ 1 \in Xp \cup Cp => hsid[d] # 0
               /\ cst[d] = "up" => Xp \cup Cp = {}
               /\ cst[d] = "auth" => Chained
               /\ cst'[d] = "up" /\ cst[d] # "up" => hsid[d] # 0 /\ Xp \cup Cp = {}
  <2>1. hst'[d] = "reply" => hsid'[d] # 0 /\ cst'[d] # "up"
    BY DEF Answers, StageStep
  <2>2. cst'[d] = "auth" => Chained
    <3>1. CASE txq'[d] = <<>> /\ toClient'[d] = <<>>
      BY <3>1, ArgsNone DEF Below, Verdicts
    <3> QED
      BY <1>2, <3>1 DEF StageStep
  <2>3. cst'[d] = "up" => hsid'[d] # 0
    BY <1>2 DEF Answers, StageStep
  <2>4. 1 \in Xp \cup Cp => hsid'[d] # 0
    BY <1>2 DEF StageStep
  <2> QED
    BY <1>2, <2>1, <2>2, <2>3, <2>4 DEF Answers
<1>3. cst'[d] = "up" /\ cst[d] # "up" =>
         /\ cst[d] = "auth" /\ toClient[d] # <<>> /\ txq'[d] = txq[d] /\ toClient'[d] = Tail(toClient[d])
         /\ Head(toClient[d]).type = "AuthResponse" /\ Head(toClient[d]).arg # 0
  BY DEF StageStep, LoggedIn
<1>4. cst'[d] = "up" /\ cst[d] # "up" => hsid[d] # 0 /\ Xp \cup Cp = {}
  <2> SUFFICES ASSUME cst'[d] = "up" /\ cst[d] # "up" PROVE hsid[d] # 0 /\ Xp \cup Cp = {}
    OBVIOUS
  <2> DEFINE m == Head(toClient[d])
  <2>1. C = ArgOf(m, "AuthResponse") \cup Cp /\ Below(ArgOf(m, "AuthResponse"), Cp, 2) /\ Xp = X
    BY <1>0, <1>1, <1>3, ArgsFirst DEF Verdicts
  <2>2. ArgOf(m, "AuthResponse") = {m.arg}
    BY <1>3 DEF ArgOf
  <2>3. m.arg = 1 /\ hsid[d] # 0
    BY <1>1, <1>3, <2>1, <2>2
  <2>4. \A b \in Cp \cup Xp : m.arg + 2 <= b /\ b \in {0, 1}
    BY <1>1, <1>3, <2>1, <2>2 DEF Below
  <2> HIDE DEF m
  <2> QED
    BY <2>3, <2>4
<1> HIDE DEF M, Mp, O, Op, C, Cp, X, Xp, Rise
<1>5. CASE /\ Shorter(txq[d], txq'[d]) /\ Shorter(toClient[d], toClient'[d])
           /\ Shorter(outq[d], outq'[d]) /\ Shorter(msgq[d], msgq'[d])
  <2>1. Xp \subseteq X /\ Cp \subseteq C /\ Op \subseteq O /\ Mp \subseteq M
    BY <1>0, <1>5, ArgsShorter DEF M, Mp, O, Op, C, Cp, X, Xp, Verdicts
  <2>2. Chain => Rise(txq'[d]) /\ Rise(toClient'[d])
    BY <1>0, <1>5, ArgsShorter DEF Rise
  <2>3. Chain => Chained
    BY <2>1, <2>2 DEF Below
  <2> HIDE DEF Chain, Chained
  <2> QED
    BY <1>1, <1>4, <2>1, <2>3
<1>6. CASE Queued(d)
  <2>1. PICK m \in Messages : Reply(d, m) /\ txq'[d] = Append(txq[d], m)
    BY <1>6 DEF Queued
  <2> DEFINE h == ArgOf(m, "AuthResponse")
  <2>2. Mp = M /\ Op = O /\ Cp = C /\ Xp = X \cup h /\ toClient'[d] = toClient[d]
    BY <1>0, <1>6, <2>1, ArgsAppend DEF Queued, M, Mp, O, Op, C, Cp, X, Xp, Verdicts
  <2>3. h = {} \/ (h = {m.arg} /\ m.arg \in {0, 1} /\ Unanswered(d)
                     /\ IF m.arg = 0 THEN cst[d] # "up" ELSE hst[d] = "reply")
    BY <2>1 DEF ArgOf, Reply
  <2>4. h # {} => cst[d] # "up" /\ (1 \in h => hsid[d] # 0)
    BY <2>3 DEF Answers
  <2>5. h # {} /\ cst[d] = "auth" => X = {} /\ C = {}
    BY <2>3, AnswerAlone DEF X, C
  <2>6. cst[d] = "auth" => Below(X, h, 2) /\ Below(Cp, Xp, 2)
    BY <1>1, <2>2, <2>5 DEF Below
  <2>7. cst[d] = "auth" => Rise(txq'[d])
    BY <1>0, <1>1, <2>1, <2>6, ArgsAppend DEF Rise, X, Verdicts
  <2>8. cst[d] = "auth" => Chained
    BY <1>1, <2>2, <2>6, <2>7
  <2> HIDE DEF h, Chain, Chained
  <2> QED
    BY <1>1, <1>4, <2>2, <2>3, <2>4, <2>8
<1>7. CASE Written(d)
  <2> DEFINE m == Head(txq[d])   h == ArgOf(m, "AuthResponse")
  <2>1. m \in Messages /\ X = h \cup Xp /\ (Chain => Rise(txq'[d]) /\ Below(h, Xp, 2))
    BY <1>0, <1>7, ArgsFirst DEF Written, Rise, X, Xp, Verdicts
  <2>2. Mp = M /\ Op = O /\ Cp = C \cup h
    BY <1>0, <1>7, <2>1, ArgsAppend DEF Written, M, O, C, Mp, Op, Cp, Verdicts
  <2>3. Chain => Below(C, h, 2) /\ Below(Cp, Xp, 2)
    BY <2>1, <2>2 DEF Below
  <2>4. Chain => Rise(toClient'[d])
    BY <1>0, <1>7, <2>1, <2>3, ArgsAppend DEF Written, Rise, C, Verdicts
  <2>5. Chain => Chained
    BY <2>1, <2>3, <2>4
  <2> HIDE DEF h, Chain, Chained
  <2> QED
    BY <1>1, <1>4, <2>1, <2>2, <2>5
<1>8. CASE Received(d)
  <2> DEFINE m == Head(toClient[d])   h == ArgOf(m, "AuthResponse")
  <2>1. cst[d] = "up"
    BY <1>8 DEF Received, Inv, ConnInv, BeforeUp
  <2>2. m \in Messages /\ C = h \cup Cp
    BY <1>0, <1>8, ArgsFirst DEF Received, C, Cp, Verdicts
  <2>3. Mp = M /\ Op = O \cup h /\ Xp = X
    BY <1>0, <1>8, <2>2, ArgsAppend DEF Received, M, O, X, Mp, Op, Xp, Verdicts
  <2> HIDE DEF h, Chain, Chained
  <2> QED
    BY <1>1, <1>4, <2>1, <2>2, <2>3
<1>9. CASE Forwarded(d)
  <2> DEFINE m == Head(outq[d])   h == ArgOf(m, "AuthResponse")
  <2>1. m \in Messages /\ O = h \cup Op
    BY <1>0, <1>9, ArgsFirst DEF Forwarded, O, Op, Verdicts
  <2>2. Mp = M \cup h /\ Cp = C /\ Xp = X /\ (Chain => Chained)
    BY <1>0, <1>9, <2>1, ArgsAppend DEF Forwarded, M, C, X, Mp, Cp, Xp, Verdicts
  <2> HIDE DEF h, Chain, Chained
  <2> QED
    BY <1>1, <1>4, <2>1, <2>2
<1> QED
  BY <1>5, <1>6, <1>7, <1>8, <1>9 DEF DownStep, DownStill, DownCut, LoggedIn, Displayed, Shorter

(* State s is true of connection d.                                        *)
HonestOf(d, s) ==
    /\ s = "Connected" => cst[d] = "up"
    /\ s = "Disconnected" => cst[d] = "up" /\ "main" \notin tasks[d]
    /\ s = "Error" => cst[d] \in Failures
TrueStates(d) == {s \in AppStates : HonestOf(d, s)}

(* So is every state that waits to be shown, and the one that is shown.    *)
ReportsTrue(d) == stq[d] \in Seq(TrueStates(d))
HonestInv ==
    /\ \A d \in Conns : Answers(d) /\ ReportsTrue(d)
    /\ cur # 0 => HonestOf(cur, state)

(* What ended or failed stays so, and reports are added only when true.    *)
ReportStep(d) ==
    /\ cst[d] = "up" => cst'[d] = "up" /\ tasks'[d] \subseteq tasks[d]
    /\ cst[d] \in Failures => cst'[d] = cst[d]
    /\ \/ Shorter(stq[d], stq'[d])
       \/ \E s \in AppStates : stq'[d] = Append(stq[d], s) /\ HonestOf(d, s)'

(* Such a step keeps the reports true.                                     *)
LEMMA ReportsKept ==
  ASSUME NEW d \in Conns, ReportsTrue(d), ReportStep(d)
  PROVE  ReportsTrue(d)' /\ TrueStates(d) \subseteq TrueStates(d)'
<1>1. TrueStates(d) \subseteq TrueStates(d)'
  BY DEF TrueStates, HonestOf, ReportStep
<1>2. stq[d] \in Seq(TrueStates(d)')
  BY <1>1, SeqMonotonic DEF ReportsTrue
<1>3. CASE Shorter(stq[d], stq'[d])
  BY <1>1, <1>2, <1>3, SeqFacts, EmptySeq DEF Shorter, ReportsTrue
<1>4. CASE \E s \in AppStates : stq'[d] = Append(stq[d], s) /\ HonestOf(d, s)'
  <2>1. PICK s \in AppStates : stq'[d] = Append(stq[d], s) /\ HonestOf(d, s)'
    BY <1>4
  <2>2. s \in TrueStates(d)'
    BY <2>1 DEF TrueStates
  <2> QED
    BY <1>1, <1>2, <2>1, <2>2, SeqFacts DEF ReportsTrue
<1> QED
  BY <1>1, <1>3, <1>4 DEF ReportStep

(* Every step of the client is such a step.                                *)
LEMMA ReportSteps ==
  ASSUME Inv, ClientNext, NEW d \in Conns
  PROVE  ReportStep(d)
<1>0. TypeOK
  BY DEF Inv
<1>1. ASSUME cst'[d] = cst[d], tasks'[d] \subseteq tasks[d], Shorter(stq[d], stq'[d]) PROVE ReportStep(d)
  BY <1>1 DEF ReportStep
<1>2. ASSUME NEW c \in Conns, NEW why \in Failures, NEW rest, ConnectFails(c, why, rest),
             cst[c] \in Handshake
      PROVE  ReportStep(d)
  <2>1. /\ cst' = [cst EXCEPT ![c] = why] /\ UNCHANGED tasks
        /\ stq' = [stq EXCEPT ![c] = IF cur = c THEN Append(@, "Error") ELSE @]
    BY <1>2 DEF ConnectFails, Reports
  <2>2. CASE d = c
    <3>1. cst'[d] = why /\ stq'[d] \in {stq[d], Append(stq[d], "Error")}
      BY <1>0, <2>1, <2>2 DEF TypeOK, ClientTypeOK
    <3>2. HonestOf(d, "Error")'
      BY <3>1 DEF HonestOf
    <3> QED
      BY <1>2, <2>2, <3>1, <3>2 DEF ReportStep, Handshake, Failures, Shorter, AppStates
  <2>3. CASE d # c
    BY <1>0, <1>1, <2>1, <2>3 DEF TypeOK, ClientTypeOK, Shorter
  <2> QED
    BY <2>2, <2>3
<1>3. ASSUME NEW c \in Conns, TcpConnect(c) PROVE ReportStep(d)
  BY <1>0, <1>3 DEF TcpConnect, TypeOK, ClientTypeOK, ReportStep, Shorter, Failures
<1>4. ASSUME NEW c \in Conns, RecvAck(c) PROVE ReportStep(d)
  <2>1. CASE Decrypts(NoKey, Head(toClient[c])) /\ Head(toClient[c]).type = "KeyExchangeAck"
    <3>1. cst[c] = "ack" /\ cst' = [cst EXCEPT ![c] = "auth"] /\ UNCHANGED <<tasks, stq>>
      BY <1>4, <2>1 DEF RecvAck
    <3> QED
      BY <1>0, <3>1 DEF TypeOK, ClientTypeOK, ReportStep, Shorter, Failures
  <2>2. CASE ~(Decrypts(NoKey, Head(toClient[c])) /\ Head(toClient[c]).type = "KeyExchangeAck")
    <3>1. cst[c] = "ack" /\ ConnectFails(c, "expected_ack", Tail(toClient[c]))
      BY <1>4, <2>2 DEF RecvAck
    <3> QED
      BY <1>2, <3>1 DEF Failures, Handshake
  <2> QED
    BY <2>1, <2>2
<1>5. ASSUME NEW c \in Conns, RecvAuth(c) PROVE ReportStep(d)
  <2> DEFINE m == Head(toClient[c])
  <2>1. cst[c] = "auth"
    BY <1>5 DEF RecvAuth
  <2>2. CASE ~Decrypts(ckey[c], m) \/ m.type # "AuthResponse" \/ m.arg = 0
    <3>1. PICK why \in Failures : ConnectFails(c, why, Tail(toClient[c]))
      BY <1>5, <2>2 DEF RecvAuth, Failures
    <3> QED
      BY <1>2, <2>1, <3>1 DEF Handshake
  <2>3. CASE ~(~Decrypts(ckey[c], m) \/ m.type # "AuthResponse") /\ m.arg # 0
    <3>1. /\ cst' = [cst EXCEPT ![c] = "up"] /\ tasks' = [tasks EXCEPT ![c] = Tasks]
          /\ stq' = [stq EXCEPT ![c] = IF cur = c THEN Append(@, "Connected") ELSE @]
      BY <1>5, <2>3 DEF RecvAuth, Reports
    <3>2. CASE d = c
      <4>1. cst'[d] = "up" /\ stq'[d] \in {stq[d], Append(stq[d], "Connected")}
        BY <1>0, <3>1, <3>2 DEF TypeOK, ClientTypeOK
      <4>2. HonestOf(d, "Connected")'
        BY <4>1 DEF HonestOf
      <4> QED
        BY <2>1, <3>2, <4>1, <4>2 DEF ReportStep, Shorter, Failures, AppStates
    <3>3. CASE d # c
      BY <1>0, <1>1, <3>1, <3>3 DEF TypeOK, ClientTypeOK, Shorter
    <3> QED
      BY <3>2, <3>3
  <2> QED
    BY <2>2, <2>3
<1>6. ASSUME NEW c \in Conns, TcpRefused(c) \/ HandshakeClosed(c) PROVE ReportStep(d)
  BY <1>2, <1>6 DEF TcpRefused, HandshakeClosed, Failures, Handshake
<1>7. ASSUME NEW c \in Conns, NEW task, Ends(c, task) PROVE tasks'[d] \subseteq tasks[d]
  BY <1>0, <1>7 DEF Ends, TypeOK, ClientTypeOK
<1>8. ASSUME NEW c \in Conns, MainEnds(c) PROVE ReportStep(d)
  <2>1. /\ UNCHANGED cst /\ Ends(c, "main") /\ cst[c] = "up"
        /\ stq' = [stq EXCEPT ![c] = IF cur = c THEN Append(@, "Disconnected") ELSE @]
    BY <1>8, RunningTask DEF MainEnds, Reports
  <2>2. CASE d = c
    <3>1. stq'[d] \in {stq[d], Append(stq[d], "Disconnected")} /\ "main" \notin tasks'[d]
      BY <1>0, <2>1, <2>2 DEF TypeOK, ClientTypeOK, Ends
    <3>2. HonestOf(d, "Disconnected")'
      BY <2>1, <2>2, <3>1 DEF HonestOf
    <3> QED
      BY <1>7, <2>1, <3>1, <3>2 DEF ReportStep, Shorter, AppStates
  <2>3. CASE d # c
    BY <1>0, <1>1, <1>7, <2>1, <2>3 DEF TypeOK, ClientTypeOK, Shorter
  <2> QED
    BY <2>2, <2>3
<1>9. ASSUME NEW c \in Conns, \/ ReaderRecv(c) \/ ReaderEnds(c) \/ MainForward(c) \/ ForwarderSend(c)
                              \/ ForwarderEnds(c) \/ WriterSend(c) \/ WriterEnds(c)
      PROVE  ReportStep(d)
  BY <1>1, <1>7, <1>9 DEF ReaderRecv, ReaderEnds, MainForward, ForwarderSend, ForwarderEnds,
     WriterSend, WriterEnds, Shorter
<1>10. ASSUME NEW c \in Conns, NEW typed \in Codes, Connect(c, typed) PROVE ReportStep(d)
  <2>1. cst[c] = "none"
    BY <1>10 DEF Connect, Inv, ConnInv, TypeOK, ClientTypeOK
  <2> QED
    BY <1>0, <1>10, <2>1 DEF Connect, TypeOK, ClientTypeOK, ReportStep, Shorter, Failures
<1>11. ASSUME UserInput \/ \E mode \in Choices : RequestQuality(mode) PROVE ReportStep(d)
  BY <1>1, <1>11 DEF UserInput, RequestQuality, Shorter
<1>12. ASSUME Disconnect \/ Update PROVE ReportStep(d)
  BY <1>0, <1>1, <1>12 DEF Disconnect, Update, Shorter, TypeOK, ClientTypeOK
<1>13. ASSUME Exit PROVE ReportStep(d)
  BY <1>0, <1>13 DEF Exit, ReportStep, Shorter, Failures, Handshake
<1> QED
  BY <1>3, <1>4, <1>5, <1>6, <1>8, <1>9, <1>10, <1>11, <1>12, <1>13
  DEF ClientNext, ConnectStep, TaskStep, UserStep

(* The state shown comes from the connection that the window holds.        *)
LEMMA StateSteps ==
  ASSUME Inv, HonestInv, ClientNext
  PROVE  \/ cur' = 0
         \/ cur' \in Conns /\ state' = "Connecting"
         \/ cur' = cur /\ (cur # 0 => cur \in Conns /\ state' \in {state} \cup TrueStates(cur))
<1>0. cur # 0 => cur \in Conns
  BY MaxConnAssumption DEF Inv, TypeOK, ClientTypeOK, Conns
<1>1. ASSUME NEW c \in Conns, ConnectStep(c) \/ TaskStep(c) PROVE UNCHANGED <<cur, state>>
  BY <1>1 DEF ConnectStep, TaskStep, TcpConnect, TcpRefused, RecvAck, RecvAuth, HandshakeClosed,
     ConnectFails, ReaderRecv, ReaderEnds, MainForward, MainEnds, ForwarderSend, ForwarderEnds,
     WriterSend, WriterEnds, appFrame
<1>2. ASSUME NEW c \in Conns, NEW typed \in Codes, Connect(c, typed)
      PROVE  cur' \in Conns /\ state' = "Connecting"
  BY <1>2 DEF Connect
<1>3. ASSUME UserInput \/ \E mode \in Choices : RequestQuality(mode) PROVE UNCHANGED <<cur, state>>
  BY <1>3 DEF UserInput, RequestQuality
<1>4. ASSUME Disconnect \/ Exit PROVE cur' = 0
  BY <1>4 DEF Disconnect, Exit
<1>5. ASSUME Update PROVE cur' = cur /\ cur \in Conns /\ state' \in {state} \cup TrueStates(cur)
  <2>1. cur' = cur /\ cur \in Conns
    BY <1>0, <1>5 DEF Update
  <2>2. Places(msgq[cur], "AuthResponse") = {}
    <3>1. Verdicts(msgq[cur]) = {}
      BY <2>1 DEF HonestInv, Answers
    <3>2. ASSUME NEW i \in Places(msgq[cur], "AuthResponse") PROVE FALSE
      <4>1. msgq[cur][i].arg \in Verdicts(msgq[cur])
        BY DEF Verdicts, Args
      <4> QED
        BY <3>1, <4>1
    <3> QED
      BY <3>2
  <2>3. state' = IF stq[cur] # <<>> THEN Head(stq[cur]) ELSE state
    BY <1>5, <2>2 DEF Update
  <2>4. stq[cur] # <<>> => Head(stq[cur]) \in TrueStates(cur)
    BY <2>1, SeqFacts DEF HonestInv, ReportsTrue
  <2> QED
    BY <2>1, <2>3, <2>4
<1> QED
  BY <1>0, <1>1, <1>2, <1>3, <1>4, <1>5 DEF ClientNext, UserStep

(* The invariant is kept.                                                  *)
LEMMA HonestStep ==
  ASSUME Inv, AllSockets, HonestInv, [Next]_vars
  PROVE  HonestInv'
<1>1. ASSUME NEW d \in Conns PROVE Answers(d)' /\ DownStep(d)
  <2>1. StageStep(d)
    <3>1. CASE UNCHANGED vars
      BY <3>1 DEF vars, serverVars, clientVars, StageStep
    <3> QED
      BY <3>1, ServerStage, ClientStage DEF Next
  <2> QED
    BY <2>1, DownSteps, AnswersStep DEF HonestInv
<1>2. CASE UNCHANGED clientVars
  <2>1. ASSUME NEW d \in Conns PROVE ReportsTrue(d)'
    BY <1>2 DEF clientVars, HonestInv, ReportsTrue, TrueStates, HonestOf
  <2>2. cur' # 0 => HonestOf(cur, state)'
    BY <1>2 DEF clientVars, HonestInv, HonestOf
  <2> QED
    BY <1>1, <2>1, <2>2 DEF HonestInv
<1>3. CASE ClientNext
  <2>1. ASSUME NEW d \in Conns PROVE ReportsTrue(d)' /\ TrueStates(d) \subseteq TrueStates(d)'
    BY <1>3, ReportSteps, ReportsKept DEF HonestInv
  <2>2. cur' # 0 => HonestOf(cur, state)'
    <3>1. CASE cur' \in Conns /\ state' = "Connecting"
      BY <3>1 DEF HonestOf
    <3>2. CASE cur' = cur /\ cur # 0 /\ cur \in Conns /\ state' \in {state} \cup TrueStates(cur)
      <4>1. PICK d \in Conns : d = cur
        BY <3>2
      <4>2. HonestOf(d, state')
        BY <3>2, <4>1 DEF HonestInv, TrueStates
      <4>3. ReportStep(d)
        BY <1>3, ReportSteps
      <4> QED
        BY <3>2, <4>1, <4>2, <4>3 DEF HonestOf, ReportStep
    <3> QED
      BY <1>3, <3>1, <3>2, StateSteps
  <2> QED
    BY <1>1, <2>1, <2>2 DEF HonestInv
<1> QED
  BY <1>2, <1>3 DEF Next, vars

(* At the start there is nothing to say.                                   *)
LEMMA HonestInit ==
  ASSUME Init
  PROVE  HonestInv
<1>1. ASSUME NEW d \in Conns PROVE Answers(d)
  BY ArgsNone DEF Init, WireInit, ServerInit, ClientInit, Answers, Verdicts
<1>2. ASSUME NEW d \in Conns PROVE ReportsTrue(d)
  BY EmptySeq DEF Init, ClientInit, ReportsTrue
<1> QED
  BY <1>1, <1>2 DEF Init, ClientInit, HonestInv

(* It holds in every reachable state.                                      *)
LEMMA HonestInvariance == Spec => []HonestInv
<1>1. Inv /\ AllSockets /\ HonestInv /\ [Next]_vars => HonestInv'
  BY HonestStep
<1> QED
  BY <1>1, HonestInit, Invariance, SocketsInvariance, PTL DEF Spec

(* The state that update takes from the channel of its connection is true  *)
(* of that connection: Connected only with a session made for it,          *)
(* Disconnected and Error only when it has ended (app.rs, connect          *)
(* and update), whatever older connections still report.                   *)
THEOREM WindowHonest == Spec => []HonestState
<1>1. Inv /\ HonestInv => HonestState
  <2> SUFFICES ASSUME Inv, HonestInv, cur # 0 PROVE HonestState
    BY DEF HonestState
  <2>1. PICK d \in Conns : d = cur
    BY MaxConnAssumption DEF Inv, TypeOK, ClientTypeOK, Conns
  <2>2. HonestOf(d, state) /\ (cst[d] = "up" => hsid[d] # 0)
    BY <2>1 DEF HonestInv, Answers
  <2> QED
    BY <2>1, <2>2 DEF HonestState, HonestOf
<1> QED
  BY <1>1, Invariance, HonestInvariance, PTL

-----------------------------------------------------------------------------
(* What the window says about the quality.                                 *)

(* The last change of quality in a queue, if there is one, is to `mode'.   *)
Says(q, mode) == \A i \in 1..Len(q) : LastChange(q, i) => q[i].arg = mode
IsChange(m) == m.type = "QualityChange"

(* The last change on the way to the window is to `mode', and when none is *)
(* on the way the window displays it.                                      *)
Confirms(d, mode) ==
    /\ Says(txq[d], mode)
    /\ Quiet(txq[d]) => Says(toClient[d], mode)
    /\ Quiet(txq[d]) /\ Quiet(toClient[d]) => Says(outq[d], mode)
    /\ Quiet(txq[d]) /\ Quiet(toClient[d]) /\ Quiet(outq[d]) => Says(msgq[d], mode)
    /\ Quiet(txq[d]) /\ Quiet(toClient[d]) /\ Quiet(outq[d]) /\ Quiet(msgq[d]) => quality = mode

(* A message put behind the others.                                        *)
LEMMA SaysAppend ==
  ASSUME NEW q \in Seq(Messages), NEW m \in Messages
  PROVE  /\ Quiet(Append(q, m)) => Quiet(q) /\ ~IsChange(m)
         /\ \A mode : (IF IsChange(m) THEN m.arg = mode ELSE Says(q, mode)) => Says(Append(q, m), mode)
<1> DEFINE s == Append(q, m)
<1>1. /\ s \in Seq(Messages) /\ Len(q) \in Nat /\ Len(s) = Len(q) + 1 /\ s[Len(s)] = m
      /\ \A i \in 1..Len(q) : s[i] = q[i]
  BY AppendProperties, LenProperties
<1> HIDE DEF s
<1>2. Places(s, "QualityChange") = Places(q, "QualityChange") \cup (IF IsChange(m) THEN {Len(s)} ELSE {})
  BY <1>1 DEF Places, IsChange
<1>3. \A i \in Places(q, "QualityChange") : i \in 1..Len(q)
  BY DEF Places
<1>4. Quiet(s) => Quiet(q) /\ ~IsChange(m)
  BY <1>2 DEF Quiet
<1>5. ASSUME NEW mode, IF IsChange(m) THEN m.arg = mode ELSE Says(q, mode) PROVE Says(s, mode)
  <2> SUFFICES ASSUME NEW i \in 1..Len(s), LastChange(s, i) PROVE s[i].arg = mode
    BY DEF Says
  <2>1. CASE IsChange(m)
    BY <1>1, <1>2, <1>5, <2>1 DEF LastChange
  <2>2. CASE ~IsChange(m)
    BY <1>1, <1>2, <1>3, <1>5, <2>2 DEF LastChange, Says
  <2> QED
    BY <2>1, <2>2
<1> QED
  BY <1>4, <1>5 DEF s

(* The first message and the others.                                       *)
LEMMA SaysFirst ==
  ASSUME NEW q \in Seq(Messages), q # <<>>
  PROVE  /\ Head(q) \in Messages /\ Tail(q) \in Seq(Messages)
         /\ Quiet(Tail(q)) /\ ~IsChange(Head(q)) => Quiet(q)
         /\ \A mode : Says(q, mode) =>
               Says(Tail(q), mode) /\ (Quiet(Tail(q)) /\ IsChange(Head(q)) => Head(q).arg = mode)
<1> DEFINE s == Tail(q)   P == Places(q, "QualityChange")   Q == Places(s, "QualityChange")
<1>1. /\ Head(q) \in Messages /\ s \in Seq(Messages) /\ Len(q) \in Nat \ {0} /\ Len(s) = Len(q) - 1
      /\ Head(q) = q[1] /\ \A i \in 1..Len(s) : s[i] = q[i + 1]
  BY HeadTailProperties, EmptySeq, LenProperties
<1> HIDE DEF s
<1>2. \A i \in Q : i + 1 \in P /\ i \in 1..Len(s) /\ i + 1 \in 1..Len(q) /\ s[i] = q[i + 1]
  BY <1>1 DEF Places
<1>3. \A i \in P : i \in 1..Len(q) /\ ((i = 1 /\ IsChange(Head(q))) \/ i - 1 \in Q)
  <2> SUFFICES ASSUME NEW i \in P, i # 1 PROVE i - 1 \in Q
    BY <1>1 DEF Places, IsChange
  <2>1. i \in 1..Len(q) /\ i - 1 \in 1..Len(s) /\ (i - 1) + 1 = i /\ q[i].type = "QualityChange"
    BY <1>1 DEF Places
  <2>2. s[i - 1] = q[(i - 1) + 1]
    BY <1>1, <2>1
  <2> QED
    BY <2>1, <2>2 DEF Places
<1>4. IsChange(Head(q)) => 1 \in P
  BY <1>1 DEF Places, IsChange
<1> HIDE DEF P, Q
<1>5. Quiet(s) <=> Q = {}
  BY DEF Quiet, Q
<1>6. Quiet(q) <=> P = {}
  BY DEF Quiet, P
<1>7. ASSUME NEW mode, Says(q, mode)
      PROVE  Says(s, mode) /\ (Quiet(s) /\ IsChange(Head(q)) => Head(q).arg = mode)
  <2>1. ASSUME NEW i \in 1..Len(s), LastChange(s, i) PROVE s[i].arg = mode
    <3>1. i \in Q /\ \A j \in Q : j <= i
      BY <2>1 DEF LastChange, Q
    <3>2. i + 1 \in P /\ i + 1 \in 1..Len(q) /\ s[i] = q[i + 1]
      BY <1>2, <3>1
    <3>3. \A j \in P : j <= i + 1
      BY <1>1, <1>3, <2>1, <3>1
    <3>4. LastChange(q, i + 1)
      BY <3>2, <3>3 DEF LastChange, P
    <3> QED
      BY <1>7, <3>2, <3>4 DEF Says
  <2>2. ASSUME Quiet(s), IsChange(Head(q)) PROVE Head(q).arg = mode
    <3>1. \A j \in P : j = 1
      BY <1>3, <1>5, <2>2
    <3>2. LastChange(q, 1)
      BY <1>4, <2>2, <3>1 DEF LastChange, P
    <3> QED
      BY <1>1, <1>7, <3>2 DEF Says
  <2> QED
    BY <2>1, <2>2 DEF Says
<1> QED
  BY <1>1, <1>3, <1>5, <1>6, <1>7 DEF s

(* A step of the way keeps the confirmation under way.                     *)
LEMMA ConfirmsStep ==
  ASSUME TypeOK, NEW d \in Conns, NEW mode, Confirms(d, mode), DownStep(d), Flow(d)', cst[d] # "auth",
         quality' = quality \/ Displayed(d),
         \A m \in Messages : Reply(d, m) /\ IsChange(m) => m.arg = mode
  PROVE  Confirms(d, mode)'
<1>0. /\ txq[d] \in Seq(Messages) /\ toClient[d] \in Seq(Messages)
      /\ outq[d] \in Seq(Messages) /\ msgq[d] \in Seq(Messages)
  BY DownTypes
<1>1. CASE Displayed(d)
  <2>1. Says(msgq'[d], mode) /\ UNCHANGED <<txq[d], toClient[d], outq[d]>>
    BY <1>1 DEF Displayed, Says
  <2>2. Says(msgq[d], mode) /\ (Quiet(msgq[d]) => quality = mode) => quality' = mode
    BY <1>1 DEF Displayed, Says
  <2> QED
    BY <2>1, <2>2 DEF Confirms
<1>2. CASE DownStill(d) /\ quality' = quality
  BY <1>2 DEF DownStill, Confirms
<1>3. CASE Queued(d) /\ quality' = quality
  <2>1. PICK m \in Messages : Reply(d, m) /\ txq'[d] = Append(txq[d], m)
    BY <1>3 DEF Queued
  <2>2. Says(txq'[d], mode) /\ (Quiet(txq'[d]) => Quiet(txq[d]))
    BY <1>0, <2>1, SaysAppend DEF Confirms
  <2> QED
    BY <1>3, <2>2 DEF Queued, Confirms
<1>4. CASE Written(d) /\ quality' = quality
  <2>1. /\ Head(txq[d]) \in Messages /\ Says(txq'[d], mode)
        /\ Quiet(txq'[d]) /\ ~IsChange(Head(txq[d])) => Quiet(txq[d])
        /\ Quiet(txq'[d]) /\ IsChange(Head(txq[d])) => Head(txq[d]).arg = mode
    BY <1>0, <1>4, SaysFirst DEF Written, Confirms
  <2>2. /\ Quiet(toClient'[d]) => Quiet(toClient[d]) /\ ~IsChange(Head(txq[d]))
        /\ Quiet(txq'[d]) => Says(toClient'[d], mode)
    BY <1>0, <1>4, <2>1, SaysAppend DEF Written, Confirms
  <2> QED
    BY <1>4, <2>1, <2>2 DEF Written, Confirms
<1>5. CASE Received(d) /\ quality' = quality
  <2> DEFINE h == Head(toClient[d])
  <2>1. /\ h \in Messages
        /\ Quiet(toClient'[d]) /\ ~IsChange(h) => Quiet(toClient[d])
        /\ Quiet(txq[d]) => Says(toClient'[d], mode) /\ (Quiet(toClient'[d]) /\ IsChange(h) => h.arg = mode)
    BY <1>0, <1>5, SaysFirst DEF Received, Confirms
  <2>2. /\ Quiet(outq'[d]) => Quiet(outq[d]) /\ ~IsChange(h)
        /\ Quiet(txq[d]) /\ Quiet(toClient'[d]) => Says(outq'[d], mode)
    BY <1>0, <1>5, <2>1, SaysAppend DEF Received, Confirms
  <2> QED
    BY <1>5, <2>1, <2>2 DEF Received, Confirms
<1>6. CASE Forwarded(d) /\ quality' = quality
  <2> DEFINE h == Head(outq[d])   before == Quiet(txq[d]) /\ Quiet(toClient[d])
  <2>1. /\ h \in Messages
        /\ Quiet(outq'[d]) /\ ~IsChange(h) => Quiet(outq[d])
        /\ before => Says(outq'[d], mode) /\ (Quiet(outq'[d]) /\ IsChange(h) => h.arg = mode)
    BY <1>0, <1>6, SaysFirst DEF Forwarded, Confirms
  <2>2. /\ Quiet(msgq'[d]) => Quiet(msgq[d]) /\ ~IsChange(h)
        /\ before /\ Quiet(outq'[d]) => Says(msgq'[d], mode)
    BY <1>0, <1>6, <2>1, SaysAppend DEF Forwarded, Confirms
  <2> QED
    BY <1>6, <2>1, <2>2 DEF Forwarded, Confirms
<1> QED
  BY <1>1, <1>2, <1>3, <1>4, <1>5, <1>6 DEF DownStep, DownCut, LoggedIn

(* A handler's session is its own: ids are not reused.                     *)
OwnIds ==
    \A c \in Conns : hsid[c] < nextSid /\ (HasSession(c) => sessions[hsid[c]].conn = c)

(* A forced mode stays, or it is new and its confirmation is queued.       *)
SameForced(i) ==
    /\ i \in DOMAIN sessions /\ sessions[i].forced
    /\ sessions'[i].conn = sessions[i].conn /\ sessions'[i].mode = sessions[i].mode
NewForced(i) ==
    LET d == sessions'[i].conn IN
    /\ d \in Conns /\ cst[d] = "up"
    /\ \/ ~writing'[d]
       \/ \E m \in Messages : IsChange(m) /\ m.arg = sessions'[i].mode /\ txq'[d] = Append(txq[d], m)
ForcedStep == \A i \in DOMAIN sessions' : sessions'[i].forced => SameForced(i) \/ NewForced(i)

(* The steps of the server do this.                                        *)
LEMMA TableSteps ==
  ASSUME Inv, OwnIds, ServerNext, UNCHANGED clientVars
  PROVE  OwnIds' /\ ForcedStep
<1>0. TypeOK /\ sessions \in [DOMAIN sessions -> Session] /\ nextSid \in Nat /\ hsid \in [Conns -> Nat]
  BY DEF Inv, TypeOK, ServerTypeOK
<1>1. ASSUME UNCHANGED <<sessions, hsid, nextSid>> PROVE OwnIds' /\ ForcedStep
  BY <1>1 DEF OwnIds, HasSession, ForcedStep, SameForced
<1>2. ASSUME NEW c \in Conns, NEW key, Login(c, key) PROVE OwnIds' /\ ForcedStep
  <2>1. /\ DOMAIN sessions' = DOMAIN sessions \cup {nextSid}
        /\ sessions'[nextSid].conn = c /\ ~sessions'[nextSid].forced
        /\ \A i \in DOMAIN sessions : i # nextSid => sessions'[i] = sessions[i]
    BY <1>2 DEF Login, Insert
  <2>2. hsid'[c] = nextSid /\ nextSid' = nextSid + 1 /\ \A d \in Conns : d # c => hsid'[d] = hsid[d]
    BY <1>0, <1>2 DEF Login
  <2>3. OwnIds'
    <3> SUFFICES ASSUME NEW d \in Conns
                 PROVE  /\ hsid'[d] < nextSid'
                        /\ hsid'[d] \in DOMAIN sessions' => sessions'[hsid'[d]].conn = d
      BY DEF OwnIds, HasSession
    <3>1. hsid[d] < nextSid /\ (hsid[d] \in DOMAIN sessions => sessions[hsid[d]].conn = d) /\ hsid[d] \in Nat
      BY <1>0 DEF OwnIds, HasSession
    <3>2. CASE d = c
      BY <1>0, <2>1, <2>2, <3>2
    <3>3. CASE d # c
      <4>1. hsid'[d] = hsid[d] /\ hsid[d] # nextSid /\ hsid[d] < nextSid'
        BY <1>0, <2>2, <3>1, <3>3
      <4> QED
        BY <2>1, <3>1, <4>1
    <3> QED
      BY <3>2, <3>3
  <2>4. ForcedStep
    BY <2>1 DEF ForcedStep, SameForced
  <2> QED
    BY <2>3, <2>4
<1>3. ASSUME NEW c \in Conns, HandleAuthRequest(c) PROVE OwnIds' /\ ForcedStep
  BY <1>1, <1>2, <1>3 DEF HandleAuthRequest, Refuse
<1>4. ASSUME DOMAIN sessions' \subseteq DOMAIN sessions, UNCHANGED <<hsid, nextSid>>,
             \A i \in DOMAIN sessions' : sessions'[i] = sessions[i]
      PROVE  OwnIds' /\ ForcedStep
  BY <1>4 DEF OwnIds, HasSession, ForcedStep, SameForced
<1>5. ASSUME NEW c \in Conns, Cleanup(c) PROVE OwnIds' /\ ForcedStep
  BY <1>4, <1>5 DEF Cleanup, Remove
<1>6. ASSUME NEW c \in Conns, HandleQualityRequest(c) PROVE OwnIds' /\ ForcedStep
  <2>1. CASE HasSession(c)
    <3> DEFINE id == hsid[c]   m == Incoming(c)   a == Encrypt(hkey[c], Message("QualityChange", m.arg))
    <3>0. hst[c] = "parse" /\ m.type = "RequestQualityChange" /\ UNCHANGED <<hsid, nextSid, writing>>
      BY <1>6 DEF HandleQualityRequest, Takes, handlerFrame
    <3>1. m \in Messages /\ m \in Up(c)
      BY <3>0, IncomingFacts
    <3>2. cst[c] = "up"
      BY <3>0, <3>1 DEF Up, UpMessages
    <3>3. sessions' = [sessions EXCEPT ![id].mode = m.arg, ![id].forced = TRUE] /\ Respond(c, a)
      BY <1>6, <2>1 DEF HandleQualityRequest
    <3>4. id \in DOMAIN sessions /\ sessions[id].conn = c
      BY <2>1 DEF OwnIds, HasSession
    <3> HIDE DEF id, m, a
    <3>5. /\ DOMAIN sessions' = DOMAIN sessions /\ \A i \in DOMAIN sessions : i # id => sessions'[i] = sessions[i]
          /\ sessions'[id].conn = c /\ sessions'[id].mode = m.arg
      BY <1>0, <3>3, <3>4 DEF Session
    <3>6. a \in Messages /\ IsChange(a) /\ a.arg = m.arg
      <4>1. m.arg \in Nat /\ hkey[c] \in Keys
        BY <1>0, <3>1 DEF Messages, TypeOK, ServerTypeOK
      <4> QED
        BY <4>1, MessageFacts DEF a, MessageTypes, IsChange
    <3>7. ~writing'[c] \/ txq'[c] = Append(txq[c], a)
      BY <1>0, <3>0, <3>3 DEF Respond, TypeOK, ServerTypeOK
    <3>8. NewForced(id)
      BY <3>2, <3>5, <3>6, <3>7 DEF NewForced
    <3>9. ForcedStep
      BY <3>5, <3>8 DEF ForcedStep, SameForced
    <3>10. OwnIds'
      BY <3>0, <3>4, <3>5 DEF OwnIds, HasSession
    <3> QED
      BY <3>9, <3>10
  <2>2. CASE ~HasSession(c)
    BY <1>1, <1>6, <2>2 DEF HandleQualityRequest
  <2> QED
    BY <2>1, <2>2
<1>7. ASSUME NEW id \in visiting, NEW mode \in Modes, Adapts(id, mode), UNCHANGED <<hsid, nextSid>>
      PROVE  OwnIds' /\ ForcedStep
  <2>1. id \in DOMAIN sessions
    BY <1>0 DEF TypeOK, ServerTypeOK
  <2>2. /\ DOMAIN sessions' = DOMAIN sessions /\ \A i \in DOMAIN sessions : i # id => sessions'[i] = sessions[i]
        /\ sessions'[id].conn = sessions[id].conn /\ sessions'[id].forced = sessions[id].forced
        /\ sessions[id].forced => sessions'[id].mode = sessions[id].mode
    BY <1>0, <1>7, <2>1 DEF Adapts, Session
  <2>3. \A i \in DOMAIN sessions : sessions'[i].conn = sessions[i].conn
    BY <2>2
  <2>4. OwnIds'
    BY <1>7, <2>2, <2>3 DEF OwnIds, HasSession
  <2>5. ForcedStep
    BY <2>1, <2>2 DEF ForcedStep, SameForced
  <2> QED
    BY <2>4, <2>5
<1>8. ASSUME VisitStep PROVE OwnIds' /\ ForcedStep
  BY <1>7, <1>8 DEF VisitStep, SkipSession, SendFrame, captureFrame
<1>9. ASSUME ServerExit PROVE OwnIds' /\ ForcedStep
  BY <1>4, <1>9 DEF ServerExit
<1>10. ASSUME NEW c \in Conns, \/ Accept(c) \/ ReadBuf(c) \/ HandlerError(c) \/ HandleKeyExchange(c)
                               \/ AuthReply(c) \/ HandleStartStream(c) \/ HandleInput(c)
                               \/ HandleOther(c) \/ HandleDisconnect(c)
       PROVE  OwnIds' /\ ForcedStep
  BY <1>1, <1>10 DEF Accept, ReadBuf, HandlerError, HandleKeyExchange, AuthReply, HandleStartStream,
     HandleInput, HandleOther, HandleDisconnect
<1>11. ASSUME NEW c \in Conns, ServerWriterStep(c) PROVE OwnIds' /\ ForcedStep
  BY <1>1, <1>11 DEF ServerWriterStep, ServerWrite, ServerWriterEnds, writerFrame
<1>12. ASSUME Capture \/ ExpireCode PROVE OwnIds' /\ ForcedStep
  BY <1>1, <1>12 DEF Capture, ExpireCode, captureFrame
<1> QED
  BY <1>3, <1>5, <1>6, <1>8, <1>9, <1>10, <1>11, <1>12 DEF ServerNext, HandlerStep

(* The way to the window opens only before there is a session, or when the *)
(* login has been granted.                                                 *)
FlowStep(d) == Flow(d)' => Flow(d) \/ cst[d] # "up" \/ NoSession(d)

(* The server opens no way to the window.                                  *)
LEMMA FlowServer ==
  ASSUME Inv, ServerNext, UNCHANGED clientVars, NEW d \in Conns
  PROVE  FlowStep(d)
<1>0. TypeOK /\ UNCHANGED <<cur, tasks>>
  BY DEF Inv, clientVars
<1>1. ASSUME link'[d] = "open" => link[d] = "open", writing'[d] => writing[d] PROVE FlowStep(d)
  BY <1>0, <1>1 DEF FlowStep, Flow
<1>2. ASSUME NEW c \in Conns, NEW halves, NEW rest, ServerDrops(c, halves, rest)
      PROVE  link'[d] = "open" => link[d] = "open"
  BY <1>0, <1>2 DEF ServerDrops, TypeOK, WireTypeOK
<1>3. ASSUME NEW c \in Conns, Accept(c) PROVE FlowStep(d)
  <2>1. d # c => writing'[d] = writing[d] /\ link'[d] = link[d]
    BY <1>0, <1>3 DEF Accept, wireVars, TypeOK, ServerTypeOK
  <2>2. NoSession(c)
    BY <1>3 DEF Accept, Inv, SessionTable, NoSession
  <2> QED
    BY <1>1, <2>1, <2>2 DEF FlowStep
<1>4. ASSUME NEW c \in Conns, NEW m, Respond(c, m), UNCHANGED writing PROVE FlowStep(d)
  BY <1>1, <1>2, <1>4 DEF Respond, Fail
<1>5. ASSUME UNCHANGED <<link, writing>> PROVE FlowStep(d)
  BY <1>1, <1>5
<1>6. ASSUME NEW c \in Conns, HandleAuthRequest(c) PROVE FlowStep(d)
  BY <1>1, <1>2, <1>4, <1>5, <1>6 DEF HandleAuthRequest, Login, Refuse, Fail, handlerFrame
<1>7. ASSUME NEW c \in Conns, HandleKeyExchange(c) \/ AuthReply(c) PROVE FlowStep(d)
  BY <1>4, <1>7 DEF HandleKeyExchange, AuthReply, handlerFrame
<1>8. ASSUME NEW c \in Conns, HandleStartStream(c) \/ HandleQualityRequest(c) PROVE FlowStep(d)
  BY <1>4, <1>5, <1>8 DEF HandleStartStream, HandleQualityRequest, handlerFrame
<1>9. ASSUME NEW c \in Conns, HandlerError(c) \/ HandleInput(c) PROVE FlowStep(d)
  BY <1>1, <1>2, <1>9 DEF HandlerError, HandleInput, Fail, handlerFrame
<1>10. ASSUME NEW c \in Conns, ReadBuf(c) \/ HandleOther(c) \/ HandleDisconnect(c) PROVE FlowStep(d)
  BY <1>5, <1>10 DEF ReadBuf, HandleOther, HandleDisconnect, handlerFrame
<1>11. ASSUME NEW c \in Conns, Cleanup(c) \/ ServerWriterEnds(c) PROVE FlowStep(d)
  BY <1>0, <1>1, <1>2, <1>11 DEF Cleanup, ServerWriterEnds, TypeOK, ServerTypeOK
<1>12. ASSUME NEW c \in Conns, ServerWrite(c) PROVE FlowStep(d)
  BY <1>0, <1>1, <1>12 DEF ServerWrite, ServerPuts, TypeOK, WireTypeOK
<1>13. ASSUME Capture \/ VisitStep \/ ExpireCode PROVE FlowStep(d)
  BY <1>5, <1>13 DEF Capture, VisitStep, SkipSession, SendFrame, ExpireCode, captureFrame, wireVars
<1>14. ASSUME ServerExit PROVE FlowStep(d)
  BY <1>14 DEF ServerExit, FlowStep, Flow
<1> QED
  BY <1>3, <1>6, <1>7, <1>8, <1>9, <1>10, <1>11, <1>12, <1>13, <1>14
  DEF ServerNext, HandlerStep, ServerWriterStep

(* Nor does the client, once its login has been granted.                   *)
LEMMA FlowClient ==
  ASSUME Inv, ClientNext, UNCHANGED serverVars, NEW d \in Conns
  PROVE  FlowStep(d)
<1>0. TypeOK /\ writing' = writing
  BY DEF Inv, serverVars
<1>1. CASE cst[d] # "up"
  BY <1>1 DEF FlowStep
<1>2. ASSUME cst[d] = "up", link'[d] = "open" => link[d] = "open", cur' = cur PROVE FlowStep(d)
  <2>1. tasks'[d] \subseteq tasks[d]
    BY <1>2, ReportSteps DEF ReportStep
  <2> QED
    BY <1>0, <1>2, <2>1 DEF FlowStep, Flow
<1>3. ASSUME NEW c \in Conns, NEW halves, NEW rest, ClientDrops(c, halves, rest)
      PROVE  link'[d] = "open" => link[d] = "open"
  BY <1>0, <1>3 DEF ClientDrops, TypeOK, WireTypeOK
<1>4. ASSUME cst[d] = "up", NEW c \in Conns, ConnectStep(c) PROVE FlowStep(d)
  <2>1. cst[c] \in Handshake
    BY <1>4 DEF ConnectStep, TcpConnect, TcpRefused, RecvAck, RecvAuth, HandshakeClosed, Handshake
  <2>2. c # d
    BY <1>4, <2>1 DEF Handshake
  <2>3. cur' = cur
    BY <1>4 DEF ConnectStep, TcpConnect, TcpRefused, RecvAck, RecvAuth, HandshakeClosed, ConnectFails, appFrame
  <2>4. link'[d] = link[d]
    BY <1>0, <1>4, <2>2 DEF ConnectStep, TcpConnect, TcpRefused, RecvAck, RecvAuth, HandshakeClosed,
       ConnectFails, ClientDrops, ClientPuts, TypeOK, WireTypeOK
  <2> QED
    BY <1>2, <1>4, <2>3, <2>4
<1>5. ASSUME cst[d] = "up", NEW c \in Conns, TaskStep(c) PROVE FlowStep(d)
  <2>1. cur' = cur
    BY <1>5 DEF TaskStep, ReaderRecv, ReaderEnds, MainForward, MainEnds, ForwarderSend,
       ForwarderEnds, WriterSend, WriterEnds, appFrame
  <2>2. link'[d] = "open" => link[d] = "open"
    <3>1. CASE ReaderRecv(c) \/ ReaderEnds(c) \/ WriterEnds(c)
      BY <1>3, <3>1 DEF ReaderRecv, ReaderEnds, WriterEnds
    <3>2. CASE WriterSend(c)
      BY <1>0, <3>2 DEF WriterSend, ClientPuts, TypeOK, WireTypeOK
    <3>3. CASE MainForward(c) \/ MainEnds(c) \/ ForwarderSend(c) \/ ForwarderEnds(c)
      BY <3>3 DEF MainForward, MainEnds, ForwarderSend, ForwarderEnds, wireVars
    <3> QED
      BY <1>5, <3>1, <3>2, <3>3 DEF TaskStep
  <2> QED
    BY <1>2, <1>5, <2>1, <2>2
<1>6. ASSUME cst[d] = "up", NEW c \in Conns, NEW typed \in Codes, Connect(c, typed) PROVE FlowStep(d)
  <2>1. cst[c] = "none" /\ cur' = c
    BY <1>6 DEF Connect, Inv, ConnInv, TypeOK, ClientTypeOK
  <2> QED
    BY <1>6, <2>1 DEF FlowStep, Flow
<1>7. ASSUME Disconnect \/ Exit PROVE FlowStep(d)
  <2>1. cur' = 0 /\ d # 0
    BY <1>7, MaxConnAssumption DEF Disconnect, Exit, Conns
  <2> QED
    BY <2>1 DEF FlowStep, Flow
<1>8. ASSUME cst[d] = "up", UserInput \/ Update \/ \E mode \in Choices : RequestQuality(mode) PROVE FlowStep(d)
  BY <1>2, <1>8 DEF UserInput, Update, RequestQuality, wireVars
<1> QED
  BY <1>1, <1>4, <1>5, <1>6, <1>7, <1>8 DEF ClientNext, UserStep

(* A session whose mode the user has chosen is one of an established       *)
(* connection, and the choice is confirmed or being confirmed.             *)
Confirmed(i) ==
    LET d == sessions[i].conn IN
    cst[d] = "up" /\ (Flow(d) => Confirms(d, sessions[i].mode))
QualityInv == OwnIds /\ \A i \in DOMAIN sessions : sessions[i].forced => Confirmed(i)

(* A choice stays confirmed, or on its way to be.                          *)
LEMMA QualityStep ==
  ASSUME Inv, Inv', AllSockets, QualityInv, [Next]_vars
  PROVE  QualityInv'
<1>0. TypeOK /\ sessions \in [DOMAIN sessions -> Session] /\ sessions' \in [DOMAIN sessions' -> Session]
  BY DEF Inv, TypeOK, ServerTypeOK
<1>1. OwnIds' /\ ForcedStep
  <2>1. CASE UNCHANGED serverVars
    BY <2>1 DEF serverVars, QualityInv, OwnIds, HasSession, ForcedStep, SameForced
  <2> QED
    BY <2>1, TableSteps DEF Next, vars, QualityInv
<1>2. ASSUME NEW d \in Conns, cst[d] = "up" PROVE cst'[d] = "up" /\ FlowStep(d)
  <2>1. CASE UNCHANGED vars
    BY <1>2, <2>1 DEF vars, wireVars, serverVars, clientVars, FlowStep, Flow
  <2>2. CASE ServerNext /\ UNCHANGED clientVars
    BY <1>2, <2>2, FlowServer DEF clientVars
  <2>3. CASE ClientNext /\ UNCHANGED serverVars
    BY <1>2, <2>3, FlowClient, ReportSteps DEF ReportStep
  <2> QED
    BY <2>1, <2>2, <2>3 DEF Next
<1>3. ASSUME NEW i \in DOMAIN sessions', sessions'[i].forced PROVE Confirmed(i)'
  <2>0. PICK d \in Conns, mode \in Nat : d = sessions'[i].conn /\ mode = sessions'[i].mode
    BY <1>0 DEF Session
  <2>1. CASE SameForced(i)
    <3>1. /\ i \in DOMAIN sessions /\ sessions[i].conn = d /\ sessions[i].mode = mode
          /\ cst[d] = "up" /\ (Flow(d) => Confirms(d, mode))
      BY <1>3, <2>0, <2>1 DEF SameForced, QualityInv, Confirmed
    <3>2. ~NoSession(d)
      BY <3>1 DEF NoSession
    <3>3. \A m \in Messages : Reply(d, m) /\ IsChange(m) => m.arg = mode
      BY <1>3, <2>0 DEF Reply, IsChange
    <3>4. cst'[d] = "up" /\ (Flow(d)' => Confirms(d, mode))
      BY <1>2, <2>0, <3>1, <3>2 DEF FlowStep
    <3>5. ASSUME Flow(d)' PROVE Confirms(d, mode)'
      <4>1. DownStep(d) /\ WindowStep
        BY <2>0, DownSteps
      <4>2. Flow(d)
        BY <1>2, <2>0, <3>1, <3>2, <3>5 DEF FlowStep
      <4>3. quality' = quality \/ Displayed(d)
        BY <4>1, <4>2 DEF WindowStep, Flow
      <4> QED
        BY <1>0, <2>0, <3>1, <3>3, <3>4, <3>5, <4>1, <4>3, ConfirmsStep
    <3> QED
      BY <2>0, <3>4, <3>5 DEF Confirmed
  <2>2. CASE NewForced(i)
    <3>1. cst[d] = "up" /\ (~writing'[d] \/ \E m \in Messages : IsChange(m) /\ m.arg = mode /\ txq'[d] = Append(txq[d], m))
      BY <2>0, <2>2 DEF NewForced
    <3>2. cst'[d] = "up"
      BY <1>2, <2>0, <3>1
    <3>3. ASSUME Flow(d)' PROVE Confirms(d, mode)'
      <4>1. PICK m \in Messages : IsChange(m) /\ m.arg = mode /\ txq'[d] = Append(txq[d], m)
        BY <3>1, <3>3 DEF Flow
      <4>2. txq[d] \in Seq(Messages)
        BY <1>0, <2>0, DownTypes
      <4>3. ~Quiet(txq'[d]) /\ Says(txq'[d], mode)
        BY <4>1, <4>2, SaysAppend
      <4> QED
        BY <4>3 DEF Confirms
    <3> QED
      BY <2>0, <3>2, <3>3 DEF Confirmed
  <2> QED
    BY <1>1, <1>3, <2>1, <2>2 DEF ForcedStep
<1> QED
  BY <1>1, <1>3 DEF QualityInv

(* At the start there is no session.                                       *)
LEMMA QualityInit ==
  ASSUME Init
  PROVE  QualityInv
  BY DEF Init, ServerInit, QualityInv, OwnIds, HasSession

(* Choices are confirmed in every reachable state.                         *)
LEMMA QualityInvariance == Spec => []QualityInv
<1>1. Inv /\ Inv' /\ AllSockets /\ QualityInv /\ [Next]_vars => QualityInv'
  BY QualityStep
<1> QED
  BY <1>1, QualityInit, Invariance, SocketsInvariance, PTL DEF Spec

(* Once the user has chosen a quality and no confirmation is on its way,   *)
(* the mode on display is the mode the server encodes with                 *)
(* (RequestQualityChange in handle_client, get_recommended_quality, the    *)
(* four channels and update).                                              *)
THEOREM ChoiceConfirmed == Spec => []QualityConfirmed
<1>1. Inv /\ QualityInv => QualityConfirmed
  <2> SUFFICES ASSUME Inv, QualityInv, NEW i \in DOMAIN sessions, sessions[i].forced,
                      LET c == sessions[i].conn IN
                      /\ c = cur /\ {"reader", "main"} \subseteq tasks[c]
                      /\ link[c] = "open" /\ writing[c]
                      /\ Quiet(txq[c]) /\ Quiet(toClient[c]) /\ Quiet(outq[c]) /\ Quiet(msgq[c])
               PROVE  quality = sessions[i].mode
    BY DEF QualityConfirmed
  <2>1. Flow(sessions[i].conn) => Confirms(sessions[i].conn, sessions[i].mode)
    BY DEF QualityInv, Confirmed
  <2> QED
    BY <2>1 DEF Flow, Confirms
<1> QED
  BY <1>1, Invariance, QualityInvariance, PTL

-----------------------------------------------------------------------------
(* The way of an input from the window to the input backend: inq, wrq, the *)
(* socket and the read buffer.                                             *)

Ins(q) == Args(q, "Input")
InsRise(q) == Rising(q, "Input", 1)
Above(A, B) == Below(A, B, 1)

(* U holds numbers above n, and with each all that are between it and n.   *)
Dense(U, n) == \A x \in U : x > n /\ \A k \in (n + 1)..x : k \in U

(* The first of them is the next one, and without it the rest is dense.    *)
LEMMA DenseTaken ==
  ASSUME NEW U \in SUBSET Nat, NEW n \in Nat, NEW a \in Nat, NEW V \in SUBSET Nat,
         U = {a} \cup V, Above({a}, V), Dense(U, n)
  PROVE  a = n + 1 /\ Dense(V, n + 1)
<1>1. a > n /\ n + 1 \in U /\ \A v \in V : a + 1 <= v
  BY DEF Dense, Above, Below
<1>2. a = n + 1
  BY <1>1
<1>3. ASSUME NEW x \in V PROVE x > n + 1 /\ \A k \in (n + 1 + 1)..x : k \in V
  <2>1. x > n + 1
    BY <1>1, <1>2
  <2>2. ASSUME NEW k \in (n + 1 + 1)..x PROVE k \in V
    <3>1. k \in (n + 1)..x /\ k # a
      BY <1>2
    <3>2. k \in U
      BY <3>1 DEF Dense
    <3> QED
      BY <3>1, <3>2
  <2> QED
    BY <2>1, <2>2
<1> QED
  BY <1>2, <1>3 DEF Dense

(* What is in front of a part of it is dense.                              *)
LEMMA DenseFront ==
  ASSUME NEW U \in SUBSET Nat, NEW n \in Nat, NEW A \in SUBSET Nat, NEW B \in SUBSET Nat,
         U = A \cup B, Above(A, B), Dense(U, n)
  PROVE  Dense(A, n)
<1> SUFFICES ASSUME NEW x \in A PROVE x > n /\ \A k \in (n + 1)..x : k \in A
  BY DEF Dense
<1>1. x > n /\ \A k \in (n + 1)..x : k \in U
  BY DEF Dense
<1>2. ASSUME NEW k \in (n + 1)..x PROVE k \notin B
  BY DEF Above, Below
<1> QED
  BY <1>1, <1>2

(* The next number behind all of them.                                     *)
LEMMA DenseEntered ==
  ASSUME NEW U \in SUBSET Nat, NEW n \in Nat, NEW s \in Nat, n <= s, s \in U \cup {n}, Dense(U, n),
         \A x \in U : x <= s
  PROVE  Dense(U \cup {s + 1}, n)
<1> SUFFICES ASSUME NEW x \in U \cup {s + 1} PROVE x > n /\ \A k \in (n + 1)..x : k \in U \cup {s + 1}
  BY DEF Dense
<1>1. CASE x \in U
  BY <1>1 DEF Dense
<1>2. CASE x = s + 1
  <2>1. ASSUME NEW k \in (n + 1)..s PROVE k \in U
    BY DEF Dense
  <2> QED
    BY <1>2, <2>1
<1> QED
  BY <1>1, <1>2

(* What the handler reads is the front of what the socket holds.           *)
LEMMA ArgsSplit ==
  ASSUME NEW q \in Seq(Messages), NEW n \in 1..Len(q), NEW type
  PROVE  LET front == SubSeq(q, 1, n)   back == SubSeq(q, n + 1, Len(q)) IN
         /\ front \in Seq(Messages) /\ back \in Seq(Messages)
         /\ Args(q, type) = Args(front, type) \cup Args(back, type)
         /\ \A gap : Rising(q, type, gap) => /\ Rising(front, type, gap) /\ Rising(back, type, gap)
                                             /\ Below(Args(front, type), Args(back, type), gap)
<1> DEFINE front == SubSeq(q, 1, n)   back == SubSeq(q, n + 1, Len(q))
<1>1. front \in Seq(Messages) /\ back \in Seq(Messages)
  BY SplitFacts
<1>2. q = front \o back
  <2>1. Len(q) \in Nat
    BY LenProperties
  <2>2. front \o back = SubSeq(q, 1, Len(q))
    BY <2>1, ConcatAdjacentSubSeq
  <2> QED
    BY <2>2, SubSeqFull
<1> HIDE DEF front, back
<1>3. /\ Args(q, type) = Args(front, type) \cup Args(back, type)
      /\ \A gap : Rising(q, type, gap) => /\ Rising(front, type, gap) /\ Rising(back, type, gap)
                                          /\ Below(Args(front, type), Args(back, type), gap)
  BY <1>1, <1>2, ArgsConcat
<1> QED
  BY <1>1, <1>3 DEF front, back

(* The handler of d reads or will; the writer of d can still write; the    *)
(* application's inputs still get to the writer.                           *)
Alive(d) == hst[d] \in Live \cup {"none"}
Pass(d) == "writer" \in tasks[d] /\ link[d] = "open"
Fed(d) == "forwarder" \in tasks[d]

InsRead(d) == Ins(hbuf[d]) \cup Ins(toServer[d])
InsQueued(d) == Ins(wrq[d]) \cup Ins(inq[d])
InsUnderWay(d) == InsRead(d) \cup InsQueued(d)

(* Inputs are numbered without gaps along the way of d, as far as it is    *)
(* not interrupted, and continue what has been applied.                    *)
Orderly(d) ==
    /\ InsRise(hbuf[d]) /\ InsRise(toServer[d]) /\ Above(Ins(hbuf[d]), Ins(toServer[d]))
    /\ Dense(InsRead(d), Len(applied[d]))
OrderlyQueued(d) ==
    /\ InsRise(wrq[d]) /\ InsRise(inq[d]) /\ Above(Ins(wrq[d]), Ins(inq[d]))
    /\ Above(InsRead(d), InsQueued(d))
    /\ Dense(InsUnderWay(d), Len(applied[d]))
    /\ Fed(d) => sent[d] \in InsUnderWay(d) \cup {Len(applied[d])}
Inputs(d) ==
    /\ applied[d] = [i \in 1..Len(applied[d]) |-> i] /\ Len(applied[d]) <= sent[d]
    /\ cst[d] # "up" => sent[d] = 0
    /\ InsUnderWay(d) \subseteq 1..sent[d]
    /\ Alive(d) => Orderly(d)
    /\ Alive(d) /\ Pass(d) => OrderlyQueued(d)

(* What a step does to the way.                                            *)
Kept(d) == sent'[d] = sent[d] /\ applied'[d] = applied[d]
NoMore(q, p) == Ins(p) \subseteq Ins(q)

(* Nothing has been sent yet or nobody will read what has.                 *)
UpFew(d) ==
    /\ Kept(d) /\ (~Alive(d)' \/ cst[d] # "up")
    /\ NoMore(hbuf[d], hbuf'[d]) /\ NoMore(toServer[d], toServer'[d])
    /\ NoMore(wrq[d], wrq'[d]) /\ NoMore(inq[d], inq'[d])
(* What is not written yet will not be.                                    *)
UpLost(d) ==
    /\ Kept(d) /\ ~Pass(d)' /\ hbuf'[d] = hbuf[d] /\ toServer'[d] = toServer[d]
    /\ NoMore(wrq[d], wrq'[d]) /\ NoMore(inq[d], inq'[d])
UpSame(d) ==
    /\ Kept(d) /\ hbuf'[d] = hbuf[d] /\ toServer'[d] = toServer[d] /\ wrq'[d] = wrq[d]
    /\ inq'[d] = inq[d] \/ \E ms \in Seq(Messages) : Ins(ms) = {} /\ InsRise(ms) /\ inq'[d] = inq[d] \o ms
UpRead(d) ==
    /\ Kept(d) /\ wrq'[d] = wrq[d] /\ inq'[d] = inq[d]
    /\ \E n \in 1..Len(toServer[d]) : /\ hbuf'[d] = hbuf[d] \o SubSeq(toServer[d], 1, n)
                                      /\ toServer'[d] = SubSeq(toServer[d], n + 1, Len(toServer[d]))
UpHandled(d) ==
    /\ sent'[d] = sent[d] /\ toServer'[d] = toServer[d] /\ wrq'[d] = wrq[d] /\ inq'[d] = inq[d]
    /\ hbuf[d] # <<>> /\ hbuf'[d] = Tail(hbuf[d]) /\ Alive(d)
    /\ applied'[d] = IF Head(hbuf[d]).type = "Input" THEN Append(applied[d], Head(hbuf[d]).arg)
                     ELSE applied[d]
UpWritten(d) ==
    /\ Kept(d) /\ Pass(d) /\ hbuf'[d] = hbuf[d] /\ inq'[d] = inq[d]
    /\ wrq[d] # <<>> /\ wrq'[d] = Tail(wrq[d])
    /\ \E m \in Messages : /\ ArgOf(m, "Input") = ArgOf(Head(wrq[d]), "Input")
                           /\ toServer'[d] = Append(toServer[d], m)
UpForwarded(d) ==
    /\ Kept(d) /\ hbuf'[d] = hbuf[d] /\ toServer'[d] = toServer[d]
    /\ inq[d] # <<>> /\ inq'[d] = Tail(inq[d]) /\ wrq'[d] = Append(wrq[d], Head(inq[d]))
UpEntered(d) ==
    /\ cst[d] = "up" /\ applied'[d] = applied[d] /\ sent'[d] = sent[d] + 1
    /\ hbuf'[d] = hbuf[d] /\ toServer'[d] = toServer[d] /\ wrq'[d] = wrq[d]
    /\ inq'[d] = IF Fed(d) THEN Append(inq[d], Message("Input", sent[d] + 1)) ELSE inq[d]

UpStep(d) ==
    /\ Alive(d)' => Alive(d)
    /\ cst[d] = "up" => cst'[d] = "up" /\ (Pass(d)' => Pass(d)) /\ (Fed(d)' => Fed(d))
    /\ cst[d] # "up" => sent'[d] = sent[d]
    /\ \/ UpFew(d) \/ UpLost(d) \/ UpSame(d) \/ UpRead(d) \/ UpHandled(d) \/ UpWritten(d)
       \/ UpForwarded(d) \/ UpEntered(d)

(* The queues of the way, and their numbers.                               *)
LEMMA UpTypes ==
  ASSUME TypeOK, NEW d \in Conns
  PROVE  /\ hbuf[d] \in Seq(Messages) /\ toServer[d] \in Seq(Messages)
         /\ wrq[d] \in Seq(Messages) /\ inq[d] \in Seq(Messages)
         /\ Ins(hbuf[d]) \in SUBSET Nat /\ Ins(toServer[d]) \in SUBSET Nat
         /\ Ins(wrq[d]) \in SUBSET Nat /\ Ins(inq[d]) \in SUBSET Nat
         /\ applied[d] \in Seq(Nat) /\ Len(applied[d]) \in Nat /\ sent[d] \in Nat
<1>1. /\ hbuf[d] \in Seq(Messages) /\ toServer[d] \in Seq(Messages)
      /\ wrq[d] \in Seq(Messages) /\ inq[d] \in Seq(Messages)
      /\ applied[d] \in Seq(Nat)
  BY DEF TypeOK, WireTypeOK, ServerTypeOK, ClientTypeOK
<1>2. sent[d] \in Nat
  BY InputsAssumption DEF TypeOK, ClientTypeOK
<1> QED
  BY <1>1, <1>2, ArgsNat, LenProperties DEF Ins

(* A queue without inputs.                                                 *)
LEMMA NoIns ==
  ASSUME NEW q, Ins(q) = {}
  PROVE  InsRise(q)
  BY DEF Ins, InsRise, Args, Rising

(* A step keeps the order of the inputs.                                   *)
LEMMA InputsStep ==
  ASSUME TypeOK, NEW d \in Conns, Inputs(d), UpStep(d)
  PROVE  Inputs(d)'
<1> DEFINE H == Ins(hbuf[d])       Hp == Ins(hbuf'[d])
           T == Ins(toServer[d])   Tp == Ins(toServer'[d])
           W == Ins(wrq[d])        Wp == Ins(wrq'[d])
           I == Ins(inq[d])        Ip == Ins(inq'[d])
           n == Len(applied[d])    np == Len(applied'[d])
           s == sent[d]            sp == sent'[d]
           Front(h, t, k) == Above(h, t) /\ Dense(h \cup t, k)
           Back(h, t, w, i, k) == /\ Above(w, i) /\ Above(h \cup t, w \cup i)
                                  /\ Dense(h \cup t \cup (w \cup i), k)
<1>0. /\ hbuf[d] \in Seq(Messages) /\ toServer[d] \in Seq(Messages)
      /\ wrq[d] \in Seq(Messages) /\ inq[d] \in Seq(Messages)
      /\ H \in SUBSET Nat /\ T \in SUBSET Nat /\ W \in SUBSET Nat /\ I \in SUBSET Nat
      /\ applied[d] \in Seq(Nat) /\ n \in Nat /\ s \in Nat
  BY UpTypes
<1>1. /\ applied[d] = [i \in 1..n |-> i] /\ n <= s
      /\ H \cup T \cup W \cup I \subseteq 1..s
      /\ cst[d] # "up" => s = 0
      /\ Alive(d) => InsRise(hbuf[d]) /\ InsRise(toServer[d]) /\ Front(H, T, n)
      /\ Alive(d) /\ Pass(d) => /\ InsRise(wrq[d]) /\ InsRise(inq[d]) /\ Back(H, T, W, I, n)
                                /\ Fed(d) => s \in H \cup T \cup (W \cup I) \cup {n}
  BY DEF Inputs, Orderly, OrderlyQueued, InsRead, InsQueued, InsUnderWay
<1> DEFINE First == /\ applied'[d] = [i \in 1..np |-> i] /\ np <= sp
                    /\ Hp \cup Tp \cup Wp \cup Ip \subseteq 1..sp
           Second == InsRise(hbuf'[d]) /\ InsRise(toServer'[d]) /\ Front(Hp, Tp, np)
           Third == /\ InsRise(wrq'[d]) /\ InsRise(inq'[d]) /\ Back(Hp, Tp, Wp, Ip, np)
                    /\ Fed(d)' => sp \in Hp \cup Tp \cup (Wp \cup Ip) \cup {np}
<1>2. SUFFICES First /\ (Alive(d)' => Second) /\ (Alive(d)' /\ Pass(d)' => Third)
  <2>1. cst'[d] # "up" => sp = 0
    BY <1>1 DEF UpStep
  <2> QED
    BY <1>2, <2>1 DEF Inputs, Orderly, OrderlyQueued, InsRead, InsQueued, InsUnderWay
<1>3. ASSUME cst[d] # "up", Hp \cup Tp \cup Wp \cup Ip \subseteq H \cup T \cup W \cup I,
             applied'[d] = applied[d]
      PROVE  First /\ Second /\ Third
  <2>1. sp = 0 /\ s = 0 /\ np = 0 /\ n = 0
    BY <1>0, <1>1, <1>3 DEF UpStep
  <2>2. H \cup T \cup W \cup I = {}
    BY <1>1, <2>1
  <2>3. Hp = {} /\ Tp = {} /\ Wp = {} /\ Ip = {}
    BY <1>3, <2>2
  <2>4. InsRise(hbuf'[d]) /\ InsRise(toServer'[d]) /\ InsRise(wrq'[d]) /\ InsRise(inq'[d])
    BY <2>3, NoIns
  <2>5. Front(Hp, Tp, np) /\ Back(Hp, Tp, Wp, Ip, np)
    BY <2>3 DEF Above, Below, Dense
  <2>6. First
    BY <1>1, <1>3, <2>1, <2>3
  <2> HIDE DEF Hp, Tp, Wp, Ip, np, sp, Front, Back
  <2> QED
    BY <2>1, <2>4, <2>5, <2>6
<1>4. /\ Alive(d)' => Alive(d)
      /\ cst[d] = "up" => (Pass(d)' => Pass(d)) /\ (Fed(d)' => Fed(d))
  BY DEF UpStep
<1> HIDE DEF H, Hp, T, Tp, W, Wp, I, Ip
<1>5. CASE UpFew(d)
  <2>1. Hp \subseteq H /\ Tp \subseteq T /\ Wp \subseteq W /\ Ip \subseteq I /\ Kept(d)
    BY <1>5 DEF UpFew, NoMore, H, Hp, T, Tp, W, Wp, I, Ip
  <2>2. CASE cst[d] # "up"
    BY <1>3, <2>1, <2>2 DEF Kept
  <2>3. CASE ~Alive(d)'
    BY <1>1, <2>1, <2>3 DEF Kept
  <2> QED
    BY <1>5, <2>2, <2>3 DEF UpFew
<1>6. CASE UpLost(d)
  <2>1. Hp = H /\ Tp = T /\ Wp \subseteq W /\ Ip \subseteq I /\ Kept(d)
    BY <1>6 DEF UpLost, NoMore, H, Hp, T, Tp, W, Wp, I, Ip
  <2>2. First
    BY <1>1, <2>1 DEF Kept
  <2>3. Alive(d)' => Second
    BY <1>1, <1>4, <1>6, <2>1 DEF Kept, UpLost
  <2> QED
    BY <1>6, <2>2, <2>3 DEF UpLost
<1>7. CASE UpSame(d)
  <2>1. Hp = H /\ Tp = T /\ Wp = W /\ Kept(d) /\ hbuf'[d] = hbuf[d] /\ toServer'[d] = toServer[d] /\ wrq'[d] = wrq[d]
    BY <1>7 DEF UpSame, H, Hp, T, Tp, W, Wp
  <2>2. Ip = I /\ (InsRise(inq[d]) => InsRise(inq'[d]))
    <3>1. CASE inq'[d] = inq[d]
      BY <3>1 DEF I, Ip
    <3>2. CASE \E ms \in Seq(Messages) : Ins(ms) = {} /\ InsRise(ms) /\ inq'[d] = inq[d] \o ms
      <4>1. PICK ms \in Seq(Messages) : Ins(ms) = {} /\ InsRise(ms) /\ inq'[d] = inq[d] \o ms
        BY <3>2
      <4>2. Ip = I \cup Ins(ms)
        BY <1>0, <4>1, ArgsConcat DEF I, Ip, Ins
      <4>3. Above(I, Ins(ms))
        BY <4>1 DEF Above, Below
      <4>4. InsRise(inq[d]) => InsRise(inq'[d])
        BY <1>0, <4>1, <4>3, ArgsConcat DEF InsRise, Above, Ins, I
      <4> QED
        BY <4>1, <4>2, <4>4
    <3> QED
      BY <1>7, <3>1, <3>2 DEF UpSame
  <2>3. CASE cst[d] # "up"
    BY <1>3, <2>1, <2>2, <2>3 DEF Kept
  <2>4. CASE cst[d] = "up"
    BY <1>1, <1>4, <2>1, <2>2, <2>4 DEF Kept
  <2> QED
    BY <2>3, <2>4
<1>8. CASE UpRead(d)
  <2>1. PICK k \in 1..Len(toServer[d]) : /\ hbuf'[d] = hbuf[d] \o SubSeq(toServer[d], 1, k)
                                         /\ toServer'[d] = SubSeq(toServer[d], k + 1, Len(toServer[d]))
    BY <1>8 DEF UpRead
  <2> DEFINE f == SubSeq(toServer[d], 1, k)   F == Ins(f)
  <2>2. /\ f \in Seq(Messages) /\ T = F \cup Tp
        /\ InsRise(toServer[d]) => InsRise(f) /\ InsRise(toServer'[d]) /\ Above(F, Tp)
    BY <1>0, <2>1, ArgsSplit DEF T, Tp, Ins, InsRise, Above
  <2>3. Hp = H \cup F /\ (InsRise(hbuf[d]) /\ InsRise(f) /\ Above(H, F) => InsRise(hbuf'[d]))
    <3>1. hbuf'[d] = hbuf[d] \o f
      BY <2>1
    <3> HIDE DEF f
    <3>2. Hp = H \cup F
      BY <1>0, <2>2, <3>1, ArgsConcat DEF H, Hp, Ins
    <3>3. InsRise(hbuf[d]) /\ InsRise(f) /\ Above(H, F) => InsRise(hbuf'[d])
      BY <1>0, <2>2, <3>1, ArgsConcat DEF InsRise, Above, H, Ins
    <3> QED
      BY <3>2, <3>3
  <2> HIDE DEF f, F
  <2>4. Kept(d) /\ Wp = W /\ Ip = I /\ wrq'[d] = wrq[d] /\ inq'[d] = inq[d]
    BY <1>8 DEF UpRead, W, Wp, I, Ip
  <2>5. Hp \cup Tp = H \cup T
    BY <2>2, <2>3
  <2>6. CASE cst[d] # "up"
    BY <1>3, <2>4, <2>5, <2>6 DEF Kept
  <2>7. CASE cst[d] = "up"
    <3>1. First
      BY <1>1, <2>4, <2>5 DEF Kept
    <3>2. Alive(d)' => Second
      <4>1. Alive(d)' => Above(H, F) /\ Above(Hp, Tp)
        BY <1>1, <1>4, <2>2, <2>3 DEF Above, Below
      <4> QED
        BY <1>1, <1>4, <2>2, <2>3, <2>4, <2>5, <4>1 DEF Kept
    <3>3. Alive(d)' /\ Pass(d)' => Third
      BY <1>1, <1>4, <2>4, <2>5, <2>7 DEF Kept
    <3> QED
      BY <3>1, <3>2, <3>3
  <2> QED
    BY <2>6, <2>7
<1>9. CASE UpHandled(d)
  <2> DEFINE m == Head(hbuf[d])   h == ArgOf(m, "Input")
  <2>1. m \in Messages /\ H = h \cup Hp /\ (InsRise(hbuf[d]) => InsRise(hbuf'[d]) /\ Above(h, Hp))
    BY <1>0, <1>9, ArgsFirst DEF UpHandled, InsRise, Above, Ins, H, Hp
  <2>2. /\ Tp = T /\ Wp = W /\ Ip = I /\ sp = s /\ Alive(d)
        /\ toServer'[d] = toServer[d] /\ wrq'[d] = wrq[d] /\ inq'[d] = inq[d]
    BY <1>9 DEF UpHandled, T, Tp, W, Wp, I, Ip
  <2>3. CASE m.type # "Input"
    <3>1. h = {} /\ applied'[d] = applied[d]
      BY <1>9, <2>3 DEF ArgOf, UpHandled
    <3>2. Hp = H
      BY <2>1, <3>1
    <3> HIDE DEF m, h
    <3>3. CASE cst[d] # "up"
      BY <1>3, <2>2, <3>1, <3>2, <3>3
    <3>4. CASE cst[d] = "up"
      BY <1>1, <1>4, <2>1, <2>2, <3>1, <3>2, <3>4
    <3> QED
      BY <3>3, <3>4
  <2>4. CASE m.type = "Input"
    <3>1. h = {m.arg} /\ applied'[d] = Append(applied[d], m.arg) /\ m.arg \in Nat
      BY <1>9, <2>1, <2>4 DEF ArgOf, UpHandled, Messages
    <3> DEFINE a == m.arg
    <3>2. H = {a} \cup Hp /\ Above({a}, Hp) /\ InsRise(hbuf'[d]) /\ Above(H, T) /\ Dense(H \cup T, n)
      BY <1>1, <2>1, <2>2, <3>1
    <3> HIDE DEF m, h
    <3>3. a \in Nat /\ Hp \in SUBSET Nat /\ a \in 1..s
      BY <1>0, <1>1, <3>1, <3>2
    <3> HIDE DEF a
    <3>4. H \cup T = {a} \cup (Hp \cup T) /\ Above({a}, Hp \cup T) /\ Above(Hp, T)
      BY <3>2 DEF Above, Below
    <3>5. a = n + 1 /\ Dense(Hp \cup T, n + 1)
      BY <1>0, <3>2, <3>3, <3>4, DenseTaken
    <3>6. applied'[d] = [i \in 1..(n + 1) |-> i] /\ np = n + 1
      <4>1. applied'[d] = Append(applied[d], n + 1)
        BY <3>1, <3>5 DEF a
      <4>2. /\ applied'[d] \in Seq(Nat) /\ np = n + 1 /\ applied'[d][n + 1] = n + 1
            /\ \A i \in 1..n : applied'[d][i] = applied[d][i]
        BY <1>0, <4>1, AppendProperties
      <4>3. \A i \in 1..n : applied[d][i] = i
        BY <1>1
      <4>4. ASSUME NEW i \in 1..(n + 1) PROVE applied'[d][i] = i
        <5> HIDE DEF n
        <5>1. i \in 1..n \/ i = n + 1
          BY <1>0
        <5> QED
          BY <4>2, <4>3, <5>1
      <4>5. applied'[d] \in [1..(n + 1) -> Nat]
        BY <4>2, LenProperties
      <4> QED
        BY <4>2, <4>4, <4>5
    <3>7. First
      <4>1. n + 1 <= s
        BY <3>3, <3>5
      <4> QED
        BY <1>1, <2>2, <3>2, <3>6, <4>1
    <3>8. Second
      BY <1>1, <2>2, <3>2, <3>4, <3>5, <3>6
    <3>9. cst[d] = "up"
      BY <1>0, <1>1, <3>3
    <3>10. Alive(d)' /\ Pass(d)' => Third
      <4> SUFFICES ASSUME Pass(d) PROVE Third
        BY <1>4, <3>9
      <4> DEFINE V == Hp \cup T \cup (W \cup I)
      <4>1. Above(W, I) /\ Above(H \cup T, W \cup I) /\ Dense(H \cup T \cup (W \cup I), n)
        BY <1>1, <2>2
      <4>2. H \cup T \cup (W \cup I) = {a} \cup V /\ Above({a}, V) /\ Above(Hp \cup T, W \cup I)
        BY <3>2, <3>4, <4>1 DEF Above, Below
      <4>3. V \in SUBSET Nat
        BY <1>0, <3>3
      <4>4. Dense(V, n + 1)
        <5> HIDE DEF V
        <5> QED
          BY <1>0, <3>3, <4>1, <4>2, <4>3, DenseTaken
      <4>5. Fed(d)' => s \in V \cup {n + 1}
        <5>1. Fed(d)' => s \in {a} \cup V \cup {n}
          BY <1>1, <1>4, <2>2, <3>9, <4>2
        <5>2. s # n
          BY <1>0, <3>3, <3>5
        <5> QED
          BY <3>5, <5>1, <5>2
      <4>6. Back(Hp, Tp, Wp, Ip, np)
        BY <2>2, <3>6, <4>1, <4>2, <4>4
      <4> QED
        BY <1>1, <2>2, <3>6, <4>5, <4>6
    <3> QED
      BY <3>7, <3>8, <3>10
  <2> QED
    BY <2>3, <2>4
<1>10. CASE UpWritten(d)
  <2> DEFINE h == ArgOf(Head(wrq[d]), "Input")
  <2>1. Head(wrq[d]) \in Messages /\ W = h \cup Wp /\ (InsRise(wrq[d]) => InsRise(wrq'[d]) /\ Above(h, Wp))
    BY <1>0, <1>10, ArgsFirst DEF UpWritten, InsRise, Above, Ins, W, Wp
  <2>2. PICK m \in Messages : ArgOf(m, "Input") = h /\ toServer'[d] = Append(toServer[d], m)
    BY <1>10 DEF UpWritten
  <2>3. Tp = T \cup h /\ (InsRise(toServer[d]) /\ Above(T, h) => InsRise(toServer'[d]))
    BY <1>0, <2>2, ArgsAppend DEF InsRise, Above, Ins, T, Tp
  <2> HIDE DEF h
  <2>4. Kept(d) /\ Pass(d) /\ Hp = H /\ Ip = I /\ hbuf'[d] = hbuf[d] /\ inq'[d] = inq[d]
    BY <1>10 DEF UpWritten, H, Hp, I, Ip
  <2>5. Hp \cup Tp \cup (Wp \cup Ip) = H \cup T \cup (W \cup I)
    BY <2>1, <2>3, <2>4
  <2>6. CASE cst[d] # "up"
    BY <1>3, <2>4, <2>5, <2>6 DEF Kept
  <2>7. CASE cst[d] = "up"
    <3>1. First
      BY <1>1, <2>4, <2>5 DEF Kept
    <3>2. ASSUME Alive(d)' PROVE Second
      <4>1. Above(H, T) /\ Above(H \cup T, W \cup I) /\ Above(W, I) /\ Above(h, Wp)
            /\ Dense(H \cup T \cup (W \cup I), n) /\ InsRise(hbuf[d]) /\ InsRise(toServer[d])
        BY <1>1, <1>4, <2>1, <2>4, <3>2
      <4>2. Above(T, h) /\ Above(Hp, Tp) /\ Above(Hp \cup Tp, Wp \cup Ip)
        BY <2>1, <2>3, <2>4, <4>1 DEF Above, Below
      <4>3. Hp \cup Tp \in SUBSET Nat /\ Wp \cup Ip \in SUBSET Nat
        BY <1>0, <2>1, <2>3, <2>4
      <4>4. Dense(Hp \cup Tp, n)
        BY <1>0, <2>5, <4>1, <4>2, <4>3, DenseFront
      <4> QED
        BY <2>3, <2>4, <4>1, <4>2, <4>4 DEF Kept
    <3>3. ASSUME Alive(d)', Pass(d)' PROVE Third
      <4>1. Above(H \cup T, W \cup I) /\ Above(W, I) /\ Above(h, Wp) /\ Dense(H \cup T \cup (W \cup I), n)
            /\ InsRise(wrq'[d]) /\ InsRise(inq'[d])
        BY <1>1, <1>4, <2>1, <2>4, <3>3
      <4>2. Above(Wp, Ip) /\ Above(Hp \cup Tp, Wp \cup Ip)
        BY <2>1, <2>3, <2>4, <4>1 DEF Above, Below
      <4>3. Fed(d)' => sp \in Hp \cup Tp \cup (Wp \cup Ip) \cup {np}
        BY <1>1, <1>4, <2>4, <2>5, <2>7, <3>3 DEF Kept
      <4>4. Dense(Hp \cup Tp \cup (Wp \cup Ip), np)
        BY <2>4, <2>5, <4>1 DEF Kept
      <4> QED
        BY <4>1, <4>2, <4>3, <4>4
    <3> QED
      BY <3>1, <3>2, <3>3
  <2> QED
    BY <2>6, <2>7
<1>11. CASE UpForwarded(d)
  <2> DEFINE m == Head(inq[d])   h == ArgOf(m, "Input")
  <2>1. m \in Messages /\ I = h \cup Ip /\ (InsRise(inq[d]) => InsRise(inq'[d]) /\ Above(h, Ip))
    BY <1>0, <1>11, ArgsFirst DEF UpForwarded, InsRise, Above, Ins, I, Ip
  <2>2. Wp = W \cup h /\ (InsRise(wrq[d]) /\ Above(W, h) => InsRise(wrq'[d]))
    BY <1>0, <1>11, <2>1, ArgsAppend DEF UpForwarded, InsRise, Above, Ins, W, Wp
  <2> HIDE DEF m, h
  <2>3. Kept(d) /\ Hp = H /\ Tp = T /\ hbuf'[d] = hbuf[d] /\ toServer'[d] = toServer[d]
    BY <1>11 DEF UpForwarded, H, Hp, T, Tp
  <2>4. Wp \cup Ip = W \cup I
    BY <2>1, <2>2
  <2>5. CASE cst[d] # "up"
    BY <1>3, <2>3, <2>4, <2>5 DEF Kept
  <2>6. CASE cst[d] = "up"
    <3>1. First
      BY <1>1, <2>3, <2>4 DEF Kept
    <3>2. Alive(d)' => Second
      BY <1>1, <1>4, <2>3 DEF Kept
    <3>3. ASSUME Alive(d)', Pass(d)' PROVE Third
      <4>1. Above(W, I) /\ InsRise(wrq[d]) /\ InsRise(inq[d]) /\ Above(h, Ip)
        BY <1>1, <1>4, <2>1, <2>6, <3>3
      <4>2. Above(W, h) /\ Above(Wp, Ip)
        BY <2>1, <2>2, <4>1 DEF Above, Below
      <4> QED
        BY <1>1, <1>4, <2>1, <2>2, <2>3, <2>4, <2>6, <3>3, <4>1, <4>2 DEF Kept
    <3> QED
      BY <3>1, <3>2, <3>3
  <2> QED
    BY <2>5, <2>6
<1>12. CASE UpEntered(d)
  <2>1. /\ cst[d] = "up" /\ applied'[d] = applied[d] /\ sp = s + 1 /\ Hp = H /\ Tp = T /\ Wp = W
        /\ hbuf'[d] = hbuf[d] /\ toServer'[d] = toServer[d] /\ wrq'[d] = wrq[d]
    BY <1>12 DEF UpEntered, H, Hp, T, Tp, W, Wp
  <2>2. Alive(d)' => Second
    BY <1>1, <1>4, <2>1
  <2>3. CASE ~Fed(d)
    <3>1. Ip = I /\ inq'[d] = inq[d]
      BY <1>12, <2>3 DEF UpEntered, I, Ip
    <3>2. First
      BY <1>0, <1>1, <2>1, <3>1
    <3>3. Alive(d)' /\ Pass(d)' => Third
      BY <1>1, <1>4, <2>1, <2>3, <3>1
    <3> QED
      BY <2>2, <3>2, <3>3
  <2>4. CASE Fed(d)
    <3> DEFINE m == Message("Input", s + 1)
    <3>1. inq'[d] = Append(inq[d], m)
      BY <1>12, <2>4 DEF UpEntered
    <3>2. m \in Messages /\ ArgOf(m, "Input") = {s + 1}
      BY <1>0 DEF Message, Messages, MessageTypes, Keys, ArgOf
    <3> HIDE DEF m
    <3>3. Ip = I \cup {s + 1} /\ (InsRise(inq[d]) /\ Above(I, {s + 1}) => InsRise(inq'[d]))
      <4>1. Ip = I \cup ArgOf(m, "Input")
        BY <1>0, <3>1, <3>2, ArgsAppend DEF Ins, I, Ip
      <4>2. InsRise(inq[d]) /\ Above(I, ArgOf(m, "Input")) => InsRise(inq'[d])
        BY <1>0, <3>1, <3>2, ArgsAppend DEF InsRise, Above, Ins, I
      <4> QED
        BY <3>2, <4>1, <4>2
    <3>4. First
      <4>1. 1..s \subseteq 1..(s + 1) /\ s + 1 \in 1..(s + 1) /\ n <= s + 1
        BY <1>0, <1>1
      <4>2. applied'[d] = [i \in 1..np |-> i] /\ np = n
        BY <1>1, <2>1
      <4> QED
        BY <1>1, <2>1, <3>3, <4>1, <4>2
    <3>5. ASSUME Alive(d)', Pass(d)' PROVE Third
      <4> DEFINE U == H \cup T \cup (W \cup I)
      <4>1. /\ Above(W, I) /\ Above(H \cup T, W \cup I) /\ Dense(U, n) /\ s \in U \cup {n}
            /\ InsRise(wrq[d]) /\ InsRise(inq[d])
        BY <1>1, <1>4, <2>1, <2>4, <3>5
      <4>2. U \in SUBSET Nat /\ \A x \in U : x <= s
        BY <1>0, <1>1
      <4>3. Above(U, {s + 1})
        BY <1>0, <4>2 DEF Above, Below
      <4>4. Dense(U \cup {s + 1}, n)
        <5> HIDE DEF U
        <5> QED
          BY <1>0, <1>1, <4>1, <4>2, DenseEntered
      <4>5. Hp \cup Tp \cup (Wp \cup Ip) = U \cup {s + 1}
        BY <2>1, <3>3
      <4>6. Above(Wp, Ip) /\ Above(Hp \cup Tp, Wp \cup Ip) /\ Above(I, {s + 1})
        BY <2>1, <3>3, <4>1, <4>3 DEF Above, Below
      <4>7. sp \in Hp \cup Tp \cup (Wp \cup Ip) \cup {np} /\ Dense(Hp \cup Tp \cup (Wp \cup Ip), np)
        BY <2>1, <4>4, <4>5
      <4> QED
        BY <2>1, <3>3, <4>1, <4>6, <4>7
    <3> QED
      BY <2>2, <3>4, <3>5
  <2> QED
    BY <2>3, <2>4
<1> QED
  BY <1>5, <1>6, <1>7, <1>8, <1>9, <1>10, <1>11, <1>12 DEF UpStep

(* The server reads, handles or drops what is under way.                   *)
LEMMA UpServer ==
  ASSUME Inv, AllSockets, HonestInv, ServerNext, UNCHANGED clientVars, NEW d \in Conns
  PROVE  UpStep(d)
<1>0. /\ TypeOK /\ QueueTypes
      /\ UNCHANGED <<cst, tasks, wrq, inq, sent>>
  BY QueueTyping DEF Inv, clientVars
<1> DEFINE Ahead == (Alive(d)' => Alive(d)) /\ (link'[d] = "open" => link[d] = "open")
<1>1. ASSUME Ahead, \/ UpFew(d) \/ UpSame(d) \/ UpRead(d) \/ UpHandled(d)
      PROVE  UpStep(d)
  BY <1>0, <1>1 DEF UpStep, Pass, Fed
<1>2. ASSUME Ahead, applied'[d] = applied[d], hbuf'[d] = hbuf[d], toServer'[d] = toServer[d] PROVE UpStep(d)
  BY <1>0, <1>1, <1>2 DEF UpSame, Kept
<1>3. ASSUME Ahead, applied'[d] = applied[d], ~Alive(d)', hbuf'[d] \in {hbuf[d], <<>>},
             toServer'[d] \in {toServer[d], <<>>}
      PROVE  UpStep(d)
  <2>1. NoMore(hbuf[d], hbuf'[d]) /\ NoMore(toServer[d], toServer'[d])
    BY <1>3, ArgsNone DEF NoMore, Ins
  <2> QED
    BY <1>0, <1>1, <1>3, <2>1 DEF UpFew, Kept, NoMore
<1>4. ASSUME NEW c \in Conns, NEW why \in Failed, Fail(c, why), UNCHANGED applied PROVE UpStep(d)
  <2>1. /\ hbuf'[c] = <<>> /\ hst'[c] = why /\ toServer'[c] \in {toServer[c], <<>>}
        /\ d # c => /\ hst'[d] = hst[d] /\ hbuf'[d] = hbuf[d]
                    /\ toServer'[d] = toServer[d] /\ link'[d] = link[d]
    BY <1>4, FailFacts
  <2>2. link'[c] = "open" => link[c] = "open"
    BY <1>0, <1>4 DEF Fail, ServerDrops, TypeOK, WireTypeOK
  <2>3. CASE d = c
    <3>1. ~Alive(d)'
      BY <2>1, <2>3 DEF Alive, Failed, Live
    <3> QED
      BY <1>3, <1>4, <2>1, <2>2, <2>3, <3>1
  <2>4. CASE d # c
    BY <1>2, <1>4, <2>1, <2>4 DEF Alive
  <2> QED
    BY <2>3, <2>4
<1>5. ASSUME NEW c \in Conns, hst[c] \in {"parse", "reply"}, Advance(c), UNCHANGED <<toServer, link>>,
             \/ UNCHANGED applied /\ Incoming(c).type # "Input"
             \/ Incoming(c).type = "Input" /\ applied' = [applied EXCEPT ![c] = Append(@, Incoming(c).arg)]
      PROVE  UpStep(d)
  <2>1. /\ hst'[c] \in {"read", "parse"} /\ hbuf[c] # <<>>
        /\ d # c => hst'[d] = hst[d] /\ hbuf'[d] = hbuf[d]
    BY <1>5, AdvanceFacts, IncomingFacts
  <2>2. hbuf'[c] = Tail(hbuf[c])
    BY <1>0, <1>5 DEF Advance, QueueTypes
  <2>3. CASE d = c
    <3>1. Alive(d) /\ Head(hbuf[d]) = Incoming(c)
      BY <1>5, <2>3 DEF Alive, Live, Incoming
    <3>2. applied'[d] = IF Incoming(c).type = "Input" THEN Append(applied[d], Incoming(c).arg) ELSE applied[d]
      BY <1>0, <1>5, <2>3 DEF TypeOK, ServerTypeOK
    <3>3. UpHandled(d)
      BY <1>0, <1>5, <2>1, <2>2, <2>3, <3>1, <3>2 DEF UpHandled
    <3> QED
      BY <1>1, <1>5, <3>1, <3>3
  <2>4. CASE d # c
    <3>1. applied'[d] = applied[d]
      BY <1>0, <1>5, <2>4 DEF TypeOK, ServerTypeOK
    <3> QED
      BY <1>2, <1>5, <2>1, <2>4, <3>1 DEF Alive
  <2> QED
    BY <2>3, <2>4
<1>6. ASSUME NEW c \in Conns, NEW m, hst[c] \in {"parse", "reply"}, Incoming(c).type # "Input",
             Respond(c, m), UNCHANGED applied
      PROVE  UpStep(d)
  <2>1. CASE writing[c]
    BY <1>5, <1>6, <2>1, FinishAdvances DEF Respond
  <2>2. CASE ~writing[c]
    BY <1>4, <1>6, <2>2 DEF Respond, Failed
  <2> QED
    BY <2>1, <2>2
<1>7. ASSUME UNCHANGED <<hst, hbuf, toServer, applied>>, link'[d] = "open" => link[d] = "open" PROVE UpStep(d)
  BY <1>2, <1>7 DEF Alive
<1>8. ASSUME NEW c \in Conns, Accept(c) PROVE UpStep(d)
  <2>1. Alive(d)' => Alive(d)
    BY <1>0, <1>8 DEF Accept, Alive, TypeOK, ServerTypeOK
  <2> QED
    BY <1>2, <1>8, <2>1 DEF Accept, wireVars
<1>9. ASSUME NEW c \in Conns, ReadBuf(c) PROVE UpStep(d)
  <2>1. PICK n \in 1..Len(toServer[c]) :
               /\ hbuf' = [hbuf EXCEPT ![c] = @ \o SubSeq(toServer[c], 1, n)]
               /\ toServer' = [toServer EXCEPT ![c] = SubSeq(@, n + 1, Len(@))]
    BY <1>9 DEF ReadBuf
  <2>2. /\ hst[c] = "read" /\ hst' = [hst EXCEPT ![c] = "parse"] /\ UNCHANGED <<link, applied>>
    BY <1>9 DEF ReadBuf
  <2>3. Ahead
    BY <1>0, <2>2 DEF Alive, Live, TypeOK, ServerTypeOK
  <2>4. CASE d = c
    <3>1. /\ hbuf'[d] = hbuf[d] \o SubSeq(toServer[d], 1, n)
          /\ toServer'[d] = SubSeq(toServer[d], n + 1, Len(toServer[d]))
      BY <1>0, <2>1, <2>4 DEF QueueTypes
    <3>2. UpRead(d)
      BY <1>0, <2>2, <2>4, <3>1 DEF UpRead, Kept
    <3> QED
      BY <1>1, <2>3, <3>2
  <2>5. CASE d # c
    BY <1>0, <1>2, <2>1, <2>2, <2>3, <2>5 DEF QueueTypes
  <2> QED
    BY <2>4, <2>5
<1>10. ASSUME NEW c \in Conns, Cleanup(c) PROVE UpStep(d)
  <2>1. /\ hst' = [hst EXCEPT ![c] = "done"] /\ hbuf' = [hbuf EXCEPT ![c] = <<>>]
        /\ UNCHANGED applied /\ ServerDrops(c, Halves, <<>>)
    BY <1>10 DEF Cleanup
  <2>2. /\ d = c => hst'[d] = "done" /\ hbuf'[d] = <<>> /\ toServer'[d] = <<>>
        /\ d # c => hst'[d] = hst[d] /\ hbuf'[d] = hbuf[d] /\ toServer'[d] = toServer[d]
        /\ link'[d] = "open" => link[d] = "open"
    BY <1>0, <2>1 DEF ServerDrops, TypeOK, ServerTypeOK, WireTypeOK
  <2>3. CASE d = c
    <3>1. ~Alive(d)'
      BY <2>2, <2>3 DEF Alive, Live
    <3> QED
      BY <1>3, <2>1, <2>2, <2>3, <3>1
  <2>4. CASE d # c
    BY <1>2, <2>1, <2>2, <2>4 DEF Alive
  <2> QED
    BY <2>3, <2>4
<1>11. ASSUME NEW c \in Conns, HandlerError(c) PROVE UpStep(d)
  BY <1>4, <1>11 DEF HandlerError, ErrorOf, Failed
<1>12. ASSUME NEW c \in Conns, HandleKeyExchange(c) PROVE UpStep(d)
  BY <1>6, <1>12 DEF HandleKeyExchange, Takes
<1>13. ASSUME NEW c \in Conns, HandleAuthRequest(c) PROVE UpStep(d)
  <2>1. hst[c] = "parse" /\ Incoming(c).type = "AuthRequest" /\ UNCHANGED applied
    BY <1>13 DEF HandleAuthRequest, Takes
  <2>2. CASE hkey[c] = NoKey
    BY <1>4, <1>13, <2>1, <2>2 DEF HandleAuthRequest, Failed
  <2>3. CASE hkey[c] # NoKey /\ Verified(Incoming(c))
    <3>1. hst' = [hst EXCEPT ![c] = "reply"] /\ UNCHANGED <<hbuf, toServer, link>>
      BY <1>13, <2>3 DEF HandleAuthRequest, Login
    <3>2. Alive(d)' => Alive(d)
      BY <1>0, <2>1, <3>1 DEF Alive, Live, TypeOK, ServerTypeOK
    <3> QED
      BY <1>2, <2>1, <3>1, <3>2
  <2>4. CASE hkey[c] # NoKey /\ ~Verified(Incoming(c))
    BY <1>6, <1>13, <2>1, <2>4 DEF HandleAuthRequest, Refuse
  <2> QED
    BY <2>2, <2>3, <2>4
<1>14. ASSUME NEW c \in Conns, AuthReply(c) PROVE UpStep(d)
  <2>1. hst[c] = "reply" /\ cst[c] # "up"
    BY <1>14 DEF AuthReply, HonestInv, Answers
  <2>2. Incoming(c) \in Up(c)
    BY <2>1, IncomingFacts
  <2>3. Incoming(c).type # "Input"
    BY <2>1, <2>2 DEF Up, UpMessages
  <2> QED
    BY <1>6, <1>14, <2>1, <2>3 DEF AuthReply
<1>15. ASSUME NEW c \in Conns, HandleStartStream(c) \/ HandleQualityRequest(c) PROVE UpStep(d)
  <2>1. hst[c] = "parse" /\ Incoming(c).type # "Input" /\ UNCHANGED applied
    BY <1>15 DEF HandleStartStream, HandleQualityRequest, Takes
  <2>2. CASE HasSession(c)
    BY <1>6, <1>15, <2>1, <2>2 DEF HandleStartStream, HandleQualityRequest
  <2>3. CASE ~HasSession(c)
    BY <1>5, <1>15, <2>1, <2>3, FinishAdvances DEF HandleStartStream, HandleQualityRequest
  <2> QED
    BY <2>2, <2>3
<1>16. ASSUME NEW c \in Conns, HandleInput(c) PROVE UpStep(d)
  BY <1>4, <1>5, <1>16, FinishAdvances DEF HandleInput, Takes, Failed
<1>17. ASSUME NEW c \in Conns, HandleOther(c) \/ HandleDisconnect(c) PROVE UpStep(d)
  <2>1. hst[c] = "parse" /\ Incoming(c).type # "Input" /\ UNCHANGED <<applied, toServer, link>>
    BY <1>17 DEF HandleOther, HandleDisconnect, Takes
  <2>2. Advance(c)
    BY <1>17, FinishAdvances DEF HandleOther, HandleDisconnect, Advance
  <2> QED
    BY <1>5, <2>1, <2>2
<1>18. ASSUME NEW c \in Conns, ServerWrite(c) PROVE UpStep(d)
  BY <1>0, <1>7, <1>18 DEF ServerWrite, ServerPuts, writerFrame, TypeOK, WireTypeOK
<1>19. ASSUME NEW c \in Conns, ServerWriterEnds(c) PROVE UpStep(d)
  <2>1. ServerDrops(c, {"w"}, toServer[c]) /\ UNCHANGED <<hst, hbuf, applied>>
    BY <1>19 DEF ServerWriterEnds
  <2>2. /\ link'[d] = "open" => link[d] = "open"
        /\ d # c => toServer'[d] = toServer[d]
        /\ d = c => toServer'[d] = toServer[d] \/ (sOpen[d] \ {"w"} = {} /\ toServer'[d] = <<>>)
    BY <1>0, <2>1 DEF ServerDrops, TypeOK, WireTypeOK
  <2>3. CASE toServer'[d] = toServer[d]
    BY <1>2, <2>1, <2>2, <2>3 DEF Alive
  <2>4. CASE ~Alive(d)
    BY <1>3, <2>1, <2>2, <2>4 DEF Alive
  <2>5. CASE Alive(d) /\ "r" \notin sOpen[d]
    <3>1. toServer[d] = <<>>
      BY <2>5 DEF AllSockets, Sockets, Alive
    <3> QED
      BY <2>2, <2>3, <3>1
  <2> QED
    BY <2>2, <2>3, <2>4, <2>5
<1>20. ASSUME Capture \/ VisitStep \/ ExpireCode PROVE UpStep(d)
  BY <1>7, <1>20 DEF Capture, VisitStep, SkipSession, SendFrame, ExpireCode, captureFrame, wireVars
<1>21. ASSUME ServerExit PROVE UpStep(d)
  <2>1. ~Alive(d)' /\ hbuf'[d] = <<>> /\ toServer'[d] = <<>> /\ UNCHANGED applied
    BY <1>21 DEF ServerExit, Alive, Live
  <2>2. link'[d] = "open" => link[d] = "open"
    BY <1>21 DEF ServerExit
  <2> QED
    BY <1>3, <2>1, <2>2
<1> QED
  BY <1>8, <1>9, <1>10, <1>11, <1>12, <1>13, <1>14, <1>15, <1>16, <1>17, <1>18, <1>19, <1>20, <1>21
  DEF ServerNext, HandlerStep, ServerWriterStep

(* Queues that get a message which is not an input.                        *)
LEMMA OtherIns ==
  ASSUME NEW q \in Seq(Messages), NEW m \in Messages, m.type # "Input"
  PROVE  <<m>> \in Seq(Messages) /\ Ins(<<m>>) = {} /\ Ins(Append(q, m)) = Ins(q)
<1>1. Ins(<<m>>) = {}
  BY DEF Ins, Args, Places
<1>2. Ins(Append(q, m)) = Ins(q) \cup ArgOf(m, "Input")
  BY ArgsAppend DEF Ins
<1> QED
  BY <1>1, <1>2 DEF ArgOf

(* The handshake sends no input, and the application none before its end.  *)
LEMMA UpConnect ==
  ASSUME Inv, NEW c \in Conns, ConnectStep(c), UNCHANGED serverVars
  PROVE  /\ cst[c] \in Handshake /\ UNCHANGED sent
         /\ NoMore(toServer[c], toServer'[c]) /\ NoMore(wrq[c], wrq'[c]) /\ NoMore(inq[c], inq'[c])
         /\ \A d \in Conns : d # c => /\ link'[d] = link[d] /\ toServer'[d] = toServer[d]
                                      /\ wrq'[d] = wrq[d] /\ inq'[d] = inq[d]
<1> DEFINE Few == NoMore(toServer[c], toServer'[c]) /\ NoMore(wrq[c], wrq'[c]) /\ NoMore(inq[c], inq'[c])
           Rest == \A d \in Conns : d # c => /\ link'[d] = link[d] /\ toServer'[d] = toServer[d]
                                             /\ wrq'[d] = wrq[d] /\ inq'[d] = inq[d]
<1>0. TypeOK /\ toServer[c] \in Seq(Messages) /\ Ins(<<>>) = {}
  BY ArgsNone DEF Inv, TypeOK, WireTypeOK, Ins
<1>1. cst[c] \in Handshake /\ UNCHANGED sent
  BY DEF ConnectStep, TcpConnect, TcpRefused, RecvAck, RecvAuth, HandshakeClosed, ConnectFails,
     Handshake, appFrame
<1> SUFFICES Few /\ Rest
  BY <1>1
<1>2. ASSUME NEW why, NEW rest, ConnectFails(c, why, rest) PROVE Few /\ Rest
  <2>1. inq'[c] = <<>> /\ UNCHANGED <<toServer, wrq>>
    BY <1>0, <1>2 DEF ConnectFails, TypeOK, ClientTypeOK
  <2>2. Rest
    BY <1>0, <1>2, <2>1 DEF ConnectFails, ClientDrops, TypeOK, WireTypeOK, ClientTypeOK
  <2> QED
    BY <1>0, <2>1, <2>2 DEF NoMore
<1>3. CASE TcpConnect(c)
  <2> DEFINE m == Message("KeyExchange", c)
  <2>1. m \in Messages /\ m.type # "Input"
    <3>1. c \in Nat /\ NoKey \in Keys /\ "KeyExchange" \in MessageTypes
      BY MaxConnAssumption DEF Conns, Keys, MessageTypes
    <3> QED
      BY <3>1, MessageFacts
  <2>2. toServer'[c] = <<m>> /\ UNCHANGED <<wrq, inq>> /\ Rest
    BY <1>0, <1>3 DEF TcpConnect, TypeOK, WireTypeOK
  <2>3. Ins(<<m>>) = {}
    BY <1>0, <2>1, OtherIns
  <2> QED
    BY <2>2, <2>3 DEF NoMore
<1>4. CASE RecvAck(c)
  <2> DEFINE h == Head(toClient[c])   key == SharedKey(c, h.arg)   m == Encrypt(key, Message("AuthRequest", code[c]))
  <2>1. CASE Decrypts(NoKey, h) /\ h.type = "KeyExchangeAck"
    <3>1. ClientPuts(c, m) /\ UNCHANGED <<wrq, inq>>
      BY <1>4, <2>1 DEF RecvAck
    <3>2. m \in Messages /\ m.type # "Input"
      <4>1. key \in Keys
        <5>1. ckey' \in [Conns -> Keys] /\ ckey' = [ckey EXCEPT ![c] = key]
          <6>1. Inv'
            BY <1>4, RecvAckInv
          <6> QED
            BY <1>4, <2>1, <6>1 DEF RecvAck, Inv, TypeOK, ClientTypeOK
        <5> QED
          BY <1>0, <5>1 DEF TypeOK, ClientTypeOK
      <4>2. code[c] \in Nat
        BY <1>0 DEF TypeOK, ClientTypeOK
      <4> QED
        BY <4>1, <4>2, MessageFacts DEF MessageTypes
    <3> HIDE DEF m
    <3>3. Ins(Append(toServer[c], m)) = Ins(toServer[c])
      BY <1>0, <3>2, OtherIns
    <3> QED
      BY <1>0, <3>1, <3>2, <3>3, ClientPutsFacts DEF NoMore
  <2>2. CASE ~(Decrypts(NoKey, h) /\ h.type = "KeyExchangeAck")
    BY <1>2, <1>4, <2>2 DEF RecvAck
  <2> QED
    BY <2>1, <2>2
<1>5. CASE RecvAuth(c)
  <2> DEFINE h == Head(toClient[c])   m == Message("StartStream", 0)
  <2>1. CASE ~Decrypts(ckey[c], h) \/ h.type # "AuthResponse" \/ h.arg = 0
    BY <1>2, <1>5, <2>1 DEF RecvAuth
  <2>2. CASE ~(~Decrypts(ckey[c], h) \/ h.type # "AuthResponse") /\ h.arg # 0
    <3>1. wrq' = [wrq EXCEPT ![c] = <<m>>] /\ UNCHANGED <<toServer, link, inq>>
      BY <1>5, <2>2 DEF RecvAuth
    <3>2. m \in Messages /\ m.type # "Input"
      BY AppMessageFacts DEF AppTypes, AppMessages, Message
    <3>3. wrq'[c] = <<m>> /\ Rest
      BY <1>0, <3>1 DEF TypeOK, ClientTypeOK
    <3>4. Ins(<<m>>) = {}
      BY <1>0, <3>2, OtherIns
    <3> QED
      BY <3>1, <3>3, <3>4 DEF NoMore
  <2> QED
    BY <2>1, <2>2
<1>6. CASE TcpRefused(c) \/ HandshakeClosed(c)
  BY <1>2, <1>6 DEF TcpRefused, HandshakeClosed
<1> QED
  BY <1>1, <1>3, <1>4, <1>5, <1>6 DEF ConnectStep

(* The client makes inputs, and passes them on or drops them.              *)
LEMMA UpClient ==
  ASSUME Inv, HonestInv, ClientNext, UNCHANGED serverVars, NEW d \in Conns
  PROVE  UpStep(d)
<1>0. TypeOK /\ UNCHANGED <<hst, hbuf, applied>> /\ ConnInv(d)
  BY DEF Inv, serverVars
<1>1. ASSUME link'[d] = "open" /\ cst[d] = "up" => link[d] = "open", cst[d] # "up" => sent'[d] = sent[d],
             \/ UpFew(d) \/ UpLost(d) \/ UpSame(d) \/ UpWritten(d) \/ UpForwarded(d) \/ UpEntered(d)
      PROVE  UpStep(d)
  <2>1. cst[d] = "up" => cst'[d] = "up" /\ tasks'[d] \subseteq tasks[d]
    BY ReportSteps DEF ReportStep
  <2>2. Alive(d)' => Alive(d)
    BY <1>0 DEF Alive
  <2> QED
    BY <1>1, <2>1, <2>2 DEF UpStep, Pass, Fed
<1>2. ASSUME sent'[d] = sent[d], toServer'[d] = toServer[d], wrq'[d] = wrq[d], inq'[d] = inq[d],
             link'[d] = "open" /\ cst[d] = "up" => link[d] = "open"
      PROVE  UpStep(d)
  BY <1>0, <1>1, <1>2 DEF UpSame, Kept
<1>3. ASSUME NEW c \in Conns, ConnectStep(c) PROVE UpStep(d)
  <2>1. CASE d = c
    <3>1. UpFew(d) /\ cst[d] # "up"
      BY <1>0, <1>3, <2>1, UpConnect DEF UpFew, Kept, NoMore, Handshake
    <3> QED
      BY <1>1, <3>1 DEF UpFew, Kept
  <2>2. CASE d # c
    BY <1>2, <1>3, <2>2, UpConnect
  <2> QED
    BY <2>1, <2>2
<1>4. ASSUME NEW c \in Conns, NEW halves, NEW rest, ClientDrops(c, halves, rest)
      PROVE  link'[d] = "open" => link[d] = "open"
  BY <1>0, <1>4 DEF ClientDrops, TypeOK, WireTypeOK
<1>5. ASSUME NEW c \in Conns, ReaderRecv(c) \/ ReaderEnds(c) PROVE UpStep(d)
  <2>1. UNCHANGED <<sent, toServer, wrq, inq>>
    BY <1>5 DEF ReaderRecv, ReaderEnds, appFrame
  <2>2. link'[d] = "open" => link[d] = "open"
    BY <1>4, <1>5 DEF ReaderRecv, ReaderEnds
  <2> QED
    BY <1>2, <2>1, <2>2
<1>6. ASSUME NEW c \in Conns, MainForward(c) \/ MainEnds(c) PROVE UpStep(d)
  BY <1>2, <1>6 DEF MainForward, MainEnds, appFrame, wireVars
<1>7. ASSUME NEW c \in Conns, ForwarderSend(c) PROVE UpStep(d)
  <2>1. /\ inq[c] # <<>> /\ wrq' = [wrq EXCEPT ![c] = Append(@, Head(inq[c]))]
        /\ inq' = [inq EXCEPT ![c] = Tail(@)] /\ UNCHANGED <<sent, toServer, link>>
    BY <1>7 DEF ForwarderSend, appFrame, wireVars
  <2>2. /\ d = c => wrq'[d] = Append(wrq[d], Head(inq[d])) /\ inq'[d] = Tail(inq[d])
        /\ d # c => wrq'[d] = wrq[d] /\ inq'[d] = inq[d]
    BY <1>0, <2>1 DEF TypeOK, ClientTypeOK
  <2>3. CASE d = c
    BY <1>0, <1>1, <2>1, <2>2, <2>3 DEF UpForwarded, Kept
  <2>4. CASE d # c
    BY <1>2, <2>1, <2>2, <2>4
  <2> QED
    BY <2>3, <2>4
<1>8. ASSUME NEW c \in Conns, ForwarderEnds(c) PROVE UpStep(d)
  <2>1. /\ inq' = [inq EXCEPT ![c] = <<>>] /\ UNCHANGED <<sent, toServer, link, wrq>>
        /\ Ends(c, "forwarder") /\ (inq[c] = <<>> \/ "writer" \notin tasks[c])
    BY <1>8 DEF ForwarderEnds, appFrame, wireVars
  <2>2. /\ d = c => inq'[d] = <<>> /\ ("writer" \notin tasks[d] => "writer" \notin tasks'[d])
        /\ d # c => inq'[d] = inq[d]
    BY <1>0, <2>1 DEF TypeOK, ClientTypeOK, Ends
  <2>3. CASE inq'[d] = inq[d]
    BY <1>2, <2>1, <2>3
  <2>4. CASE d = c /\ "writer" \notin tasks[d]
    <3>1. NoMore(wrq[d], wrq'[d]) /\ NoMore(inq[d], inq'[d])
      BY <2>1, <2>2, <2>4, ArgsNone DEF NoMore, Ins
    <3> QED
      BY <1>0, <1>1, <2>1, <2>2, <2>4, <3>1 DEF UpLost, Pass, Kept
  <2> QED
    BY <2>1, <2>2, <2>3, <2>4
<1>9. ASSUME NEW c \in Conns, WriterSend(c) PROVE UpStep(d)
  <2> DEFINE h == Head(wrq[c])   m == Encrypt(ckey[c], h)
  <2>1. /\ "writer" \in tasks[c] /\ wrq[c] # <<>> /\ link[c] = "open" /\ ClientPuts(c, m)
        /\ wrq' = [wrq EXCEPT ![c] = Tail(@)] /\ UNCHANGED <<sent, inq, tasks>>
    BY <1>9 DEF WriterSend, ClientCanWrite, appFrame
  <2>2. h \in Messages
    BY <1>0, <2>1, SeqFacts DEF TypeOK, ClientTypeOK
  <2>3. m \in Messages /\ ArgOf(m, "Input") = ArgOf(h, "Input")
    <3>1. ckey[c] \in Keys
      BY <1>0 DEF TypeOK, ClientTypeOK
    <3> HIDE DEF h
    <3> QED
      BY <2>2, <3>1 DEF Encrypt, Messages, ArgOf
  <2> HIDE DEF m
  <2>4. /\ d = c => wrq'[d] = Tail(wrq[d])
        /\ d # c => wrq'[d] = wrq[d] /\ toServer'[d] = toServer[d] /\ link'[d] = link[d]
    BY <1>0, <2>1, <2>3, ClientPutsFacts DEF TypeOK, ClientTypeOK
  <2>5. CASE d # c
    BY <1>2, <2>1, <2>4, <2>5
  <2>6. CASE d = c /\ sOpen[c] = {}
    <3>1. link'[d] = "reset" /\ toServer'[d] = toServer[d]
      BY <1>0, <2>1, <2>6 DEF ClientPuts, TypeOK, WireTypeOK
    <3>2. NoMore(wrq[d], wrq'[d])
      <4>1. wrq[d] \in Seq(Messages)
        BY <1>0 DEF TypeOK, ClientTypeOK
      <4> QED
        BY <2>1, <2>4, <2>6, <4>1, ArgsFirst DEF NoMore, Ins
    <3> QED
      BY <1>0, <1>1, <2>1, <3>1, <3>2 DEF UpLost, Pass, Kept, NoMore
  <2>7. CASE d = c /\ sOpen[c] # {}
    <3>1. link' = link /\ toServer'[d] = Append(toServer[d], m)
      BY <1>0, <2>1, <2>7 DEF ClientPuts, TypeOK, WireTypeOK
    <3>2. UpWritten(d)
      BY <1>0, <2>1, <2>3, <2>4, <2>7, <3>1 DEF UpWritten, Pass, Kept
    <3> QED
      BY <1>1, <2>1, <3>1, <3>2
  <2> QED
    BY <2>5, <2>6, <2>7
<1>10. ASSUME NEW c \in Conns, WriterEnds(c) PROVE UpStep(d)
  <2>1. /\ Ends(c, "writer") /\ wrq' = [wrq EXCEPT ![c] = <<>>] /\ UNCHANGED <<sent, toServer, inq>>
    BY <1>10 DEF WriterEnds, appFrame
  <2>2. link'[d] = "open" => link[d] = "open"
    BY <1>4, <1>10 DEF WriterEnds
  <2>3. /\ d = c => wrq'[d] = <<>> /\ "writer" \notin tasks'[d]
        /\ d # c => wrq'[d] = wrq[d]
    BY <1>0, <2>1 DEF Ends, TypeOK, ClientTypeOK
  <2>4. CASE d = c
    <3>1. NoMore(wrq[d], wrq'[d]) /\ NoMore(inq[d], inq'[d])
      BY <2>1, <2>3, <2>4, ArgsNone DEF NoMore, Ins
    <3> QED
      BY <1>0, <1>1, <2>1, <2>2, <2>3, <2>4, <3>1 DEF UpLost, Pass, Kept
  <2>5. CASE d # c
    BY <1>2, <2>1, <2>2, <2>3, <2>5
  <2> QED
    BY <2>4, <2>5
<1>11. ASSUME NEW c \in Conns, NEW typed \in Codes, Connect(c, typed) PROVE UpStep(d)
  BY <1>2, <1>11 DEF Connect, wireVars
<1>12. ASSUME NEW ms \in Seq(AppMessages), Ins(ms) = {}, AppSends(ms), UNCHANGED <<wireVars, wrq, sent>>
       PROVE  UpStep(d)
  <2>1. inq'[d] = inq[d] \/ inq'[d] = inq[d] \o ms
    BY <1>0, <1>12 DEF AppSends, TypeOK, ClientTypeOK
  <2>2. ms \in Seq(Messages) /\ InsRise(ms)
    BY <1>12, NoIns, SeqMonotonic DEF AppMessages
  <2> QED
    BY <1>0, <1>1, <1>12, <2>1, <2>2 DEF UpSame, Kept, wireVars
<1>13. ASSUME NEW type \in AppTypes \ {"Input"}, NEW arg \in Nat, AppSends(<<Message(type, arg)>>),
              UNCHANGED <<wireVars, wrq, sent>>
       PROVE  UpStep(d)
  <2> DEFINE m == Message(type, arg)
  <2>1. m \in AppMessages /\ <<m>> \in Seq(AppMessages)
    BY <1>13, AppMessageFacts
  <2>2. m \in Messages /\ m.type # "Input"
    BY <1>13, <2>1 DEF Message, AppMessages
  <2>3. Ins(<<m>>) = {}
    BY <1>0, <2>2, OtherIns DEF TypeOK, WireTypeOK
  <2> QED
    BY <1>12, <1>13, <2>1, <2>3
<1>14. ASSUME Disconnect PROVE UpStep(d)
  BY <1>13, <1>14 DEF Disconnect, AppTypes
<1>15. ASSUME NEW mode \in Choices, RequestQuality(mode) PROVE UpStep(d)
  BY <1>13, <1>15, ChoicesAssumption DEF RequestQuality, AppTypes
<1>16. ASSUME Update PROVE UpStep(d)
  <2>1. PICK frames \in SUBSET Places(msgq[cur], "ScreenFrame") :
          AppSends([i \in 1..Cardinality(frames) |-> Message("FrameAck", 0)])
    BY <1>16 DEF Update
  <2> DEFINE acks == [i \in 1..Cardinality(frames) |-> Message("FrameAck", 0)]
  <2>2. cur \in Conns
    BY <1>16, MaxConnAssumption DEF Update, Inv, TypeOK, ClientTypeOK, Conns
  <2>3. Len(msgq[cur]) \in Nat /\ frames \in SUBSET (1..Len(msgq[cur]))
    <3>1. msgq[cur] \in Seq(Messages)
      BY <1>0, <2>2 DEF TypeOK, ClientTypeOK
    <3> QED
      BY <3>1, LenProperties DEF Places
  <2>4. acks \in Seq(AppMessages)
    BY <2>3, AcksFacts
  <2>5. Ins(acks) = {}
    <3>1. ASSUME NEW i \in Places(acks, "Input") PROVE FALSE
      <4>1. i \in 1..Len(acks) /\ acks[i].type = "Input"
        BY DEF Places
      <4>2. acks[i] = Message("FrameAck", 0)
        <5>1. 1..Len(acks) = DOMAIN acks
          BY <2>4, LenProperties
        <5> QED
          BY <4>1, <5>1
      <4> QED
        BY <4>1, <4>2 DEF Message
    <3> QED
      BY <3>1 DEF Ins, Args
  <2> HIDE DEF acks
  <2> QED
    BY <1>12, <1>16, <2>1, <2>4, <2>5 DEF Update, acks
<1>17. ASSUME UserInput PROVE UpStep(d)
  <2> DEFINE m == Message("Input", sent[cur] + 1)
  <2>1. /\ state = "Connected" /\ sent' = [sent EXCEPT ![cur] = @ + 1] /\ AppSends(<<m>>)
        /\ UNCHANGED <<toServer, link, wrq>>
    BY <1>17 DEF UserInput, wireVars
  <2>2. /\ d = cur => sent'[d] = sent[d] + 1 /\ inq'[d] = IF CanSend(d) THEN inq[d] \o <<m>> ELSE inq[d]
        /\ d # cur => sent'[d] = sent[d] /\ inq'[d] = inq[d]
    BY <1>0, <2>1 DEF AppSends, TypeOK, ClientTypeOK
  <2>3. CASE d # cur
    BY <1>2, <2>1, <2>2, <2>3
  <2>4. CASE d = cur
    <3>1. cst[d] = "up"
      <4>1. cur # 0
        BY <2>4, MaxConnAssumption DEF Conns
      <4> QED
        BY <2>1, <2>4, <4>1 DEF HonestInv, HonestOf
    <3>2. CanSend(d) = Fed(d)
      BY <3>1 DEF CanSend, Fed, Handshake
    <3>3. inq[d] \o <<m>> = Append(inq[d], m)
      <4>1. inq[d] \in Seq(Messages) /\ sent[d] \in Nat
        BY <1>0, InputsAssumption DEF TypeOK, ClientTypeOK
      <4>2. m \in Messages
        BY <2>4, <4>1, AppMessageFacts DEF AppTypes, AppMessages
      <4> QED
        BY <4>1, <4>2, AppendIsConcat
    <3>4. UpEntered(d)
      BY <1>0, <2>1, <2>2, <2>4, <3>1, <3>2, <3>3 DEF UpEntered
    <3> QED
      BY <1>1, <2>1, <3>1, <3>4
  <2> QED
    BY <2>3, <2>4
<1>18. ASSUME Exit PROVE UpStep(d)
  <2>1. /\ tasks'[d] = {} /\ inq'[d] = <<>> /\ wrq'[d] = <<>> /\ UNCHANGED <<toServer, sent>>
        /\ (link'[d] = "open" => link[d] = "open")
    BY <1>18 DEF Exit
  <2>2. NoMore(wrq[d], wrq'[d]) /\ NoMore(inq[d], inq'[d])
    BY <2>1, ArgsNone DEF NoMore, Ins
  <2> QED
    BY <1>0, <1>1, <2>1, <2>2 DEF UpLost, Pass, Kept
<1> QED
  BY <1>3, <1>5, <1>6, <1>7, <1>8, <1>9, <1>10, <1>11, <1>14, <1>15, <1>16, <1>17, <1>18
  DEF ClientNext, TaskStep, UserStep

(* The inputs of every connection are in order.                            *)
InputsInv == \A d \in Conns : Inputs(d)

(* Every step keeps them so.                                               *)
LEMMA InputsKept ==
  ASSUME Inv, AllSockets, HonestInv, InputsInv, [Next]_vars
  PROVE  InputsInv'
<1> SUFFICES ASSUME NEW d \in Conns PROVE Inputs(d)'
  BY DEF InputsInv
<1>1. TypeOK /\ Inputs(d)
  BY DEF Inv, InputsInv
<1>2. CASE UNCHANGED vars
  BY <1>1, <1>2 DEF vars, wireVars, serverVars, clientVars, Inputs, Alive, Pass, Fed, Orderly,
     OrderlyQueued, InsRead, InsQueued, InsUnderWay
<1>3. CASE Next
  BY <1>1, <1>3, UpServer, UpClient, InputsStep DEF Next
<1> QED
  BY <1>2, <1>3

(* At the start there are none.                                            *)
LEMMA InputsInit ==
  ASSUME Init
  PROVE  InputsInv
<1> SUFFICES ASSUME NEW d \in Conns PROVE Inputs(d)
  BY DEF InputsInv
<1>1. /\ hbuf[d] = <<>> /\ toServer[d] = <<>> /\ wrq[d] = <<>> /\ inq[d] = <<>>
      /\ applied[d] = <<>> /\ sent[d] = 0 /\ tasks[d] = {}
  BY DEF Init, WireInit, ServerInit, ClientInit
<1>2. Ins(<<>>) = {} /\ InsRise(<<>>) /\ Len(<<>>) = 0
  BY ArgsNone DEF Ins, InsRise
<1>3. InsUnderWay(d) = {} /\ InsRead(d) = {}
  BY <1>1, <1>2 DEF InsUnderWay, InsRead, InsQueued
<1>4. Orderly(d)
  BY <1>1, <1>2, <1>3 DEF Orderly, Above, Below, Dense
<1>5. ~Pass(d)
  BY <1>1 DEF Pass
<1>6. applied[d] = [i \in 1..Len(applied[d]) |-> i] /\ Len(applied[d]) <= sent[d]
  BY <1>1
<1> QED
  BY <1>1, <1>3, <1>4, <1>5, <1>6 DEF Inputs

(* The inputs are in order in every reachable state.                       *)
LEMMA InputsInvariance == Spec => []InputsInv
<1>1. Inv /\ AllSockets /\ HonestInv /\ InputsInv /\ [Next]_vars => InputsInv'
  BY InputsKept
<1> QED
  BY <1>1, InputsInit, Invariance, SocketsInvariance, HonestInvariance, PTL DEF Spec

(* Mouse and keyboard events reach the backend in the order the user made  *)
(* them, none left out and none twice (app.rs, send_message; the forwarder *)
(* and the writer of connection.rs; server.rs, the loops of handle_client),*)
(* whichever task or socket ends on the way.                               *)
THEOREM InputsInOrder == Spec => []InputPrefix
<1>1. InputsInv => InputPrefix
  BY DEF InputsInv, Inputs, InputPrefix
<1> QED
  BY <1>1, InputsInvariance, PTL
=============================================================================
