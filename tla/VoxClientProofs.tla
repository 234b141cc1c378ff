-------------------------- MODULE VoxClientProofs ---------------------------
(***************************************************************************)
(* Every step of the client keeps the invariant: the threads that connect, *)
(* the tasks of a connection, the application and its exit.                *)
(***************************************************************************)
EXTENDS VoxServerProofs, FiniteSetTheorems, WellFoundedInduction

(* The last of some places of a sequence exists.                           *)
LEMMA LastPlace ==
  ASSUME NEW n \in Nat, NEW P \in SUBSET (1..n), P # {}
  PROVE  \E i \in P : \A j \in P : j <= i
<1> DEFINE T == {k \in Nat : \E i \in P : k = n - i}
<1>1. T \subseteq Nat /\ T # {}
  <2>1. PICK i \in P : TRUE
    OBVIOUS
  <2>2. n - i \in T
    BY <2>1
  <2> QED
    BY <2>2
<1>2. \E x \in T : \A y \in T : ~(<<y, x>> \in OpToRel(<, Nat))
  <2> HIDE DEF T
  <2> QED
    BY <1>1, NatLessThanWellFounded, WFMin
<1>3. PICK x \in T : \A y \in T : ~(y < x)
  BY <1>1, <1>2 DEF OpToRel
<1>4. PICK i \in P : x = n - i
  OBVIOUS
<1>5. ASSUME NEW j \in P PROVE j <= i
  <2>1. n - j \in T /\ i \in Nat /\ j \in Nat
    OBVIOUS
  <2>2. ~(n - j < n - i)
    BY <1>3, <1>4, <2>1
  <2> QED
    BY <2>1, <2>2
<1> QED
  BY <1>5

(* The number the last of some messages carries.                           *)
LEMMA LastArgType ==
  ASSUME NEW q \in Seq(Messages), NEW P \in SUBSET (1..Len(q)), P # {}
  PROVE  LastArg(q, P) \in Nat
<1> DEFINE i == CHOOSE i \in P : \A j \in P : j <= i
<1>1. Len(q) \in Nat
  BY LenProperties
<1>2. i \in P
  <2>1. \E k \in P : \A j \in P : j <= k
    BY <1>1, LastPlace
  <2> QED
    BY <2>1
<1>3. q[i] \in Messages
  BY <1>2, ElementOfSeq
<1> QED
  BY <1>3 DEF LastArg, Messages

(* The client lets go of halves of the socket.                             *)
LEMMA ClientDropsFacts ==
  ASSUME TypeOK, NEW c \in Conns, NEW halves, NEW rest \in Seq(Messages), ClientDrops(c, halves, rest)
  PROVE  /\ cOpen' \in [Conns -> SUBSET Halves]
         /\ toClient' \in [Conns -> Seq(Messages)]
         /\ link' \in [Conns -> {"none", "open", "reset"}]
         /\ toClient'[c] \in {rest, <<>>} /\ (rest = <<>> => link'[c] = link[c])
         /\ \A d \in Conns : d # c => toClient'[d] = toClient[d] /\ link'[d] = link[d]
<1>1. /\ cOpen' \in [Conns -> SUBSET Halves]
      /\ toClient' \in [Conns -> Seq(Messages)]
      /\ link' \in [Conns -> {"none", "open", "reset"}]
  BY EmptySeq DEF TypeOK, WireTypeOK, ClientDrops
<1>2. /\ toClient'[c] \in {rest, <<>>} /\ (rest = <<>> => link'[c] = link[c])
      /\ \A d \in Conns : d # c => toClient'[d] = toClient[d] /\ link'[d] = link[d]
  BY DEF TypeOK, WireTypeOK, ClientDrops
<1> QED
  BY <1>1, <1>2

(* The client writes to its socket.                                        *)
LEMMA ClientPutsFacts ==
  ASSUME TypeOK, NEW c \in Conns, NEW m \in Messages, ClientPuts(c, m)
  PROVE  /\ toServer' \in [Conns -> Seq(Messages)]
         /\ link' \in [Conns -> {"none", "open", "reset"}]
         /\ toServer'[c] \in {toServer[c], Append(toServer[c], m)}
         /\ \A d \in Conns : d # c => toServer'[d] = toServer[d] /\ link'[d] = link[d]
<1>1. Append(toServer[c], m) \in Seq(Messages)
  BY SeqFacts DEF TypeOK, WireTypeOK
<1> QED
  BY <1>1 DEF TypeOK, WireTypeOK, ClientPuts

(* Reporting a state keeps the type of the channel of states.              *)
LEMMA ReportsType ==
  ASSUME TypeOK, NEW c \in Conns, NEW s \in AppStates, Reports(c, s)
  PROVE  stq' \in [Conns -> Seq(AppStates)]
<1>1. Append(stq[c], s) \in Seq(AppStates)
  BY SeqFacts DEF TypeOK, ClientTypeOK
<1> QED
  BY <1>1 DEF TypeOK, ClientTypeOK, Reports

(* A client step keeps the table, as long as no code changes.              *)
LEMMA ClientTable ==
  ASSUME UNCHANGED serverVars, UNCHANGED code
  PROVE  TableCalm
  BY DEF serverVars, TableCalm

(* A client step keeps the server's types.                                 *)
LEMMA ClientServerType ==
  ASSUME TypeOK, UNCHANGED serverVars, WireTypeOK', ClientTypeOK'
  PROVE  TypeOK'
<1>1. ServerTypeOK'
  BY DEF TypeOK, ServerTypeOK, serverVars
<1> QED
  BY <1>1 DEF TypeOK

(* A task of a connection, or the application, takes a step that sends     *)
(* nothing.                                                                *)
LEMMA TaskInv ==
  ASSUME Inv, NEW c \in Conns, TypeOK', UNCHANGED serverVars,
         UNCHANGED <<cst, ckey, code, made, toServer>>,
         tasks'[c] \subseteq tasks[c],
         cst[c] \in {"none", "tcp"} => link'[c] = "none",
         toClient'[c] \in Seq(Down(c)), Len(toClient'[c]) <= Len(toClient[c]),
         wrq'[c] \in Seq(AppMessages), inq'[c] \in Seq(AppMessages),
         \A d \in Conns : d # c =>
            /\ toClient'[d] = toClient[d] /\ link'[d] = link[d]
            /\ tasks'[d] = tasks[d] /\ wrq'[d] = wrq[d] /\ inq'[d] = inq[d]
  PROVE  Inv'
<1>1. TypeOK /\ ConnInv(c) /\ QueueTypes /\ QueueTypes'
  BY QueueTyping, NextQueueTyping DEF Inv
<1>2. TableCalm
  BY ClientTable
<1>3. UNCHANGED <<hst, hbuf, hkey, txq>>
  BY DEF serverVars
<1>4. CalmHandler(c)
  BY <1>1, <1>3, StillHandler
<1>5. CalmQueues(c)
  <2>1. Len(txq'[c]) + Len(toClient'[c]) <= Len(txq[c]) + Len(toClient[c])
    BY <1>1, <1>3 DEF QueueTypes
  <2>2. txq'[c] \in Seq(Down(c))
    BY <1>1, <1>3 DEF ConnInv, Queues
  <2> QED
    BY <1>1, <1>3, <2>1, <2>2, ShrinkQueues
<1>6. (NoSession(c) => NoSession(c)') => SameStage(c)
  BY <1>3 DEF SameStage
<1>7. \A d \in Conns : d # c => ((NoSession(d) => NoSession(d)') => Same(d))
  BY <1>3 DEF Same
<1> QED
  BY <1>2, <1>4, <1>5, <1>6, <1>7, CalmStep

(* Tasks run only once the login has been accepted.                        *)
LEMMA RunningTask ==
  ASSUME Inv, NEW c \in Conns, tasks[c] # {}
  PROVE  cst[c] = "up"
  BY DEF Inv, ConnInv, BeforeUp

(* The reader hands on a message, drops it, or ends for want of a          *)
(* receiver.                                                               *)
LEMMA ReaderRecvInv ==
  ASSUME Inv, NEW c \in Conns, ReaderRecv(c), UNCHANGED serverVars
  PROVE  Inv'
<1> DEFINE m == Head(toClient[c])
           rest == Tail(toClient[c])
<1>1. TypeOK /\ ConnInv(c) /\ QueueTypes /\ cst[c] = "up" /\ toClient[c] # <<>>
  BY RunningTask, QueueTyping DEF Inv, ReaderRecv
<1>2. /\ m \in Messages /\ rest \in Seq(Messages) /\ rest \in Seq(Down(c))
      /\ Len(rest) = Len(toClient[c]) - 1 /\ Len(toClient[c]) \in Nat
  <2>1. toClient[c] \in Seq(Messages) /\ toClient[c] \in Seq(Down(c))
    BY <1>1 DEF QueueTypes, ConnInv, Queues
  <2> QED
    BY <1>1, <2>1, SeqFacts
<1> HIDE DEF m, rest
<1>3. CASE Ends(c, "reader") /\ ClientDrops(c, {"r"}, rest) /\ UNCHANGED outq
  <2>1. /\ cOpen' \in [Conns -> SUBSET Halves] /\ toClient' \in [Conns -> Seq(Messages)]
        /\ link' \in [Conns -> {"none", "open", "reset"}] /\ toClient'[c] \in {rest, <<>>}
        /\ \A d \in Conns : d # c => toClient'[d] = toClient[d] /\ link'[d] = link[d]
    BY <1>1, <1>2, <1>3, ClientDropsFacts
  <2>2. /\ tasks' \in [Conns -> SUBSET Tasks] /\ tasks'[c] \subseteq tasks[c]
        /\ \A d \in Conns : d # c => tasks'[d] = tasks[d]
    BY <1>1, <1>3 DEF Ends, TypeOK, ClientTypeOK
  <2>3. WireTypeOK' /\ ClientTypeOK'
    BY <1>1, <1>3, <2>1, <2>2
    DEF ReaderRecv, appFrame, TypeOK, WireTypeOK, ClientTypeOK
  <2>4. TypeOK'
    BY <1>1, <2>3, ClientServerType
  <2>5. toClient'[c] \in Seq(Down(c)) /\ Len(toClient'[c]) <= Len(toClient[c])
    BY <1>2, <2>1, EmptySeq
  <2> QED
    BY <1>1, <2>1, <2>2, <2>4, <2>5, TaskInv DEF ReaderRecv, appFrame, ConnInv, Queues
<1>4. CASE /\ outq' = [outq EXCEPT ![c] = IF Decrypts(ckey[c], m) THEN Append(@, m) ELSE @]
           /\ toClient' = [toClient EXCEPT ![c] = rest]
           /\ UNCHANGED <<tasks, link, cOpen>>
  <2>1. /\ toClient' \in [Conns -> Seq(Messages)] /\ toClient'[c] = rest
        /\ \A d \in Conns : d # c => toClient'[d] = toClient[d]
    BY <1>1, <1>2, <1>4 DEF QueueTypes
  <2>2. outq' \in [Conns -> Seq(Messages)]
    <3>1. Append(outq[c], m) \in Seq(Messages)
      BY <1>1, <1>2, SeqFacts DEF TypeOK, ClientTypeOK
    <3> QED
      BY <1>1, <1>4, <3>1 DEF TypeOK, ClientTypeOK
  <2>3. WireTypeOK' /\ ClientTypeOK'
    BY <1>1, <1>4, <2>1, <2>2
    DEF ReaderRecv, appFrame, TypeOK, WireTypeOK, ClientTypeOK
  <2>4. TypeOK'
    BY <1>1, <2>3, ClientServerType
  <2>5. Len(toClient'[c]) <= Len(toClient[c])
    BY <1>2, <2>1
  <2> QED
    BY <1>1, <1>2, <1>4, <2>1, <2>4, <2>5, TaskInv DEF ReaderRecv, appFrame, ConnInv, Queues
<1> QED
  BY <1>3, <1>4 DEF ReaderRecv, m, rest

(* The reader and the writer end, giving up their halves.                  *)
LEMMA HalfDropped ==
  ASSUME Inv, NEW c \in Conns, NEW task \in tasks[c], NEW half,
         Ends(c, task), ClientDrops(c, {half}, toClient[c]),
         wrq' \in [Conns -> Seq(Messages)], wrq'[c] \in Seq(AppMessages),
         \A d \in Conns : d # c => wrq'[d] = wrq[d],
         UNCHANGED appFrame,
         UNCHANGED <<listening, toServer, sOpen, cst, ckey, code, outq, msgq, stq, inq>>,
         UNCHANGED serverVars
  PROVE  Inv'
<1>1. TypeOK /\ ConnInv(c) /\ QueueTypes /\ cst[c] = "up" /\ toClient[c] \in Seq(Messages)
  BY RunningTask, QueueTyping DEF Inv, QueueTypes
<1>2. /\ cOpen' \in [Conns -> SUBSET Halves] /\ toClient' \in [Conns -> Seq(Messages)]
      /\ link' \in [Conns -> {"none", "open", "reset"}] /\ toClient'[c] \in {toClient[c], <<>>}
      /\ \A d \in Conns : d # c => toClient'[d] = toClient[d] /\ link'[d] = link[d]
  BY <1>1, ClientDropsFacts
<1>3. /\ tasks' \in [Conns -> SUBSET Tasks] /\ tasks'[c] \subseteq tasks[c]
      /\ \A d \in Conns : d # c => tasks'[d] = tasks[d]
  BY <1>1 DEF Ends, TypeOK, ClientTypeOK
<1>4. WireTypeOK' /\ ClientTypeOK'
  BY <1>1, <1>2, <1>3 DEF appFrame, TypeOK, WireTypeOK, ClientTypeOK
<1>5. TypeOK'
  BY <1>1, <1>4, ClientServerType
<1>6. toClient'[c] \in Seq(Down(c)) /\ Len(toClient'[c]) <= Len(toClient[c])
  BY <1>1, <1>2, SeqFacts, EmptySeq DEF ConnInv, Queues
<1> QED
  BY <1>1, <1>2, <1>3, <1>5, <1>6, TaskInv DEF appFrame, ConnInv, Queues

(* The reader ends with the stream.                                        *)
LEMMA ReaderEndsInv ==
  ASSUME Inv, NEW c \in Conns, ReaderEnds(c), UNCHANGED serverVars
  PROVE  Inv'
<1>1. wrq \in [Conns -> Seq(Messages)] /\ wrq[c] \in Seq(AppMessages)
  BY DEF Inv, TypeOK, ClientTypeOK, ConnInv, Queues
<1> QED
  BY <1>1, HalfDropped DEF ReaderEnds

(* The writer ends with its senders, or on a failing write.                *)
LEMMA WriterEndsInv ==
  ASSUME Inv, NEW c \in Conns, WriterEnds(c), UNCHANGED serverVars
  PROVE  Inv'
<1>1. /\ wrq' \in [Conns -> Seq(Messages)] /\ wrq'[c] \in Seq(AppMessages)
      /\ \A d \in Conns : d # c => wrq'[d] = wrq[d]
  BY EmptySeq DEF Inv, TypeOK, ClientTypeOK, WriterEnds
<1> QED
  BY <1>1, HalfDropped DEF WriterEnds

(* A step inside the client, away from the socket.                         *)
LEMMA InsideInv ==
  ASSUME Inv, NEW c \in Conns, ClientTypeOK', UNCHANGED serverVars, UNCHANGED wireVars,
         UNCHANGED <<cst, ckey, code, made>>, tasks'[c] \subseteq tasks[c],
         wrq'[c] \in Seq(AppMessages), inq'[c] \in Seq(AppMessages),
         \A d \in Conns : d # c =>
            tasks'[d] = tasks[d] /\ wrq'[d] = wrq[d] /\ inq'[d] = inq[d]
  PROVE  Inv'
<1>1. TypeOK /\ ConnInv(c) /\ QueueTypes
  BY QueueTyping DEF Inv
<1>2. TypeOK'
  <2>1. WireTypeOK'
    BY <1>1 DEF TypeOK, WireTypeOK, wireVars
  <2> QED
    BY <1>1, <2>1, ClientServerType
<1>3. toClient'[c] \in Seq(Down(c)) /\ Len(toClient'[c]) <= Len(toClient[c])
  BY <1>1, SeqFacts DEF ConnInv, Queues, wireVars
<1> QED
  BY <1>1, <1>2, <1>3, TaskInv DEF ConnInv, BeforeTcp, wireVars

(* A task that ends leaves the others.                                     *)
LEMMA EndsFacts ==
  ASSUME TypeOK, NEW c \in Conns, NEW task, Ends(c, task)
  PROVE  /\ tasks' \in [Conns -> SUBSET Tasks] /\ tasks'[c] \subseteq tasks[c]
         /\ \A d \in Conns : d # c => tasks'[d] = tasks[d]
  BY DEF Ends, TypeOK, ClientTypeOK

(* The main loop passes a message on to the application.                   *)
LEMMA MainForwardInv ==
  ASSUME Inv, NEW c \in Conns, MainForward(c), UNCHANGED serverVars
  PROVE  Inv'
<1>1. /\ TypeOK /\ ConnInv(c) /\ outq[c] # <<>> /\ outq[c] \in Seq(Messages)
      /\ msgq[c] \in Seq(Messages)
  BY DEF Inv, MainForward, TypeOK, ClientTypeOK
<1>2. /\ Append(msgq[c], Head(outq[c])) \in Seq(Messages) /\ Tail(outq[c]) \in Seq(Messages)
  BY <1>1, SeqFacts
<1>3. msgq' \in [Conns -> Seq(Messages)] /\ outq' \in [Conns -> Seq(Messages)]
  BY <1>1, <1>2 DEF MainForward, TypeOK, ClientTypeOK
<1>4. ClientTypeOK'
  BY <1>1, <1>3 DEF MainForward, appFrame, TypeOK, ClientTypeOK
<1> QED
  BY <1>1, <1>4, InsideInv DEF MainForward, appFrame, ConnInv, Queues

(* The main loop ends and reports it.                                      *)
LEMMA MainEndsInv ==
  ASSUME Inv, NEW c \in Conns, MainEnds(c), UNCHANGED serverVars
  PROVE  Inv'
<1>1. TypeOK /\ ConnInv(c) /\ Ends(c, "main") /\ Reports(c, "Disconnected")
  BY DEF Inv, MainEnds
<1>2. /\ tasks' \in [Conns -> SUBSET Tasks] /\ tasks'[c] \subseteq tasks[c]
      /\ \A d \in Conns : d # c => tasks'[d] = tasks[d]
  BY <1>1, EndsFacts
<1>3. stq' \in [Conns -> Seq(AppStates)]
  BY <1>1, ReportsType DEF AppStates
<1>4. outq' \in [Conns -> Seq(Messages)]
  BY <1>1, EmptySeq DEF MainEnds, TypeOK, ClientTypeOK
<1>5. ClientTypeOK'
  BY <1>1, <1>2, <1>3, <1>4 DEF MainEnds, appFrame, TypeOK, ClientTypeOK
<1> QED
  BY <1>1, <1>2, <1>5, InsideInv DEF MainEnds, appFrame, ConnInv, Queues

(* The forwarder passes the application's message on to the writer.        *)
LEMMA ForwarderSendInv ==
  ASSUME Inv, NEW c \in Conns, ForwarderSend(c), UNCHANGED serverVars
  PROVE  Inv'
<1>1. /\ TypeOK /\ ConnInv(c) /\ inq[c] # <<>>
      /\ inq[c] \in Seq(AppMessages) /\ wrq[c] \in Seq(AppMessages)
      /\ inq[c] \in Seq(Messages) /\ wrq[c] \in Seq(Messages)
  BY DEF Inv, ForwarderSend, TypeOK, ClientTypeOK, ConnInv, Queues
<1>2. /\ Append(wrq[c], Head(inq[c])) \in Seq(AppMessages) /\ Tail(inq[c]) \in Seq(AppMessages)
      /\ Append(wrq[c], Head(inq[c])) \in Seq(Messages) /\ Tail(inq[c]) \in Seq(Messages)
  BY <1>1, SeqFacts
<1>3. /\ wrq' \in [Conns -> Seq(Messages)] /\ wrq'[c] = Append(wrq[c], Head(inq[c]))
      /\ inq' \in [Conns -> Seq(Messages)] /\ inq'[c] = Tail(inq[c])
      /\ \A d \in Conns : d # c => wrq'[d] = wrq[d] /\ inq'[d] = inq[d]
  BY <1>1, <1>2 DEF ForwarderSend, TypeOK, ClientTypeOK
<1>4. ClientTypeOK'
  BY <1>1, <1>3 DEF ForwarderSend, appFrame, TypeOK, ClientTypeOK
<1> QED
  BY <1>1, <1>2, <1>3, <1>4, InsideInv DEF ForwarderSend, appFrame

(* The forwarder ends with the application's sender or with the writer.    *)
LEMMA ForwarderEndsInv ==
  ASSUME Inv, NEW c \in Conns, ForwarderEnds(c), UNCHANGED serverVars
  PROVE  Inv'
<1>1. TypeOK /\ ConnInv(c) /\ Ends(c, "forwarder")
  BY DEF Inv, ForwarderEnds
<1>2. /\ tasks' \in [Conns -> SUBSET Tasks] /\ tasks'[c] \subseteq tasks[c]
      /\ \A d \in Conns : d # c => tasks'[d] = tasks[d]
  BY <1>1, EndsFacts
<1>3. /\ inq' \in [Conns -> Seq(Messages)] /\ inq'[c] = <<>>
      /\ \A d \in Conns : d # c => inq'[d] = inq[d]
  BY <1>1, EmptySeq DEF ForwarderEnds, TypeOK, ClientTypeOK
<1>4. ClientTypeOK'
  BY <1>1, <1>2, <1>3 DEF ForwarderEnds, appFrame, TypeOK, ClientTypeOK
<1>5. inq'[c] \in Seq(AppMessages) /\ wrq'[c] \in Seq(AppMessages)
  BY <1>1, <1>3, EmptySeq DEF ForwarderEnds, ConnInv, Queues
<1> QED
  BY <1>2, <1>3, <1>4, <1>5, InsideInv DEF ForwarderEnds, appFrame

(* The writer sends a message of the application under the client's key,   *)
(* which is the handler's.                                                 *)
LEMMA WriterSendInv ==
  ASSUME Inv, NEW c \in Conns, WriterSend(c), UNCHANGED serverVars
  PROVE  Inv'
<1> DEFINE m == Encrypt(ckey[c], Head(wrq[c]))
<1>1. TypeOK /\ ConnInv(c) /\ QueueTypes /\ cst[c] = "up" /\ wrq[c] # <<>> /\ ClientPuts(c, m)
  BY RunningTask, QueueTyping DEF Inv, WriterSend
<1>2. /\ Head(wrq[c]) \in AppMessages
      /\ Tail(wrq[c]) \in Seq(AppMessages) /\ Tail(wrq[c]) \in Seq(Messages)
  <2>1. wrq[c] \in Seq(AppMessages) /\ wrq[c] \in Seq(Messages)
    BY <1>1 DEF ConnInv, Queues, TypeOK, ClientTypeOK
  <2> QED
    BY <1>1, <2>1, SeqFacts
<1>3. ckey[c] \in Keys /\ hkey[c] = ckey[c] /\ ckey[c] # NoKey
  BY <1>1 DEF TypeOK, ClientTypeOK, ConnInv, AfterAck
<1>4. m \in Messages /\ m.key = ckey[c] /\ m.type \in AppTypes
  BY <1>2, <1>3 DEF AppMessages, Messages, Encrypt
<1>5. m \in Up(c)
  BY <1>1, <1>3, <1>4 DEF Up, UpMessages
<1> HIDE DEF m
<1>6. /\ toServer' \in [Conns -> Seq(Messages)] /\ link' \in [Conns -> {"none", "open", "reset"}]
      /\ toServer'[c] \in {toServer[c], Append(toServer[c], m)}
      /\ \A d \in Conns : d # c => toServer'[d] = toServer[d] /\ link'[d] = link[d]
  BY <1>1, <1>4, ClientPutsFacts
<1>7. toServer'[c] \in Seq(Up(c))
  <2>1. toServer[c] \in Seq(Up(c))
    BY <1>1 DEF ConnInv, Queues
  <2>2. Append(toServer[c], m) \in Seq(Up(c))
    BY <1>5, <2>1, SeqFacts
  <2> QED
    BY <1>6, <2>1, <2>2
<1>8. /\ wrq' \in [Conns -> Seq(Messages)] /\ wrq'[c] = Tail(wrq[c])
      /\ \A d \in Conns : d # c => wrq'[d] = wrq[d]
  BY <1>1, <1>2 DEF WriterSend, TypeOK, ClientTypeOK
<1>9. TypeOK'
  <2>1. WireTypeOK' /\ ClientTypeOK'
    BY <1>1, <1>6, <1>8 DEF WriterSend, appFrame, TypeOK, WireTypeOK, ClientTypeOK
  <2> QED
    BY <1>1, <2>1, ClientServerType
<1>10. UNCHANGED <<hst, hbuf, hkey, txq>> /\ TableCalm
  BY ClientTable DEF serverVars, WriterSend
<1>11. CalmQueues(c)
  <2>1. NextDown(c) = Down(c)
    BY <1>1 DEF NextDown, Down, DownMessages
  <2> QED
    BY <1>1, <1>2, <1>7, <1>8, <1>10, <2>1 DEF CalmQueues, ConnInv, Queues, WriterSend
<1>12. CalmHandler(c)
  BY <1>1, <1>10, StillHandler
<1>13. (NoSession(c) => NoSession(c)') => SameStage(c)
  BY <1>1, <1>10 DEF SameStage, WriterSend, appFrame
<1>14. \A d \in Conns : d # c => ((NoSession(d) => NoSession(d)') => Same(d))
  BY <1>6, <1>8, <1>10 DEF Same, WriterSend, appFrame
<1> QED
  BY <1>9, <1>10, <1>11, <1>12, <1>13, <1>14, CalmStep

(* The application takes a step: its own state and what it has sent        *)
(* change, nothing of a connection does.                                   *)
LEMMA AppInv ==
  ASSUME Inv, ClientTypeOK', UNCHANGED serverVars, UNCHANGED wireVars,
         UNCHANGED <<cst, ckey, code, tasks, wrq, made>>,
         \A d \in Conns : inq'[d] \in Seq(AppMessages)
  PROVE  Inv'
<1>1. TypeOK
  BY DEF Inv
<1>2. TypeOK'
  <2>1. WireTypeOK'
    BY <1>1 DEF TypeOK, WireTypeOK, wireVars
  <2> QED
    BY <1>1, <2>1, ClientServerType
<1>3. TableCalm
  BY ClientTable
<1>4. ASSUME NEW d \in Conns
      PROVE  CalmQueues(d) /\ CalmHandler(d) /\ ((NoSession(d) => NoSession(d)') => SameStage(d))
  <2>1. ConnInv(d) /\ UNCHANGED <<hst, hbuf, hkey, txq, toServer, toClient, link>>
    BY DEF Inv, serverVars, wireVars
  <2>2. CalmQueues(d)
    BY <2>1, StillQueues DEF ConnInv, Queues
  <2>3. CalmHandler(d)
    BY <2>1, StillHandler
  <2>4. (NoSession(d) => NoSession(d)') => SameStage(d)
    BY <2>1 DEF SameStage, ConnInv, BeforeTcp
  <2> QED
    BY <2>2, <2>3, <2>4
<1> QED
  BY <1>2, <1>3, <1>4, AllCalm

(* The application's channel only ever carries messages of the stream.     *)
LEMMA AppSendsFacts ==
  ASSUME Inv, NEW ms, cur \in Conns => ms \in Seq(AppMessages), AppSends(ms)
  PROVE  inq' \in [Conns -> Seq(Messages)] /\ \A d \in Conns : inq'[d] \in Seq(AppMessages)
<1>1. inq \in [Conns -> Seq(Messages)] /\ \A d \in Conns : inq[d] \in Seq(AppMessages)
  BY DEF Inv, TypeOK, ClientTypeOK, ConnInv, Queues
<1>2. CASE cur \in Conns
  <2>1. inq[cur] \in Seq(AppMessages)
    BY <1>1, <1>2
  <2>2. inq[cur] \o ms \in Seq(AppMessages)
    BY <1>2, <2>1, ConcatProperties
  <2>3. Seq(AppMessages) \subseteq Seq(Messages)
    BY SeqMonotonic DEF AppMessages
  <2> QED
    BY <1>1, <1>2, <2>2, <2>3 DEF AppSends
<1>3. CASE cur \notin Conns
  BY <1>1, <1>3 DEF AppSends
<1> QED
  BY <1>2, <1>3

(* What the application sends are messages of the stream.                  *)
LEMMA AppMessageFacts ==
  ASSUME NEW type \in AppTypes, NEW arg \in Nat
  PROVE  Message(type, arg) \in AppMessages /\ <<Message(type, arg)>> \in Seq(AppMessages)
<1>1. type \in MessageTypes
  BY DEF AppTypes, MessageTypes
<1>2. NoKey \in Keys
  BY DEF Keys
<1>3. Message(type, arg) \in AppMessages
  BY <1>1, <1>2 DEF Message, AppMessages, Messages
<1> QED
  BY <1>3

(* The Disconnect button: one more message, and the channels are let go.   *)
LEMMA DisconnectInv ==
  ASSUME Inv, Disconnect, UNCHANGED serverVars
  PROVE  Inv'
<1>1. TypeOK
  BY DEF Inv
<1>2. <<Message("Disconnect", 0)>> \in Seq(AppMessages)
  BY AppMessageFacts DEF AppTypes
<1>3. inq' \in [Conns -> Seq(Messages)] /\ \A d \in Conns : inq'[d] \in Seq(AppMessages)
  BY <1>2, AppSendsFacts DEF Disconnect
<1>4. msgq' \in [Conns -> Seq(Messages)] /\ stq' \in [Conns -> Seq(AppStates)]
  BY <1>1, EmptySeq DEF Disconnect, TypeOK, ClientTypeOK
<1>5. /\ state' \in AppStates \cup {"Exited"} /\ shown' \in [conn : Nat, frame : Nat]
      /\ cur' \in 0..made'
  BY <1>1 DEF Disconnect, TypeOK, ClientTypeOK, AppStates, NoTexture
<1>6. ClientTypeOK'
  BY <1>1, <1>3, <1>4, <1>5 DEF Disconnect, TypeOK, ClientTypeOK
<1> QED
  BY <1>3, <1>6, AppInv DEF Disconnect

(* A mouse or keyboard event.                                              *)
LEMMA UserInputInv ==
  ASSUME Inv, UserInput, UNCHANGED serverVars
  PROVE  Inv'
<1>1. TypeOK /\ sent \in [Conns -> 0..MaxInputs] /\ MaxInputs \in Nat
  BY InputsAssumption DEF Inv, TypeOK, ClientTypeOK
<1>2. cur \in Conns => sent[cur] + 1 \in 0..MaxInputs
  BY <1>1 DEF UserInput
<1>3. cur \in Conns => <<Message("Input", sent[cur] + 1)>> \in Seq(AppMessages)
  <2>1. \A n \in 0..MaxInputs : n \in Nat
    BY <1>1
  <2> QED
    BY <1>2, <2>1, AppMessageFacts DEF AppTypes
<1>4. inq' \in [Conns -> Seq(Messages)] /\ \A d \in Conns : inq'[d] \in Seq(AppMessages)
  BY <1>3, AppSendsFacts DEF UserInput
<1>5. sent' \in [Conns -> 0..MaxInputs]
  BY <1>1, <1>2 DEF UserInput
<1>6. ClientTypeOK'
  BY <1>1, <1>4, <1>5 DEF UserInput, TypeOK, ClientTypeOK
<1> QED
  BY <1>4, <1>6, AppInv DEF UserInput

(* An entry of the quality menu.                                           *)
LEMMA RequestQualityInv ==
  ASSUME Inv, NEW mode \in Choices, RequestQuality(mode), UNCHANGED serverVars
  PROVE  Inv'
<1>1. TypeOK /\ asked \in [Conns -> 0..MaxRequests] /\ MaxRequests \in Nat /\ mode \in Nat
  BY InputsAssumption, ChoicesAssumption DEF Inv, TypeOK, ClientTypeOK
<1>2. cur \in Conns => asked[cur] + 1 \in 0..MaxRequests
  BY <1>1 DEF RequestQuality
<1>3. <<Message("RequestQualityChange", mode)>> \in Seq(AppMessages)
  BY <1>1, AppMessageFacts DEF AppTypes
<1>4. inq' \in [Conns -> Seq(Messages)] /\ \A d \in Conns : inq'[d] \in Seq(AppMessages)
  BY <1>3, AppSendsFacts DEF RequestQuality
<1>5. asked' \in [Conns -> 0..MaxRequests]
  BY <1>1, <1>2 DEF RequestQuality
<1>6. ClientTypeOK'
  BY <1>1, <1>4, <1>5 DEF RequestQuality, TypeOK, ClientTypeOK
<1> QED
  BY <1>4, <1>6, AppInv DEF RequestQuality

(* A frame's repaint acknowledges the frames that could be decoded.        *)
LEMMA AcksFacts ==
  ASSUME NEW n \in Nat, NEW P \in SUBSET (1..n)
  PROVE  [i \in 1..Cardinality(P) |-> Message("FrameAck", 0)] \in Seq(AppMessages)
<1>1. IsFiniteSet(1..n)
  BY FS_Interval
<1>2. IsFiniteSet(P)
  BY <1>1, FS_Subset
<1>3. Cardinality(P) \in Nat
  BY <1>2, FS_CardinalityType
<1>4. Message("FrameAck", 0) \in AppMessages
  BY AppMessageFacts DEF AppTypes
<1> QED
  BY <1>3, <1>4

(* One repaint: states, frames, modes, and the acknowledgements it sends.  *)
LEMMA UpdateInv ==
  ASSUME Inv, Update, UNCHANGED serverVars
  PROVE  Inv'
<1>1. /\ TypeOK /\ cur \in Conns /\ msgq[cur] \in Seq(Messages) /\ stq[cur] \in Seq(AppStates)
      /\ cur \in Nat
  <2>1. TypeOK /\ cur # 0
    BY DEF Inv, Update
  <2>2. made \in 0..MaxConn /\ cur \in 0..made
    BY <2>1 DEF TypeOK, ClientTypeOK
  <2>3. TypeOK /\ cur \in Conns
    BY <2>1, <2>2, MaxConnAssumption DEF Conns
  <2>4. msgq[cur] \in Seq(Messages) /\ stq[cur] \in Seq(AppStates)
    BY <2>3 DEF TypeOK, ClientTypeOK
  <2>5. cur \in Nat
    BY <2>3, MaxConnAssumption DEF Conns
  <2> QED
    BY <2>3, <2>4, <2>5
<1>2. PICK frames \in SUBSET Places(msgq[cur], "ScreenFrame") :
         /\ shown' = IF frames = {} THEN shown
                     ELSE [conn |-> cur, frame |-> LastArg(msgq[cur], frames)]
         /\ AppSends([i \in 1..Cardinality(frames) |-> Message("FrameAck", 0)])
  BY DEF Update
<1>3. Len(msgq[cur]) \in Nat /\ \A t : Places(msgq[cur], t) \in SUBSET (1..Len(msgq[cur]))
  BY <1>1, LenProperties DEF Places
<1>4. frames \in SUBSET (1..Len(msgq[cur]))
  BY <1>3
<1>5. inq' \in [Conns -> Seq(Messages)] /\ \A d \in Conns : inq'[d] \in Seq(AppMessages)
  BY <1>2, <1>3, <1>4, AcksFacts, AppSendsFacts
<1>6. shown' \in [conn : Nat, frame : Nat]
  <2>1. frames # {} => LastArg(msgq[cur], frames) \in Nat
    BY <1>1, <1>4, LastArgType
  <2> QED
    BY <1>1, <1>2, <2>1 DEF TypeOK, ClientTypeOK
<1>7. quality' \in Nat
  <2>1. Places(msgq[cur], "QualityChange") # {} =>
           LastArg(msgq[cur], Places(msgq[cur], "QualityChange")) \in Nat
    BY <1>1, <1>3, LastArgType
  <2> QED
    BY <1>1, <2>1 DEF Update, TypeOK, ClientTypeOK
<1>8. state' \in AppStates \cup {"Exited"}
  <2>1. stq[cur] # <<>> => Head(stq[cur]) \in AppStates
    BY <1>1, SeqFacts
  <2> QED
    BY <1>1, <2>1 DEF Update, TypeOK, ClientTypeOK, AppStates
<1>9. stq' \in [Conns -> Seq(AppStates)] /\ msgq' \in [Conns -> Seq(Messages)]
  <2>1. stq[cur] # <<>> => Tail(stq[cur]) \in Seq(AppStates)
    BY <1>1, SeqFacts
  <2> QED
    BY <1>1, <2>1, EmptySeq DEF Update, TypeOK, ClientTypeOK
<1>10. ClientTypeOK'
  BY <1>1, <1>5, <1>6, <1>7, <1>8, <1>9 DEF Update, TypeOK, ClientTypeOK
<1> QED
  BY <1>5, <1>10, AppInv DEF Update

(* A handshake that fails leaves what is under way where it is; nobody     *)
(* will read what comes back.                                              *)
LEMMA FailedConn ==
  ASSUME Inv, NEW c \in Conns, cst[c] \in Handshake,
         cst'[c] \in Failures \ {"expected_ack"}, TypeOK',
         UNCHANGED serverVars, UNCHANGED <<toServer, code, made>>, tasks'[c] = {},
         wrq'[c] \in Seq(AppMessages), inq'[c] \in Seq(AppMessages)
  PROVE  ConnInv(c)'
<1>1. ConnInv(c) /\ QueueTypes' /\ cst[c] # "up" /\ cst'[c] \notin {"none", "tcp", "ack", "auth", "up"}
  BY NextQueueTyping DEF Inv, Handshake, Failures
<1>2. UNCHANGED <<hst, hbuf, hkey, txq, sessions>>
  BY DEF serverVars
<1>3. Up(c)' = Up(c) /\ Down(c)' = Messages
  BY <1>1, <1>2 DEF Up, UpMessages, Down, DownMessages
<1>4. Queues(c)'
  BY <1>1, <1>2, <1>3 DEF ConnInv, Queues, QueueTypes
<1>5. BeforeUp(c)'
  <2>1. Unanswered(c)' = Unanswered(c) /\ NoSession(c)' = NoSession(c)
    BY <1>2 DEF Unanswered, NoSession
  <2> QED
    BY <1>1, <1>2, <2>1 DEF ConnInv, BeforeUp
<1>6. BeforeTcp(c)' /\ BeforeAck(c)' /\ AfterAck(c)'
  BY <1>1 DEF BeforeTcp, BeforeAck, AfterAck
<1>7. Handler(c)' /\ (c > made' => cst'[c] = "none")
  BY <1>1, <1>2 DEF ConnInv, Handler, Handshake, Failures
<1> QED
  BY <1>4, <1>5, <1>6, <1>7 DEF ConnInv

(* connect() returns an error.                                             *)
LEMMA ConnectFailsInv ==
  ASSUME Inv, NEW c \in Conns, cst[c] \in Handshake, NEW why \in Failures \ {"expected_ack"},
         NEW rest \in Seq(Messages), ConnectFails(c, why, rest), UNCHANGED serverVars
  PROVE  Inv'
<1>1. TypeOK /\ SessionTable /\ ConnInv(c) /\ cst[c] # "up"
      /\ ClientDrops(c, Halves, rest) /\ Reports(c, "Error")
  BY DEF Inv, ConnectFails, Handshake
<1>2. /\ cOpen' \in [Conns -> SUBSET Halves] /\ toClient' \in [Conns -> Seq(Messages)]
      /\ link' \in [Conns -> {"none", "open", "reset"}]
      /\ \A d \in Conns : d # c => toClient'[d] = toClient[d] /\ link'[d] = link[d]
  BY <1>1, ClientDropsFacts
<1>3. stq' \in [Conns -> Seq(AppStates)]
  BY <1>1, ReportsType DEF AppStates
<1>4. /\ cst' \in [Conns -> {"none", "up"} \cup Handshake \cup Failures] /\ cst'[c] = why
      /\ inq' \in [Conns -> Seq(Messages)] /\ inq'[c] = <<>>
      /\ \A d \in Conns : d # c => cst'[d] = cst[d] /\ inq'[d] = inq[d]
  BY <1>1, EmptySeq DEF ConnectFails, TypeOK, ClientTypeOK
<1>5. TypeOK'
  <2>1. WireTypeOK' /\ ClientTypeOK'
    BY <1>1, <1>2, <1>3, <1>4 DEF ConnectFails, appFrame, TypeOK, WireTypeOK, ClientTypeOK
  <2> QED
    BY <1>1, <2>1, ClientServerType
<1>6. SessionTable' /\ \A d \in Conns : NoSession(d) => NoSession(d)'
  BY <1>1, ClientTable, TableFacts DEF ConnectFails
<1>7. \A d \in Conns : d # c => Same(d)
  BY <1>2, <1>4, <1>6 DEF Same, ConnectFails, appFrame, serverVars
<1>8. ConnInv(c)'
  <2>1. wrq'[c] \in Seq(AppMessages) /\ inq'[c] \in Seq(AppMessages) /\ tasks'[c] = {}
    BY <1>1, <1>4, EmptySeq DEF ConnectFails, ConnInv, Queues, BeforeUp
  <2> QED
    BY <1>4, <1>5, <2>1, FailedConn DEF ConnectFails, appFrame
<1> QED
  BY <1>5, <1>6, <1>7, <1>8, OneConn

(* ... because nobody listens,                                             *)
LEMMA TcpRefusedInv ==
  ASSUME Inv, NEW c \in Conns, TcpRefused(c), UNCHANGED serverVars
  PROVE  Inv'
<1>1. <<>> \in Seq(Messages)
  BY EmptySeq
<1> QED
  BY <1>1, ConnectFailsInv DEF TcpRefused, Handshake, Failures

(* ... or because the connection ended during the handshake.               *)
LEMMA HandshakeClosedInv ==
  ASSUME Inv, NEW c \in Conns, HandshakeClosed(c), UNCHANGED serverVars
  PROVE  Inv'
<1>1. <<>> \in Seq(Messages)
  BY EmptySeq
<1> QED
  BY <1>1, ConnectFailsInv DEF HandshakeClosed, Handshake, Failures

(* The connection is made and carries the KeyExchange alone.               *)
LEMMA TcpConnectInv ==
  ASSUME Inv, NEW c \in Conns, TcpConnect(c), UNCHANGED serverVars
  PROVE  Inv'
<1> DEFINE m == Message("KeyExchange", c)
<1>1. /\ TypeOK /\ SessionTable /\ ConnInv(c) /\ cst[c] = "tcp"
      /\ hbuf[c] = <<>> /\ txq[c] = <<>> /\ toClient[c] = <<>>
      /\ hkey[c] = NoKey /\ hst[c] \in {"none", "exited"}
  BY NoLink DEF Inv, TcpConnect
<1>2. m \in Messages /\ m.type = "KeyExchange" /\ m.key = NoKey /\ m.arg = c
  <2>1. m \in Messages /\ m = [type |-> "KeyExchange", key |-> NoKey, arg |-> c]
    BY MessageFacts DEF MessageTypes, Conns, Keys
  <2> QED
    BY <2>1
<1> HIDE DEF m
<1>3. /\ toServer' = [toServer EXCEPT ![c] = <<m>>] /\ <<m>> \in Seq(Messages)
      /\ Len(<<m>>) = 1
  BY <1>2 DEF TcpConnect, m
<1>4. /\ toServer' \in [Conns -> Seq(Messages)] /\ toServer'[c] = <<m>>
      /\ \A d \in Conns : d # c => toServer'[d] = toServer[d]
  BY <1>1, <1>3 DEF TypeOK, WireTypeOK
<1>5. /\ link' \in [Conns -> {"none", "open", "reset"}]
      /\ sOpen' \in [Conns -> SUBSET Halves] /\ cOpen' \in [Conns -> SUBSET Halves]
      /\ cst' \in [Conns -> {"none", "up"} \cup Handshake \cup Failures] /\ cst'[c] = "ack"
      /\ \A d \in Conns : d # c => link'[d] = link[d] /\ cst'[d] = cst[d]
  BY <1>1 DEF TcpConnect, TypeOK, WireTypeOK, ClientTypeOK, Handshake
<1>6. TypeOK'
  <2>1. WireTypeOK' /\ ClientTypeOK'
    BY <1>1, <1>4, <1>5 DEF TcpConnect, appFrame, TypeOK, WireTypeOK, ClientTypeOK
  <2> QED
    BY <1>1, <2>1, ClientServerType
<1>7. SessionTable' /\ \A d \in Conns : NoSession(d) => NoSession(d)'
  BY <1>1, ClientTable, TableFacts DEF TcpConnect
<1>8. \A d \in Conns : d # c => Same(d)
  BY <1>4, <1>5, <1>7 DEF Same, TcpConnect, appFrame, serverVars
<1>9. ConnInv(c)'
  <2>1. /\ UNCHANGED <<hst, hbuf, hkey, txq, toClient, tasks, wrq, inq, made, code>>
        /\ Len(hbuf[c]) = 0 /\ Len(toServer'[c]) = 1 /\ Len(txq[c]) = 0 /\ Len(toClient[c]) = 0
    BY <1>1, <1>3, <1>4 DEF TcpConnect, appFrame, serverVars
  <2>2. Queues(c)'
    <3>1. m \in Up(c)'
      BY <1>1, <1>2, <2>1 DEF Up, UpMessages
    <3>2. toServer'[c] \in Seq(Up(c)')
      BY <1>4, <3>1
    <3> QED
      BY <1>1, <2>1, <3>2, EmptySeq DEF ConnInv, Queues
  <2>3. Len(hbuf'[c]) + Len(toServer'[c]) <= 1 /\ Len(txq'[c]) + Len(toClient'[c]) = 0
    BY <2>1
  <2>4. BeforeTcp(c)' /\ BeforeAck(c)' /\ AfterAck(c)'
    BY <1>1, <1>5, <2>1, <2>3 DEF BeforeTcp, BeforeAck, AfterAck
  <2>5. BeforeUp(c)'
    BY <1>1, <1>5, <1>7, <2>1, <2>3 DEF ConnInv, BeforeUp
  <2>6. Handler(c)' /\ (c > made' => cst'[c] = "none")
    BY <1>1, <1>5, <2>1 DEF ConnInv, Handler
  <2> QED
    BY <2>2, <2>4, <2>5, <2>6 DEF ConnInv
<1> QED
  BY <1>6, <1>7, <1>8, <1>9, OneConn

(* The acknowledgement gives the client the key the handler has; its       *)
(* AuthRequest is then the only message under way.                         *)
LEMMA RecvAckInv ==
  ASSUME Inv, NEW c \in Conns, RecvAck(c), UNCHANGED serverVars
  PROVE  Inv'
<1> DEFINE m == Head(toClient[c])
           key == SharedKey(c, m.arg)
           request == Encrypt(key, Message("AuthRequest", code[c]))
<1>1. /\ TypeOK /\ SessionTable /\ ConnInv(c) /\ QueueTypes /\ cst[c] = "ack"
      /\ toClient[c] # <<>> /\ code[c] \in Nat /\ hkey[c] \in Keys
  BY QueueTyping DEF Inv, RecvAck, TypeOK, ClientTypeOK, ServerTypeOK
<1>2. /\ m \in Down(c) /\ Tail(toClient[c]) \in Seq(Messages)
      /\ Len(Tail(toClient[c])) = Len(toClient[c]) - 1
      /\ Len(toClient[c]) \in Nat /\ Len(toClient[c]) # 0
  <2>1. toClient[c] \in Seq(Messages) /\ toClient[c] \in Seq(Down(c))
    BY <1>1 DEF QueueTypes, ConnInv, Queues
  <2> QED
    BY <1>1, <2>1, SeqFacts
<1>3. m.key = NoKey /\ m.type = "KeyExchangeAck" /\ hkey[c] = key
  BY <1>1, <1>2 DEF Down, DownMessages
<1>4. /\ Len(hbuf[c]) \in Nat /\ Len(toServer[c]) \in Nat /\ Len(txq[c]) \in Nat
      /\ hkey[c] # NoKey
      /\ Len(hbuf[c]) + Len(toServer[c]) = 0 /\ Len(txq[c]) + Len(toClient[c]) <= 1
  <2>1. Len(hbuf[c]) \in Nat /\ Len(toServer[c]) \in Nat /\ Len(txq[c]) \in Nat
    BY <1>1, SeqFacts DEF QueueTypes
  <2>2. \A a, b \in Nat : b # 0 => a + b # 0
    OBVIOUS
  <2>3. Len(txq[c]) + Len(toClient[c]) # 0
    BY <1>2, <2>1, <2>2
  <2>4. hkey[c] # NoKey
    BY <1>1, <2>3 DEF ConnInv, BeforeAck
  <2> QED
    BY <1>1, <2>1, <2>4 DEF ConnInv, BeforeAck
<1>5. /\ Len(hbuf[c]) = 0 /\ Len(toServer[c]) = 0 /\ Len(txq[c]) = 0
      /\ Len(Tail(toClient[c])) = 0
  <2>1. \A a, b \in Nat : /\ a + b = 0 => a = 0 /\ b = 0
                          /\ b # 0 /\ a + b <= 1 => a = 0 /\ b - 1 = 0
    OBVIOUS
  <2> QED
    BY <1>2, <1>4, <2>1
<1>6. hbuf[c] = <<>> /\ toServer[c] = <<>> /\ txq[c] = <<>> /\ Tail(toClient[c]) = <<>>
  BY <1>1, <1>2, <1>5, SeqFacts DEF QueueTypes
<1>7. /\ request \in Messages /\ request.key = key
      /\ request.type = "AuthRequest" /\ request.arg = code[c]
  <2>1. request \in Messages /\ request = [type |-> "AuthRequest", key |-> key, arg |-> code[c]]
    BY <1>1, <1>3, MessageFacts DEF MessageTypes
  <2> QED
    BY <2>1
<1>8. /\ ckey' = [ckey EXCEPT ![c] = key] /\ ClientPuts(c, request)
      /\ toClient' = [toClient EXCEPT ![c] = Tail(@)] /\ cst' = [cst EXCEPT ![c] = "auth"]
      /\ UNCHANGED appFrame
      /\ UNCHANGED <<listening, sOpen, cOpen, code, tasks, outq, msgq, stq, inq, wrq>>
  BY <1>3 DEF RecvAck, Decrypts
<1> HIDE DEF m, key, request
<1>9. /\ toServer' \in [Conns -> Seq(Messages)] /\ link' \in [Conns -> {"none", "open", "reset"}]
      /\ toServer'[c] \in {toServer[c], Append(toServer[c], request)}
      /\ \A d \in Conns : d # c => toServer'[d] = toServer[d] /\ link'[d] = link[d]
  BY <1>1, <1>7, <1>8, ClientPutsFacts
<1>10. /\ toClient' \in [Conns -> Seq(Messages)] /\ toClient'[c] = <<>>
       /\ ckey' \in [Conns -> Keys] /\ ckey'[c] = hkey[c]
       /\ cst' \in [Conns -> {"none", "up"} \cup Handshake \cup Failures] /\ cst'[c] = "auth"
       /\ \A d \in Conns : d # c => toClient'[d] = toClient[d] /\ ckey'[d] = ckey[d] /\ cst'[d] = cst[d]
  BY <1>1, <1>2, <1>3, <1>6, <1>8 DEF TypeOK, WireTypeOK, ClientTypeOK, Handshake
<1>11. TypeOK'
  <2>1. WireTypeOK' /\ ClientTypeOK'
    BY <1>1, <1>8, <1>9, <1>10 DEF appFrame, TypeOK, WireTypeOK, ClientTypeOK
  <2> QED
    BY <1>1, <2>1, ClientServerType
<1>12. SessionTable' /\ \A d \in Conns : NoSession(d) => NoSession(d)'
  BY <1>1, <1>8, ClientTable, TableFacts
<1>13. \A d \in Conns : d # c => Same(d)
  BY <1>8, <1>9, <1>10, <1>12 DEF Same, appFrame, serverVars
<1>14. ConnInv(c)'
  <2>1. UNCHANGED <<hst, hbuf, hkey, txq, tasks, wrq, inq, made, code>>
    BY <1>8 DEF appFrame, serverVars
  <2>2. Queues(c)'
    <3>1. request \in Up(c)'
      BY <1>3, <1>4, <1>7, <1>10, <2>1 DEF Up, UpMessages
    <3>2. <<>> \in Seq(Up(c)')
      BY EmptySeq
    <3>3. Append(<<>>, request) \in Seq(Up(c)')
      BY <3>1, <3>2, SeqFacts
    <3> QED
      BY <1>1, <1>6, <1>9, <1>10, <2>1, <3>2, <3>3, EmptySeq DEF ConnInv, Queues
  <2>3. Len(hbuf'[c]) + Len(toServer'[c]) <= 1
    <3>1. <<>> \in Seq(Messages)
      BY EmptySeq
    <3>2. Len(Append(<<>>, request)) = 0 + 1
      BY <1>7, <3>1, SeqFacts
    <3>3. Len(toServer'[c]) \in {0, 1} /\ Len(hbuf'[c]) = 0
      BY <1>5, <1>6, <1>9, <2>1, <3>2
    <3>4. \A a, b \in Nat : a = 0 /\ b \in {0, 1} => a + b <= 1
      OBVIOUS
    <3>5. 0 \in Nat /\ 1 \in Nat
      OBVIOUS
    <3> QED
      BY <3>3, <3>4, <3>5
  <2>4. BeforeTcp(c)' /\ BeforeAck(c)' /\ AfterAck(c)'
    BY <1>4, <1>10, <2>1 DEF BeforeTcp, BeforeAck, AfterAck
  <2>5. BeforeUp(c)'
    BY <1>1, <1>10, <1>12, <2>1, <2>3 DEF ConnInv, BeforeUp
  <2>6. Handler(c)' /\ (c > made' => cst'[c] = "none")
    BY <1>1, <1>10, <2>1 DEF ConnInv, Handler
  <2> QED
    BY <2>2, <2>4, <2>5, <2>6 DEF ConnInv
<1> QED
  BY <1>11, <1>12, <1>13, <1>14, OneConn

(* The login is accepted: as its answer is here, the request is no longer  *)
(* under way, and from now on only the application sends.                  *)
LEMMA RecvAuthInv ==
  ASSUME Inv, NEW c \in Conns, RecvAuth(c), UNCHANGED serverVars
  PROVE  Inv'
<1> DEFINE m == Head(toClient[c])
           rest == Tail(toClient[c])
<1>1. /\ TypeOK /\ SessionTable /\ ConnInv(c) /\ QueueTypes /\ cst[c] = "auth"
      /\ toClient[c] # <<>>
  BY QueueTyping DEF Inv, RecvAuth
<1>2. /\ m \in Down(c) /\ rest \in Seq(Messages) /\ rest \in Seq(Down(c))
  <2>1. toClient[c] \in Seq(Messages) /\ toClient[c] \in Seq(Down(c))
    BY <1>1 DEF QueueTypes, ConnInv, Queues
  <2> QED
    BY <1>1, <2>1, SeqFacts
<1>3. CASE ~Decrypts(ckey[c], m) \/ m.type # "AuthResponse" \/ m.arg = 0
  <2>1. ConnectFails(c, "expected_auth", rest) \/ ConnectFails(c, "denied", rest)
    BY <1>3 DEF RecvAuth
  <2> HIDE DEF m, rest
  <2> QED
    BY <1>1, <1>2, <2>1, ConnectFailsInv DEF Handshake, Failures
<1>4. CASE Decrypts(ckey[c], m) /\ m.type = "AuthResponse" /\ m.arg # 0
  <2>1. /\ cst' = [cst EXCEPT ![c] = "up"] /\ tasks' = [tasks EXCEPT ![c] = Tasks]
        /\ wrq' = [wrq EXCEPT ![c] = <<Message("StartStream", 0)>>]
        /\ Reports(c, "Connected") /\ toClient' = [toClient EXCEPT ![c] = rest]
        /\ UNCHANGED appFrame
        /\ UNCHANGED <<listening, toServer, link, sOpen, cOpen, ckey, code, outq, msgq, inq>>
    BY <1>4 DEF RecvAuth
  <2> HIDE DEF m, rest
  <2>2. ~Unanswered(c)
    BY <1>1, <1>2, <1>4 DEF Down, DownMessages
  <2>3. hbuf[c] = <<>> /\ toServer[c] = <<>>
    <3>1. Len(hbuf[c]) = 0 /\ Len(toServer[c]) = 0
      BY <1>1, <2>2 DEF Unanswered, QueueTypes
    <3> QED
      BY <1>1, <3>1, SeqFacts DEF QueueTypes
  <2>4. /\ <<Message("StartStream", 0)>> \in Seq(AppMessages)
        /\ <<Message("StartStream", 0)>> \in Seq(Messages)
    <3>1. <<Message("StartStream", 0)>> \in Seq(AppMessages)
      BY AppMessageFacts DEF AppTypes
    <3> QED
      BY <3>1, SeqMonotonic DEF AppMessages
  <2>5. /\ cst' \in [Conns -> {"none", "up"} \cup Handshake \cup Failures] /\ cst'[c] = "up"
        /\ tasks' \in [Conns -> SUBSET Tasks]
        /\ wrq' \in [Conns -> Seq(Messages)] /\ wrq'[c] = <<Message("StartStream", 0)>>
        /\ \A d \in Conns : d # c => cst'[d] = cst[d] /\ tasks'[d] = tasks[d] /\ wrq'[d] = wrq[d]
    BY <1>1, <2>1, <2>4 DEF TypeOK, ClientTypeOK
  <2>6. /\ toClient' \in [Conns -> Seq(Messages)] /\ toClient'[c] = rest
        /\ \A d \in Conns : d # c => toClient'[d] = toClient[d]
    BY <1>1, <1>2, <2>1 DEF QueueTypes
  <2>7. stq' \in [Conns -> Seq(AppStates)]
    BY <1>1, <2>1, ReportsType DEF AppStates
  <2>8. TypeOK'
    <3>1. WireTypeOK' /\ ClientTypeOK'
      BY <1>1, <2>1, <2>5, <2>6, <2>7 DEF appFrame, TypeOK, WireTypeOK, ClientTypeOK
    <3> QED
      BY <1>1, <3>1, ClientServerType
  <2>9. SessionTable' /\ \A d \in Conns : NoSession(d) => NoSession(d)'
    BY <1>1, <2>1, ClientTable, TableFacts
  <2>10. \A d \in Conns : d # c => Same(d)
    BY <2>1, <2>5, <2>6, <2>9 DEF Same, appFrame, serverVars
  <2>11. ConnInv(c)'
    <3>1. UNCHANGED <<hst, hbuf, hkey, ckey, txq, toServer, inq, made, code>>
      BY <2>1 DEF appFrame, serverVars
    <3>2. Queues(c)'
      <4>1. Down(c) \subseteq Down(c)'
        BY <1>1, <2>5, <3>1 DEF Down, DownMessages
      <4>2. txq'[c] \in Seq(Down(c)') /\ toClient'[c] \in Seq(Down(c)')
        <5>1. txq[c] \in Seq(Down(c))
          BY <1>1 DEF ConnInv, Queues
        <5> QED
          BY <1>2, <2>6, <3>1, <4>1, <5>1, SeqMonotonic
      <4> QED
        BY <1>1, <2>3, <2>4, <2>5, <3>1, <4>2, EmptySeq DEF ConnInv, Queues
    <3>3. BeforeTcp(c)' /\ BeforeAck(c)' /\ AfterAck(c)' /\ BeforeUp(c)'
      BY <1>1, <2>5, <3>1 DEF ConnInv, BeforeTcp, BeforeAck, AfterAck, BeforeUp
    <3>4. Handler(c)' /\ (c > made' => cst'[c] = "none")
      BY <1>1, <2>5, <3>1 DEF ConnInv, Handler
    <3> QED
      BY <3>2, <3>3, <3>4 DEF ConnInv
  <2> QED
    BY <2>8, <2>9, <2>10, <2>11, OneConn
<1> QED
  BY <1>3, <1>4

(* A new connection, of which nothing is known yet.                        *)
LEMMA ConnectInv ==
  ASSUME Inv, NEW c \in Conns, NEW typed \in Codes, Connect(c, typed), UNCHANGED serverVars
  PROVE  Inv'
<1>1. TypeOK /\ SessionTable /\ ConnInv(c) /\ typed \in Nat
  BY CodesAssumption DEF Inv
<1>2. c = made + 1 /\ made \in 0..MaxConn /\ c \in 1..MaxConn /\ made \in Nat /\ c \in Nat
  BY <1>1, MaxConnAssumption DEF Connect, TypeOK, ClientTypeOK, Conns
<1>3. cst[c] = "none"
  BY <1>1, <1>2 DEF ConnInv
<1>4. /\ hbuf[c] = <<>> /\ toServer[c] = <<>> /\ txq[c] = <<>> /\ toClient[c] = <<>>
      /\ link[c] = "none" /\ hkey[c] = NoKey /\ hst[c] \in {"none", "exited"} /\ NoSession(c)
  BY <1>1, <1>3, NoLink DEF ConnInv, BeforeUp
<1>5. /\ cst' \in [Conns -> {"none", "up"} \cup Handshake \cup Failures] /\ cst'[c] = "tcp"
      /\ code' \in [Conns -> Nat]
      /\ \A d \in Conns : d # c => cst'[d] = cst[d] /\ code'[d] = code[d]
  BY <1>1 DEF Connect, TypeOK, ClientTypeOK, Handshake
<1>6. TypeOK'
  <2>1. msgq' \in [Conns -> Seq(Messages)] /\ stq' \in [Conns -> Seq(AppStates)]
    BY <1>1, EmptySeq DEF Connect, TypeOK, ClientTypeOK
  <2>2. /\ made' \in 0..MaxConn /\ cur' \in 0..made' /\ state' \in AppStates \cup {"Exited"}
    BY <1>2, MaxConnAssumption DEF Connect, AppStates
  <2>3. WireTypeOK' /\ ClientTypeOK'
    BY <1>1, <1>5, <2>1, <2>2 DEF Connect, wireVars, TypeOK, WireTypeOK, ClientTypeOK
  <2> QED
    BY <1>1, <2>3, ClientServerType
<1>7. UNCHANGED <<hst, hbuf, hkey, txq, sessions, hsid, toServer, toClient, link, ckey, tasks, wrq, inq>>
  BY DEF Connect, serverVars, wireVars
<1>8. SessionTable' /\ \A d \in Conns : NoSession(d) => NoSession(d)'
  <2>1. NoSession(c)'
    BY <1>4, <1>7 DEF NoSession
  <2>2. TableCalm
    BY <1>5, <1>7, <2>1 DEF TableCalm
  <2> QED
    BY <1>1, <2>2, TableFacts
<1>9. \A d \in Conns : d # c => Same(d)
  <2>1. \A d \in Conns : d > made' => d > made
    BY <1>2 DEF Connect, Conns
  <2> QED
    BY <1>5, <1>7, <1>8, <2>1 DEF Same
<1>10. ConnInv(c)'
  <2>1. Queues(c)'
    BY <1>1, <1>4, <1>7, EmptySeq DEF ConnInv, Queues
  <2>2. BeforeTcp(c)' /\ BeforeAck(c)' /\ AfterAck(c)'
    BY <1>1, <1>3, <1>5, <1>7 DEF ConnInv, BeforeTcp, BeforeAck, AfterAck
  <2>3. BeforeUp(c)'
    BY <1>1, <1>3, <1>4, <1>5, <1>7, <1>8 DEF ConnInv, BeforeUp
  <2>4. Handler(c)'
    BY <1>1, <1>5, <1>7 DEF ConnInv, Handler
  <2>5. c > made' => cst'[c] = "none"
    BY <1>2 DEF Connect
  <2> QED
    BY <2>1, <2>2, <2>3, <2>4, <2>5 DEF ConnInv
<1> QED
  BY <1>6, <1>8, <1>9, <1>10, OneConn

(* The client process ends: handshakes are cut, tasks and queues are gone. *)
LEMMA ExitInv ==
  ASSUME Inv, Exit, UNCHANGED serverVars
  PROVE  Inv'
<1>1. TypeOK /\ SessionTable
  BY DEF Inv
<1>2. TypeOK'
  <2>1. /\ toClient' \in [Conns -> Seq(Messages)] /\ link' \in [Conns -> {"none", "open", "reset"}]
        /\ cOpen' \in [Conns -> SUBSET Halves]
    BY <1>1, EmptySeq DEF Exit, TypeOK, WireTypeOK
  <2>2. /\ outq' \in [Conns -> Seq(Messages)] /\ msgq' \in [Conns -> Seq(Messages)]
        /\ inq' \in [Conns -> Seq(Messages)] /\ wrq' \in [Conns -> Seq(Messages)]
        /\ stq' \in [Conns -> Seq(AppStates)] /\ tasks' \in [Conns -> SUBSET Tasks]
    BY EmptySeq DEF Exit
  <2>3. cst' \in [Conns -> {"none", "up"} \cup Handshake \cup Failures]
    BY <1>1 DEF Exit, TypeOK, ClientTypeOK, Failures
  <2>4. cur' \in 0..made' /\ state' \in AppStates \cup {"Exited"}
    BY <1>1 DEF Exit, TypeOK, ClientTypeOK
  <2>5. WireTypeOK'
    BY <1>1, <2>1 DEF Exit, TypeOK, WireTypeOK
  <2>6. ClientTypeOK'
    BY <1>1, <2>2, <2>3, <2>4 DEF Exit, TypeOK, ClientTypeOK
  <2> QED
    BY <1>1, <2>5, <2>6, ClientServerType
<1>3. SessionTable' /\ \A d \in Conns : NoSession(d) => NoSession(d)'
  BY <1>1, ClientTable, TableFacts DEF Exit
<1>4. ASSUME NEW d \in Conns PROVE ConnInv(d)'
  <2>1. /\ cst'[d] = IF cst[d] \in Handshake THEN "closed" ELSE cst[d]
        /\ tasks'[d] = {} /\ wrq'[d] = <<>> /\ inq'[d] = <<>> /\ toClient'[d] = <<>>
        /\ link'[d] = IF toClient[d] # <<>> THEN "reset" ELSE link[d]
        /\ UNCHANGED <<toServer, code, made, ckey>>
    BY DEF Exit
  <2>2. ConnInv(d) /\ QueueTypes /\ QueueTypes' /\ UNCHANGED <<hst, hbuf, hkey, txq>>
    BY <1>1, <1>2, QueueTyping, NextQueueTyping DEF Inv, serverVars
  <2>3. wrq'[d] \in Seq(AppMessages) /\ inq'[d] \in Seq(AppMessages)
    BY <2>1, EmptySeq
  <2>4. CASE cst[d] \in Handshake
    BY <1>2, <2>1, <2>3, <2>4, FailedConn DEF Failures
  <2>5. CASE cst[d] \notin Handshake
    <3>1. SameStage(d)
      BY <1>3, <2>1, <2>2, <2>5, NoLink DEF SameStage
    <3>2. CalmQueues(d)
      <4>1. txq'[d] \in Seq(Down(d)) /\ toClient'[d] \in Seq(Down(d))
        BY <2>1, <2>2, EmptySeq DEF ConnInv, Queues
      <4>2. Len(txq'[d]) + Len(toClient'[d]) <= Len(txq[d]) + Len(toClient[d])
        BY <2>1, <2>2 DEF QueueTypes
      <4> QED
        BY <2>1, <2>2, <2>3, <4>1, <4>2, ShrinkQueues
    <3>3. CalmHandler(d)
      BY <2>2, StillHandler
    <3> QED
      BY <1>1, <1>2, <2>2, <3>1, <3>2, <3>3, CalmConn DEF Calm
  <2> QED
    BY <2>4, <2>5
<1> QED
  BY <1>2, <1>3, <1>4 DEF Inv
=============================================================================
