-------------------------- MODULE VoxServerProofs ---------------------------
(***************************************************************************)
(* Lemmas on messages, queues and the classes of steps of VoxInvariant, and*)
(* with them: every step of the server keeps the invariant (handlers,      *)
(* writer tasks, the capture loop, the expiry of the code and the exit of  *)
(* the process).                                                           *)
(***************************************************************************)
EXTENDS VoxInvariant, SequenceTheorems, TLAPS

(* Appending to and taking from a sequence over a set of messages.         *)
LEMMA SeqFacts ==
  ASSUME NEW S, NEW s \in Seq(S)
  PROVE  /\ Len(s) \in Nat
         /\ s = <<>> <=> Len(s) = 0
         /\ \A e \in S : Append(s, e) \in Seq(S) /\ Len(Append(s, e)) = Len(s) + 1
         /\ s # <<>> => Head(s) \in S /\ Tail(s) \in Seq(S) /\ Len(Tail(s)) = Len(s) - 1
  BY EmptySeq, HeadTailProperties, AppendProperties

(* A sequence cut in two, as read_buf cuts what the socket holds.          *)
LEMMA SplitFacts ==
  ASSUME NEW S, NEW s \in Seq(S), NEW n \in 1..Len(s)
  PROVE  /\ SubSeq(s, 1, n) \in Seq(S) /\ Len(SubSeq(s, 1, n)) = n
         /\ SubSeq(s, n + 1, Len(s)) \in Seq(S)
         /\ Len(SubSeq(s, n + 1, Len(s))) = Len(s) - n
<1>1. Len(s) \in Nat /\ \A i \in 1..Len(s) : s[i] \in S
  BY LenProperties, ElementOfSeq
<1>2. /\ \A i \in 1..n : s[i] \in S
      /\ \A i \in (n + 1)..Len(s) : s[i] \in S
  BY <1>1
<1>3. SubSeq(s, 1, n) \in Seq(S) /\ Len(SubSeq(s, 1, n)) = IF 1 <= n THEN n - 1 + 1 ELSE 0
  BY <1>1, <1>2, SubSeqProperties
<1>4. /\ SubSeq(s, n + 1, Len(s)) \in Seq(S)
      /\ Len(SubSeq(s, n + 1, Len(s))) = IF n + 1 <= Len(s) THEN Len(s) - (n + 1) + 1 ELSE 0
  BY <1>1, <1>2, SubSeqProperties
<1> QED
  BY <1>1, <1>3, <1>4

(* A message of the model, encrypted or not.                               *)
LEMMA MessageFacts ==
  ASSUME NEW type \in MessageTypes, NEW arg \in Nat, NEW key \in Keys
  PROVE  /\ Message(type, arg) = [type |-> type, key |-> NoKey, arg |-> arg]
         /\ Message(type, arg) \in Messages
         /\ Encrypt(key, Message(type, arg)) = [type |-> type, key |-> key, arg |-> arg]
         /\ Encrypt(key, Message(type, arg)) \in Messages
  BY DEF Message, Encrypt, Messages, Keys

(* A shared secret is a key, and not NoKey.                                *)
LEMMA KeyFacts ==
  ASSUME NEW c \in Conns, NEW e \in Nat \ {0}
  PROVE  SharedKey(c, e) \in Keys /\ SharedKey(c, e) # NoKey /\ NoKey \in Keys
  BY MaxConnAssumption DEF SharedKey, Keys, NoKey, Conns

(* A step that does not concern a connection keeps its invariant.          *)
LEMMA SameConn ==
  ASSUME NEW d \in Conns, ConnInv(d), Same(d)
  PROVE  ConnInv(d)'
<1>1. Up(d)' = Up(d) /\ Unanswered(d)' = Unanswered(d)
  BY DEF Same, Up, Unanswered
<1>2. Down(d)' = Down(d)
  BY <1>1 DEF Same, Down
<1>3. Queues(d)'
  BY <1>1, <1>2 DEF Same, ConnInv, Queues
<1>4. BeforeTcp(d)' /\ BeforeAck(d)' /\ AfterAck(d)' /\ Handler(d)'
  BY DEF Same, ConnInv, BeforeTcp, BeforeAck, AfterAck, Handler
<1>5. BeforeUp(d)'
  BY <1>1 DEF Same, ConnInv, BeforeUp
<1> QED
  BY <1>3, <1>4, <1>5 DEF Same, ConnInv

(* A step that keeps a connection in its stage keeps its invariant.        *)
LEMMA CalmConn ==
  ASSUME NEW d \in Conns, TypeOK, TypeOK', ConnInv(d), Calm(d)
  PROVE  ConnInv(d)'
<1> USE DEF Calm
<1>1. Up(d)' = Up(d)
  BY DEF SameStage, Up
<1>2. Down(d)' = NextDown(d)
  BY DEF SameStage, Down, NextDown
<1>3. Queues(d)'
  BY <1>1, <1>2 DEF CalmQueues, Queues
<1>4. /\ hbuf \in [Conns -> Seq(Messages)] /\ hbuf' \in [Conns -> Seq(Messages)]
      /\ toServer \in [Conns -> Seq(Messages)] /\ toServer' \in [Conns -> Seq(Messages)]
      /\ txq \in [Conns -> Seq(Messages)] /\ txq' \in [Conns -> Seq(Messages)]
      /\ toClient \in [Conns -> Seq(Messages)] /\ toClient' \in [Conns -> Seq(Messages)]
  BY DEF TypeOK, WireTypeOK, ServerTypeOK
<1>5. /\ cst[d] # "up" => Len(hbuf'[d]) + Len(toServer'[d]) <= Len(hbuf[d]) + Len(toServer[d])
      /\ cst[d] \in {"none", "tcp", "ack"} =>
            Len(txq'[d]) + Len(toClient'[d]) <= Len(txq[d]) + Len(toClient[d])
  BY DEF CalmQueues
<1>6. BeforeTcp(d) /\ BeforeAck(d) /\ BeforeUp(d) /\ SameStage(d) /\ CalmHandler(d)
  BY DEF ConnInv
<1>7. BeforeTcp(d)'
  BY <1>4, <1>5, <1>6 DEF SameStage, CalmHandler, BeforeTcp
<1>8. BeforeAck(d)'
  BY <1>4, <1>5, <1>6 DEF SameStage, CalmHandler, BeforeAck
<1>9. BeforeUp(d)'
  <2> SUFFICES ASSUME cst[d] # "up" PROVE BeforeUp(d)'
    BY <1>6 DEF SameStage, BeforeUp
  <2>1. tasks'[d] = {}
    BY <1>6 DEF SameStage, BeforeUp
  <2>2. Len(hbuf'[d]) + Len(toServer'[d]) <= 1
    BY <1>4, <1>5, <1>6 DEF BeforeUp
  <2>3. Unanswered(d)' => Unanswered(d)
    BY <1>4, <1>5 DEF Unanswered
  <2>4. Unanswered(d)' /\ hst'[d] # "reply" => NoSession(d)'
    BY <1>6, <2>3 DEF SameStage, CalmHandler, BeforeUp
  <2>5. cst[d] \in {"none", "tcp", "ack"} => NoSession(d)'
    BY <1>6 DEF SameStage, BeforeUp
  <2> QED
    BY <1>6, <2>1, <2>2, <2>4, <2>5 DEF SameStage, BeforeUp
<1>10. AfterAck(d)' /\ Handler(d)'
  BY DEF SameStage, CalmHandler, ConnInv, AfterAck, Handler
<1> QED
  BY <1>3, <1>7, <1>8, <1>9, <1>10 DEF SameStage, ConnInv

(* Such a step keeps the table right and gives no connection a session.    *)
LEMMA TableFacts ==
  ASSUME TypeOK, SessionTable, TableCalm
  PROVE  SessionTable' /\ \A c \in Conns : NoSession(c) => NoSession(c)'
<1>1. \A i \in DOMAIN sessions : sessions[i].conn \in Conns
  BY DEF TypeOK, ServerTypeOK, Session
<1>2. \A c \in Conns : NoSession(c) => NoSession(c)'
  BY DEF TableCalm, NoSession
<1>3. SessionTable'
  BY <1>1 DEF TableCalm, SessionTable, NoSession
<1> QED
  BY <1>2, <1>3

(* Most steps do not touch the table or what it speaks about.              *)
LEMMA TableUntouched ==
  ASSUME TypeOK, SessionTable, SameEntries, UNCHANGED <<hsid, hkey, code>>,
         \A c \in Conns : hst'[c] = hst[c] \/ hst'[c] \notin {"none", "done", "exited"}
  PROVE  SessionTable' /\ \A c \in Conns : NoSession(c) => NoSession(c)'
  BY TableFacts DEF TableCalm, SameEntries

(* What was allowed to be under way stays so while no request appears.     *)
LEMMA DownShrinks ==
  ASSUME NEW d \in Conns, NEW q \in Seq(Down(d)),
         cst[d] = "auth" => (Unanswered(d)' => Unanswered(d))
  PROVE  q \in Seq(NextDown(d))
<1>1. Down(d) \subseteq NextDown(d)
  BY DEF Down, NextDown, DownMessages
<1> QED
  BY <1>1, SeqMonotonic

(* The typing of the four queues, taken out of TypeOK.                     *)
LEMMA QueueTyping == TypeOK => QueueTypes
  BY DEF TypeOK, WireTypeOK, ServerTypeOK, QueueTypes

(* The same of the next state.                                             *)
LEMMA NextQueueTyping == TypeOK' => QueueTypes'
  BY DEF TypeOK, WireTypeOK, ServerTypeOK, QueueTypes

(* A handler that runs belongs to a connection that was made, and has a    *)
(* message at hand when it is about to handle one.                         *)
LEMMA LiveHandler ==
  ASSUME Inv, NEW c \in Conns, hst[c] \in Live \cup Failed
  PROVE  cst[c] \notin {"none", "tcp"} /\ (hst[c] \in {"parse", "reply"} => hbuf[c] # <<>>)
<1>1. ConnInv(c) /\ QueueTypes
  BY QueueTyping DEF Inv
<1>2. cst[c] \notin {"none", "tcp"}
  BY <1>1 DEF ConnInv, BeforeTcp, Live, Failed
<1>3. hst[c] \in {"parse", "reply"} => Len(hbuf[c]) > 0
  BY <1>1 DEF ConnInv, Handler
<1> QED
  BY <1>1, <1>2, <1>3, SeqFacts DEF QueueTypes

(* Before the connection exists nothing is under way.                      *)
LEMMA NoLink ==
  ASSUME Inv, NEW c \in Conns, cst[c] \in {"none", "tcp"}
  PROVE  /\ hbuf[c] = <<>> /\ toServer[c] = <<>> /\ txq[c] = <<>> /\ toClient[c] = <<>>
         /\ link[c] = "none" /\ hkey[c] = NoKey /\ hst[c] \in {"none", "exited"}
<1>1. ConnInv(c) /\ QueueTypes
  BY QueueTyping DEF Inv
<1>2. Len(hbuf[c]) = 0 /\ Len(toServer[c]) = 0 /\ Len(txq[c]) = 0 /\ Len(toClient[c]) = 0
  BY <1>1 DEF ConnInv, BeforeTcp, QueueTypes
<1> QED
  BY <1>1, <1>2, SeqFacts DEF ConnInv, BeforeTcp, QueueTypes

(* Nothing happens to the queues of the connection's socket.               *)
LEMMA StillQueues ==
  ASSUME Inv, NEW c \in Conns, hbuf'[c] = hbuf[c], toServer'[c] = toServer[c],
         txq'[c] = txq[c], toClient'[c] = toClient[c],
         wrq'[c] \in Seq(AppMessages), inq'[c] \in Seq(AppMessages)
  PROVE  CalmQueues(c)
<1>1. ConnInv(c) /\ QueueTypes
  BY QueueTyping DEF Inv
<1>2. Unanswered(c)' = Unanswered(c)
  BY DEF Unanswered
<1>3. NextDown(c) = Down(c)
  BY <1>2 DEF NextDown, Down
<1>4. /\ Len(hbuf'[c]) + Len(toServer'[c]) <= Len(hbuf[c]) + Len(toServer[c])
      /\ Len(txq'[c]) + Len(toClient'[c]) <= Len(txq[c]) + Len(toClient[c])
  BY <1>1 DEF QueueTypes
<1> QED
  BY <1>1, <1>3, <1>4 DEF CalmQueues, ConnInv, Queues

(* A handler that does nothing.                                            *)
LEMMA StillHandler ==
  ASSUME NEW c \in Conns, ConnInv(c), hst'[c] = hst[c], hbuf'[c] = hbuf[c]
  PROVE  CalmHandler(c)
  BY DEF ConnInv, CalmHandler, Handler, BeforeTcp, BeforeAck

(* Queues only get shorter.                                                *)
LEMMA ShrinkQueues ==
  ASSUME Inv, NEW c \in Conns, QueueTypes',
         hbuf'[c] \in {hbuf[c], <<>>}, toServer'[c] \in {toServer[c], <<>>},
         txq'[c] \in Seq(Down(c)), toClient'[c] \in Seq(Down(c)),
         cst[c] \in {"none", "tcp", "ack"} =>
            Len(txq'[c]) + Len(toClient'[c]) <= Len(txq[c]) + Len(toClient[c]),
         wrq'[c] \in Seq(AppMessages), inq'[c] \in Seq(AppMessages)
  PROVE  CalmQueues(c)
<1>1. ConnInv(c) /\ QueueTypes
  BY QueueTyping DEF Inv
<1>2. Len(hbuf'[c]) + Len(toServer'[c]) <= Len(hbuf[c]) + Len(toServer[c])
  BY <1>1 DEF QueueTypes
<1>3. Unanswered(c)' => Unanswered(c)
  BY <1>1, <1>2 DEF Unanswered, QueueTypes
<1>4. txq'[c] \in Seq(NextDown(c)) /\ toClient'[c] \in Seq(NextDown(c))
  BY <1>3, DownShrinks
<1>5. hbuf'[c] \in Seq(Up(c)) /\ toServer'[c] \in Seq(Up(c))
  BY <1>1, EmptySeq DEF ConnInv, Queues
<1> QED
  BY <1>2, <1>4, <1>5 DEF CalmQueues

(* A step of one connection.                                               *)
LEMMA OneConn ==
  ASSUME Inv, NEW c \in Conns, TypeOK', SessionTable', ConnInv(c)',
         \A d \in Conns : d # c => Same(d)
  PROVE  Inv'
  BY SameConn DEF Inv

(* A step of one connection that keeps it in its stage.                    *)
LEMMA CalmStep ==
  ASSUME Inv, NEW c \in Conns, TypeOK', TableCalm, CalmQueues(c), CalmHandler(c),
         (NoSession(c) => NoSession(c)') => SameStage(c),
         \A d \in Conns : d # c => ((NoSession(d) => NoSession(d)') => Same(d))
  PROVE  Inv'
<1>1. TypeOK /\ SessionTable /\ ConnInv(c)
  BY DEF Inv
<1>2. SessionTable' /\ \A d \in Conns : NoSession(d) => NoSession(d)'
  BY <1>1, TableFacts
<1>3. ConnInv(c)'
  BY <1>1, <1>2, CalmConn DEF Calm
<1> QED
  BY <1>2, <1>3, OneConn

(* Steps that concern no connection, and steps that concern all of them.   *)
LEMMA AllSame ==
  ASSUME Inv, TypeOK', TableCalm,
         \A d \in Conns : (NoSession(d) => NoSession(d)') => Same(d)
  PROVE  Inv'
<1>1. SessionTable' /\ \A d \in Conns : NoSession(d) => NoSession(d)'
  BY TableFacts DEF Inv
<1> QED
  BY <1>1, SameConn DEF Inv

(* Steps that concern all connections and keep each in its stage.          *)
LEMMA AllCalm ==
  ASSUME Inv, TypeOK', TableCalm,
         \A d \in Conns : CalmQueues(d) /\ CalmHandler(d) /\ ((NoSession(d) => NoSession(d)') => SameStage(d))
  PROVE  Inv'
<1>1. SessionTable' /\ \A d \in Conns : NoSession(d) => NoSession(d)'
  BY TableFacts DEF Inv
<1> QED
  BY <1>1, CalmConn DEF Inv, Calm

-----------------------------------------------------------------------------
(* The steps of the server.                                                *)

(* The server's end of a connection keeps its types when it drops halves.  *)
LEMMA ServerDropsType ==
  ASSUME TypeOK, NEW c \in Conns, NEW halves, NEW rest \in Seq(Messages), ServerDrops(c, halves, rest)
  PROVE  /\ sOpen' \in [Conns -> SUBSET Halves]
         /\ toServer' \in [Conns -> Seq(Messages)]
         /\ link' \in [Conns -> {"none", "open", "reset"}]
  BY EmptySeq DEF TypeOK, WireTypeOK, ServerDrops

(* ... and when it writes.                                                 *)
LEMMA ServerPutsType ==
  ASSUME TypeOK, NEW c \in Conns, NEW m \in Messages, ServerPuts(c, m)
  PROVE  /\ toClient' \in [Conns -> Seq(Messages)]
         /\ link' \in [Conns -> {"none", "open", "reset"}]
<1>1. Append(toClient[c], m) \in Seq(Messages)
  BY SeqFacts DEF TypeOK, WireTypeOK
<1> QED
  BY <1>1 DEF TypeOK, WireTypeOK, ServerPuts

(* Done with a message: on with the loop, or read again.                   *)
Advance(c) ==
    /\ hbuf' = [hbuf EXCEPT ![c] = Tail(@)]
    /\ \/ hst' = [hst EXCEPT ![c] = "read"]
       \/ hst' = [hst EXCEPT ![c] = "parse"] /\ Tail(hbuf[c]) # <<>>

(* The end of the inner loop's body, as the weaker Advance.                *)
LEMMA FinishAdvances == \A c \in Conns : Finish(c) => Advance(c)
  BY DEF Finish, Advance

(* Advance keeps the types of the handlers.                                *)
LEMMA AdvanceType ==
  ASSUME TypeOK, NEW c \in Conns, hbuf[c] # <<>>, Advance(c)
  PROVE  /\ hbuf' \in [Conns -> Seq(Messages)]
         /\ hst' \in [Conns -> HandlerStates]
  BY SeqFacts DEF TypeOK, ServerTypeOK, Advance, HandlerStates, Live

(* Returning an error keeps the types of the handler and of its socket.    *)
LEMMA FailType ==
  ASSUME TypeOK, NEW c \in Conns, NEW why \in Failed, Fail(c, why)
  PROVE  /\ hbuf' \in [Conns -> Seq(Messages)]
         /\ hst' \in [Conns -> HandlerStates]
         /\ sOpen' \in [Conns -> SUBSET Halves]
         /\ toServer' \in [Conns -> Seq(Messages)]
         /\ link' \in [Conns -> {"none", "open", "reset"}]
<1>1. hbuf' \in [Conns -> Seq(Messages)]
  BY EmptySeq DEF TypeOK, ServerTypeOK, Fail
<1>2. hst' \in [Conns -> HandlerStates]
  BY DEF TypeOK, ServerTypeOK, Fail, HandlerStates
<1>3. ServerDrops(c, {"r"}, toServer[c]) /\ toServer[c] \in Seq(Messages)
  BY DEF Fail, TypeOK, WireTypeOK
<1> QED
  BY <1>1, <1>2, <1>3, ServerDropsType

(* Answering keeps the types, whether or not the writer task runs.         *)
LEMMA RespondType ==
  ASSUME TypeOK, NEW c \in Conns, NEW m \in Messages, hbuf[c] # <<>>, Respond(c, m)
  PROVE  /\ hbuf' \in [Conns -> Seq(Messages)]
         /\ hst' \in [Conns -> HandlerStates]
         /\ txq' \in [Conns -> Seq(Messages)]
         /\ sOpen' \in [Conns -> SUBSET Halves]
         /\ toServer' \in [Conns -> Seq(Messages)]
         /\ link' \in [Conns -> {"none", "open", "reset"}]
<1>1. CASE writing[c]
  <2>1. Finish(c) /\ UNCHANGED <<sOpen, toServer, link>>
    BY <1>1 DEF Respond
  <2>2. txq' \in [Conns -> Seq(Messages)]
    <3>1. Append(txq[c], m) \in Seq(Messages)
      BY SeqFacts DEF TypeOK, ServerTypeOK
    <3> QED
      BY <1>1, <3>1 DEF Respond, TypeOK, ServerTypeOK
  <2> QED
    BY <2>1, <2>2, FinishAdvances, AdvanceType DEF TypeOK, WireTypeOK
<1>2. CASE ~writing[c]
  <2>1. Fail(c, "send_error") /\ UNCHANGED txq
    BY <1>2 DEF Respond
  <2> QED
    BY <2>1, FailType DEF Failed, TypeOK, ServerTypeOK
<1> QED
  BY <1>1, <1>2

(* The handlers and the sockets of the other connections are left alone.   *)
Elsewhere(c) ==
    \A d \in Conns : d # c =>
        /\ hst'[d] = hst[d] /\ hbuf'[d] = hbuf[d] /\ txq'[d] = txq[d]
        /\ toServer'[d] = toServer[d] /\ link'[d] = link[d]

(* A handler finishes with a message.                                      *)
LEMMA AdvanceFacts ==
  ASSUME Inv, NEW c \in Conns, hst[c] \in {"parse", "reply"}, Advance(c)
  PROVE  /\ hbuf' \in [Conns -> Seq(Messages)] /\ hbuf'[c] \in Seq(Up(c))
         /\ Len(hbuf'[c]) = Len(hbuf[c]) - 1
         /\ hst' \in [Conns -> HandlerStates]
         /\ hst'[c] = "read" \/ (hst'[c] = "parse" /\ Len(hbuf'[c]) > 0)
         /\ \A d \in Conns : d # c => hst'[d] = hst[d] /\ hbuf'[d] = hbuf[d]
<1>1. hbuf[c] # <<>> /\ TypeOK /\ QueueTypes
  BY LiveHandler, QueueTyping DEF Inv, Live
<1>2. hbuf[c] \in Seq(Up(c))
  BY DEF Inv, ConnInv, Queues
<1>3. Tail(hbuf[c]) \in Seq(Up(c)) /\ Len(Tail(hbuf[c])) = Len(hbuf[c]) - 1
  BY <1>1, <1>2, SeqFacts
<1>4. Tail(hbuf[c]) # <<>> => Len(Tail(hbuf[c])) > 0
  BY <1>3, SeqFacts
<1>5. hbuf' \in [Conns -> Seq(Messages)] /\ hst' \in [Conns -> HandlerStates]
  BY <1>1, AdvanceType
<1>6. hbuf'[c] = Tail(hbuf[c]) /\ \A d \in Conns : d # c => hbuf'[d] = hbuf[d]
  BY <1>1 DEF Advance, QueueTypes
<1>7. /\ hst'[c] = "read" \/ (hst'[c] = "parse" /\ Tail(hbuf[c]) # <<>>)
      /\ \A d \in Conns : d # c => hst'[d] = hst[d]
  BY <1>1 DEF Advance, TypeOK, ServerTypeOK
<1> QED
  BY <1>3, <1>4, <1>5, <1>6, <1>7

(* A handler returns an error.                                             *)
LEMMA FailFacts ==
  ASSUME Inv, NEW c \in Conns, NEW why \in Failed, Fail(c, why)
  PROVE  /\ hbuf' \in [Conns -> Seq(Messages)] /\ hbuf'[c] = <<>>
         /\ hst' \in [Conns -> HandlerStates] /\ hst'[c] = why
         /\ sOpen' \in [Conns -> SUBSET Halves]
         /\ toServer' \in [Conns -> Seq(Messages)]
         /\ toServer'[c] \in {toServer[c], <<>>}
         /\ link' \in [Conns -> {"none", "open", "reset"}]
         /\ \A d \in Conns : d # c =>
               /\ hst'[d] = hst[d] /\ hbuf'[d] = hbuf[d]
               /\ toServer'[d] = toServer[d] /\ link'[d] = link[d]
<1>1. TypeOK
  BY DEF Inv
<1>2. hbuf'[c] = <<>> /\ hst'[c] = why
  BY <1>1 DEF Fail, TypeOK, ServerTypeOK
<1>3. toServer'[c] \in {toServer[c], <<>>}
  BY <1>1 DEF Fail, ServerDrops, TypeOK, WireTypeOK
<1>4. \A d \in Conns : d # c => hst'[d] = hst[d] /\ hbuf'[d] = hbuf[d]
  BY <1>1 DEF Fail, TypeOK, ServerTypeOK
<1>5. \A d \in Conns : d # c => toServer'[d] = toServer[d] /\ link'[d] = link[d]
  BY <1>1 DEF Fail, ServerDrops, TypeOK, WireTypeOK
<1> QED
  BY <1>1, <1>2, <1>3, <1>4, <1>5, FailType

(* Both leave the connection in its stage, with fewer messages to handle.  *)
LEMMA AdvanceCalm ==
  ASSUME Inv, NEW c \in Conns, hst[c] = "parse", Advance(c),
         UNCHANGED <<toServer, link, txq, toClient, hkey>>, UNCHANGED clientVars
  PROVE  CalmQueues(c) /\ CalmHandler(c) /\ Elsewhere(c) /\ hst'[c] \in Live \cup Failed
<1> USE DEF clientVars
<1>1. ConnInv(c) /\ QueueTypes /\ cst[c] \notin {"none", "tcp"}
  BY QueueTyping, LiveHandler DEF Inv, Live
<1>2. /\ hbuf' \in [Conns -> Seq(Messages)] /\ hbuf'[c] \in Seq(Up(c))
      /\ Len(hbuf'[c]) = Len(hbuf[c]) - 1
      /\ hst'[c] = "read" \/ (hst'[c] = "parse" /\ Len(hbuf'[c]) > 0)
      /\ \A d \in Conns : d # c => hst'[d] = hst[d] /\ hbuf'[d] = hbuf[d]
  BY AdvanceFacts
<1>3. Unanswered(c)' => Unanswered(c)
  BY <1>1, <1>2 DEF Unanswered, QueueTypes
<1>4. txq'[c] \in Seq(NextDown(c)) /\ toClient'[c] \in Seq(NextDown(c))
  BY <1>1, <1>3, DownShrinks DEF ConnInv, Queues
<1>5. Len(hbuf'[c]) + Len(toServer'[c]) <= Len(hbuf[c]) + Len(toServer[c])
  BY <1>1, <1>2 DEF QueueTypes
<1>6. Len(txq'[c]) + Len(toClient'[c]) <= Len(txq[c]) + Len(toClient[c])
  BY <1>1 DEF QueueTypes
<1>7. CalmQueues(c)
  BY <1>1, <1>2, <1>4, <1>5, <1>6 DEF CalmQueues, ConnInv, Queues
<1>8. CalmHandler(c) /\ Elsewhere(c) /\ hst'[c] \in Live \cup Failed
  BY <1>1, <1>2 DEF CalmHandler, Elsewhere, Live
<1> QED
  BY <1>7, <1>8

(* So does an error, whatever the handler was about to answer.             *)
LEMMA FailCalm ==
  ASSUME Inv, NEW c \in Conns, hst[c] \in Live, Fail(c, hst'[c]),
         hst'[c] \in {"read_error", "send_error", "input_error"},
         UNCHANGED <<txq, toClient, hkey>>, UNCHANGED clientVars
  PROVE  CalmQueues(c) /\ CalmHandler(c) /\ Elsewhere(c) /\ hst'[c] \in Live \cup Failed
<1> USE DEF clientVars
<1>1. ConnInv(c) /\ QueueTypes /\ cst[c] \notin {"none", "tcp"}
  BY QueueTyping, LiveHandler DEF Inv
<1>2. /\ hbuf' \in [Conns -> Seq(Messages)] /\ hbuf'[c] = <<>>
      /\ toServer' \in [Conns -> Seq(Messages)] /\ toServer'[c] \in {toServer[c], <<>>}
      /\ Elsewhere(c)
  BY FailFacts DEF Failed, Elsewhere
<1>3. Len(hbuf'[c]) + Len(toServer'[c]) <= Len(hbuf[c]) + Len(toServer[c])
  BY <1>1, <1>2 DEF QueueTypes
<1>4. Unanswered(c)' => Unanswered(c)
  BY <1>1, <1>2, <1>3 DEF Unanswered, QueueTypes
<1>5. txq'[c] \in Seq(NextDown(c)) /\ toClient'[c] \in Seq(NextDown(c))
  BY <1>1, <1>4, DownShrinks DEF ConnInv, Queues
<1>6. hbuf'[c] \in Seq(Up(c)) /\ toServer'[c] \in Seq(Up(c))
  BY <1>1, <1>2, EmptySeq DEF ConnInv, Queues
<1>7. Len(txq'[c]) + Len(toClient'[c]) <= Len(txq[c]) + Len(toClient[c])
  BY <1>1 DEF QueueTypes
<1>8. CalmQueues(c)
  BY <1>1, <1>3, <1>5, <1>6, <1>7 DEF CalmQueues, ConnInv, Queues
<1>9. hst[c] = "reply" /\ cst[c] # "up" => ~Unanswered(c)'
  <2> SUFFICES ASSUME hst[c] = "reply", cst[c] # "up" PROVE ~Unanswered(c)'
    OBVIOUS
  <2>1. Len(hbuf[c]) > 0 /\ Len(hbuf[c]) + Len(toServer[c]) <= 1
    BY <1>1 DEF ConnInv, Handler, BeforeUp
  <2> QED
    BY <1>1, <1>2, <2>1 DEF Unanswered, QueueTypes
<1>10. CalmHandler(c) /\ hst'[c] \in Live \cup Failed
  BY <1>1, <1>9 DEF CalmHandler, Failed
<1> QED
  BY <1>2, <1>8, <1>10

(* An answer under the server's key is one the client's stage allows.      *)
LEMMA ResponseAllowed ==
  ASSUME NEW c \in Conns, ConnInv(c), cst[c] # "ack", NEW m \in Messages, m.key = hkey[c],
         cst[c] = "auth" /\ m.type = "AuthResponse" => ~Unanswered(c)'
  PROVE  m \in NextDown(c)
  BY DEF ConnInv, AfterAck, NextDown, DownMessages

(* An answer under the handler's key keeps the stage.                      *)
LEMMA RespondCalm ==
  ASSUME Inv, NEW c \in Conns, hst[c] \in {"parse", "reply"}, cst[c] # "ack",
         NEW m \in Messages, m.key = hkey[c], Respond(c, m),
         UNCHANGED <<toClient, hkey, writing>>, UNCHANGED clientVars
  PROVE  CalmQueues(c) /\ CalmHandler(c) /\ Elsewhere(c) /\ hst'[c] \in Live \cup Failed
<1>1. ConnInv(c) /\ QueueTypes /\ cst[c] \notin {"none", "tcp"} /\ TypeOK
  BY QueueTyping, LiveHandler DEF Inv, Live
<1>2. CASE writing[c]
  <2>1. /\ Finish(c) /\ UNCHANGED <<sOpen, toServer, link>>
        /\ txq' = [txq EXCEPT ![c] = Append(@, m)]
    BY <1>2 DEF Respond
  <2>2. /\ hbuf' \in [Conns -> Seq(Messages)] /\ hbuf'[c] \in Seq(Up(c))
        /\ Len(hbuf'[c]) = Len(hbuf[c]) - 1
        /\ hst'[c] = "read" \/ (hst'[c] = "parse" /\ Len(hbuf'[c]) > 0)
        /\ \A d \in Conns : d # c => hst'[d] = hst[d] /\ hbuf'[d] = hbuf[d]
    BY <2>1, FinishAdvances, AdvanceFacts
  <2>3. Len(hbuf'[c]) + Len(toServer'[c]) <= Len(hbuf[c]) + Len(toServer[c])
    BY <1>1, <2>1, <2>2 DEF QueueTypes
  <2>4. Unanswered(c)' => Unanswered(c)
    BY <1>1, <2>1, <2>2 DEF Unanswered, QueueTypes
  <2>5. cst[c] # "up" => ~Unanswered(c)'
    <3> SUFFICES ASSUME cst[c] # "up" PROVE ~Unanswered(c)'
      OBVIOUS
    <3>1. Len(hbuf[c]) + Len(toServer[c]) <= 1 /\ Len(hbuf[c]) > 0
      BY <1>1 DEF ConnInv, BeforeUp, Handler
    <3> QED
      BY <1>1, <2>1, <2>2, <3>1 DEF Unanswered, QueueTypes
  <2>6. m \in NextDown(c)
    BY <1>1, <2>5, ResponseAllowed
  <2>7. txq[c] \in Seq(NextDown(c)) /\ toClient[c] \in Seq(NextDown(c))
    BY <1>1, <2>4, DownShrinks DEF ConnInv, Queues
  <2>8. txq'[c] = Append(txq[c], m) /\ \A d \in Conns : d # c => txq'[d] = txq[d]
    BY <1>1, <2>1 DEF QueueTypes
  <2>9. txq'[c] \in Seq(NextDown(c)) /\ toClient'[c] \in Seq(NextDown(c))
    BY <2>6, <2>7, <2>8, SeqFacts
  <2>10. CalmQueues(c)
    BY <1>1, <2>1, <2>2, <2>3, <2>9 DEF CalmQueues, ConnInv, Queues, clientVars
  <2>11. CalmHandler(c) /\ Elsewhere(c) /\ hst'[c] \in Live \cup Failed
    BY <1>1, <2>1, <2>2, <2>5, <2>8 DEF CalmHandler, Elsewhere, Live
  <2> QED
    BY <2>10, <2>11
<1>3. CASE ~writing[c]
  <2>1. Fail(c, "send_error") /\ UNCHANGED txq
    BY <1>3 DEF Respond
  <2>2. hst'[c] = "send_error"
    BY <2>1, FailFacts DEF Failed
  <2> QED
    BY <2>1, <2>2, FailCalm DEF Live
<1> QED
  BY <1>2, <1>3

(* A step of a handler that keeps the table.                               *)
LEMMA HandlerInv ==
  ASSUME Inv, NEW c \in Conns, TypeOK', hst[c] \in Live,
         CalmQueues(c) /\ CalmHandler(c) /\ Elsewhere(c) /\ hst'[c] \in Live \cup Failed,
         SameEntries, UNCHANGED <<toClient, hkey, hsid>>, UNCHANGED clientVars
  PROVE  Inv'
<1>1. TypeOK /\ SessionTable /\ ConnInv(c) /\ cst[c] \notin {"none", "tcp"}
  BY LiveHandler DEF Inv
<1>2. SessionTable' /\ \A d \in Conns : NoSession(d) => NoSession(d)'
  <2>1. \A d \in Conns : hst'[d] = hst[d] \/ hst'[d] \notin {"none", "done", "exited"}
    BY DEF Elsewhere, Live, Failed
  <2> QED
    BY <1>1, <2>1, TableUntouched DEF clientVars
<1>3. \A d \in Conns : d # c => Same(d)
  BY <1>2 DEF Elsewhere, Same, clientVars
<1>4. SameStage(c)
  BY <1>1, <1>2 DEF SameStage, clientVars
<1>5. ConnInv(c)'
  BY <1>1, <1>4, CalmConn DEF Calm
<1> QED
  BY <1>2, <1>3, <1>5, OneConn

(* Types of the variables no handler step changes.                         *)
LEMMA HandlerTypes ==
  ASSUME TypeOK, UNCHANGED handlerFrame, UNCHANGED clientVars,
         UNCHANGED <<hsid, nextSid>>, hkey' \in [Conns -> Keys], nextEph' \in Nat \ {0},
         toServer' \in [Conns -> Seq(Messages)] /\ link' \in [Conns -> {"none", "open", "reset"}]
            /\ sOpen' \in [Conns -> SUBSET Halves],
         hst' \in [Conns -> HandlerStates] /\ hbuf' \in [Conns -> Seq(Messages)]
            /\ txq' \in [Conns -> Seq(Messages)],
         sessions' \in [DOMAIN sessions -> Session], applied' \in [Conns -> Seq(Nat)]
  PROVE  TypeOK'
<1>1. WireTypeOK'
  BY DEF TypeOK, WireTypeOK, handlerFrame
<1>2. ServerTypeOK'
  BY DEF TypeOK, ServerTypeOK, handlerFrame
<1>3. ClientTypeOK'
  BY DEF TypeOK, ClientTypeOK, clientVars
<1> QED
  BY <1>1, <1>2, <1>3 DEF TypeOK

(* A new handler starts for a connection that was made.                    *)
LEMMA AcceptInv ==
  ASSUME Inv, NEW c \in Conns, Accept(c), UNCHANGED clientVars
  PROVE  Inv'
<1>1. TypeOK /\ SessionTable /\ ConnInv(c)
  BY DEF Inv
<1>2. TypeOK'
  <2>1. WireTypeOK' /\ ClientTypeOK'
    BY <1>1 DEF TypeOK, WireTypeOK, ClientTypeOK, Accept, wireVars, clientVars
  <2>2. hst' \in [Conns -> HandlerStates] /\ writing' \in [Conns -> BOOLEAN]
    BY <1>1 DEF TypeOK, ServerTypeOK, Accept, HandlerStates, Live
  <2> QED
    BY <1>1, <2>1, <2>2 DEF TypeOK, ServerTypeOK, Accept
<1>3. /\ hst'[c] = "read" /\ \A d \in Conns : d # c => hst'[d] = hst[d]
      /\ cst[c] \notin {"none", "tcp"}
  BY <1>1 DEF Accept, TypeOK, ServerTypeOK, ConnInv, BeforeTcp
<1>4. SessionTable' /\ \A d \in Conns : NoSession(d) => NoSession(d)'
  BY <1>1, <1>3, TableUntouched DEF Accept, SameEntries, clientVars
<1>5. \A d \in Conns : d # c => Same(d)
  BY <1>3, <1>4 DEF Same, Accept, wireVars, clientVars
<1>6. ConnInv(c)'
  <2>1. SameStage(c)
    BY <1>3, <1>4 DEF SameStage, Accept, wireVars, clientVars
  <2>2. CalmHandler(c)
    BY <1>3 DEF CalmHandler, Accept
  <2>3. CalmQueues(c)
    BY <1>1, StillQueues DEF ConnInv, Queues, Accept, wireVars, clientVars
  <2> QED
    BY <1>1, <1>2, <2>1, <2>2, <2>3, CalmConn DEF Calm
<1> QED
  BY <1>2, <1>4, <1>5, <1>6, OneConn

(* read_buf moves messages from the socket to the buffer.                  *)
LEMMA ReadBufInv ==
  ASSUME Inv, NEW c \in Conns, ReadBuf(c), UNCHANGED clientVars
  PROVE  Inv'
<1>1. TypeOK /\ ConnInv(c) /\ QueueTypes /\ hst[c] \in Live
  BY QueueTyping DEF Inv, ReadBuf, Live
<1>2. PICK n \in 1..Len(toServer[c]) :
        /\ hbuf' = [hbuf EXCEPT ![c] = @ \o SubSeq(toServer[c], 1, n)]
        /\ toServer' = [toServer EXCEPT ![c] = SubSeq(@, n + 1, Len(@))]
  BY DEF ReadBuf
<1> DEFINE got == SubSeq(toServer[c], 1, n)
           rest == SubSeq(toServer[c], n + 1, Len(toServer[c]))
<1>3. /\ got \in Seq(Messages) /\ rest \in Seq(Messages)
      /\ got \in Seq(Up(c)) /\ rest \in Seq(Up(c))
      /\ Len(got) = n /\ Len(rest) = Len(toServer[c]) - n
  BY <1>1, <1>2, SplitFacts DEF QueueTypes, ConnInv, Queues
<1> HIDE DEF got, rest
<1>4. /\ hbuf[c] \o got \in Seq(Messages) /\ hbuf[c] \o got \in Seq(Up(c))
      /\ Len(hbuf[c] \o got) = Len(hbuf[c]) + n
  BY <1>1, <1>3, ConcatProperties DEF QueueTypes, ConnInv, Queues
<1>5. /\ hbuf' \in [Conns -> Seq(Messages)] /\ hbuf'[c] = hbuf[c] \o got
      /\ toServer' \in [Conns -> Seq(Messages)] /\ toServer'[c] = rest
      /\ \A d \in Conns : d # c => hbuf'[d] = hbuf[d] /\ toServer'[d] = toServer[d]
  BY <1>1, <1>2, <1>3, <1>4 DEF QueueTypes, got, rest
<1>6. /\ hst' \in [Conns -> HandlerStates] /\ hst'[c] = "parse"
      /\ \A d \in Conns : d # c => hst'[d] = hst[d]
  BY <1>1 DEF ReadBuf, TypeOK, ServerTypeOK, HandlerStates, Live
<1>7. /\ Len(hbuf'[c]) > 0
      /\ Len(hbuf'[c]) + Len(toServer'[c]) = Len(hbuf[c]) + Len(toServer[c])
  <2>1. Len(hbuf'[c]) = Len(hbuf[c]) + n /\ Len(toServer'[c]) = Len(toServer[c]) - n
    BY <1>3, <1>4, <1>5
  <2>2. Len(hbuf[c]) \in Nat /\ Len(toServer[c]) \in Nat /\ n \in Nat /\ n > 0
    BY <1>1, <1>2, SeqFacts DEF QueueTypes
  <2>3. \A a, b, k \in Nat : k > 0 => a + k > 0 /\ (a + k) + (b - k) = a + b
    OBVIOUS
  <2>4. /\ Len(hbuf[c]) + n > 0
        /\ (Len(hbuf[c]) + n) + (Len(toServer[c]) - n) = Len(hbuf[c]) + Len(toServer[c])
    BY <2>2, <2>3
  <2> QED
    BY <2>1, <2>4
<1>8. TypeOK'
  <2>1. sessions' \in [DOMAIN sessions -> Session] /\ applied' \in [Conns -> Seq(Nat)]
    BY <1>1 DEF ReadBuf, TypeOK, ServerTypeOK
  <2>2. /\ link' \in [Conns -> {"none", "open", "reset"}] /\ sOpen' \in [Conns -> SUBSET Halves]
        /\ txq' \in [Conns -> Seq(Messages)]
    BY <1>1 DEF ReadBuf, TypeOK, WireTypeOK, ServerTypeOK
  <2> QED
    BY <1>1, <1>5, <1>6, <2>1, <2>2, HandlerTypes DEF ReadBuf, TypeOK, ServerTypeOK
<1>9. CalmQueues(c)
  <2>1. Unanswered(c)' = Unanswered(c)
    BY <1>7 DEF Unanswered
  <2>2. NextDown(c) = Down(c)
    BY <2>1 DEF NextDown, Down
  <2>3. Len(txq'[c]) + Len(toClient'[c]) <= Len(txq[c]) + Len(toClient[c])
    BY <1>1 DEF QueueTypes, ReadBuf, handlerFrame
  <2>4. Len(hbuf'[c]) + Len(toServer'[c]) <= Len(hbuf[c]) + Len(toServer[c])
    BY <1>1, <1>5, <1>7 DEF QueueTypes
  <2> QED
    BY <1>1, <1>3, <1>4, <1>5, <2>2, <2>3, <2>4
    DEF CalmQueues, ConnInv, Queues, ReadBuf, handlerFrame, clientVars
<1>10. CalmHandler(c) /\ Elsewhere(c) /\ hst'[c] \in Live \cup Failed
  <2>1. cst[c] \notin {"none", "tcp"}
    BY <1>1, LiveHandler
  <2> QED
    BY <1>5, <1>6, <1>7, <2>1 DEF CalmHandler, Elsewhere, ReadBuf, Live
<1> QED
  BY <1>1, <1>8, <1>9, <1>10, HandlerInv DEF ReadBuf, SameEntries, handlerFrame

(* The message a handler is about to take.                                 *)
LEMMA IncomingFacts ==
  ASSUME Inv, NEW c \in Conns, hst[c] \in {"parse", "reply"}
  PROVE  /\ Incoming(c) \in Messages /\ Incoming(c) \in Up(c) /\ hbuf[c] # <<>>
         /\ Incoming(c).type # "KeyExchange" => hkey[c] # NoKey /\ cst[c] # "ack"
         /\ hkey[c] \in Keys
<1>1. ConnInv(c) /\ hbuf[c] # <<>> /\ QueueTypes
  BY LiveHandler, QueueTyping DEF Inv, Live
<1>2. Incoming(c) \in Up(c)
  BY <1>1, SeqFacts DEF Incoming, ConnInv, Queues
<1>3. Incoming(c) \in Messages /\ (Incoming(c).type # "KeyExchange" => hkey[c] # NoKey)
  BY <1>2 DEF Up, UpMessages
<1>4. Len(hbuf[c]) > 0
  BY <1>1 DEF ConnInv, Handler
<1>5. cst[c] = "ack" => hkey[c] = NoKey
  BY <1>1, <1>4 DEF ConnInv, BeforeAck, QueueTypes
<1> QED
  BY <1>1, <1>2, <1>3, <1>5 DEF Inv, TypeOK, ServerTypeOK

(* Disconnect leaves the inner loop with the rest of the buffer.           *)
LEMMA HandleDisconnectInv ==
  ASSUME Inv, NEW c \in Conns, HandleDisconnect(c), UNCHANGED clientVars
  PROVE  Inv'
<1>1. TypeOK /\ hst[c] = "parse" /\ hst[c] \in Live /\ Advance(c)
  BY DEF Inv, HandleDisconnect, Takes, Live, Advance
<1>2. hbuf' \in [Conns -> Seq(Messages)] /\ hst' \in [Conns -> HandlerStates]
  BY <1>1, AdvanceFacts
<1>3. TypeOK'
  <2>1. /\ link' \in [Conns -> {"none", "open", "reset"}] /\ sOpen' \in [Conns -> SUBSET Halves]
        /\ toServer' \in [Conns -> Seq(Messages)]
    BY <1>1 DEF HandleDisconnect, TypeOK, WireTypeOK
  <2>2. /\ sessions' \in [DOMAIN sessions -> Session] /\ applied' \in [Conns -> Seq(Nat)]
        /\ txq' \in [Conns -> Seq(Messages)]
    BY <1>1 DEF HandleDisconnect, TypeOK, ServerTypeOK
  <2> QED
    BY <1>1, <1>2, <2>1, <2>2, HandlerTypes DEF HandleDisconnect, TypeOK, ServerTypeOK
<1>4. CalmQueues(c) /\ CalmHandler(c) /\ Elsewhere(c) /\ hst'[c] \in Live \cup Failed
  BY <1>1, AdvanceCalm DEF HandleDisconnect, handlerFrame
<1> QED
  BY <1>1, <1>3, <1>4, HandlerInv DEF HandleDisconnect, SameEntries, handlerFrame

(* Only a reset connection makes a handler fail to read: what it reads can *)
(* always be decrypted.                                                    *)
LEMMA HandlerErrorInv ==
  ASSUME Inv, NEW c \in Conns, HandlerError(c), UNCHANGED clientVars
  PROVE  Inv'
<1>1. TypeOK /\ ErrorOf(c) = "read_error" /\ hst[c] \in Live
  <2>1. hst[c] = "parse" => Decrypts(hkey[c], Incoming(c))
    BY IncomingFacts DEF Decrypts, Up, UpMessages
  <2> QED
    BY <2>1 DEF Inv, HandlerError, ErrorOf, Live
<1>2. Fail(c, "read_error")
  BY <1>1 DEF HandlerError
<1>3. /\ hst'[c] = "read_error" /\ hst' \in [Conns -> HandlerStates]
      /\ hbuf' \in [Conns -> Seq(Messages)] /\ sOpen' \in [Conns -> SUBSET Halves]
      /\ toServer' \in [Conns -> Seq(Messages)] /\ link' \in [Conns -> {"none", "open", "reset"}]
  BY <1>2, FailFacts DEF Failed
<1>4. TypeOK'
  <2>1. /\ sessions' \in [DOMAIN sessions -> Session] /\ applied' \in [Conns -> Seq(Nat)]
        /\ txq' \in [Conns -> Seq(Messages)]
    BY <1>1 DEF HandlerError, TypeOK, ServerTypeOK
  <2> QED
    BY <1>1, <1>3, <2>1, HandlerTypes DEF HandlerError, TypeOK, ServerTypeOK
<1>5. CalmQueues(c) /\ CalmHandler(c) /\ Elsewhere(c) /\ hst'[c] \in Live \cup Failed
  BY <1>1, <1>2, <1>3, FailCalm DEF HandlerError, handlerFrame
<1> QED
  BY <1>1, <1>4, <1>5, HandlerInv DEF HandlerError, SameEntries, handlerFrame

(* An input is applied, or the backend's error ends the handler.           *)
LEMMA HandleInputInv ==
  ASSUME Inv, NEW c \in Conns, HandleInput(c), UNCHANGED clientVars
  PROVE  Inv'
<1>1. TypeOK /\ hst[c] = "parse" /\ hst[c] \in Live /\ Incoming(c).arg \in Nat
  BY IncomingFacts DEF Inv, HandleInput, Takes, Live, Messages
<1>2. CASE Finish(c) /\ UNCHANGED <<sOpen, toServer, link>>
            /\ applied' = [applied EXCEPT ![c] = Append(@, Incoming(c).arg)]
  <2>1. hbuf' \in [Conns -> Seq(Messages)] /\ hst' \in [Conns -> HandlerStates]
    BY <1>1, <1>2, FinishAdvances, AdvanceFacts
  <2>2. Append(applied[c], Incoming(c).arg) \in Seq(Nat)
    BY <1>1, SeqFacts DEF TypeOK, ServerTypeOK
  <2>3. /\ sessions' \in [DOMAIN sessions -> Session] /\ txq' \in [Conns -> Seq(Messages)]
        /\ applied' \in [Conns -> Seq(Nat)]
    BY <1>1, <1>2, <2>2 DEF HandleInput, TypeOK, ServerTypeOK
  <2>4. /\ link' \in [Conns -> {"none", "open", "reset"}] /\ sOpen' \in [Conns -> SUBSET Halves]
        /\ toServer' \in [Conns -> Seq(Messages)]
    BY <1>1, <1>2 DEF TypeOK, WireTypeOK
  <2>5. TypeOK'
    BY <1>1, <2>1, <2>3, <2>4, HandlerTypes DEF HandleInput, TypeOK, ServerTypeOK
  <2>6. CalmQueues(c) /\ CalmHandler(c) /\ Elsewhere(c) /\ hst'[c] \in Live \cup Failed
    BY <1>1, <1>2, FinishAdvances, AdvanceCalm DEF HandleInput, handlerFrame
  <2> QED
    BY <1>1, <2>5, <2>6, HandlerInv DEF HandleInput, SameEntries, handlerFrame
<1>3. CASE Fail(c, "input_error") /\ UNCHANGED applied
  <2>1. /\ hst'[c] = "input_error" /\ hst' \in [Conns -> HandlerStates]
        /\ hbuf' \in [Conns -> Seq(Messages)] /\ sOpen' \in [Conns -> SUBSET Halves]
        /\ toServer' \in [Conns -> Seq(Messages)] /\ link' \in [Conns -> {"none", "open", "reset"}]
    BY <1>3, FailFacts DEF Failed
  <2>2. /\ sessions' \in [DOMAIN sessions -> Session] /\ txq' \in [Conns -> Seq(Messages)]
        /\ applied' \in [Conns -> Seq(Nat)]
    BY <1>1, <1>3 DEF HandleInput, TypeOK, ServerTypeOK
  <2>3. TypeOK'
    BY <1>1, <2>1, <2>2, HandlerTypes DEF HandleInput, TypeOK, ServerTypeOK
  <2>4. CalmQueues(c) /\ CalmHandler(c) /\ Elsewhere(c) /\ hst'[c] \in Live \cup Failed
    BY <1>1, <1>3, <2>1, FailCalm DEF HandleInput, handlerFrame
  <2> QED
    BY <1>1, <2>3, <2>4, HandlerInv DEF HandleInput, SameEntries, handlerFrame
<1> QED
  BY <1>2, <1>3 DEF HandleInput

(* A handler answers, and may change the mode of its session.              *)
LEMMA RespondInv ==
  ASSUME Inv, NEW c \in Conns, hst[c] \in {"parse", "reply"}, cst[c] # "ack",
         NEW type \in MessageTypes, NEW arg \in Nat,
         Respond(c, Encrypt(hkey[c], Message(type, arg))),
         SameEntries, sessions' \in [DOMAIN sessions -> Session],
         UNCHANGED handlerFrame, UNCHANGED <<hkey, hsid, nextSid, nextEph, applied>>,
         UNCHANGED clientVars
  PROVE  Inv'
<1> DEFINE m == Encrypt(hkey[c], Message(type, arg))
<1>1. TypeOK /\ hst[c] \in Live /\ hbuf[c] # <<>> /\ hkey[c] \in Keys
  BY IncomingFacts DEF Inv, Live
<1>2. m \in Messages /\ m.key = hkey[c]
  BY <1>1, MessageFacts
<1> HIDE DEF m
<1>3. /\ hbuf' \in [Conns -> Seq(Messages)] /\ hst' \in [Conns -> HandlerStates]
      /\ txq' \in [Conns -> Seq(Messages)] /\ sOpen' \in [Conns -> SUBSET Halves]
      /\ toServer' \in [Conns -> Seq(Messages)] /\ link' \in [Conns -> {"none", "open", "reset"}]
  BY <1>1, <1>2, RespondType DEF m
<1>4. applied' \in [Conns -> Seq(Nat)]
  BY <1>1 DEF TypeOK, ServerTypeOK
<1>5. TypeOK'
  BY <1>1, <1>3, <1>4, HandlerTypes DEF TypeOK, ServerTypeOK
<1>6. CalmQueues(c) /\ CalmHandler(c) /\ Elsewhere(c) /\ hst'[c] \in Live \cup Failed
  BY <1>2, RespondCalm DEF m, handlerFrame
<1> QED
  BY <1>1, <1>5, <1>6, HandlerInv DEF handlerFrame

(* The answer to an accepted login, queued after the session was made.     *)
LEMMA AuthReplyInv ==
  ASSUME Inv, NEW c \in Conns, AuthReply(c), UNCHANGED clientVars
  PROVE  Inv'
<1>1. hst[c] = "reply" /\ cst[c] # "ack"
  BY DEF Inv, AuthReply, ConnInv, BeforeAck
<1>2. Respond(c, Encrypt(hkey[c], Message("AuthResponse", 1))) /\ "AuthResponse" \in MessageTypes
  BY DEF AuthReply, AuthResponse, MessageTypes
<1>3. SameEntries /\ sessions' \in [DOMAIN sessions -> Session]
  BY DEF AuthReply, SameEntries, Inv, TypeOK, ServerTypeOK
<1> QED
  BY <1>1, <1>2, <1>3, RespondInv DEF AuthReply

(* A message of the stream is finished without an answer.                  *)
LEMMA IgnoreInv ==
  ASSUME Inv, NEW c \in Conns, hst[c] = "parse", Finish(c),
         UNCHANGED <<sOpen, toServer, link, txq, sessions>>,
         UNCHANGED handlerFrame, UNCHANGED <<hkey, hsid, nextSid, nextEph, applied>>,
         UNCHANGED clientVars
  PROVE  Inv'
<1>1. TypeOK /\ hst[c] \in Live
  BY DEF Inv, Live
<1>2. hbuf' \in [Conns -> Seq(Messages)] /\ hst' \in [Conns -> HandlerStates]
  BY FinishAdvances, AdvanceFacts
<1>3. TypeOK'
  <2>1. /\ link' \in [Conns -> {"none", "open", "reset"}] /\ sOpen' \in [Conns -> SUBSET Halves]
        /\ toServer' \in [Conns -> Seq(Messages)]
    BY <1>1 DEF TypeOK, WireTypeOK
  <2>2. /\ sessions' \in [DOMAIN sessions -> Session] /\ applied' \in [Conns -> Seq(Nat)]
        /\ txq' \in [Conns -> Seq(Messages)]
    BY <1>1 DEF TypeOK, ServerTypeOK
  <2> QED
    BY <1>1, <1>2, <2>1, <2>2, HandlerTypes DEF TypeOK, ServerTypeOK
<1>4. CalmQueues(c) /\ CalmHandler(c) /\ Elsewhere(c) /\ hst'[c] \in Live \cup Failed
  BY FinishAdvances, AdvanceCalm DEF handlerFrame
<1> QED
  BY <1>1, <1>3, <1>4, HandlerInv DEF SameEntries, handlerFrame

(* StartStream is answered with the session's mode.                        *)
LEMMA HandleStartStreamInv ==
  ASSUME Inv, NEW c \in Conns, HandleStartStream(c), UNCHANGED clientVars
  PROVE  Inv'
<1>1. hst[c] = "parse" /\ cst[c] # "ack" /\ TypeOK
  BY IncomingFacts DEF Inv, HandleStartStream, Takes
<1>2. CASE HasSession(c)
  <2>1. sessions[hsid[c]].mode \in Nat
    BY <1>1, <1>2 DEF HasSession, TypeOK, ServerTypeOK, Session
  <2>2. Respond(c, Encrypt(hkey[c], Message("QualityChange", sessions[hsid[c]].mode)))
    BY <1>2 DEF HandleStartStream
  <2>3. SameEntries /\ sessions' \in [DOMAIN sessions -> Session] /\ "QualityChange" \in MessageTypes
    BY <1>1 DEF HandleStartStream, SameEntries, TypeOK, ServerTypeOK, MessageTypes
  <2> QED
    BY <1>1, <2>1, <2>2, <2>3, RespondInv DEF HandleStartStream
<1>3. CASE ~HasSession(c)
  BY <1>1, <1>3, IgnoreInv DEF HandleStartStream
<1> QED
  BY <1>2, <1>3

(* A quality request forces the session's mode and is confirmed.           *)
LEMMA HandleQualityRequestInv ==
  ASSUME Inv, NEW c \in Conns, HandleQualityRequest(c), UNCHANGED clientVars
  PROVE  Inv'
<1>1. /\ hst[c] = "parse" /\ cst[c] # "ack" /\ TypeOK
      /\ Incoming(c).arg \in Nat /\ "QualityChange" \in MessageTypes
  BY IncomingFacts DEF Inv, HandleQualityRequest, Takes, Messages, MessageTypes
<1>2. CASE HasSession(c)
  <2>1. sessions' = [sessions EXCEPT ![hsid[c]].mode = Incoming(c).arg,
                                     ![hsid[c]].forced = TRUE]
    BY <1>2 DEF HandleQualityRequest
  <2>2. SameEntries /\ sessions' \in [DOMAIN sessions -> Session]
    <3>1. sessions \in [DOMAIN sessions -> Session] /\ hsid[c] \in DOMAIN sessions
      BY <1>1, <1>2 DEF HasSession, TypeOK, ServerTypeOK
    <3> QED
      BY <1>1, <2>1, <3>1 DEF SameEntries, Session
  <2>3. Respond(c, Encrypt(hkey[c], Message("QualityChange", Incoming(c).arg)))
    BY <1>2 DEF HandleQualityRequest
  <2> QED
    BY <1>1, <2>2, <2>3, RespondInv DEF HandleQualityRequest
<1>3. CASE ~HasSession(c)
  BY <1>1, <1>3, IgnoreInv DEF HandleQualityRequest
<1> QED
  BY <1>2, <1>3

(* Frame acknowledgements, and what the server ignores.                    *)
LEMMA HandleOtherInv ==
  ASSUME Inv, NEW c \in Conns, HandleOther(c), UNCHANGED clientVars
  PROVE  Inv'
  BY IgnoreInv DEF HandleOther, Takes

(* A login: the connection had no session, as its only AuthRequest is the  *)
(* one being handled.                                                      *)
LEMMA LoginInv ==
  ASSUME Inv, NEW c \in Conns, Takes(c, {"AuthRequest"}), Verified(Incoming(c)),
         Login(c, hkey[c]), UNCHANGED handlerFrame, UNCHANGED <<hkey, nextEph, applied>>,
         UNCHANGED clientVars
  PROVE  Inv'
<1>1. /\ TypeOK /\ SessionTable /\ ConnInv(c) /\ QueueTypes
      /\ hst[c] = "parse" /\ Incoming(c).type = "AuthRequest"
      /\ hkey[c] # NoKey /\ cst[c] # "ack" /\ cst[c] \notin {"none", "tcp"} /\ hkey[c] \in Keys
  BY IncomingFacts, LiveHandler, QueueTyping DEF Inv, Takes, Live
<1>2. code[c] = GoodCode /\ cst[c] # "up"
  <2>1. Incoming(c) \in Up(c)
    BY <1>1, IncomingFacts
  <2> QED
    BY <1>1, <2>1 DEF Up, UpMessages, AppTypes, Verified
<1>3. NoSession(c)
  <2>1. Len(hbuf[c]) > 0
    BY <1>1 DEF ConnInv, Handler
  <2>2. Unanswered(c)
    BY <1>1, <2>1 DEF Unanswered, QueueTypes
  <2> QED
    BY <1>1, <1>2, <2>2 DEF ConnInv, BeforeUp
<1> DEFINE entry == [conn |-> c, key |-> hkey[c], mode |-> DefaultMode, forced |-> FALSE]
<1>4. entry \in Session
  BY <1>1, ModesAssumption DEF Session
<1>5. /\ DOMAIN sessions' = DOMAIN sessions \cup {nextSid}
      /\ nextSid \notin DOMAIN sessions /\ sessions'[nextSid] = entry
      /\ \A i \in DOMAIN sessions : sessions'[i] = sessions[i]
  BY <1>1 DEF Login, Insert, TypeOK, ServerTypeOK
<1>6. /\ hsid'[c] = nextSid /\ hst'[c] = "reply"
      /\ \A d \in Conns : d # c => hsid'[d] = hsid[d] /\ hst'[d] = hst[d]
      /\ hsid' \in [Conns -> Nat] /\ hst' \in [Conns -> HandlerStates]
  BY <1>1 DEF Login, TypeOK, ServerTypeOK, HandlerStates, Live
<1>7. TypeOK'
  <2>1. WireTypeOK' /\ ClientTypeOK'
    BY <1>1 DEF Login, handlerFrame, clientVars, TypeOK, WireTypeOK, ClientTypeOK
  <2>2. sessions' \in [DOMAIN sessions' -> Session]
    <3>1. sessions' = [i \in DOMAIN sessions \cup {nextSid} |->
                         IF i = nextSid THEN entry ELSE sessions[i]]
      BY DEF Login, Insert
    <3>2. \A i \in DOMAIN sessions : sessions[i] \in Session
      BY <1>1 DEF TypeOK, ServerTypeOK
    <3> HIDE DEF entry
    <3> QED
      BY <1>4, <3>1, <3>2
  <2>3. DOMAIN sessions' \subseteq 1..(nextSid' - 1) /\ nextSid' \in Nat \ {0}
    BY <1>1, <1>5 DEF Login, TypeOK, ServerTypeOK
  <2>4. visiting' \subseteq DOMAIN sessions'
    BY DEF Login, NoReadGuard, handlerFrame
  <2> QED
    BY <1>1, <1>6, <2>1, <2>2, <2>3, <2>4 DEF Login, handlerFrame, TypeOK, ServerTypeOK
<1>8. SessionTable'
  <2> SUFFICES ASSUME NEW i \in DOMAIN sessions'
               PROVE  LET d == sessions'[i].conn IN
                        /\ hsid'[d] = i /\ sessions'[i].key = hkey'[d]
                        /\ code'[d] = GoodCode /\ hst'[d] \notin {"none", "done", "exited"}
    BY DEF SessionTable
  <2>1. CASE i = nextSid
    BY <1>2, <1>5, <1>6, <2>1 DEF clientVars
  <2>2. CASE i \in DOMAIN sessions
    <3>1. sessions[i].conn \in Conns /\ sessions[i].conn # c
      BY <1>1, <1>3, <2>2 DEF TypeOK, ServerTypeOK, Session, NoSession
    <3> QED
      BY <1>1, <1>5, <1>6, <2>2, <3>1 DEF SessionTable, clientVars
  <2> QED
    BY <1>5, <2>1, <2>2
<1>9. \A d \in Conns : d # c => Same(d)
  <2>1. \A d \in Conns : d # c => (NoSession(d) => NoSession(d)')
    BY <1>5 DEF NoSession
  <2> QED
    BY <1>6, <2>1 DEF Same, Login, handlerFrame, clientVars
<1>10. ConnInv(c)'
  <2>1. Up(c)' = Up(c) /\ Unanswered(c)' = Unanswered(c)
    BY DEF Up, Unanswered, Login, clientVars
  <2>2. Down(c)' = Down(c)
    BY <2>1 DEF Down, clientVars
  <2>3. Queues(c)'
    BY <1>1, <2>1, <2>2 DEF ConnInv, Queues, Login, handlerFrame, clientVars
  <2>4. BeforeTcp(c)' /\ BeforeAck(c)'
    BY <1>1 DEF BeforeTcp, BeforeAck, clientVars
  <2>5. AfterAck(c)' /\ BeforeUp(c)'
    BY <1>1, <1>6 DEF ConnInv, AfterAck, BeforeUp, Login, clientVars
  <2>6. Handler(c)'
    BY <1>1, <1>6 DEF ConnInv, Handler, Login, clientVars
  <2> QED
    BY <1>1, <2>3, <2>4, <2>5, <2>6 DEF ConnInv, clientVars
<1> QED
  BY <1>7, <1>8, <1>9, <1>10, OneConn

(* An AuthRequest: the login, or the refusal; it never comes without a     *)
(* key.                                                                    *)
LEMMA HandleAuthRequestInv ==
  ASSUME Inv, NEW c \in Conns, HandleAuthRequest(c), UNCHANGED clientVars
  PROVE  Inv'
<1>1. /\ hst[c] = "parse" /\ hkey[c] # NoKey /\ cst[c] # "ack" /\ TypeOK
      /\ Takes(c, {"AuthRequest"})
  BY IncomingFacts DEF Inv, HandleAuthRequest, Takes
<1>2. CASE Verified(Incoming(c))
  BY <1>1, <1>2, LoginInv DEF HandleAuthRequest
<1>3. CASE ~Verified(Incoming(c))
  <2>1. Refuse(c)
    BY <1>1, <1>3 DEF HandleAuthRequest
  <2>2. Respond(c, Encrypt(hkey[c], Message("AuthResponse", 0))) /\ "AuthResponse" \in MessageTypes
    BY <2>1 DEF Refuse, AuthResponse, MessageTypes
  <2>3. SameEntries /\ sessions' \in [DOMAIN sessions -> Session]
    BY <1>1, <2>1 DEF Refuse, SameEntries, TypeOK, ServerTypeOK
  <2> QED
    BY <1>1, <2>1, <2>2, <2>3, RespondInv DEF HandleAuthRequest, Refuse
<1> QED
  BY <1>2, <1>3

(* The key exchange gives the handler its key. The KeyExchange is all that *)
(* was under way, so nothing sent before is left that the new key could    *)
(* not decrypt; the acknowledgement is the only thing that goes back in    *)
(* plaintext.                                                              *)
LEMMA KeyFreshInv ==
  ASSUME Inv, NEW c \in Conns, HandleKeyExchange(c), writing[c], UNCHANGED clientVars
  PROVE  Inv'
<1> DEFINE ack == Message("KeyExchangeAck", nextEph)
           key == SharedKey(c, nextEph)
<1>1. /\ TypeOK /\ SessionTable /\ ConnInv(c) /\ QueueTypes
      /\ hst[c] = "parse" /\ hbuf[c] # <<>> /\ cst[c] \notin {"none", "tcp"}
      /\ Incoming(c).type = "KeyExchange" /\ Incoming(c) \in Up(c)
      /\ nextEph \in Nat \ {0}
  BY IncomingFacts, LiveHandler, QueueTyping
  DEF Inv, HandleKeyExchange, Takes, Live, TypeOK, ServerTypeOK
<1>2. hkey[c] = NoKey /\ Incoming(c).arg = c /\ cst[c] \notin {"auth", "up"}
  BY <1>1 DEF Up, UpMessages, AppTypes, ConnInv, AfterAck
<1>3. /\ Len(hbuf[c]) > 0 /\ Len(hbuf[c]) + Len(toServer[c]) <= 1
      /\ Len(hbuf[c]) \in Nat /\ Len(toServer[c]) \in Nat
  BY <1>1, <1>2, SeqFacts DEF ConnInv, Handler, BeforeUp, QueueTypes
<1>4. NoSession(c)
  <2>1. Unanswered(c)
    BY <1>1, <1>3 DEF Unanswered, QueueTypes
  <2> QED
    BY <1>1, <1>2, <2>1 DEF ConnInv, BeforeUp
<1>5. /\ ack \in Messages /\ ack.key = NoKey /\ ack.type = "KeyExchangeAck" /\ ack.arg = nextEph
      /\ key \in Keys /\ key # NoKey
  <2>1. ack \in Messages /\ ack = [type |-> "KeyExchangeAck", key |-> NoKey, arg |-> nextEph]
    BY <1>1, MessageFacts, KeyFacts DEF MessageTypes
  <2> QED
    BY <1>1, <2>1, KeyFacts
<1>6. /\ Finish(c) /\ UNCHANGED <<sOpen, toServer, link>>
      /\ txq' = [txq EXCEPT ![c] = Append(@, ack)]
      /\ hkey' = [hkey EXCEPT ![c] = key]
  BY <1>2 DEF HandleKeyExchange, Respond
<1> HIDE DEF ack, key
<1>7. /\ hbuf' \in [Conns -> Seq(Messages)] /\ Len(hbuf'[c]) = Len(hbuf[c]) - 1
      /\ hst' \in [Conns -> HandlerStates] /\ hst'[c] \in {"read", "parse"}
      /\ hst'[c] = "parse" => Len(hbuf'[c]) > 0
      /\ \A d \in Conns : d # c => hst'[d] = hst[d] /\ hbuf'[d] = hbuf[d]
  BY <1>1, <1>6, FinishAdvances, AdvanceFacts
<1>8. /\ Append(txq[c], ack) \in Seq(Messages) /\ txq'[c] = Append(txq[c], ack)
      /\ Len(txq'[c]) = Len(txq[c]) + 1
      /\ txq' \in [Conns -> Seq(Messages)] /\ \A d \in Conns : d # c => txq'[d] = txq[d]
  <2>1. /\ Append(txq[c], ack) \in Seq(Messages)
        /\ Len(Append(txq[c], ack)) = Len(txq[c]) + 1
    BY <1>1, <1>5, SeqFacts DEF QueueTypes
  <2> QED
    BY <1>1, <1>6, <2>1 DEF QueueTypes
<1>9. /\ hkey' \in [Conns -> Keys] /\ hkey'[c] = key
      /\ \A d \in Conns : d # c => hkey'[d] = hkey[d]
  BY <1>1, <1>5, <1>6 DEF TypeOK, ServerTypeOK
<1>10. TypeOK'
  <2>1. /\ sessions' \in [DOMAIN sessions -> Session] /\ applied' \in [Conns -> Seq(Nat)]
        /\ nextEph' \in Nat \ {0}
    BY <1>1 DEF HandleKeyExchange, TypeOK, ServerTypeOK
  <2>2. /\ link' \in [Conns -> {"none", "open", "reset"}] /\ sOpen' \in [Conns -> SUBSET Halves]
        /\ toServer' \in [Conns -> Seq(Messages)]
    BY <1>1, <1>6 DEF TypeOK, WireTypeOK
  <2> QED
    BY <1>1, <1>7, <1>8, <1>9, <2>1, <2>2, HandlerTypes DEF HandleKeyExchange
<1>11. SessionTable' /\ \A d \in Conns : NoSession(d) => NoSession(d)'
  <2>1. UNCHANGED <<sessions, hsid, code>>
    BY DEF HandleKeyExchange, clientVars
  <2>2. NoSession(c)'
    BY <1>4, <2>1 DEF NoSession
  <2>3. TableCalm
    BY <1>7, <1>9, <2>1, <2>2 DEF TableCalm
  <2> QED
    BY <1>1, <2>3, TableFacts
<1>12. \A d \in Conns : d # c => Same(d)
  BY <1>6, <1>7, <1>8, <1>9, <1>11 DEF Same, HandleKeyExchange, handlerFrame, clientVars
<1>13. /\ Len(hbuf'[c]) = 0 /\ Len(toServer'[c]) = 0
       /\ Len(hbuf'[c]) + Len(toServer'[c]) = 0
  <2>1. \A a, b \in Nat : a > 0 /\ a + b <= 1 => a - 1 = 0 /\ b = 0
    OBVIOUS
  <2>2. Len(hbuf[c]) - 1 = 0 /\ Len(toServer[c]) = 0
    BY <1>3, <2>1
  <2>3. Len(hbuf'[c]) = 0 /\ Len(toServer'[c]) = 0
    BY <1>6, <1>7, <2>2
  <2> QED
    BY <2>3
<1>14. hbuf'[c] = <<>> /\ toServer'[c] = <<>>
  BY <1>1, <1>6, <1>7, <1>13, SeqFacts DEF QueueTypes
<1>15. Queues(c)'
  <2>1. ack \in Down(c)'
    BY <1>2, <1>5, <1>9 DEF Down, DownMessages, clientVars, key
  <2>2. CASE cst[c] = "ack"
    <3>1. Len(txq[c]) = 0 /\ Len(toClient[c]) = 0
      BY <1>1, <1>2, <2>2 DEF ConnInv, BeforeAck, QueueTypes
    <3>2. txq[c] = <<>> /\ toClient[c] = <<>>
      BY <1>1, <3>1, SeqFacts DEF QueueTypes
    <3>3. txq[c] \in Seq(Down(c)') /\ toClient[c] \in Seq(Down(c)')
      BY <3>2, EmptySeq
    <3> QED
      BY <1>1, <1>8, <1>14, <2>1, <3>3, SeqFacts, EmptySeq
      DEF ConnInv, Queues, HandleKeyExchange, handlerFrame, clientVars
  <2>3. CASE cst[c] # "ack"
    <3>1. Down(c)' = Messages
      BY <1>2, <2>3 DEF Down, DownMessages, clientVars
    <3> QED
      BY <1>1, <1>8, <1>14, <3>1, EmptySeq
      DEF ConnInv, Queues, QueueTypes, HandleKeyExchange, handlerFrame, clientVars
  <2> QED
    BY <2>2, <2>3
<1>16. BeforeTcp(c)' /\ AfterAck(c)' /\ Handler(c)'
  BY <1>1, <1>2, <1>7 DEF BeforeTcp, AfterAck, Handler, ConnInv, clientVars
<1>17. BeforeAck(c)'
  <2> SUFFICES ASSUME cst[c] = "ack" PROVE BeforeAck(c)'
    BY DEF BeforeAck, clientVars
  <2>1. Len(txq[c]) + Len(toClient[c]) = 0
    BY <1>1, <1>2 DEF ConnInv, BeforeAck
  <2>2. Len(txq'[c]) + Len(toClient'[c]) <= 1
    BY <1>1, <1>8, <2>1 DEF QueueTypes, HandleKeyExchange, handlerFrame
  <2> QED
    BY <1>5, <1>7, <1>9, <1>13, <2>2 DEF BeforeAck
<1>18. BeforeUp(c)'
  <2>1. ~Unanswered(c)'
    BY <1>13 DEF Unanswered
  <2>2. Len(hbuf'[c]) + Len(toServer'[c]) <= 1
    BY <1>13
  <2> QED
    BY <1>1, <1>2, <1>4, <1>11, <2>1, <2>2 DEF ConnInv, BeforeUp, clientVars
<1>19. ConnInv(c)'
  BY <1>1, <1>15, <1>16, <1>17, <1>18 DEF ConnInv, clientVars
<1> QED
  BY <1>10, <1>11, <1>12, <1>19, OneConn

(* A KeyExchange, with a writer task to answer it or without.              *)
LEMMA HandleKeyExchangeInv ==
  ASSUME Inv, NEW c \in Conns, HandleKeyExchange(c), UNCHANGED clientVars
  PROVE  Inv'
<1>1. CASE writing[c]
  BY <1>1, KeyFreshInv
<1>2. CASE ~writing[c]
  <2>1. TypeOK /\ hst[c] \in Live
    BY DEF Inv, HandleKeyExchange, Takes, Live
  <2>2. Fail(c, "send_error") /\ UNCHANGED txq /\ UNCHANGED hkey
    BY <1>2, <2>1 DEF HandleKeyExchange, Respond, TypeOK, ServerTypeOK
  <2>3. /\ hst'[c] = "send_error" /\ hst' \in [Conns -> HandlerStates]
        /\ hbuf' \in [Conns -> Seq(Messages)] /\ sOpen' \in [Conns -> SUBSET Halves]
        /\ toServer' \in [Conns -> Seq(Messages)] /\ link' \in [Conns -> {"none", "open", "reset"}]
    BY <2>2, FailFacts DEF Failed
  <2>4. /\ sessions' \in [DOMAIN sessions -> Session] /\ txq' \in [Conns -> Seq(Messages)]
        /\ applied' \in [Conns -> Seq(Nat)] /\ nextEph' \in Nat \ {0} /\ hkey' \in [Conns -> Keys]
    BY <2>1, <2>2 DEF HandleKeyExchange, TypeOK, ServerTypeOK
  <2>5. TypeOK'
    BY <2>1, <2>3, <2>4, HandlerTypes DEF HandleKeyExchange
  <2>6. CalmQueues(c) /\ CalmHandler(c) /\ Elsewhere(c) /\ hst'[c] \in Live \cup Failed
    BY <2>1, <2>2, <2>3, FailCalm DEF HandleKeyExchange, handlerFrame
  <2> QED
    BY <2>1, <2>2, <2>5, <2>6, HandlerInv DEF HandleKeyExchange, SameEntries, handlerFrame
<1> QED
  BY <1>1, <1>2

(* The end of the stream: the handler's own entry leaves the table.        *)
LEMMA CleanupInv ==
  ASSUME Inv, NEW c \in Conns, Cleanup(c), UNCHANGED clientVars
  PROVE  Inv'
<1>1. /\ TypeOK /\ SessionTable /\ ConnInv(c) /\ QueueTypes /\ cst[c] \notin {"none", "tcp"}
      /\ hst[c] = "read" /\ toServer[c] = <<>>
  BY LiveHandler, QueueTyping DEF Inv, Cleanup, Live, ServerAtEof
<1>2. ServerDrops(c, Halves, <<>>)
  BY DEF Cleanup
<1>3. toServer' = toServer /\ link' = link /\ sOpen' \in [Conns -> SUBSET Halves]
  BY <1>1, <1>2 DEF ServerDrops, QueueTypes, TypeOK, WireTypeOK
<1>4. /\ hst' \in [Conns -> HandlerStates] /\ hst'[c] = "done"
      /\ hbuf' \in [Conns -> Seq(Messages)] /\ hbuf'[c] = <<>>
      /\ txq' \in [Conns -> Seq(Messages)] /\ txq'[c] = <<>>
      /\ writing' \in [Conns -> BOOLEAN]
      /\ \A d \in Conns : d # c => hst'[d] = hst[d] /\ hbuf'[d] = hbuf[d] /\ txq'[d] = txq[d]
  BY <1>1, EmptySeq DEF Cleanup, TypeOK, ServerTypeOK, HandlerStates
<1>5. /\ DOMAIN sessions' = DOMAIN sessions \ {hsid[c]}
      /\ \A i \in DOMAIN sessions' : sessions'[i] = sessions[i]
  BY DEF Cleanup, Remove
<1>6. TypeOK'
  <2>1. WireTypeOK' /\ ClientTypeOK'
    BY <1>1, <1>3 DEF Cleanup, clientVars, TypeOK, WireTypeOK, ClientTypeOK
  <2>2. sessions' \in [DOMAIN sessions' -> Session]
    BY <1>1 DEF Cleanup, Remove, TypeOK, ServerTypeOK
  <2>3. visiting' \subseteq DOMAIN sessions'
    <3>1. hsid[c] = 0 => DOMAIN sessions' = DOMAIN sessions
      <4>1. nextSid \in Nat /\ DOMAIN sessions \subseteq 1..(nextSid - 1)
        BY <1>1 DEF TypeOK, ServerTypeOK
      <4>2. 0 \notin DOMAIN sessions
        BY <4>1
      <4> QED
        BY <1>5, <4>2
    <3> QED
      BY <1>1, <3>1 DEF Cleanup, NoReadGuard, TypeOK, ServerTypeOK
  <2>4. DOMAIN sessions' \subseteq 1..(nextSid' - 1) /\ nextSid' \in Nat \ {0}
    BY <1>1, <1>5 DEF Cleanup, TypeOK, ServerTypeOK
  <2> QED
    BY <1>1, <1>4, <2>1, <2>2, <2>3, <2>4 DEF Cleanup, TypeOK, ServerTypeOK
<1>7. TableCalm
  <2>1. NoSession(c)'
    BY <1>1, <1>5 DEF SessionTable, NoSession
  <2> QED
    BY <1>4, <1>5, <2>1 DEF TableCalm, Cleanup, clientVars
<1>8. CalmQueues(c)
  <2>1. QueueTypes'
    BY <1>6, NextQueueTyping
  <2>2. txq'[c] \in Seq(Down(c)) /\ toClient'[c] \in Seq(Down(c))
    BY <1>1, <1>4, EmptySeq DEF ConnInv, Queues, Cleanup
  <2>3. Len(txq'[c]) + Len(toClient'[c]) <= Len(txq[c]) + Len(toClient[c])
    BY <1>1, <1>4 DEF QueueTypes, Cleanup
  <2> QED
    BY <1>1, <1>3, <1>4, <2>1, <2>2, <2>3, ShrinkQueues DEF ConnInv, Queues, clientVars
<1>9. CalmHandler(c)
  BY <1>1, <1>4 DEF CalmHandler
<1>10. (NoSession(c) => NoSession(c)') => SameStage(c)
  BY <1>1, <1>3 DEF SameStage, Cleanup, clientVars
<1>11. \A d \in Conns : d # c => ((NoSession(d) => NoSession(d)') => Same(d))
  BY <1>3, <1>4 DEF Same, Cleanup, clientVars
<1> QED
  BY <1>6, <1>7, <1>8, <1>9, <1>10, <1>11, CalmStep

(* The writer task moves its oldest message to the socket, or loses it to  *)
(* a closed one.                                                           *)
LEMMA ServerWriteInv ==
  ASSUME Inv, NEW c \in Conns, ServerWrite(c), UNCHANGED clientVars
  PROVE  Inv'
<1> DEFINE m == Head(txq[c])
<1>1. /\ TypeOK /\ SessionTable /\ ConnInv(c) /\ QueueTypes
      /\ txq[c] # <<>> /\ link[c] = "open" /\ ServerPuts(c, m)
  BY QueueTyping DEF Inv, ServerWrite, ServerCanWrite
<1>2. /\ m \in Messages /\ Tail(txq[c]) \in Seq(Messages)
      /\ m \in Down(c) /\ Tail(txq[c]) \in Seq(Down(c))
      /\ Len(Tail(txq[c])) = Len(txq[c]) - 1 /\ Len(txq[c]) \in Nat
  <2>1. txq[c] \in Seq(Messages) /\ txq[c] \in Seq(Down(c))
    BY <1>1 DEF QueueTypes, ConnInv, Queues
  <2> QED
    BY <1>1, <2>1, SeqFacts
<1> HIDE DEF m
<1>3. /\ txq' \in [Conns -> Seq(Messages)] /\ txq'[c] = Tail(txq[c])
      /\ \A d \in Conns : d # c => txq'[d] = txq[d]
  BY <1>1, <1>2 DEF ServerWrite, QueueTypes
<1>4. /\ toClient' \in [Conns -> Seq(Messages)] /\ link' \in [Conns -> {"none", "open", "reset"}]
  BY <1>1, <1>2, ServerPutsType
<1>5. /\ toClient'[c] \in {toClient[c], Append(toClient[c], m)}
      /\ \A d \in Conns : d # c => toClient'[d] = toClient[d] /\ link'[d] = link[d]
  BY <1>1 DEF ServerPuts, TypeOK, WireTypeOK
<1>6. /\ Append(toClient[c], m) \in Seq(Down(c))
      /\ Len(Append(toClient[c], m)) = Len(toClient[c]) + 1 /\ Len(toClient[c]) \in Nat
  BY <1>1, <1>2, SeqFacts DEF ConnInv, Queues
<1>7. TypeOK'
  <2>1. WireTypeOK' /\ ClientTypeOK'
    BY <1>1, <1>4 DEF ServerWrite, writerFrame, clientVars, TypeOK, WireTypeOK, ClientTypeOK
  <2> QED
    BY <1>1, <1>3, <2>1 DEF ServerWrite, writerFrame, TypeOK, ServerTypeOK
<1>8. TableCalm
  BY DEF TableCalm, ServerWrite, writerFrame, clientVars
<1>9. CalmQueues(c)
  <2>1. QueueTypes'
    BY <1>7, NextQueueTyping
  <2>2. txq'[c] \in Seq(Down(c)) /\ toClient'[c] \in Seq(Down(c))
    BY <1>1, <1>2, <1>3, <1>5, <1>6 DEF ConnInv, Queues
  <2>3. Len(txq'[c]) + Len(toClient'[c]) <= Len(txq[c]) + Len(toClient[c])
    <3>1. \A a, b, x, y \in Nat : x = a - 1 /\ y \in {b, b + 1} => x + y <= a + b
      OBVIOUS
    <3>2. Len(txq'[c]) \in Nat /\ Len(toClient'[c]) \in Nat
      BY <2>1, SeqFacts DEF QueueTypes
    <3> QED
      BY <1>2, <1>3, <1>5, <1>6, <3>1, <3>2
  <2> QED
    BY <1>1, <2>1, <2>2, <2>3, ShrinkQueues
    DEF ConnInv, Queues, ServerWrite, writerFrame, clientVars
<1>10. CalmHandler(c)
  BY <1>1 DEF CalmHandler, ServerWrite, writerFrame, ConnInv, Handler, BeforeTcp, BeforeAck
<1>11. (NoSession(c) => NoSession(c)') => SameStage(c)
  BY <1>1 DEF SameStage, ConnInv, BeforeTcp, ServerWrite, writerFrame, clientVars
<1>12. \A d \in Conns : d # c => ((NoSession(d) => NoSession(d)') => Same(d))
  BY <1>3, <1>5 DEF Same, ServerWrite, writerFrame, clientVars
<1> QED
  BY <1>7, <1>8, <1>9, <1>10, <1>11, <1>12, CalmStep

(* The writer task ends and drops its half and its channel.                *)
LEMMA ServerWriterEndsInv ==
  ASSUME Inv, NEW c \in Conns, ServerWriterEnds(c), UNCHANGED clientVars
  PROVE  Inv'
<1>1. /\ TypeOK /\ ConnInv(c) /\ QueueTypes /\ toServer[c] \in Seq(Messages)
      /\ ServerDrops(c, {"w"}, toServer[c])
  BY QueueTyping DEF Inv, ServerWriterEnds, QueueTypes
<1>2. /\ toServer' \in [Conns -> Seq(Messages)] /\ link' \in [Conns -> {"none", "open", "reset"}]
      /\ sOpen' \in [Conns -> SUBSET Halves]
  BY <1>1, ServerDropsType
<1>3. /\ toServer'[c] \in {toServer[c], <<>>} /\ (toServer[c] = <<>> => link'[c] = link[c])
      /\ \A d \in Conns : d # c => toServer'[d] = toServer[d] /\ link'[d] = link[d]
  BY <1>1 DEF ServerDrops, TypeOK, WireTypeOK
<1>4. /\ txq' \in [Conns -> Seq(Messages)] /\ txq'[c] = <<>>
      /\ writing' \in [Conns -> BOOLEAN]
      /\ \A d \in Conns : d # c => txq'[d] = txq[d]
  BY <1>1, EmptySeq DEF ServerWriterEnds, TypeOK, ServerTypeOK
<1>5. TypeOK'
  <2>1. WireTypeOK' /\ ClientTypeOK'
    BY <1>1, <1>2 DEF ServerWriterEnds, clientVars, TypeOK, WireTypeOK, ClientTypeOK
  <2> QED
    BY <1>1, <1>4, <2>1 DEF ServerWriterEnds, TypeOK, ServerTypeOK
<1>6. TableCalm
  BY DEF TableCalm, ServerWriterEnds, clientVars
<1>7. CalmQueues(c)
  <2>1. QueueTypes'
    BY <1>5, NextQueueTyping
  <2>2. txq'[c] \in Seq(Down(c)) /\ toClient'[c] \in Seq(Down(c))
    BY <1>1, <1>4, EmptySeq DEF ConnInv, Queues, ServerWriterEnds
  <2>3. Len(txq'[c]) + Len(toClient'[c]) <= Len(txq[c]) + Len(toClient[c])
    BY <1>1, <1>4 DEF QueueTypes, ServerWriterEnds
  <2> QED
    BY <1>1, <1>3, <2>1, <2>2, <2>3, ShrinkQueues
    DEF ConnInv, Queues, ServerWriterEnds, clientVars
<1>8. CalmHandler(c)
  BY <1>1, StillHandler DEF ServerWriterEnds
<1>9. (NoSession(c) => NoSession(c)') => SameStage(c)
  BY <1>3, NoLink DEF SameStage, ServerWriterEnds, clientVars
<1>10. \A d \in Conns : d # c => ((NoSession(d) => NoSession(d)') => Same(d))
  BY <1>3, <1>4 DEF Same, ServerWriterEnds, clientVars
<1> QED
  BY <1>5, <1>6, <1>7, <1>8, <1>9, <1>10, CalmStep

(* A frame is captured: the capture loop takes the read guard.             *)
LEMMA CaptureInv ==
  ASSUME Inv, Capture, UNCHANGED clientVars
  PROVE  Inv'
<1>1. TypeOK
  BY DEF Inv
<1>2. TypeOK'
  <2>1. WireTypeOK' /\ ClientTypeOK'
    BY <1>1 DEF Capture, captureFrame, wireVars, clientVars, TypeOK, WireTypeOK, ClientTypeOK
  <2>2. frame' \in 0..MaxFrames
    BY <1>1, FramesAssumption DEF Capture, TypeOK, ServerTypeOK
  <2> QED
    BY <1>1, <2>1, <2>2 DEF Capture, captureFrame, TypeOK, ServerTypeOK
<1>3. TableCalm
  BY DEF TableCalm, Capture, captureFrame, clientVars
<1>4. \A d \in Conns : (NoSession(d) => NoSession(d)') => Same(d)
  BY DEF Same, Capture, captureFrame, wireVars, clientVars
<1> QED
  BY <1>2, <1>3, <1>4, AllSame

(* The code expires: sessions that exist are not concerned.                *)
LEMMA ExpireCodeInv ==
  ASSUME Inv, ExpireCode, UNCHANGED clientVars
  PROVE  Inv'
<1>1. TypeOK
  BY DEF Inv
<1>2. TypeOK'
  <2>1. WireTypeOK' /\ ClientTypeOK'
    BY <1>1 DEF ExpireCode, wireVars, clientVars, TypeOK, WireTypeOK, ClientTypeOK
  <2> QED
    BY <1>1, <2>1 DEF ExpireCode, TypeOK, ServerTypeOK
<1>3. TableCalm
  BY DEF TableCalm, ExpireCode, clientVars
<1>4. \A d \in Conns : (NoSession(d) => NoSession(d)') => Same(d)
  BY DEF Same, ExpireCode, wireVars, clientVars
<1> QED
  BY <1>2, <1>3, <1>4, AllSame

(* The controller changes the mode of a session and nothing else of it.    *)
LEMMA AdaptsFacts ==
  ASSUME TypeOK, NEW id \in visiting, \E mode \in Modes : Adapts(id, mode)
  PROVE  /\ SameEntries /\ sessions' \in [DOMAIN sessions -> Session]
         /\ sessions[id].conn \in Conns /\ id \in DOMAIN sessions
<1>1. PICK mode \in Modes : Adapts(id, mode)
  OBVIOUS
<1>2. mode \in Nat
  BY ModesAssumption
<1>3. /\ sessions \in [DOMAIN sessions -> Session] /\ id \in DOMAIN sessions
  BY DEF TypeOK, ServerTypeOK
<1> QED
  BY <1>1, <1>2, <1>3 DEF Adapts, SameEntries, Session

(* A session is visited and its pacing skips the frame.                    *)
LEMMA SkipSessionInv ==
  ASSUME Inv, NEW id, SkipSession(id), UNCHANGED clientVars
  PROVE  Inv'
<1>1. TypeOK /\ SameEntries /\ sessions' \in [DOMAIN sessions -> Session]
  BY AdaptsFacts DEF Inv, SkipSession
<1>2. TypeOK'
  <2>1. WireTypeOK' /\ ClientTypeOK'
    BY <1>1 DEF SkipSession, captureFrame, wireVars, clientVars, TypeOK, WireTypeOK, ClientTypeOK
  <2>2. DOMAIN sessions' = DOMAIN sessions
    BY <1>1
  <2> QED
    BY <1>1, <2>1, <2>2 DEF SkipSession, captureFrame, TypeOK, ServerTypeOK
<1>3. TableCalm
  BY <1>1 DEF TableCalm, SameEntries, SkipSession, captureFrame, clientVars
<1>4. \A d \in Conns : (NoSession(d) => NoSession(d)') => Same(d)
  BY DEF Same, SkipSession, captureFrame, wireVars, clientVars
<1> QED
  BY <1>2, <1>3, <1>4, AllSame

(* A frame is encrypted with the key of the session, which is the          *)
(* handler's key and, since there is a session, the client's.              *)
LEMMA SendFrameInv ==
  ASSUME Inv, NEW id, SendFrame(id), UNCHANGED clientVars
  PROVE  Inv'
<1>1. /\ TypeOK /\ SameEntries /\ sessions' \in [DOMAIN sessions -> Session]
      /\ id \in DOMAIN sessions /\ sessions[id] \in Session /\ frame \in Nat
  <2>1. TypeOK /\ id \in visiting /\ \E mode \in Modes : Adapts(id, mode)
    BY DEF Inv, SendFrame
  <2>2. frame \in Nat /\ sessions \in [DOMAIN sessions -> Session]
    BY <2>1, FramesAssumption DEF TypeOK, ServerTypeOK
  <2> QED
    BY <2>1, <2>2, AdaptsFacts
<1>2. PICK c \in Conns : c = sessions[id].conn
  BY <1>1 DEF Session
<1> DEFINE m == Encrypt(sessions[id].key, Message("ScreenFrame", frame))
<1>3. ConnInv(c) /\ QueueTypes /\ ~NoSession(c) /\ sessions[id].key = hkey[c]
  BY <1>2, <1>1, QueueTyping DEF Inv, NoSession, SessionTable
<1>4. m \in Messages /\ m.key = hkey[c] /\ m.type = "ScreenFrame"
  <2>1. m \in Messages /\ m = [type |-> "ScreenFrame", key |-> sessions[id].key, arg |-> frame]
    BY <1>1, MessageFacts DEF MessageTypes, Session
  <2> QED
    BY <1>3, <2>1
<1>5. cst[c] \notin {"none", "tcp", "ack"}
  BY <1>3 DEF ConnInv, BeforeUp
<1>6. txq' = [txq EXCEPT ![c] = IF writing[c] THEN Append(@, m) ELSE @]
  BY <1>2 DEF SendFrame
<1> HIDE DEF m
<1>7. m \in Down(c)
  BY <1>3, <1>4, <1>5 DEF ConnInv, AfterAck, Down, DownMessages
<1>8. /\ Append(txq[c], m) \in Seq(Messages) /\ Append(txq[c], m) \in Seq(Down(c))
      /\ txq[c] \in Seq(Messages) /\ txq[c] \in Seq(Down(c))
  BY <1>1, <1>3, <1>4, <1>7, SeqFacts DEF QueueTypes, ConnInv, Queues
<1>9. /\ txq' \in [Conns -> Seq(Messages)] /\ txq'[c] \in Seq(Down(c))
      /\ \A d \in Conns : d # c => txq'[d] = txq[d]
  BY <1>1, <1>3, <1>6, <1>8 DEF QueueTypes
<1>10. TypeOK'
  <2>1. WireTypeOK' /\ ClientTypeOK'
    BY <1>1 DEF SendFrame, captureFrame, wireVars, clientVars, TypeOK, WireTypeOK, ClientTypeOK
  <2>2. DOMAIN sessions' = DOMAIN sessions
    BY <1>1
  <2> QED
    BY <1>1, <1>9, <2>1, <2>2 DEF SendFrame, captureFrame, TypeOK, ServerTypeOK
<1>11. TableCalm
  BY <1>1 DEF TableCalm, SameEntries, SendFrame, captureFrame, clientVars
<1>12. CalmQueues(c)
  <2>1. QueueTypes'
    BY <1>10, NextQueueTyping
  <2> QED
    BY <1>1, <1>3, <1>5, <1>9, <2>1, ShrinkQueues
    DEF ConnInv, Queues, SendFrame, captureFrame, wireVars, clientVars
<1>13. CalmHandler(c)
  BY <1>1, <1>3, StillHandler DEF SendFrame, captureFrame
<1>14. (NoSession(c) => NoSession(c)') => SameStage(c)
  BY <1>5 DEF SameStage, SendFrame, captureFrame, wireVars, clientVars
<1>15. \A d \in Conns : d # c => ((NoSession(d) => NoSession(d)') => Same(d))
  BY <1>9 DEF Same, SendFrame, captureFrame, wireVars, clientVars
<1> QED
  BY <1>1, <1>10, <1>11, <1>12, <1>13, <1>14, <1>15, CalmStep

(* The server process ends: nothing it held is left.                       *)
LEMMA ServerExitInv ==
  ASSUME Inv, ServerExit, UNCHANGED clientVars
  PROVE  Inv'
<1>1. TypeOK /\ QueueTypes
  BY QueueTyping DEF Inv
<1>2. TypeOK'
  <2>1. /\ toServer' \in [Conns -> Seq(Messages)] /\ link' \in [Conns -> {"none", "open", "reset"}]
        /\ sOpen' \in [Conns -> SUBSET Halves] /\ listening' \in BOOLEAN
    BY <1>1, EmptySeq DEF ServerExit, TypeOK, WireTypeOK
  <2>2. WireTypeOK' /\ ClientTypeOK'
    BY <1>1, <2>1 DEF ServerExit, clientVars, TypeOK, WireTypeOK, ClientTypeOK
  <2>3. hst' \in [Conns -> HandlerStates]
    BY <1>1 DEF ServerExit, TypeOK, ServerTypeOK, HandlerStates
  <2>4. /\ hbuf' \in [Conns -> Seq(Messages)] /\ txq' \in [Conns -> Seq(Messages)]
        /\ writing' \in [Conns -> BOOLEAN]
    BY EmptySeq DEF ServerExit
  <2>5. /\ DOMAIN sessions' = {} /\ sessions' \in [DOMAIN sessions' -> Session] /\ visiting' = {}
    BY DEF ServerExit
  <2>6. ServerTypeOK'
    BY <1>1, <2>3, <2>4, <2>5 DEF ServerExit, TypeOK, ServerTypeOK
  <2> QED
    BY <2>2, <2>6 DEF TypeOK
<1>3. DOMAIN sessions' = {}
  BY DEF ServerExit
<1>4. TableCalm
  BY <1>3 DEF TableCalm, NoSession
<1>5. ASSUME NEW d \in Conns
      PROVE  CalmQueues(d) /\ CalmHandler(d) /\ ((NoSession(d) => NoSession(d)') => SameStage(d))
  <2>1. /\ hbuf'[d] = <<>> /\ toServer'[d] = <<>> /\ txq'[d] = <<>> /\ toClient'[d] = toClient[d]
        /\ link'[d] = IF toServer[d] # <<>> THEN "reset" ELSE link[d]
        /\ hst'[d] = IF hst[d] \in Live \cup {"none"} THEN "exited" ELSE hst[d]
    BY DEF ServerExit
  <2>2. ConnInv(d) /\ QueueTypes'
    BY <1>2, NextQueueTyping DEF Inv
  <2>3. CalmQueues(d)
    <3>1. txq'[d] \in Seq(Down(d)) /\ toClient'[d] \in Seq(Down(d))
      BY <2>1, <2>2, EmptySeq DEF ConnInv, Queues
    <3>2. Len(txq'[d]) + Len(toClient'[d]) <= Len(txq[d]) + Len(toClient[d])
      BY <1>1, <2>1 DEF QueueTypes
    <3> QED
      BY <2>1, <2>2, <3>1, <3>2, ShrinkQueues DEF ConnInv, Queues, clientVars
  <2>4. CalmHandler(d)
    <3>1. ~Unanswered(d)'
      <4>1. Len(hbuf'[d]) = 0 /\ Len(toServer'[d]) = 0
        BY <2>1
      <4> QED
        BY <4>1 DEF Unanswered
    <3>2. hst'[d] \notin {"parse", "reply", "bad_message", "no_key"}
      BY <2>1, <2>2 DEF Live, ConnInv, Handler
    <3> QED
      BY <2>1, <3>1, <3>2, NoLink DEF CalmHandler
  <2>5. (NoSession(d) => NoSession(d)') => SameStage(d)
    BY <2>1, NoLink DEF SameStage, ServerExit, clientVars
  <2> QED
    BY <2>3, <2>4, <2>5
<1> QED
  BY <1>2, <1>4, <1>5, AllCalm
=============================================================================
