---------------------------- MODULE VoxInvariant ----------------------------
(***************************************************************************)
(* The inductive invariant of VoxSystem, and the classes of steps that keep*)
(* it. The proofs are in VoxServerProofs and VoxClientProofs.              *)
(*                                                                         *)
(* Neither the session table nor the agreement of keys is inductive. What  *)
(* makes them hold is which messages can be under way in which stage of a  *)
(* connection: before the server has a key only the KeyExchange, and one   *)
(* of it; until the login is answered only the AuthRequest, and one of it; *)
(* afterwards only what the application sends. ConnInv says this for one   *)
(* connection; types are part of the same induction, since keys are made   *)
(* from the contents of messages.                                          *)
(***************************************************************************)
EXTENDS VoxSystem

AppTypes == {"StartStream", "RequestQualityChange", "Input", "FrameAck", "Disconnect"}
AppMessages == {m \in Messages : m.type \in AppTypes}

(* What may be under way to the handler of c, given its key, the client's  *)
(* stage and the code it was started with.                                 *)
UpMessages(c, key, stage, typed) ==
    {m \in Messages :
        /\ m.key = key
        /\ IF key = NoKey THEN m.type = "KeyExchange" /\ m.arg = c
           ELSE IF stage = "up" THEN m.type \in AppTypes
           ELSE m.type = "AuthRequest" /\ m.arg = typed}

(* What may be under way to the client of c, given both keys, its stage    *)
(* and whether its own request is still under way.                         *)
DownMessages(c, skey, key, stage, unanswered) ==
    {m \in Messages :
        /\ stage = "ack" =>
              m.key = NoKey /\ m.type = "KeyExchangeAck" /\ skey = SharedKey(c, m.arg)
        /\ stage \in {"auth", "up"} => m.key = key
        /\ stage = "auth" /\ unanswered => m.type # "AuthResponse"}

Unanswered(c) == Len(hbuf[c]) + Len(toServer[c]) > 0
Up(c) == UpMessages(c, hkey[c], cst[c], code[c])
Down(c) == DownMessages(c, hkey[c], ckey[c], cst[c], Unanswered(c))
NoSession(c) == \A i \in DOMAIN sessions : sessions[i].conn # c

Queues(c) ==
    /\ hbuf[c] \in Seq(Up(c)) /\ toServer[c] \in Seq(Up(c))
    /\ txq[c] \in Seq(Down(c)) /\ toClient[c] \in Seq(Down(c))
    /\ wrq[c] \in Seq(AppMessages) /\ inq[c] \in Seq(AppMessages)

(* The stages of a connection, as far as the client has come.              *)
BeforeTcp(c) ==
    cst[c] \in {"none", "tcp"} =>
        /\ hkey[c] = NoKey /\ link[c] = "none" /\ hst[c] \in {"none", "exited"}
        /\ Len(hbuf[c]) + Len(toServer[c]) = 0 /\ Len(txq[c]) + Len(toClient[c]) = 0
BeforeAck(c) ==
    cst[c] = "ack" =>
        /\ hst[c] # "reply"
        /\ hkey[c] = NoKey => Len(txq[c]) + Len(toClient[c]) = 0
        /\ hkey[c] # NoKey =>
              /\ Len(hbuf[c]) + Len(toServer[c]) = 0
              /\ Len(txq[c]) + Len(toClient[c]) <= 1
AfterAck(c) ==
    cst[c] \in {"auth", "up"} => hkey[c] = ckey[c] /\ ckey[c] # NoKey
BeforeUp(c) ==
    cst[c] # "up" =>
        /\ tasks[c] = {}
        /\ Len(hbuf[c]) + Len(toServer[c]) <= 1
        /\ Unanswered(c) /\ hst[c] # "reply" => NoSession(c)
        /\ cst[c] \in {"none", "tcp", "ack"} => NoSession(c)

Handler(c) ==
    /\ hst[c] \in {"parse", "reply"} => Len(hbuf[c]) > 0
    /\ hst[c] \notin {"bad_message", "no_key"}
    /\ cst[c] # "expected_ack"

ConnInv(c) ==
    /\ Queues(c) /\ BeforeTcp(c) /\ BeforeAck(c) /\ AfterAck(c) /\ BeforeUp(c) /\ Handler(c)
    /\ c > made => cst[c] = "none"

Inv == TypeOK /\ SessionTable /\ \A c \in Conns : ConnInv(c)

-----------------------------------------------------------------------------
(* Steps and the invariant.                                                *)

(* What steps leave alone. Same(d) says that a step does not concern       *)
(* connection d, Calm(d) that d stays in its stage and that nothing gets   *)
(* under way that the stage does not allow.                                *)
Same(d) ==
    /\ hst'[d] = hst[d] /\ hbuf'[d] = hbuf[d] /\ hkey'[d] = hkey[d] /\ txq'[d] = txq[d]
    /\ toServer'[d] = toServer[d] /\ toClient'[d] = toClient[d] /\ link'[d] = link[d]
    /\ cst'[d] = cst[d] /\ ckey'[d] = ckey[d] /\ code'[d] = code[d]
    /\ tasks'[d] = tasks[d] /\ wrq'[d] = wrq[d] /\ inq'[d] = inq[d]
    /\ NoSession(d) => NoSession(d)'
    /\ d > made' => d > made

(* The step keeps the stage of d: its keys, its code, what the client has  *)
(* come to; tasks only end, and a session of d does not appear.            *)
SameStage(d) ==
    /\ hkey'[d] = hkey[d] /\ cst'[d] = cst[d] /\ ckey'[d] = ckey[d] /\ code'[d] = code[d]
    /\ tasks'[d] \subseteq tasks[d]
    /\ cst[d] \in {"none", "tcp"} => link'[d] = "none"
    /\ NoSession(d) => NoSession(d)'
    /\ d > made' => d > made

(* What may be under way to the client after a step that keeps the stage.  *)
NextDown(d) == DownMessages(d, hkey[d], ckey[d], cst[d], Unanswered(d)')

(* What is under way stays allowed, and does not grow while one request or *)
(* one answer is all there may be.                                         *)
CalmQueues(d) ==
    /\ wrq'[d] \in Seq(AppMessages) /\ inq'[d] \in Seq(AppMessages)
    /\ hbuf'[d] \in Seq(Up(d)) /\ toServer'[d] \in Seq(Up(d))
    /\ cst[d] # "up" => Len(hbuf'[d]) + Len(toServer'[d]) <= Len(hbuf[d]) + Len(toServer[d])
    /\ txq'[d] \in Seq(NextDown(d)) /\ toClient'[d] \in Seq(NextDown(d))
    /\ cst[d] \in {"none", "tcp", "ack"} =>
          Len(txq'[d]) + Len(toClient'[d]) <= Len(txq[d]) + Len(toClient[d])

(* The handler stays busy only with something to handle, meets no protocol *)
(* error, and leaves `reply' only with the request answered.               *)
CalmHandler(d) ==
    /\ hst'[d] \in {"parse", "reply"} => Len(hbuf'[d]) > 0
    /\ hst'[d] \notin {"bad_message", "no_key"}
    /\ cst[d] \in {"none", "tcp"} => hst'[d] \in {"none", "exited"}
    /\ cst[d] = "ack" => hst'[d] # "reply"
    /\ cst[d] # "up" /\ hst[d] = "reply" => hst'[d] = "reply" \/ ~Unanswered(d)'

Calm(d) == SameStage(d) /\ CalmQueues(d) /\ CalmHandler(d)

(* The entries stay those of the same connections, under the same keys.    *)
SameEntries ==
    /\ DOMAIN sessions' = DOMAIN sessions
    /\ \A i \in DOMAIN sessions :
          sessions'[i].conn = sessions[i].conn /\ sessions'[i].key = sessions[i].key

(* The table only loses entries, and what it says stays true.              *)
TableCalm ==
    /\ DOMAIN sessions' \subseteq DOMAIN sessions
    /\ \A i \in DOMAIN sessions' :
          sessions'[i].conn = sessions[i].conn /\ sessions'[i].key = sessions[i].key
    /\ \A c \in Conns :
          \/ NoSession(c)'
          \/ /\ hsid'[c] = hsid[c] /\ hkey'[c] = hkey[c] /\ code'[c] = code[c]
             /\ hst'[c] = hst[c] \/ hst'[c] \notin {"none", "done", "exited"}

(* The queues of messages between the two ends, as functions.              *)
QueueTypes ==
    /\ hbuf \in [Conns -> Seq(Messages)] /\ toServer \in [Conns -> Seq(Messages)]
    /\ txq \in [Conns -> Seq(Messages)] /\ toClient \in [Conns -> Seq(Messages)]
=============================================================================
