------------------------------- MODULE Client -------------------------------
(***************************************************************************)
(* client/connection.rs and client/app.rs: one GUI application that makes  *)
(* connections one after another.  Every connect() starts a thread that    *)
(* performs the handshake and then becomes the main loop of the            *)
(* connection, beside a reader, a writer and a forwarder task, joined by   *)
(* channels:                                                               *)
(*                                                                         *)
(*   socket -> reader -outq-> main -msgq-> app  (and main -stq-> app)      *)
(*   app -inq-> forwarder -wrq-> writer -> socket                          *)
(*                                                                         *)
(* The application holds the ends of one connection at a time (`cur');     *)
(* replacing or clearing them is how the tasks of an older connection      *)
(* learn that they are no longer wanted.                                   *)
(***************************************************************************)
EXTENDS Wire, FiniteSets

CONSTANTS Codes,      \* the codes a user may type (numbers)
          MaxInputs,  \* mouse and keyboard events sent per connection, at most
          MaxRequests,\* quality requests per connection, at most
          Choices     \* the modes the quality menu offers (numbers)

ASSUME CodesAssumption == Codes \subseteq Nat
ASSUME InputsAssumption == MaxInputs \in Nat /\ MaxRequests \in Nat
ASSUME ChoicesAssumption == Choices \subseteq Nat

VARIABLES cst,     \* cst[c]: progress or failure of Connection::connect
          ckey,    \* its crypto session
          code,    \* the code it was started with
          tasks,   \* which of its tasks run
          outq, msgq, stq, inq, wrq,   \* its channels, see above
          state,   \* AppState
          cur,     \* the connection whose channel ends the app holds, or 0
          made,    \* connections made so far
          shown,   \* the texture: [conn, frame], conn 0 for None
          quality, \* current_quality
          sent,    \* sent[c]: input events the app has sent
          asked    \* asked[c]: quality requests the app has sent

clientVars == <<cst, ckey, code, tasks, outq, msgq, stq, inq, wrq, state, cur, made,
                shown, quality, sent, asked>>

Handshake == {"tcp", "ack", "auth"}
Failures == {"unreachable", "closed", "expected_ack", "expected_auth", "denied"}
Tasks == {"main", "reader", "writer", "forwarder"}
AppStates == {"Disconnected", "Connecting", "Connected", "Error"}
NoTexture == [conn |-> 0, frame |-> 0]

ClientTypeOK ==
    /\ cst \in [Conns -> {"none", "up"} \cup Handshake \cup Failures]
    /\ ckey \in [Conns -> Keys]
    /\ code \in [Conns -> Nat]
    /\ tasks \in [Conns -> SUBSET Tasks]
    /\ outq \in [Conns -> Seq(Messages)]
    /\ msgq \in [Conns -> Seq(Messages)]
    /\ stq \in [Conns -> Seq(AppStates)]
    /\ inq \in [Conns -> Seq(Messages)]
    /\ wrq \in [Conns -> Seq(Messages)]
    /\ state \in AppStates \cup {"Exited"}
    /\ cur \in 0..made
    /\ made \in 0..MaxConn
    /\ shown \in [conn : Nat, frame : Nat]
    /\ quality \in Nat
    /\ sent \in [Conns -> 0..MaxInputs]
    /\ asked \in [Conns -> 0..MaxRequests]

ClientInit(mode) ==
    /\ cst = [c \in Conns |-> "none"]
    /\ ckey = [c \in Conns |-> NoKey]
    /\ code = [c \in Conns |-> 0]
    /\ tasks = [c \in Conns |-> {}]
    /\ outq = [c \in Conns |-> <<>>]
    /\ msgq = [c \in Conns |-> <<>>]
    /\ stq = [c \in Conns |-> <<>>]
    /\ inq = [c \in Conns |-> <<>>]
    /\ wrq = [c \in Conns |-> <<>>]
    /\ state = "Disconnected"
    /\ cur = 0
    /\ made = 0
    /\ shown = NoTexture
    /\ quality = mode
    /\ sent = [c \in Conns |-> 0]
    /\ asked = [c \in Conns |-> 0]

-----------------------------------------------------------------------------
(* Connection::connect, run by the thread of connection c.                 *)

appFrame == <<state, cur, made, shown, quality, sent, asked>>

(* Wrong variant: one channel for the states of all connections.           *)
ReportsShared(c, s) ==
    stq' = [d \in Conns |-> IF d = cur THEN Append(stq[d], s) ELSE stq[d]]

(* The channel of AppStates; a send to an app that let go is ignored.      *)
Reports(c, s) ==
    stq' = [stq EXCEPT ![c] = IF cur = c THEN Append(@, s) ELSE @]

(* connect returns an error: the stream and every channel end the thread   *)
(* holds are dropped.                                                      *)
ConnectFails(c, why, rest) ==
    /\ cst' = [cst EXCEPT ![c] = why]
    /\ ClientDrops(c, Halves, rest)
    /\ Reports(c, "Error")
    /\ inq' = [inq EXCEPT ![c] = <<>>]
    /\ UNCHANGED <<appFrame, listening, toServer, sOpen, ckey, code, tasks, outq, msgq, wrq>>

(* TcpStream::connect, then the plaintext KeyExchange.                     *)
TcpConnect(c) ==
    /\ cst[c] = "tcp" /\ listening
    /\ cst' = [cst EXCEPT ![c] = "ack"]
    /\ link' = [link EXCEPT ![c] = "open"]
    /\ sOpen' = [sOpen EXCEPT ![c] = Halves]
    /\ cOpen' = [cOpen EXCEPT ![c] = Halves]
    /\ toServer' = [toServer EXCEPT ![c] = <<Message("KeyExchange", c)>>]
    /\ UNCHANGED <<appFrame, listening, toClient, ckey, code, tasks, outq, msgq, stq, inq, wrq>>

TcpRefused(c) ==
    /\ cst[c] = "tcp"
    /\ ConnectFails(c, "unreachable", <<>>)

(* read_raw_message, then the encrypted AuthRequest.                       *)
RecvAck(c) ==
    /\ cst[c] = "ack" /\ link[c] = "open" /\ toClient[c] # <<>>
    /\ LET m == Head(toClient[c]) IN
       IF Decrypts(NoKey, m) /\ m.type = "KeyExchangeAck"
       THEN LET key == SharedKey(c, m.arg) IN
            /\ ckey' = [ckey EXCEPT ![c] = key]
            /\ ClientPuts(c, Encrypt(key, Message("AuthRequest", code[c])))
            /\ toClient' = [toClient EXCEPT ![c] = Tail(@)]
            /\ cst' = [cst EXCEPT ![c] = "auth"]
            /\ UNCHANGED <<appFrame, listening, sOpen, cOpen, code, tasks, outq, msgq, stq, inq, wrq>>
       ELSE ConnectFails(c, "expected_ack", Tail(toClient[c]))

(* The next message must be the AuthResponse.  Once it is, connect starts  *)
(* the tasks, queues StartStream and returns; the thread reports Connected *)
(* and goes on as the main loop.                                           *)
RecvAuth(c) ==
    /\ cst[c] = "auth" /\ link[c] = "open" /\ toClient[c] # <<>>
    /\ LET m == Head(toClient[c]) IN
       IF ~Decrypts(ckey[c], m) \/ m.type # "AuthResponse"
       THEN ConnectFails(c, "expected_auth", Tail(toClient[c]))
       ELSE IF m.arg = 0
       THEN ConnectFails(c, "denied", Tail(toClient[c]))
       ELSE /\ cst' = [cst EXCEPT ![c] = "up"]
            /\ tasks' = [tasks EXCEPT ![c] = Tasks]
            /\ wrq' = [wrq EXCEPT ![c] = <<Message("StartStream", 0)>>]
            /\ Reports(c, "Connected")
            /\ toClient' = [toClient EXCEPT ![c] = Tail(@)]
            /\ UNCHANGED <<appFrame, listening, toServer, link, sOpen, cOpen, ckey, code, outq,
                           msgq, inq>>

(* A read or write of the handshake meets the end of the connection.       *)
HandshakeClosed(c) ==
    /\ cst[c] \in {"ack", "auth"}
    /\ ClientAtEof(c) \/ link[c] = "reset"
    /\ ConnectFails(c, "closed", <<>>)

-----------------------------------------------------------------------------
(* The tasks of an established connection.                                 *)

Ends(c, task) == tasks' = [tasks EXCEPT ![c] = @ \ {task}]

(* Reader: decrypt and hand on; what cannot be decrypted is dropped.  It   *)
(* ends when the main loop is gone.                                        *)
ReaderRecv(c) ==
    /\ "reader" \in tasks[c] /\ toClient[c] # <<>>
    /\ LET m == Head(toClient[c]) IN
       IF Decrypts(ckey[c], m) /\ "main" \notin tasks[c]
       THEN /\ Ends(c, "reader")
            /\ ClientDrops(c, {"r"}, Tail(toClient[c]))
            /\ UNCHANGED outq
       ELSE /\ outq' = [outq EXCEPT ![c] = IF Decrypts(ckey[c], m) THEN Append(@, m) ELSE @]
            /\ toClient' = [toClient EXCEPT ![c] = Tail(@)]
            /\ UNCHANGED <<tasks, link, cOpen>>
    /\ UNCHANGED <<appFrame, listening, toServer, sOpen, cst, ckey, code, msgq, stq, inq, wrq>>

ReaderEnds(c) ==
    /\ "reader" \in tasks[c]
    /\ ClientAtEof(c) \/ link[c] = "reset"
    /\ Ends(c, "reader")
    /\ ClientDrops(c, {"r"}, toClient[c])
    /\ UNCHANGED <<appFrame, listening, toServer, sOpen, cst, ckey, code, outq, msgq, stq, inq, wrq>>

(* Main loop: pass messages to the app; it ends, and reports Disconnected, *)
(* when the reader is gone or the app has let go of the connection.        *)
MainForward(c) ==
    /\ "main" \in tasks[c] /\ outq[c] # <<>> /\ cur = c
    /\ msgq' = [msgq EXCEPT ![c] = Append(@, Head(outq[c]))]
    /\ outq' = [outq EXCEPT ![c] = Tail(@)]
    /\ UNCHANGED <<appFrame, wireVars, cst, ckey, code, tasks, stq, inq, wrq>>

(* Wrong variant: the main loop ends without a word.                       *)
MainEndsSilently(c) ==
    /\ "main" \in tasks[c]
    /\ \/ outq[c] # <<>> /\ cur # c
       \/ outq[c] = <<>> /\ "reader" \notin tasks[c]
    /\ Ends(c, "main")
    /\ outq' = [outq EXCEPT ![c] = <<>>]
    /\ UNCHANGED <<appFrame, wireVars, cst, ckey, code, msgq, stq, inq, wrq>>

MainEnds(c) ==
    /\ "main" \in tasks[c]
    /\ \/ outq[c] # <<>> /\ cur # c
       \/ outq[c] = <<>> /\ "reader" \notin tasks[c]
    /\ Ends(c, "main")
    /\ outq' = [outq EXCEPT ![c] = <<>>]
    /\ Reports(c, "Disconnected")
    /\ UNCHANGED <<appFrame, wireVars, cst, ckey, code, msgq, inq, wrq>>

(* Forwarder: it ends with the app's sender, or with the writer.           *)
ForwarderSend(c) ==
    /\ "forwarder" \in tasks[c] /\ inq[c] # <<>> /\ "writer" \in tasks[c]
    /\ wrq' = [wrq EXCEPT ![c] = Append(@, Head(inq[c]))]
    /\ inq' = [inq EXCEPT ![c] = Tail(@)]
    /\ UNCHANGED <<appFrame, wireVars, cst, ckey, code, tasks, outq, msgq, stq>>

ForwarderEnds(c) ==
    /\ "forwarder" \in tasks[c]
    /\ \/ inq[c] = <<>> /\ cur # c
       \/ inq[c] # <<>> /\ "writer" \notin tasks[c]
    /\ Ends(c, "forwarder")
    /\ inq' = [inq EXCEPT ![c] = <<>>]
    /\ UNCHANGED <<appFrame, wireVars, cst, ckey, code, outq, msgq, stq, wrq>>

(* Writer: encrypt and send; it ends when a write fails or when both of    *)
(* its senders (main loop and forwarder) are gone.                         *)
WriterSend(c) ==
    /\ "writer" \in tasks[c] /\ wrq[c] # <<>> /\ ClientCanWrite(c)
    /\ ClientPuts(c, Encrypt(ckey[c], Head(wrq[c])))
    /\ wrq' = [wrq EXCEPT ![c] = Tail(@)]
    /\ UNCHANGED <<appFrame, listening, toClient, sOpen, cOpen, cst, ckey, code, tasks, outq, msgq,
                   stq, inq>>

WriterEnds(c) ==
    /\ "writer" \in tasks[c]
    /\ \/ wrq[c] # <<>> /\ link[c] = "reset"
       \/ wrq[c] = <<>> /\ tasks[c] \cap {"main", "forwarder"} = {}
    /\ Ends(c, "writer")
    /\ wrq' = [wrq EXCEPT ![c] = <<>>]
    /\ ClientDrops(c, {"w"}, toClient[c])
    /\ UNCHANGED <<appFrame, listening, toServer, sOpen, cst, ckey, code, outq, msgq, stq, inq>>

-----------------------------------------------------------------------------
(* The application.                                                        *)

(* conn_rx exists: the thread holds it until the forwarder takes it over.  *)
CanSend(c) == cst[c] \in Handshake \/ "forwarder" \in tasks[c]

AppSends(ms) ==
    inq' = [inq EXCEPT ![cur] = IF CanSend(cur) THEN @ \o ms ELSE @]

(* connect(): fresh channels; the app's ends of the old ones are dropped.  *)
Connect(c, typed) ==
    /\ state \in {"Disconnected", "Error"} /\ c = made + 1
    /\ made' = c
    /\ state' = "Connecting"
    /\ code' = [code EXCEPT ![c] = typed]
    /\ cst' = [cst EXCEPT ![c] = "tcp"]
    /\ cur' = c
    /\ msgq' = [d \in Conns |-> IF d = cur THEN <<>> ELSE msgq[d]]
    /\ stq' = [d \in Conns |-> IF d = cur THEN <<>> ELSE stq[d]]
    /\ UNCHANGED <<wireVars, ckey, tasks, outq, inq, wrq, shown, quality, sent, asked>>

(* disconnect(), the button of the remote screen.                          *)
Disconnect ==
    /\ state = "Connected"
    /\ AppSends(<<Message("Disconnect", 0)>>)
    /\ state' = "Disconnected"
    /\ cur' = 0
    /\ shown' = NoTexture
    /\ msgq' = [msgq EXCEPT ![cur] = <<>>]
    /\ stq' = [stq EXCEPT ![cur] = <<>>]
    /\ UNCHANGED <<wireVars, cst, ckey, code, tasks, outq, wrq, made, quality, sent, asked>>

(* A mouse or keyboard event over the remote screen.                       *)
UserInput ==
    /\ state = "Connected" /\ sent[cur] < MaxInputs
    /\ sent' = [sent EXCEPT ![cur] = @ + 1]
    /\ AppSends(<<Message("Input", sent[cur] + 1)>>)
    /\ UNCHANGED <<wireVars, cst, ckey, code, tasks, outq, msgq, stq, wrq, state, cur,
                   made, shown, quality, asked>>

(* An entry of the quality menu.                                           *)
RequestQuality(mode) ==
    /\ state = "Connected" /\ asked[cur] < MaxRequests
    /\ asked' = [asked EXCEPT ![cur] = @ + 1]
    /\ AppSends(<<Message("RequestQualityChange", mode)>>)
    /\ UNCHANGED <<wireVars, cst, ckey, code, tasks, outq, msgq, stq, wrq, state, cur,
                   made, shown, quality, sent>>

(* Where messages of a type are in a channel, and what the last of some    *)
(* messages says.                                                          *)
Places(q, type) == {i \in 1..Len(q) : q[i].type = type}
LastArg(q, places) == q[CHOOSE i \in places : \A j \in places : j <= i].arg

(* update(): at most one reported state, then every waiting message: a     *)
(* frame that can be decoded is shown and acknowledged, a mode is          *)
(* displayed, and a failing AuthResponse is an error.  (An                 *)
(* acknowledgement's number only feeds the server's metrics.)              *)
Update ==
    /\ cur # 0 /\ state # "Exited"
    /\ stq[cur] # <<>> \/ msgq[cur] # <<>>
    /\ \E frames \in SUBSET Places(msgq[cur], "ScreenFrame") :
         /\ shown' = IF frames = {} THEN shown
                     ELSE [conn |-> cur, frame |-> LastArg(msgq[cur], frames)]
         /\ AppSends([i \in 1..Cardinality(frames) |-> Message("FrameAck", 0)])
    /\ LET modes == Places(msgq[cur], "QualityChange")
           denied == \E i \in Places(msgq[cur], "AuthResponse") : msgq[cur][i].arg = 0
       IN  /\ state' = IF denied THEN "Error"
                       ELSE IF stq[cur] # <<>> THEN Head(stq[cur]) ELSE state
           /\ quality' = IF modes = {} THEN quality ELSE LastArg(msgq[cur], modes)
    /\ stq' = [stq EXCEPT ![cur] = IF @ = <<>> THEN @ ELSE Tail(@)]
    /\ msgq' = [msgq EXCEPT ![cur] = <<>>]
    /\ UNCHANGED <<wireVars, cst, ckey, code, tasks, outq, wrq, cur, made, sent, asked>>

(* The window is closed: the process and with it every task and socket.    *)
Exit ==
    /\ state # "Exited"
    /\ state' = "Exited"
    /\ cur' = 0
    /\ tasks' = [c \in Conns |-> {}]
    /\ cst' = [c \in Conns |-> IF cst[c] \in Handshake THEN "closed" ELSE cst[c]]
    /\ cOpen' = [c \in Conns |-> {}]
    /\ link' = [c \in Conns |-> IF toClient[c] # <<>> THEN "reset" ELSE link[c]]
    /\ toClient' = [c \in Conns |-> <<>>]
    /\ outq' = [c \in Conns |-> <<>>] /\ msgq' = [c \in Conns |-> <<>>]
    /\ stq' = [c \in Conns |-> <<>>] /\ inq' = [c \in Conns |-> <<>>]
    /\ wrq' = [c \in Conns |-> <<>>]
    /\ UNCHANGED <<listening, toServer, sOpen, ckey, code, made, shown, quality, sent, asked>>

-----------------------------------------------------------------------------
ConnectStep(c) ==
    TcpConnect(c) \/ TcpRefused(c) \/ RecvAck(c) \/ RecvAuth(c) \/ HandshakeClosed(c)

TaskStep(c) ==
    \/ ReaderRecv(c) \/ ReaderEnds(c) \/ MainForward(c) \/ MainEnds(c)
    \/ ForwarderSend(c) \/ ForwarderEnds(c) \/ WriterSend(c) \/ WriterEnds(c)

UserStep ==
    \/ \E c \in Conns, typed \in Codes : Connect(c, typed)
    \/ Disconnect \/ UserInput \/ Exit
    \/ \E mode \in Choices : RequestQuality(mode)

ClientNext ==
    \/ \E c \in Conns : ConnectStep(c) \/ TaskStep(c)
    \/ UserStep \/ Update
=============================================================================
