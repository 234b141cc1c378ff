------------------------------ MODULE VoxSystem ------------------------------
(***************************************************************************)
(* vox_server and vox_client over TCP: the server's tasks and the client's *)
(* tasks interleave freely and meet only in the connections.               *)
(***************************************************************************)
EXTENDS Server, Client

vars == <<wireVars, serverVars, clientVars>>

Init == WireInit /\ ServerInit /\ ClientInit(DefaultMode)

Next ==
    \/ ServerNext /\ UNCHANGED clientVars
    \/ ClientNext /\ UNCHANGED serverVars

Spec == Init /\ [][Next]_vars

(* Every task of the two runtimes that can go on eventually does (tokio    *)
(* polls a woken task, the capture loop finishes the frame it is sending,  *)
(* egui repaints continuously: request_repaint in update).  What the user, *)
(* the operator and the clock do is not fair.                              *)
Fairness ==
    /\ \A c \in Conns :
         /\ WF_vars(HandlerStep(c) /\ UNCHANGED clientVars)
         /\ WF_vars(ServerWriterStep(c) /\ UNCHANGED clientVars)
         /\ WF_vars(ConnectStep(c) /\ UNCHANGED serverVars)
         /\ WF_vars((ReaderRecv(c) \/ ReaderEnds(c)) /\ UNCHANGED serverVars)
         /\ WF_vars((MainForward(c) \/ MainEnds(c)) /\ UNCHANGED serverVars)
         /\ WF_vars((ForwarderSend(c) \/ ForwarderEnds(c)) /\ UNCHANGED serverVars)
         /\ WF_vars((WriterSend(c) \/ WriterEnds(c)) /\ UNCHANGED serverVars)
    /\ WF_vars(VisitStep /\ UNCHANGED clientVars)
    /\ WF_vars(Update /\ UNCHANGED serverVars)

FairSpec == Spec /\ Fairness

-----------------------------------------------------------------------------
(* Every variable keeps its type; in particular the sessions the capture   *)
(* loop has yet to visit stay in the table, which is what holding the read *)
(* guard across the whole visit (server.rs, screen_capture_loop) is for.   *)
TypeOK == WireTypeOK /\ ServerTypeOK /\ ClientTypeOK

AllUnder(q, key) == \A i \in 1..Len(q) : Decrypts(key, q[i])

(* Keys agree along the whole pipeline: whatever the client has sent can   *)
(* be decrypted by the handler that will read it, and once the client has  *)
(* its key, whatever the handler or the capture loop has queued or sent    *)
(* can be decrypted by the client.  This is what the repair described in   *)
(* FIXES_SUMMARY.md (one CryptoSession from the key exchange, kept in the  *)
(* session) must establish, in every order of handler, writer and capture. *)
InFlightReadable ==
    \A c \in Conns :
        /\ AllUnder(hbuf[c], hkey[c])
        /\ AllUnder(toServer[c], hkey[c])
        /\ cst[c] \in {"auth", "up"} =>
              /\ AllUnder(txq[c], ckey[c])
              /\ AllUnder(toClient[c], ckey[c])

(* The shipped client never drives a handler into a protocol error: no     *)
(* handler ends because a message could not be decrypted or came before    *)
(* the key exchange, and no client meets something else than the           *)
(* KeyExchangeAck first.                                                   *)
NoProtocolError ==
    \A c \in Conns : hst[c] \notin {"bad_message", "no_key"} /\ cst[c] # "expected_ack"

(* The session table: an entry was put there by the handler of its         *)
(* connection, for the displayed code, carries that connection's key, is   *)
(* that handler's only entry and is gone when the handler has cleaned up.  *)
SessionTable ==
    \A i \in DOMAIN sessions :
        LET c == sessions[i].conn IN
        /\ hsid[c] = i
        /\ sessions[i].key = hkey[c]
        /\ code[c] = GoodCode
        /\ hst[c] \notin {"none", "done", "exited"}

(* Inputs reach the input backend in the order the user made them, without *)
(* gaps or repetitions, through three channels, the socket and the read    *)
(* buffer, whichever of them are cut off on the way.                       *)
InputPrefix ==
    \A c \in Conns :
        /\ applied[c] = [i \in 1..Len(applied[c]) |-> i]
        /\ Len(applied[c]) <= sent[c]

(* What the window says about the connection is true of the connection it  *)
(* currently holds, whatever older connections still report: Connected     *)
(* only after the server accepted the code, Disconnected and Error only    *)
(* when that very connection has ended.                                    *)
HonestState ==
    cur # 0 =>
        /\ state = "Connected" => cst[cur] = "up" /\ hsid[cur] # 0
        /\ state = "Disconnected" => cst[cur] = "up" /\ "main" \notin tasks[cur]
        /\ state = "Error" => cst[cur] \in Failures

Quiet(q) == Places(q, "QualityChange") = {}

(* Once the user has chosen a quality and the confirmation is no longer    *)
(* under way, the mode the window displays is the mode the server uses:    *)
(* adaptation (get_recommended_quality) never overrides a forced mode.     *)
QualityConfirmed ==
    \A i \in DOMAIN sessions :
        LET c == sessions[i].conn IN
        ( /\ sessions[i].forced
          /\ c = cur /\ {"reader", "main"} \subseteq tasks[c]
          /\ link[c] = "open" /\ writing[c]
          /\ Quiet(txq[c]) /\ Quiet(toClient[c]) /\ Quiet(outq[c]) /\ Quiet(msgq[c]) )
        => quality = sessions[i].mode

(* The displayed screen never goes back: not to an older frame of a        *)
(* connection, nor to a frame of an older connection.                      *)
FramesForward ==
    [][shown'.conn # 0 =>
         /\ shown'.conn >= shown.conn
         /\ shown'.frame >= shown.frame \/ shown'.conn > shown.conn]_vars

(* A click on Connect is always answered: the window does not stay in      *)
(* Connecting, whatever the server, the capture loop or an exit of the     *)
(* server does meanwhile.                                                  *)
ConnectAnswered == (state = "Connecting") ~> (state # "Connecting")

(* When the server's side of a connection is gone, the window stops        *)
(* showing it as connected.                                                *)
ServerEndShown ==
    \A c \in Conns :
        (state = "Connected" /\ cur = c /\ sOpen[c] = {}) ~> ~(state = "Connected" /\ cur = c)

(* When the client application exits, every handler of its connections     *)
(* ends, whether the socket was closed in order or reset.                  *)
HandlersEnd ==
    (state = "Exited") ~> (\A c \in Conns : hst[c] \notin Live)

(* An input is not forgotten: whatever else the tasks have to do, it is    *)
(* executed, unless the handler of its connection or the client            *)
(* application ends before.  In particular a Disconnect behind it in the   *)
(* same chunk, which leaves the inner loop, does not leave the input       *)
(* behind.                                                                 *)
InputsApplied ==
    \A c \in Conns, n \in 1..MaxInputs :
        (sent[c] = n) ~> (Len(applied[c]) >= n \/ hst[c] \notin Live \/ state = "Exited")

-----------------------------------------------------------------------------
(* What the repository says and the code does not do.                      *)

(* TESTING.md, "clicking Connect should: Show "Connecting..." briefly,     *)
(* Switch to remote desktop view": an accepted login is not turned into a  *)
(* connection error.  The session is in the table before the AuthResponse  *)
(* is queued, so a frame can overtake the answer.                          *)
AcceptedConnects ==
    \A c \in Conns : hsid[c] # 0 => cst[c] # "expected_auth"

(* server.rs, `info!("Client disconnecting"); break;': a connection the    *)
(* user has disconnected ends at the server.  The break leaves only the    *)
(* inner loop, and the client closes the socket only when another message  *)
(* arrives.                                                                *)
DisconnectEnds ==
    \A c \in Conns :
        (cst[c] = "up" /\ cur # c /\ state # "Exited") ~> (SessionsOf(c) = {} \/ state = "Exited")
=============================================================================
