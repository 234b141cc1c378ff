-------------------------------- MODULE Wire --------------------------------
(***************************************************************************)
(* The protocol messages and the TCP connections that carry them.          *)
(*                                                                         *)
(* A message is a record: its type, the key it is encrypted under (NoKey   *)
(* for the two plaintext messages of the key exchange) and one number, the *)
(* only part of its contents a property tells apart: a public key, a code, *)
(* a verdict, a quality mode, a frame number or an input number.           *)
(*                                                                         *)
(* A TCP connection is two FIFO queues of at most Window messages (the     *)
(* socket buffers), the halves each end still holds (tokio's into_split:   *)
(* dropping the write half sends FIN, dropping both closes the socket) and *)
(* whether it was reset.  Closing a socket that holds unread data, or      *)
(* writing to a closed one, resets the connection.                         *)
(***************************************************************************)
EXTENDS Naturals, Sequences

CONSTANTS MaxConn,    \* connections the client application makes, at most
          Window      \* messages a socket buffer holds

ASSUME MaxConnAssumption == MaxConn \in Nat \ {0}
ASSUME WindowAssumption == Window \in Nat \ {0}

Conns == 1..MaxConn

(* common/crypto.rs: the shared secret of two key pairs, named by the two  *)
(* public keys.  The client's ephemeral key of connection c is c, the      *)
(* server's are numbered from 1; 0 is no key.                              *)
SharedKey(clientPub, serverPub) == <<clientPub, serverPub>>
NoKey == <<0, 0>>
Keys == {NoKey} \cup (Conns \X (Nat \ {0}))

MessageTypes == {"KeyExchange", "KeyExchangeAck", "AuthRequest", "AuthResponse",
                 "StartStream", "ScreenFrame", "QualityChange",
                 "RequestQualityChange", "Input", "FrameAck", "Disconnect"}

Messages == [type : MessageTypes, key : Keys, arg : Nat]

Message(type, arg) == [type |-> type, key |-> NoKey, arg |-> arg]
Encrypt(key, m) == [m EXCEPT !.key = key]
(* decrypt and deserialize succeed: without a key the bytes are taken as   *)
(* they come, and ciphertext is no message.                                *)
Decrypts(key, m) == m.key = key

VARIABLES toServer,   \* toServer[c]: sent by the client, not yet read
          toClient,   \* toClient[c]: sent by the server, not yet read
          link,       \* link[c]: "none", "open" or "reset"
          sOpen,      \* halves of its socket the server holds
          cOpen,      \* halves of its socket the client holds
          listening   \* the server process runs

wireVars == <<toServer, toClient, link, sOpen, cOpen, listening>>

Halves == {"r", "w"}

WireTypeOK ==
    /\ toServer \in [Conns -> Seq(Messages)]
    /\ toClient \in [Conns -> Seq(Messages)]
    /\ link \in [Conns -> {"none", "open", "reset"}]
    /\ sOpen \in [Conns -> SUBSET Halves]
    /\ cOpen \in [Conns -> SUBSET Halves]
    /\ listening \in BOOLEAN

WireInit ==
    /\ toServer = [c \in Conns |-> <<>>]
    /\ toClient = [c \in Conns |-> <<>>]
    /\ link = [c \in Conns |-> "none"]
    /\ sOpen = [c \in Conns |-> {}]
    /\ cOpen = [c \in Conns |-> {}]
    /\ listening = TRUE

-----------------------------------------------------------------------------
(* One end drops some of its halves, having left `rest' unread.            *)
ServerDrops(c, halves, rest) ==
    LET left == sOpen[c] \ halves IN
    /\ sOpen' = [sOpen EXCEPT ![c] = left]
    /\ toServer' = [toServer EXCEPT ![c] = IF left = {} THEN <<>> ELSE rest]
    /\ link' = [link EXCEPT ![c] = IF left = {} /\ rest # <<>> THEN "reset" ELSE @]

ClientDrops(c, halves, rest) ==
    LET left == cOpen[c] \ halves IN
    /\ cOpen' = [cOpen EXCEPT ![c] = left]
    /\ toClient' = [toClient EXCEPT ![c] = IF left = {} THEN <<>> ELSE rest]
    /\ link' = [link EXCEPT ![c] = IF left = {} /\ rest # <<>> THEN "reset" ELSE @]

(* A write succeeds locally on a connection that is not reset, once the    *)
(* buffer has room; data that meets a closed socket resets the connection. *)
ServerCanWrite(c) == link[c] = "open" /\ Len(toClient[c]) < Window
ClientCanWrite(c) == link[c] = "open" /\ Len(toServer[c]) < Window

ServerPuts(c, m) ==
    IF cOpen[c] = {}
    THEN link' = [link EXCEPT ![c] = "reset"] /\ UNCHANGED toClient
    ELSE toClient' = [toClient EXCEPT ![c] = Append(@, m)] /\ UNCHANGED link

ClientPuts(c, m) ==
    IF sOpen[c] = {}
    THEN link' = [link EXCEPT ![c] = "reset"] /\ UNCHANGED toServer
    ELSE toServer' = [toServer EXCEPT ![c] = Append(@, m)] /\ UNCHANGED link

(* The peer has shut its write half and everything it sent has been read.  *)
ServerAtEof(c) == link[c] = "open" /\ toServer[c] = <<>> /\ "w" \notin cOpen[c]
ClientAtEof(c) == link[c] = "open" /\ toClient[c] = <<>> /\ "w" \notin sOpen[c]
=============================================================================
