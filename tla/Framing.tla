------------------------------ MODULE Framing ------------------------------
(***************************************************************************)
(* Messages over the byte stream of TCP, in one direction: send_message    *)
(* writes a 4-byte big-endian length and the payload; the receiver finds   *)
(* the messages again in whatever chunks the bytes arrive.  There are two  *)
(* receivers.  The server's handler (server.rs 102-118) appends each chunk *)
(* to a buffer and takes out the complete messages.  The client reads its  *)
(* handshake replies with read_exact (connection.rs 205-239) and then      *)
(* hands the socket to a reader with a buffer of its own (118-135).        *)
(*                                                                         *)
(* The stream is kept whole, with offsets into it: the kernel accepted     *)
(* written bytes, the receiver read got of them, and took messages out of  *)
(* the first parsed; so its buffer is wire[parsed+1 .. got].               *)
(***************************************************************************)
EXTENDS Integers, Sequences, FiniteSets

CONSTANTS Base,        \* values of a byte: 256 in the program
          Payloads,    \* what serialize or encrypt may return
          Disconnect,  \* the payload of Message::Disconnect
          ExactCounts, \* handshake replies: 0 at the server, 2 at the client
          MaxMessages  \* messages sent, at most

Byte == 0..(Base - 1)

ASSUME BaseAssumption == Base \in Nat /\ Base >= 2
ASSUME PayloadsAssumption == Payloads \subseteq Seq(Byte) /\ Disconnect \in Payloads
ASSUME LengthAssumption == \A p \in Payloads : Len(p) < Base * Base * Base * Base
ASSUME CountsAssumption == ExactCounts \subseteq Nat /\ MaxMessages \in Nat

VARIABLES sent,     \* messages put into the sender's channel
          taken,    \* how many of them the writer task took out
          wire,     \* the frames of those, in a row
          ends,     \* history: where each frame of wire ends
          written,  \* bytes the kernel accepted
          writer,   \* the writer task and its channel
          got,      \* bytes the receiver read
          parsed,   \* bytes the receiver made messages of
          received, \* messages taken out
          reader,   \* where the receiver's loop is
          exact     \* messages it reads with read_exact first

writerVars == <<sent, taken, wire, ends, written, writer>>
readerVars == <<got, parsed, received, reader, exact>>
vars == <<writerVars, readerVars>>

TypeOK ==
    /\ sent \in Seq(Payloads) /\ received \in Seq(Payloads)
    /\ wire \in Seq(Byte) /\ ends \in Seq(Nat)
    /\ taken \in 0..Len(sent)
    /\ written \in 0..Len(wire) /\ got \in 0..written /\ parsed \in 0..got
    /\ writer \in {"open", "draining", "closed"}
    /\ reader \in {"read", "parse", "stopped"}
    /\ exact \in ExactCounts

Init ==
    /\ sent = <<>> /\ taken = 0 /\ wire = <<>> /\ ends = <<>>
    /\ written = 0 /\ writer = "open"
    /\ got = 0 /\ parsed = 0 /\ received = <<>>
    /\ reader = "read" /\ exact \in ExactCounts

-----------------------------------------------------------------------------
(* u32::to_be_bytes of the length, cut to 32 bits by "as u32".             *)
to_be_bytes(n) ==
    LET n1 == n \div Base
        n2 == n1 \div Base
        n3 == n2 \div Base
    IN  << n3 % Base, n2 % Base, n1 % Base, n % Base >>

(* Wrong variant: the bytes are taken in the machine's order.              *)
from_le_bytes(o) ==
    ((wire[o + 4] * Base + wire[o + 3]) * Base + wire[o + 2]) * Base + wire[o + 1]

(* u32::from_be_bytes of the four bytes after offset o.                    *)
from_be_bytes(o) ==
    ((wire[o + 1] * Base + wire[o + 2]) * Base + wire[o + 3]) * Base + wire[o + 4]

Frame(p) == to_be_bytes(Len(p)) \o p

(* The channel is unbounded: a send never waits.  Disconnect is the last   *)
(* message the client sends on a connection.                               *)
Send ==
    /\ writer = "open"
    /\ Len(sent) < MaxMessages
    /\ sent # <<>> => sent[Len(sent)] # Disconnect
    /\ \E p \in Payloads : sent' = Append(sent, p)
    /\ UNCHANGED <<taken, wire, ends, written, writer, readerVars>>

(* The writer task takes a message once the one before is written.         *)
Take ==
    /\ writer # "closed" /\ written = Len(wire) /\ taken < Len(sent)
    /\ taken' = taken + 1
    /\ wire' = wire \o Frame(sent[taken + 1])
    /\ ends' = Append(ends, Len(wire) + 4 + Len(sent[taken + 1]))
    /\ UNCHANGED <<sent, written, writer, readerVars>>

(* write_all: the kernel accepts some of the bytes at a time.              *)
Write ==
    /\ writer # "closed"
    /\ \E n \in (written + 1)..Len(wire) : written' = n
    /\ UNCHANGED <<sent, taken, wire, ends, writer, readerVars>>

(* The senders are dropped; the task still writes what is in the channel,  *)
(* and ends.                                                               *)
DropSenders ==
    /\ writer = "open"
    /\ writer' = "draining"
    /\ UNCHANGED <<sent, taken, wire, ends, written, readerVars>>

WriterEnds ==
    /\ writer = "draining" /\ written = Len(wire) /\ taken = Len(sent)
    /\ writer' = "closed"
    /\ UNCHANGED <<sent, taken, wire, ends, written, readerVars>>

(* The task is aborted, fails or ends with its process, be it in the       *)
(* middle of a message; what the kernel accepted is still delivered.       *)
WriterAborted ==
    /\ writer # "closed"
    /\ writer' = "closed"
    /\ UNCHANGED <<sent, taken, wire, ends, written, readerVars>>

(* The connection breaks, and what is under way is lost.                   *)
Reset ==
    /\ got < written
    /\ writer' = "closed" /\ written' = got
    /\ UNCHANGED <<sent, taken, wire, ends, readerVars>>

-----------------------------------------------------------------------------
(* The loop's test: the length, and as many bytes as it says.              *)
Complete(o) == got - o >= 4 /\ got - o >= 4 + from_be_bytes(o)

Payload(o) == SubSeq(wire, o + 5, o + 4 + from_be_bytes(o))

(* Wrong variant: a buffered reader takes what there is.                   *)
ReadExactGreedy ==
    /\ reader = "read" /\ Len(received) < exact /\ ~Complete(parsed)
    /\ \E n \in (got + 1)..written : got' = n
    /\ UNCHANGED <<writerVars, parsed, received, reader, exact>>

(* read_exact, of the length and then of the payload: never a byte more.   *)
ReadExact ==
    /\ reader = "read" /\ Len(received) < exact /\ ~Complete(parsed)
    /\ LET need == IF got - parsed < 4 THEN 4 ELSE 4 + from_be_bytes(parsed)
       IN  \E n \in (got + 1)..written : n <= parsed + need /\ got' = n
    /\ UNCHANGED <<writerVars, parsed, received, reader, exact>>

(* read_raw_message, read_encrypted_message: what was read is used up.     *)
ReceiveExact ==
    /\ reader = "read" /\ Len(received) < exact /\ Complete(parsed)
    /\ received' = Append(received, Payload(parsed))
    /\ parsed' = got
    /\ UNCHANGED <<writerVars, got, reader, exact>>

(* read_buf: a chunk is appended to the buffer.                            *)
ReadBuf ==
    /\ reader = "read" /\ Len(received) >= exact
    /\ \E n \in (got + 1)..written : got' = n
    /\ reader' = "parse"
    /\ UNCHANGED <<writerVars, parsed, received, exact>>

(* Wrong variant: one message for each read.                               *)
ParseOnce ==
    /\ reader = "parse" /\ Complete(parsed)
    /\ received' = Append(received, Payload(parsed))
    /\ parsed' = parsed + 4 + from_be_bytes(parsed)
    /\ reader' = "read"
    /\ UNCHANGED <<writerVars, got, exact>>

(* Wrong variant: the payload is not waited for.                           *)
ParseHeaderOnly ==
    /\ reader = "parse" /\ got - parsed >= 4
    /\ received' = Append(received, Payload(parsed))
    /\ parsed' = parsed + 4 + from_be_bytes(parsed)
    /\ UNCHANGED <<writerVars, got, reader, exact>>

(* A message is taken out of the buffer.  The server's "break" on          *)
(* Disconnect leaves this loop, not the one around it.                     *)
Parse ==
    /\ reader = "parse" /\ Complete(parsed)
    /\ received' = Append(received, Payload(parsed))
    /\ parsed' = parsed + 4 + from_be_bytes(parsed)
    /\ reader' = IF exact = 0 /\ Payload(parsed) = Disconnect THEN "read" ELSE "parse"
    /\ UNCHANGED <<writerVars, got, exact>>

ParseDone ==
    /\ reader = "parse" /\ ~Complete(parsed)
    /\ reader' = "read"
    /\ UNCHANGED <<writerVars, got, parsed, received, exact>>

(* The end of the stream, or the error of a broken connection.             *)
ReadEnd ==
    /\ reader = "read" /\ writer = "closed" /\ got = written
    /\ ~(Len(received) < exact /\ Complete(parsed))
    /\ reader' = "stopped"
    /\ UNCHANGED <<writerVars, got, parsed, received, exact>>

(* The receiver gives up on its own: an error in a message, or its process *)
(* or its user is gone.                                                    *)
ReaderStops ==
    /\ reader # "stopped"
    /\ reader' = "stopped"
    /\ UNCHANGED <<writerVars, got, parsed, received, exact>>

Next ==
    \/ Send \/ Take \/ Write \/ DropSenders \/ WriterEnds \/ WriterAborted \/ Reset
    \/ ReadExact \/ ReceiveExact \/ ReadBuf \/ Parse \/ ParseDone
    \/ ReadEnd \/ ReaderStops

(* Tasks with work are scheduled, and TCP moves bytes both ways.           *)
Fairness ==
    /\ WF_vars(Take) /\ WF_vars(Write) /\ WF_vars(WriterEnds)
    /\ WF_vars(ReadExact) /\ WF_vars(ReceiveExact)
    /\ WF_vars(ReadBuf) /\ WF_vars(Parse) /\ WF_vars(ParseDone) /\ WF_vars(ReadEnd)

Spec == Init /\ [][Next]_vars /\ Fairness

-----------------------------------------------------------------------------
(* How many messages the receiver still gets, counted from the first: all, *)
(* as long as both ends are there; after the writer's end, those that went *)
(* out whole.                                                              *)
Owed ==
    IF reader = "stopped" THEN Len(received)
    ELSE IF writer = "closed" THEN Cardinality({i \in DOMAIN ends : ends[i] <= written})
    ELSE Len(sent)

Stream == INSTANCE MessageStream WITH
    owed <- Owed, cut <- (reader = "stopped" \/ (writer = "closed" /\ Owed < Len(sent)))

(* The frames implement a stream of messages, however the bytes are cut    *)
(* into chunks, whichever way the receiver reads them, and wherever the    *)
(* writer is aborted: order, integrity, and delivery of everything that    *)
(* went out whole.                                                         *)
ImplementsMessageStream == Stream!Spec

(* The receiver is always at the beginning of a frame: at the end of the   *)
(* one whose message it took last.  In particular the reader that takes    *)
(* over the socket after the handshake starts at a frame, with nothing of  *)
(* it already read and dropped.                                            *)
Aligned == parsed = (IF received = <<>> THEN 0 ELSE ends[Len(received)])

(* The receiver never waits for bytes while its buffer holds a complete    *)
(* message: one that came in the same chunk as the one before is not left  *)
(* until the peer happens to send more.                                    *)
NoStall == reader = "read" /\ Len(received) >= exact => ~Complete(parsed)
=============================================================================
