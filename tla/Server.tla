------------------------------- MODULE Server -------------------------------
(***************************************************************************)
(* server/server.rs: per connection a handler task (handle_client) and a   *)
(* writer task, and one capture loop that sends every captured frame to    *)
(* every session.  They share the session table, an RwLock'd map; the      *)
(* capture loop holds its read guard while it visits the sessions of one   *)
(* frame, so insertions and removals wait until `visiting' is empty.       *)
(*                                                                         *)
(* Only pacing decides which sessions a frame is sent to; here a visited   *)
(* session is served or skipped (FramePacing models when).  What a frame   *)
(* or an input contains is left out: frames and inputs are numbered.       *)
(***************************************************************************)
EXTENDS Wire

CONSTANTS MaxFrames,    \* frames captured, at most
          Modes,        \* quality modes (numbers)
          DefaultMode,  \* QualityMode::High
          GoodCode,     \* the access code the server displays (a number)
          InputFaults   \* whether the input backend (enigo) may fail

ASSUME FramesAssumption == MaxFrames \in Nat
ASSUME ModesAssumption == Modes \subseteq Nat /\ DefaultMode \in Modes
ASSUME CodeAssumption == GoodCode \in Nat
ASSUME InputFaultsAssumption == InputFaults \in BOOLEAN

VARIABLES hst,       \* hst[c]: where the handler of connection c is
          hbuf,      \* its read buffer: messages read and not yet handled
          hkey,      \* its crypto_session
          hsid,      \* its session_id, 0 for None
          txq,       \* the channel to its writer task
          writing,   \* whether its writer task runs
          sessions,  \* the session table: id |-> ClientSession
          nextSid,   \* the next fresh session id
          nextEph,   \* the next fresh ephemeral key
          visiting,  \* sessions the capture loop has yet to visit for `frame'
          frame,     \* the number of the last captured frame
          codeLive,  \* the access code has not expired
          applied    \* applied[c]: inputs of c given to the input backend

serverVars == <<hst, hbuf, hkey, hsid, txq, writing, sessions, nextSid, nextEph,
                visiting, frame, codeLive, applied>>

Live == {"read", "parse", "reply"}
Failed == {"read_error", "bad_message", "no_key", "send_error", "input_error"}
HandlerStates == {"none", "done", "exited"} \cup Live \cup Failed

Session == [conn : Conns, key : Keys, mode : Nat, forced : BOOLEAN]

ServerTypeOK ==
    /\ hst \in [Conns -> HandlerStates]
    /\ hbuf \in [Conns -> Seq(Messages)]
    /\ hkey \in [Conns -> Keys]
    /\ hsid \in [Conns -> Nat]
    /\ txq \in [Conns -> Seq(Messages)]
    /\ writing \in [Conns -> BOOLEAN]
    /\ sessions \in [DOMAIN sessions -> Session]
    /\ DOMAIN sessions \subseteq 1..(nextSid - 1)
    /\ nextSid \in Nat \ {0}
    /\ nextEph \in Nat \ {0}
    /\ visiting \subseteq DOMAIN sessions
    /\ frame \in 0..MaxFrames
    /\ codeLive \in BOOLEAN
    /\ applied \in [Conns -> Seq(Nat)]

ServerInit ==
    /\ hst = [c \in Conns |-> "none"]
    /\ hbuf = [c \in Conns |-> <<>>]
    /\ hkey = [c \in Conns |-> NoKey]
    /\ hsid = [c \in Conns |-> 0]
    /\ txq = [c \in Conns |-> <<>>]
    /\ writing = [c \in Conns |-> FALSE]
    /\ sessions = [i \in {} |-> {}]
    /\ nextSid = 1
    /\ nextEph = 1
    /\ visiting = {}
    /\ frame = 0
    /\ codeLive = TRUE
    /\ applied = [c \in Conns |-> <<>>]

-----------------------------------------------------------------------------
(* The table's operations.                                                 *)

SessionsOf(c) == {i \in DOMAIN sessions : sessions[i].conn = c}
HasSession(c) == hsid[c] \in DOMAIN sessions
NoReadGuard == visiting = {}

Insert(id, s) ==
    sessions' = [i \in DOMAIN sessions \cup {id} |-> IF i = id THEN s ELSE sessions[i]]
Remove(id) ==
    sessions' = [i \in DOMAIN sessions \ {id} |-> sessions[i]]

(* The pieces handler actions are made of.                                 *)

Incoming(c) == Head(hbuf[c])

(* The inner loop's next message, decrypted and deserialized, is a `type'. *)
Takes(c, types) ==
    /\ hst[c] = "parse"
    /\ Decrypts(hkey[c], Incoming(c))
    /\ Incoming(c).type \in types

(* Wrong variant: one message for each read.                               *)
FinishOne(c) ==
    /\ hbuf' = [hbuf EXCEPT ![c] = Tail(@)]
    /\ hst' = [hst EXCEPT ![c] = "read"]

(* Go on with the inner loop, or read again when the buffer is used up.    *)
Finish(c) ==
    /\ hbuf' = [hbuf EXCEPT ![c] = Tail(@)]
    /\ hst' = [hst EXCEPT ![c] = IF Tail(hbuf[c]) = <<>> THEN "read" ELSE "parse"]

(* The handler returns an error: its read half, its buffer and its sender  *)
(* are dropped, its writer task is detached, and nothing else is done.     *)
Fail(c, why) ==
    /\ hst' = [hst EXCEPT ![c] = why]
    /\ hbuf' = [hbuf EXCEPT ![c] = <<>>]
    /\ ServerDrops(c, {"r"}, toServer[c])

(* send_encrypted: queue a message for the writer task; an error when that *)
(* task has ended.                                                         *)
Respond(c, m) ==
    IF writing[c]
    THEN /\ txq' = [txq EXCEPT ![c] = Append(@, m)]
         /\ Finish(c)
         /\ UNCHANGED <<sOpen, toServer, link>>
    ELSE Fail(c, "send_error") /\ UNCHANGED txq

(* What a handler step never touches.                                      *)
handlerFrame == <<toClient, cOpen, listening, writing, visiting, frame, codeLive>>

-----------------------------------------------------------------------------
(* The handler of connection c.                                            *)

Accept(c) ==
    /\ listening /\ hst[c] = "none" /\ link[c] # "none"
    /\ hst' = [hst EXCEPT ![c] = "read"]
    /\ writing' = [writing EXCEPT ![c] = TRUE]
    /\ UNCHANGED <<wireVars, hbuf, hkey, hsid, txq, sessions, nextSid, nextEph,
                   visiting, frame, codeLive, applied>>

(* read_buf: some of what the socket holds, the inner loop then runs.      *)
ReadBuf(c) ==
    /\ hst[c] = "read" /\ toServer[c] # <<>>
    /\ \E n \in 1..Len(toServer[c]) :
         /\ hbuf' = [hbuf EXCEPT ![c] = @ \o SubSeq(toServer[c], 1, n)]
         /\ toServer' = [toServer EXCEPT ![c] = SubSeq(@, n + 1, Len(@))]
    /\ hst' = [hst EXCEPT ![c] = "parse"]
    /\ UNCHANGED <<handlerFrame, link, sOpen, hkey, hsid, txq, sessions, nextSid,
                   nextEph, applied>>

(* Wrong variant: remove the session without waiting for the table's lock. *)
CleanupUnlocked(c) ==
    /\ hst[c] = "read" /\ ServerAtEof(c)
    /\ hst' = [hst EXCEPT ![c] = "done"]
    /\ hbuf' = [hbuf EXCEPT ![c] = <<>>]
    /\ Remove(hsid[c])
    /\ writing' = [writing EXCEPT ![c] = FALSE]
    /\ txq' = [txq EXCEPT ![c] = <<>>]
    /\ ServerDrops(c, Halves, <<>>)
    /\ UNCHANGED <<toClient, cOpen, listening, hkey, hsid, nextSid, nextEph, visiting,
                   frame, codeLive, applied>>

(* Wrong variant: leave the session to the writer task's end.              *)
CleanupKeepsSession(c) ==
    /\ hst[c] = "read" /\ ServerAtEof(c)
    /\ hst' = [hst EXCEPT ![c] = "done"]
    /\ hbuf' = [hbuf EXCEPT ![c] = <<>>]
    /\ writing' = [writing EXCEPT ![c] = FALSE]
    /\ txq' = [txq EXCEPT ![c] = <<>>]
    /\ ServerDrops(c, Halves, <<>>)
    /\ UNCHANGED <<toClient, cOpen, listening, hkey, hsid, sessions, nextSid, nextEph,
                   visiting, frame, codeLive, applied>>

(* read_buf returned 0: leave the loop, remove the session, abort the      *)
(* writer task; both halves of the socket are dropped.                     *)
Cleanup(c) ==
    /\ hst[c] = "read" /\ ServerAtEof(c)
    /\ hsid[c] # 0 => NoReadGuard
    /\ hst' = [hst EXCEPT ![c] = "done"]
    /\ hbuf' = [hbuf EXCEPT ![c] = <<>>]
    /\ Remove(hsid[c])
    /\ writing' = [writing EXCEPT ![c] = FALSE]
    /\ txq' = [txq EXCEPT ![c] = <<>>]
    /\ ServerDrops(c, Halves, <<>>)
    /\ UNCHANGED <<toClient, cOpen, listening, hkey, hsid, nextSid, nextEph, visiting, frame,
                   codeLive, applied>>

(* Wrong variant: a failing read is taken for `nothing to read yet'.       *)
ErrorOfParsing(c) ==
    IF hst[c] = "parse" /\ ~Decrypts(hkey[c], Incoming(c)) THEN "bad_message" ELSE "none"

(* A failing read, decryption or parse ends the handler through `?'.       *)
ErrorOf(c) ==
    IF hst[c] = "read" /\ link[c] = "reset" THEN "read_error"
    ELSE IF hst[c] = "parse" /\ ~Decrypts(hkey[c], Incoming(c)) THEN "bad_message"
    ELSE "none"

HandlerError(c) ==
    /\ ErrorOf(c) # "none"
    /\ Fail(c, ErrorOf(c))
    /\ UNCHANGED <<handlerFrame, hkey, hsid, txq, sessions, nextSid, nextEph, applied>>

(* Wrong variant: the acknowledgement is already encrypted.                *)
HandleKeyExchangeSealed(c) ==
    LET key == SharedKey(Incoming(c).arg, nextEph) IN
    /\ Takes(c, {"KeyExchange"})
    /\ Respond(c, Encrypt(key, Message("KeyExchangeAck", nextEph)))
    /\ hkey' = [hkey EXCEPT ![c] = key]
    /\ nextEph' = nextEph + 1
    /\ UNCHANGED <<handlerFrame, hsid, sessions, nextSid, applied>>

HandleKeyExchange(c) ==
    /\ Takes(c, {"KeyExchange"})
    /\ Respond(c, Message("KeyExchangeAck", nextEph))
    /\ hkey' = [hkey EXCEPT ![c] =
                  IF writing[c] THEN SharedKey(Incoming(c).arg, nextEph) ELSE @]
    /\ nextEph' = nextEph + 1
    /\ UNCHANGED <<handlerFrame, hsid, sessions, nextSid, applied>>

(* handle_auth: the code is the stored one and has not expired.            *)
Verified(m) == m.arg = GoodCode /\ codeLive

AuthResponse(c, verdict) == Encrypt(hkey[c], Message("AuthResponse", verdict))

(* A login makes a session with a key and puts it into the table.          *)
Login(c, key) ==
    /\ NoReadGuard
    /\ hsid' = [hsid EXCEPT ![c] = nextSid]
    /\ Insert(nextSid, [conn |-> c, key |-> key, mode |-> DefaultMode, forced |-> FALSE])
    /\ nextSid' = nextSid + 1
    /\ hst' = [hst EXCEPT ![c] = "reply"]
    /\ UNCHANGED <<hbuf, txq, sOpen, toServer, link>>

Refuse(c) ==
    /\ Respond(c, AuthResponse(c, 0))
    /\ UNCHANGED <<hsid, sessions, nextSid>>

(* Wrong variant: the session gets a crypto session of its own, as before  *)
(* the repair in FIXES_SUMMARY.md.                                         *)
HandleAuthRequestDummyKey(c) ==
    /\ Takes(c, {"AuthRequest"})
    /\ IF Verified(Incoming(c)) THEN Login(c, SharedKey(c, nextEph)) ELSE Refuse(c)
    /\ UNCHANGED <<handlerFrame, hkey, nextEph, applied>>

(* Wrong variant: a refused code is not answered.                          *)
HandleAuthRequestSilent(c) ==
    /\ Takes(c, {"AuthRequest"})
    /\ IF Verified(Incoming(c))
       THEN Login(c, hkey[c])
       ELSE Finish(c) /\ UNCHANGED <<hsid, sessions, nextSid, txq, sOpen, toServer, link>>
    /\ UNCHANGED <<handlerFrame, hkey, nextEph, applied>>

(* An accepted AuthRequest puts a session into the table; the answer is    *)
(* queued by a later step, after the table's lock and the await on the     *)
(* crypto lock.                                                            *)
HandleAuthRequest(c) ==
    /\ Takes(c, {"AuthRequest"})
    /\ IF hkey[c] = NoKey
       THEN Fail(c, "no_key") /\ UNCHANGED <<hsid, sessions, nextSid, txq>>
       ELSE IF Verified(Incoming(c)) THEN Login(c, hkey[c]) ELSE Refuse(c)
    /\ UNCHANGED <<handlerFrame, hkey, nextEph, applied>>

AuthReply(c) ==
    /\ hst[c] = "reply"
    /\ Respond(c, AuthResponse(c, 1))
    /\ UNCHANGED <<handlerFrame, hkey, hsid, sessions, nextSid, nextEph, applied>>

HandleStartStream(c) ==
    /\ Takes(c, {"StartStream"})
    /\ IF HasSession(c)
       THEN Respond(c, Encrypt(hkey[c], Message("QualityChange", sessions[hsid[c]].mode)))
       ELSE Finish(c) /\ UNCHANGED <<txq, sOpen, toServer, link>>
    /\ UNCHANGED <<handlerFrame, hkey, hsid, sessions, nextSid, nextEph, applied>>

(* force_quality, then the confirmation.                                   *)
HandleQualityRequest(c) ==
    /\ Takes(c, {"RequestQualityChange"})
    /\ IF HasSession(c)
       THEN /\ sessions' = [sessions EXCEPT ![hsid[c]].mode = Incoming(c).arg,
                                            ![hsid[c]].forced = TRUE]
            /\ Respond(c, Encrypt(hkey[c], Message("QualityChange", Incoming(c).arg)))
       ELSE Finish(c) /\ UNCHANGED <<sessions, txq, sOpen, toServer, link>>
    /\ UNCHANGED <<handlerFrame, hkey, hsid, nextSid, nextEph, applied>>

(* Wrong variant: inputs are spawned and not awaited one by one.           *)
HandleInputUnawaited(c) ==
    /\ Takes(c, {"Input"})
    /\ \E i \in 1..Len(hbuf[c]) :
         /\ hbuf[c][i].type = "Input"
         /\ applied' = [applied EXCEPT ![c] = Append(@, hbuf[c][i].arg)]
         /\ hbuf' = [hbuf EXCEPT ![c] = SubSeq(@, 1, i - 1) \o SubSeq(@, i + 1, Len(@))]
         /\ hst' = [hst EXCEPT ![c] = IF Len(hbuf[c]) = 1 THEN "read" ELSE "parse"]
    /\ UNCHANGED <<handlerFrame, sOpen, toServer, link, hkey, hsid, txq, sessions,
                   nextSid, nextEph>>

(* Mouse and keyboard events are awaited one by one; an error of the       *)
(* backend ends the handler.                                               *)
HandleInput(c) ==
    /\ Takes(c, {"Input"})
    /\ \/ /\ applied' = [applied EXCEPT ![c] = Append(@, Incoming(c).arg)]
          /\ Finish(c)
          /\ UNCHANGED <<sOpen, toServer, link>>
       \/ InputFaults /\ Fail(c, "input_error") /\ UNCHANGED applied
    /\ UNCHANGED <<handlerFrame, hkey, hsid, txq, sessions, nextSid, nextEph>>

(* A FrameAck only feeds the quality metrics (not kept here); the messages *)
(* the server has no arm for are ignored.                                  *)
HandleOther(c) ==
    /\ Takes(c, {"FrameAck", "KeyExchangeAck", "AuthResponse", "ScreenFrame",
                 "QualityChange"})
    /\ Finish(c)
    /\ UNCHANGED <<handlerFrame, toServer, link, sOpen, hkey, hsid, txq, sessions,
                   nextSid, nextEph, applied>>

(* Leaves the inner loop only: the handler reads again.                    *)
HandleDisconnect(c) ==
    /\ Takes(c, {"Disconnect"})
    /\ hbuf' = [hbuf EXCEPT ![c] = Tail(@)]
    /\ hst' = [hst EXCEPT ![c] = "read"]
    /\ UNCHANGED <<handlerFrame, toServer, link, sOpen, hkey, hsid, txq, sessions,
                   nextSid, nextEph, applied>>

-----------------------------------------------------------------------------
(* The writer task of connection c: it owns the write half and ends when   *)
(* a write fails or when every sender of its channel is gone.              *)

writerFrame == <<toServer, cOpen, listening, hst, hbuf, hkey, hsid, sessions, nextSid, nextEph,
                 visiting, frame, codeLive, applied>>

(* Wrong variant: the newest message goes out first.                       *)
ServerWriteNewest(c) ==
    /\ writing[c] /\ txq[c] # <<>> /\ ServerCanWrite(c)
    /\ ServerPuts(c, txq[c][Len(txq[c])])
    /\ txq' = [txq EXCEPT ![c] = SubSeq(@, 1, Len(@) - 1)]
    /\ UNCHANGED <<writerFrame, sOpen, writing>>

ServerWrite(c) ==
    /\ writing[c] /\ txq[c] # <<>> /\ ServerCanWrite(c)
    /\ ServerPuts(c, Head(txq[c]))
    /\ txq' = [txq EXCEPT ![c] = Tail(@)]
    /\ UNCHANGED <<writerFrame, sOpen, writing>>

HasSender(c) == hst[c] \in Live \/ SessionsOf(c) # {}

ServerWriterEnds(c) ==
    /\ writing[c]
    /\ \/ txq[c] # <<>> /\ link[c] = "reset"
       \/ txq[c] = <<>> /\ ~HasSender(c)
    /\ writing' = [writing EXCEPT ![c] = FALSE]
    /\ txq' = [txq EXCEPT ![c] = <<>>]
    /\ ServerDrops(c, {"w"}, toServer[c])
    /\ UNCHANGED <<toClient, cOpen, listening, hst, hbuf, hkey, hsid, sessions, nextSid,
                   nextEph, visiting, frame, codeLive, applied>>

-----------------------------------------------------------------------------
(* The capture loop.                                                       *)

captureFrame == <<wireVars, hst, hbuf, hkey, hsid, writing, nextSid, nextEph,
                  codeLive, applied>>

(* A frame arrives and the loop takes the read guard (a frame that finds   *)
(* no session changes nothing).                                            *)
Capture ==
    /\ frame < MaxFrames /\ visiting = {} /\ DOMAIN sessions # {}
    /\ frame' = frame + 1
    /\ visiting' = DOMAIN sessions
    /\ UNCHANGED <<captureFrame, txq, sessions>>

(* Wrong variant: adaptation overrides the user's choice.                  *)
AdaptsForced(id, mode) == sessions' = [sessions EXCEPT ![id].mode = mode]

(* get_recommended_quality: a forced mode stays, otherwise the controller  *)
(* may move to any mode.                                                   *)
Adapts(id, mode) ==
    /\ sessions[id].forced => mode = sessions[id].mode
    /\ sessions' = [sessions EXCEPT ![id].mode = mode]

SkipSession(id) ==
    /\ id \in visiting
    /\ \E mode \in Modes : Adapts(id, mode)
    /\ visiting' = visiting \ {id}
    /\ UNCHANGED <<captureFrame, txq, frame>>

(* The frame is encrypted with the session's key and queued; a failing     *)
(* send is ignored.                                                        *)
SendFrame(id) ==
    /\ id \in visiting
    /\ \E mode \in Modes : Adapts(id, mode)
    /\ visiting' = visiting \ {id}
    /\ LET c == sessions[id].conn
           m == Encrypt(sessions[id].key, Message("ScreenFrame", frame))
       IN  txq' = [txq EXCEPT ![c] = IF writing[c] THEN Append(@, m) ELSE @]
    /\ UNCHANGED <<captureFrame, frame>>

(* now > expires_at from here on (auth.rs).                                *)
ExpireCode ==
    /\ codeLive
    /\ codeLive' = FALSE
    /\ UNCHANGED <<wireVars, hst, hbuf, hkey, hsid, txq, writing, sessions, nextSid,
                   nextEph, visiting, frame, applied>>

(* The process ends: every task is gone and the system closes the sockets. *)
ServerExit ==
    /\ listening
    /\ listening' = FALSE
    /\ hst' = [c \in Conns |-> IF hst[c] \in Live \cup {"none"} THEN "exited" ELSE hst[c]]
    /\ hbuf' = [c \in Conns |-> <<>>]
    /\ txq' = [c \in Conns |-> <<>>]
    /\ writing' = [c \in Conns |-> FALSE]
    /\ sessions' = [i \in {} |-> {}]
    /\ visiting' = {}
    /\ sOpen' = [c \in Conns |-> {}]
    /\ link' = [c \in Conns |-> IF toServer[c] # <<>> THEN "reset" ELSE link[c]]
    /\ toServer' = [c \in Conns |-> <<>>]
    /\ UNCHANGED <<toClient, cOpen, hkey, hsid, nextSid, nextEph, frame, codeLive, applied>>

-----------------------------------------------------------------------------
HandlerStep(c) ==
    \/ Accept(c) \/ ReadBuf(c) \/ Cleanup(c) \/ HandlerError(c)
    \/ HandleKeyExchange(c) \/ HandleAuthRequest(c) \/ AuthReply(c)
    \/ HandleStartStream(c) \/ HandleQualityRequest(c) \/ HandleInput(c)
    \/ HandleOther(c) \/ HandleDisconnect(c)

ServerWriterStep(c) == ServerWrite(c) \/ ServerWriterEnds(c)

VisitStep == \E id \in visiting : SkipSession(id) \/ SendFrame(id)

ServerNext ==
    \/ \E c \in Conns : HandlerStep(c) \/ ServerWriterStep(c)
    \/ Capture \/ VisitStep \/ ExpireCode \/ ServerExit
=============================================================================
