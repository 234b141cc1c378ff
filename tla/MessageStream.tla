--------------------------- MODULE MessageStream ---------------------------
(***************************************************************************)
(* What one direction of a connection promises to the code above it: the   *)
(* messages arrive in the order in which they were sent, each once, none   *)
(* torn and none made up, and all of them unless the connection is cut; a  *)
(* cut keeps a prefix, whose messages still arrive.                        *)
(***************************************************************************)
EXTENDS Naturals, Sequences

CONSTANT Payloads

VARIABLES sent,     \* messages handed to the sender, in order
          received, \* messages handed to the receiver, in order
          owed,     \* how many of sent the receiver gets in the end
          cut       \* the connection was cut

vars == <<sent, received, owed, cut>>

Init == sent = <<>> /\ received = <<>> /\ owed = 0 /\ cut = FALSE

(* A message sent into a connection that was cut is not owed.              *)
Send ==
    /\ \E p \in Payloads : sent' = Append(sent, p)
    /\ owed' = IF cut THEN owed ELSE owed + 1
    /\ UNCHANGED <<received, cut>>

Receive ==
    /\ Len(received) < owed
    /\ received' = Append(received, sent[Len(received) + 1])
    /\ UNCHANGED <<sent, owed, cut>>

Cut ==
    /\ cut' = TRUE
    /\ owed' \in Len(received)..owed
    /\ UNCHANGED <<sent, received>>

Next == Send \/ Receive \/ Cut

Safety == Init /\ [][Next]_vars

Spec == Safety /\ WF_vars(Receive)
=============================================================================
