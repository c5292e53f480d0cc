----------------------------- MODULE Rendezvous -----------------------------
(***************************************************************************)
(* What a channel of fjx-fiber promises: an unbuffered channel on which a  *)
(* send and a receive succeed together, in one step, and the receiver gets *)
(* that sender's message.  Calls that find no partner wait and are met in  *)
(* the order in which they came.  Closing dismisses the receivers; after   *)
(* it sends are refused, while receives still drain waiting senders.       *)
(***************************************************************************)
EXTENDS Sequences, Functions

CONSTANTS Fibers, NULL

VARIABLES
    senders, receivers, \* the fibers whose calls wait for a partner
    outcome,            \* fiber -> "waiting", or how its last call ends
    got,                \* fiber -> whose message its last call received
    closed

vars == <<senders, receivers, outcome, got, closed>>

Init ==
    /\ senders = <<>>
    /\ receivers = <<>>
    /\ outcome = [f \in Fibers |-> "init"]
    /\ got = [f \in Fibers |-> NULL]
    /\ closed = FALSE

(* The call of f ends, or starts to wait, without a message.               *)
Ends(f, o) ==
    /\ outcome' = [outcome EXCEPT ![f] = o]
    /\ got' = [got EXCEPT ![f] = NULL]

(* The sender s and the receiver r meet.                                   *)
Meet(s, r) ==
    /\ outcome' = [outcome EXCEPT ![s] = "success", ![r] = "success"]
    /\ got' = [got EXCEPT ![s] = NULL, ![r] = s]

Send(f) ==
    /\ \/ /\ closed
          /\ Ends(f, "closed")
          /\ UNCHANGED <<senders, receivers>>
       \/ /\ ~closed
          /\ receivers # <<>>
          /\ Meet(f, Head(receivers))
          /\ receivers' = Tail(receivers)
          /\ UNCHANGED senders
       \/ /\ ~closed
          /\ receivers = <<>>
          /\ Ends(f, "waiting")
          /\ senders' = Append(senders, f)
          /\ UNCHANGED receivers
    /\ UNCHANGED closed

Receive(f) ==
    /\ \/ /\ senders # <<>>
          /\ Meet(Head(senders), f)
          /\ senders' = Tail(senders)
          /\ UNCHANGED receivers
       \/ /\ senders = <<>>
          /\ closed
          /\ Ends(f, "closed")
          /\ UNCHANGED <<senders, receivers>>
       \/ /\ senders = <<>>
          /\ ~closed
          /\ Ends(f, "waiting")
          /\ receivers' = Append(receivers, f)
          /\ UNCHANGED senders
    /\ UNCHANGED closed

Dismiss(S, o) ==
    /\ outcome' = [f \in Fibers |-> IF f \in S THEN o ELSE outcome[f]]
    /\ UNCHANGED got

Close ==
    /\ closed' = TRUE
    /\ receivers' = <<>>
    /\ Dismiss(Range(receivers), "closed")
    /\ UNCHANGED senders

Destroy ==
    /\ closed' = TRUE
    /\ receivers' = <<>>
    /\ senders' = <<>>
    /\ Dismiss(Range(receivers) \cup Range(senders), "destroyed")

Next ==
    \/ \E f \in {g \in Fibers : outcome[g] # "waiting"} : Send(f) \/ Receive(f)
    \/ Close
    \/ Destroy

Spec == Init /\ [][Next]_vars
=============================================================================
