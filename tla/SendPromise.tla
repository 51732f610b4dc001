---------------------------- MODULE SendPromise ----------------------------
(***************************************************************************)
(* What sending a message promises: it is decided once, a message reported *)
(* as failed was not and will not be taken by the model service unless its *)
(* provider denied it, only such a message is sent again, and a delivered  *)
(* one was taken.  DirectRuntime implements this specification.            *)
(***************************************************************************)
CONSTANT Nonce
VARIABLES
  msg,    \* what the application reports of each message
  taken   \* the messages the model service took, and that have not been denied

vars == <<msg, taken>>

Decision == {"delivered", "failed", "refused", "stopped", "unknown"}

Init ==
  /\ msg = [n \in Nonce |-> "unsent"]
  /\ taken = {}

\* the service takes a message: while it is sent, or after the application gave up
Take(n) ==
  /\ msg[n] \notin {"unsent", "failed"}
  /\ taken' = taken \cup {n}
  /\ UNCHANGED msg

\* the provider reports that the service turned down a message that it took
Deny(n) ==
  /\ msg[n] = "sending"
  /\ n \in taken
  /\ taken' = taken \ {n}
  /\ UNCHANGED msg

\* what a message may become next
MayBecome(n, report) ==
  \/ msg[n] = "unsent" /\ report = "sending"
  \/ msg[n] = "failed" /\ report = "sending"
  \/ /\ msg[n] = "sending" /\ report \in Decision
     /\ report = "delivered" => n \in taken
     /\ report = "failed" => n \notin taken

\* a restart may decide several messages in one step
Report ==
  /\ msg' \in [Nonce -> Decision \cup {"unsent", "sending"}]
  /\ \A n \in Nonce : msg'[n] # msg[n] => MayBecome(n, msg'[n])
  /\ UNCHANGED taken

Next == Report \/ \E n \in Nonce : Take(n) \/ Deny(n)

Spec == Init /\ [][Next]_vars
=============================================================================
