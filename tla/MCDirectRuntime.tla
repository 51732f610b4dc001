-------------------------- MODULE MCDirectRuntime --------------------------
(***************************************************************************)
(* Instances of DirectRuntime for TLC.                                     *)
(***************************************************************************)
EXTENDS DirectRuntime, TLC

CONSTANTS n1, n2, s1, s2

\* two messages of one conversation: busy checks, newest-message checks
OneSession == (n1 :> s1) @@ (n2 :> s1)

\* the second message is tried once, the first twice
ThreeRuns == {<<n1, 1>>, <<n1, 2>>, <<n2, 1>>}

\* each message is tried once
TwoRuns == {<<n1, 1>>, <<n2, 1>>}

\* two conversations: tasks of one between the tasks of the other
TwoSessions == (n1 :> s1) @@ (n2 :> s2)
=============================================================================
