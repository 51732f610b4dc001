----------------------------- MODULE ModelStream -----------------------------
(***************************************************************************)
(* What the executor may rely on when it reads the events of a model run,  *)
(* whichever driver produces them; ProviderRun implements it, and          *)
(* DirectRuntime is written against it.                                    *)
(*                                                                         *)
(* Nothing comes before "started", there is one end, tools are called only *)
(* if they were offered, only an abort ends in an AbortError, and an       *)
(* error before "started" tells whether the service has the prompt, as far *)
(* as the driver can know.                                                 *)
(***************************************************************************)
EXTENDS Naturals

VARIABLES
  driver,   \* which driver runs
  tools,    \* tools are offered to the model
  last,     \* the last event that was yielded
  ending,   \* how the stream ended
  aborted,  \* the run was told to stop
  prompts   \* how often a service took the prompt

vars == <<driver, tools, last, ending, aborted, prompts>>

Drivers == {"http", "claude", "ollama", "codex", "acp"}
Failures == {"transport", "refused", "retryable", "other"}

\* "started" is yielded before anyone has the prompt: it acknowledges nothing.
StartsEarly == {"ollama", "acp"}

\* What may be raised before "started" although the service has the prompt: for http also a
\* status of 500 or more, which a gateway answers when the service behind it does not.
Late ==
  [d \in Drivers |->
     CASE d = "http" -> {"transport", "refused", "retryable"}
       [] d = "claude" -> {"refused", "other"}
       [] d = "codex" -> {"transport", "refused", "other"}
       [] OTHER -> {}]

\* An app-server turn that fails may be run again as a command: the prompt goes twice.
MaxPrompts == [d \in Drivers |-> IF d = "codex" THEN 2 ELSE 1]

Init ==
  /\ driver \in Drivers /\ tools \in BOOLEAN
  /\ last = "none" /\ ending = "none" /\ aborted = FALSE /\ prompts = 0

Running == ending = "none"

\* A prompt arrives; late, too, unless the error has said that it did not.
Prompt ==
  /\ prompts < MaxPrompts[driver]
  /\ Running \/ last # "none" \/ ending \in {"transport", "aborted"}
  /\ prompts' = prompts + 1
  /\ UNCHANGED <<driver, tools, last, ending, aborted>>

Abort ==
  /\ aborted' = TRUE
  /\ UNCHANGED <<driver, tools, last, ending, prompts>>

Start ==
  /\ Running /\ last = "none"
  /\ prompts > 0 \/ driver \in StartsEarly
  /\ last' = "started"
  /\ UNCHANGED <<driver, tools, ending, aborted, prompts>>

\* the calls of the tools that were described to the model
Offered == {call \in {"call"} : tools}

Speak ==
  /\ Running /\ last # "none"
  /\ last' \in {"text"} \cup Offered
  /\ UNCHANGED <<driver, tools, ending, aborted, prompts>>

Complete ==
  /\ Running /\ last # "none" /\ prompts > 0
  /\ last' = "completed" /\ ending' = "completed"
  /\ UNCHANGED <<driver, tools, aborted, prompts>>

Stop ==
  /\ Running /\ aborted
  /\ ending' = "aborted"
  /\ UNCHANGED <<driver, tools, last, aborted, prompts>>

Fail ==
  /\ Running
  /\ ending' \in Failures
  /\ last # "none" \/ prompts = 0 \/ ending' \in Late[driver]
  /\ UNCHANGED <<driver, tools, last, aborted, prompts>>

Next == Prompt \/ Abort \/ Start \/ Speak \/ Complete \/ Stop \/ Fail

Spec == Init /\ [][Next]_vars
=============================================================================
