----------------------------- MODULE ProviderRun -----------------------------
(***************************************************************************)
(* One model run as its driver performs it (model.ts, providers/): an HTTP *)
(* request with a stream of server-sent events; Claude, Ollama and "codex  *)
(* exec" as a subprocess whose output is read; "codex app-server" and the  *)
(* ACP tools as a subprocess that is talked to with JSON-RPC.              *)
(*                                                                         *)
(* The drivers of the first two kinds are generators: the reader's next()  *)
(* drives them.  The others have a task of their own that fills a queue,   *)
(* and goes on when the reader is gone.                                    *)
(*                                                                         *)
(* Left out: prompts, texts, the choice of the model, environment          *)
(* variables, what is written on the command line, lines that are no       *)
(* frames, answers to tool calls, token counts.                            *)
(***************************************************************************)
EXTENDS Naturals, FiniteSets, Sequences

CONSTANT MaxFrames   \* bound: the frames a service sends

ASSUME FramesBound == MaxFrames \in Nat \ {0}

VARIABLES
  driver,   \* the driver: "http", "claude", "ollama", "codex" or "acp"
  tools,    \* structuredModelToolDefinitions is not empty
  stage,    \* where the driver's own task is
  exec,     \* the run has fallen back from codex app-server to codex exec
  service,  \* the connection or subprocess: "none", "up", "gone"
  request,  \* the prompt: "none", "sent", "taken", "rejected"
  prompts,  \* history: how often a service took the prompt
  wire,     \* frames that are on their way to the driver
  sent,     \* bound: how many frames were sent
  answer,   \* a reply has come, its waiter has not run yet: "none", "ok", "bad"
  early,    \* frames that came before the turn was known (early, earlyToolCalls)
  calls,    \* HTTP: a tool call has been begun (pendingToolCalls)
  queue,    \* AsyncModelEventQueue: events not read yet
  closed,   \* ... and how it ended
  aborted,  \* signal.aborted
  last,     \* the last event the reader got
  ending    \* how the reader's loop ended

streamVars == <<driver, tools, stage, exec, service, request, prompts, wire, sent, answer,
                early, calls, queue, closed, aborted, last, ending>>

Contract == INSTANCE ModelStream

Rpc == driver \in {"codex", "acp"} /\ ~exec

Stages == {"start", "connect", "read", "probe", "initialize", "session", "thread", "model",
           "turn", "prompt", "wait", "over"}
Endings == {"none", "completed", "aborted"} \cup Contract!Failures
Frames == {"ok", "error", "busy", "begin", "text", "call", "bad", "done", "refusal"}
Events == {"started", "text", "call", "completed"}

StreamTypeOK ==
  /\ driver \in Contract!Drivers
  /\ tools \in BOOLEAN /\ exec \in BOOLEAN /\ calls \in BOOLEAN /\ aborted \in BOOLEAN
  /\ stage \in Stages
  /\ service \in {"none", "up", "gone"}
  /\ request \in {"none", "sent", "taken", "rejected"}
  /\ prompts \in 0..2
  /\ wire \in Seq(Frames) /\ early \in Seq(Frames) /\ queue \in Seq(Events)
  /\ sent \in 0..MaxFrames
  /\ answer \in {"none", "ok", "bad"}
  /\ closed \in Endings /\ ending \in Endings
  /\ last \in {"none"} \cup Events

StreamInit ==
  /\ driver \in Contract!Drivers /\ tools \in BOOLEAN
  /\ stage = "start" /\ exec = FALSE
  /\ service = "none" /\ request = "none" /\ prompts = 0
  /\ wire = <<>> /\ sent = 0 /\ answer = "none" /\ early = <<>> /\ calls = FALSE
  /\ queue = <<>> /\ closed = "none"
  /\ aborted = FALSE /\ last = "none" /\ ending = "none"

remoteVars == <<service, request, prompts, wire, sent>>
taskVars == <<stage, answer, early, calls, queue, closed>>
fixedVars == <<driver, tools, exec, aborted>>

----------------------------------------------------------------------------
(* The service.                                                            *)

\* A prompt that was sent arrives, also after the run has ended.
ServiceTakes ==
  /\ service = "up" /\ request = "sent"
  /\ request' = "taken" /\ prompts' = prompts + 1
  /\ UNCHANGED <<fixedVars, taskVars, service, wire, sent, last, ending>>

\* what a driver waits for a reply to
Asking == stage \in {"connect", "initialize", "session", "thread", "model", "turn", "prompt"}
Replies == {"ok", "error", "busy"}
Replied == answer # "none" \/ \E i \in DOMAIN wire : wire[i] \in Replies

\* The protocol: one reply to each request, and content once the prompt is there.  A refusal
\* ("busy" is one with a status of 500 or more) may come after the prompt was taken: the
\* driver's only test is response.ok.
MaySend(frame) ==
  CASE frame = "ok" -> Asking /\ ~Replied /\ (request = "none" \/ request = "taken")
    [] frame = "error" -> Asking /\ ~Replied
    [] frame = "busy" -> stage = "connect" /\ ~Replied
    [] frame = "begin" -> exec /\ request = "taken"
    [] frame \in {"call", "bad"} -> driver \in {"http", "codex"} /\ ~exec /\ request = "taken"
    [] OTHER -> request = "taken" /\ (driver = "http" => stage = "read")

ServiceSends(frame) ==
  /\ service = "up" /\ stage # "over" /\ sent < MaxFrames
  /\ MaySend(frame)
  /\ wire' = Append(wire, frame) /\ sent' = sent + 1
  /\ request' = IF frame \in {"error", "busy"} /\ request = "sent" THEN "rejected" ELSE request
  /\ UNCHANGED <<fixedVars, taskVars, service, prompts, last, ending>>

\* the connection breaks, the subprocess exits
ServiceEnds ==
  /\ service = "up"
  /\ service' = "gone"
  /\ UNCHANGED <<fixedVars, taskVars, request, prompts, wire, sent, last, ending>>

----------------------------------------------------------------------------
(* The reader, and the beginning of a run.                                 *)

\* the reader's next() brings event e
Yield(e) == last' = e /\ UNCHANGED ending

\* the generator ends
EndsWith(how) ==
  /\ ending' = how /\ stage' = "over"
  /\ last' = IF how = "completed" THEN "completed" ELSE last
  /\ UNCHANGED <<answer, early, calls, queue, closed>>

\* no path, or no model
NotConfigured ==
  /\ stage = "start" /\ driver # "http"
  /\ EndsWith("other")
  /\ UNCHANGED <<fixedVars, remoteVars>>

\* The first next().  Ollama counts as started once its prompt is written.
RunStarts ==
  /\ stage = "start"
  /\ stage' = CASE driver = "http" -> "connect"
                [] driver = "codex" -> "initialize"
                [] driver = "acp" -> "probe"
                [] OTHER -> "read"
  /\ request' = IF Rpc THEN "none" ELSE "sent"
  /\ service' \in (IF driver = "acp" THEN {"none"} ELSE {"up", "gone"})
  /\ last' = IF driver = "ollama" THEN "started" ELSE last
  /\ UNCHANGED <<fixedVars, prompts, wire, sent, answer, early, calls, queue, closed, ending>>

\* Mutant: the abort does not reach the queue.
AbortUnheard ==
  /\ stage # "start" /\ ending = "none" /\ ~aborted
  /\ aborted' = TRUE
  /\ UNCHANGED <<driver, tools, exec, remoteVars, taskVars, last, ending>>

\* The signal is aborted.  HTTP and the subprocesses notice by themselves (below); the queue
\* fails at once, while the task that fills it goes on.  An ACP driver does not listen
\* while it probes its command.
AbortRun ==
  /\ stage # "start" /\ ending = "none" /\ ~aborted
  /\ aborted' = TRUE
  /\ IF Rpc /\ stage # "probe" /\ closed = "none"
       THEN /\ closed' = "aborted"
            /\ stage' = IF stage = "wait" THEN "over" ELSE stage
       ELSE UNCHANGED <<closed, stage>>
  /\ UNCHANGED <<driver, tools, exec, remoteVars, answer, early, calls, queue, last, ending>>

----------------------------------------------------------------------------
(* HTTP.                                                                   *)

\* the first frame of the wire, and the rest
Receives(frame) == wire # <<>> /\ Head(wire) = frame /\ wire' = Tail(wire)

HttpResponds ==
  /\ stage = "connect"
  /\ \/ /\ Receives("ok")
        /\ Yield("started") /\ stage' = "read"
        /\ UNCHANGED <<answer, early, calls, queue, closed>>
     \/ Receives("error") /\ EndsWith("refused")
     \/ Receives("busy") /\ EndsWith("retryable")
  /\ UNCHANGED <<fixedVars, service, request, prompts, sent>>

\* connectMs passes, or fetch fails
HttpConnectFails ==
  /\ stage = "connect"
  /\ EndsWith("transport")
  /\ UNCHANGED <<fixedVars, remoteVars>>

\* the calls that were collected are those of tools that were offered, and make sense
finalizeToolCalls == calls /\ tools /\ Yield("call") /\ calls' = FALSE

\* decodeSseEvent: calls are collected, and checked and yielded before "completed"
HttpReads ==
  /\ driver = "http" /\ stage = "read"
  /\ \/ /\ Receives("text") /\ Yield("text")
        /\ UNCHANGED taskVars
     \/ /\ Receives("call") /\ calls' = TRUE
        /\ UNCHANGED <<stage, answer, early, queue, closed, last, ending>>
     \/ /\ Receives("bad") \/ Receives("refusal") \/ Receives("call")
        /\ EndsWith("other")
     \/ /\ Receives("done")
        /\ EndsWith(IF calls THEN "other" ELSE "completed")
     \/ /\ wire # <<>> /\ Head(wire) = "done"
        /\ finalizeToolCalls
        /\ UNCHANGED <<stage, answer, early, queue, closed, wire>>
  /\ UNCHANGED <<fixedVars, service, request, prompts, sent>>

\* firstEventMs, idleMs or totalMs passes, or the stream breaks off (MODEL_STREAM_TRUNCATED)
HttpReadFails ==
  /\ driver = "http" /\ stage = "read"
  /\ EndsWith("other") \/ (service = "gone" /\ EndsWith("transport"))
  /\ UNCHANGED <<fixedVars, remoteVars>>

HttpAborts ==
  /\ driver = "http" /\ stage \in {"connect", "read"} /\ aborted
  /\ EndsWith("aborted")
  /\ UNCHANGED <<fixedVars, remoteVars>>

----------------------------------------------------------------------------
(* Subprocesses.                                                           *)

Subprocess == driver \in {"claude", "ollama"} \/ exec

\* Ollama prints text and nothing else.
CliReads ==
  /\ Subprocess /\ stage = "read"
  /\ \/ /\ wire # <<>> /\ Head(wire) \in {"text", "done"} /\ last = "none"
        /\ Yield("started")
        /\ UNCHANGED <<taskVars, wire>>
     \/ /\ Receives("begin")
        /\ IF last = "none" THEN Yield("started") ELSE UNCHANGED <<last, ending>>
        /\ UNCHANGED taskVars
     \/ /\ Receives("text") /\ last # "none"
        /\ Yield("text")
        /\ UNCHANGED taskVars
     \/ /\ driver = "ollama" /\ (Receives("done") \/ Receives("refusal"))
        /\ UNCHANGED <<taskVars, last, ending>>
     \/ /\ driver # "ollama" /\ Receives("done") /\ last # "none"
        /\ EndsWith("completed")
     \/ /\ driver = "claude" /\ wire # <<>> /\ Head(wire) = "done" /\ last = "started"
        /\ Yield("text")                  \* the fallback: nothing was streamed
        /\ UNCHANGED <<taskVars, wire>>
     \/ /\ driver # "ollama" /\ Receives("refusal")
        /\ EndsWith("refused")
  /\ UNCHANGED <<fixedVars, service, request, prompts, sent>>

\* The output has ended.  An abort has killed the process.
CliEnds ==
  /\ Subprocess /\ stage = "read" /\ service = "gone" /\ wire = <<>>
  /\ IF aborted THEN EndsWith("aborted")
     ELSE \/ EndsWith("other")
          \/ driver = "ollama" /\ EndsWith("refused")
          \/ driver = "ollama" /\ last = "text" /\ EndsWith("completed")
  /\ UNCHANGED <<fixedVars, remoteVars>>

----------------------------------------------------------------------------
(* JSON-RPC: the task that fills the queue.                                *)

\* A queue that has ended takes nothing more.  (That of an ACP driver would take another
\* error, but its reader has raised the first by then.)
Push(events) == queue' = IF closed = "none" THEN queue \o events ELSE queue
Close(how) == closed' = IF closed = "none" THEN how ELSE closed

\* probeCliVersion, before anything else
AcpProbes ==
  /\ stage = "probe"
  /\ \/ /\ stage' = "initialize" /\ service' \in {"up", "gone"}
        /\ UNCHANGED <<answer, early, calls, queue, closed, last, ending>>
     \/ EndsWith("other") /\ UNCHANGED service
  /\ UNCHANGED <<fixedVars, request, prompts, wire, sent>>

\* what a frame of a turn adds to the queue, and how it ends it
Adds(frame) ==
  CASE frame = "text" -> <<"text">>
    [] frame = "call" /\ tools -> <<"call">>
    [] frame = "done" -> <<"completed">>
    [] OTHER -> <<>>
Closes(frame) ==
  CASE frame = "done" -> "completed"
    [] frame = "refusal" -> "refused"
    [] OTHER -> "none"

\* handleLine: a reply wakes its waiter, later.  What comes before the turn is known
\* is kept (codex); once it is known, it is consumed.
RpcReads ==
  /\ Rpc /\ stage \notin {"start", "probe", "over"} /\ wire # <<>>
  /\ wire' = Tail(wire)
  /\ LET frame == Head(wire) IN
     CASE frame \in Replies ->
            /\ answer' = IF frame = "ok" THEN "ok" ELSE "bad"
            /\ UNCHANGED <<stage, early, queue, closed>>
       [] frame \notin Replies /\ driver = "acp" ->
            /\ Push(IF frame = "text" THEN <<"text">> ELSE <<>>)
            /\ UNCHANGED <<stage, answer, early, closed>>
       [] frame \notin Replies /\ driver = "codex" /\ stage # "wait" ->
            /\ early' = Append(early, frame)
            /\ UNCHANGED <<stage, answer, queue, closed>>
       [] OTHER ->
            /\ Push(Adds(frame)) /\ Close(Closes(frame))
            /\ stage' = IF Closes(frame) = "none" THEN stage ELSE "over"
            /\ UNCHANGED <<answer, early>>
  /\ UNCHANGED <<fixedVars, service, request, prompts, sent, calls, last, ending>>

\* one event for each frame of a set
Each(event, frames) == [i \in 1..Cardinality(frames) |-> event]

\* Mutant: what came early is consumed before the turn is announced.
FlushFirst ==
  /\ Push(Each("text", {i \in DOMAIN early : early[i] = "text"}) \o <<"started">>)
  /\ UNCHANGED closed
  /\ stage' = "wait"

\* The turn is known: "started", the notifications that came early, up to the one that ends
\* the turn, then the calls.
Flush ==
  LET ends == {i \in DOMAIN early : Closes(early[i]) # "none"}
      end == early[CHOOSE i \in ends : \A j \in ends : i <= j]
      texts == {i \in DOMAIN early : early[i] = "text" /\ \A j \in ends : i < j}
      asked == {i \in DOMAIN early : early[i] = "call" /\ tools}
  IN  /\ Push(<<"started">> \o Each("text", texts)
                \o IF ends = {} THEN Each("call", asked) ELSE Adds(end))
      /\ IF ends = {} THEN UNCHANGED closed ELSE Close(Closes(end))
      /\ stage' = IF ends # {} \/ aborted THEN "over" ELSE "wait"

\* the waiter of a reply goes on with the next request
RpcProceeds ==
  /\ Rpc /\ answer = "ok"
  /\ answer' = "none"
  /\ \/ /\ driver = "codex" /\ stage = "initialize"
        /\ stage' = "thread"
        /\ UNCHANGED <<request, early, queue, closed>>
     \/ /\ driver = "codex" /\ stage = "thread"
        /\ stage' = "turn" /\ request' = "sent"
        /\ UNCHANGED <<early, queue, closed>>
     \/ /\ stage = "turn"
        /\ Flush /\ early' = <<>>
        /\ UNCHANGED request
     \/ /\ driver = "acp" /\ stage = "initialize"
        /\ stage' = "session"
        /\ UNCHANGED <<request, early, queue, closed>>
     \/ /\ stage = "session"
        /\ stage' = "model"
        /\ UNCHANGED <<request, early, queue, closed>>
     \/ /\ stage \in {"session", "model"}       \* not every ACP tool selects a model
        /\ stage' = "prompt" /\ request' = "sent"
        /\ Push(<<"started">>)
        /\ UNCHANGED <<early, closed>>
     \/ /\ stage = "prompt"
        /\ stage' = "over"
        /\ Push(<<"completed">>) /\ Close("completed")
        /\ UNCHANGED <<request, early>>
  /\ UNCHANGED <<fixedVars, service, prompts, wire, sent, calls, last, ending>>

\* A reply is an error, or makes no sense; or none comes in time, or the process exits.
RpcFails ==
  /\ Rpc /\ Asking
  /\ \E how \in {"refused", "other", "transport"} :
       /\ how = "refused" => answer # "none"
       /\ how = "other" => answer = "ok"
       /\ how = "transport" => answer = "none"
       /\ Close(how)
  /\ stage' = "over" /\ answer' = "none"
  /\ UNCHANGED <<fixedVars, service, request, prompts, wire, sent, early, calls, queue, last,
                 ending>>

----------------------------------------------------------------------------
(* The reader of a queue.                                                  *)

Pull ==
  /\ Rpc /\ ending = "none" /\ queue # <<>>
  /\ queue' = Tail(queue)
  /\ last' = Head(queue)
  /\ ending' = IF Head(queue) = "completed" THEN "completed" ELSE ending
  /\ UNCHANGED <<fixedVars, remoteVars, stage, answer, early, calls, closed>>

\* CodexCliProvider.run: a turn that fails before it started is run by codex exec, unless
\* the run was stopped or needs its tools.
FallsBack == driver = "codex" /\ last = "none" /\ ~aborted /\ ~tools

PullEnd ==
  /\ Rpc /\ ending = "none" /\ queue = <<>> /\ closed # "none"
  /\ IF FallsBack
       THEN /\ exec' = TRUE /\ stage' = "read"
            /\ service' \in {"up", "gone"} /\ request' = "sent" /\ wire' = <<>>
            /\ early' = <<>> /\ answer' = "none" /\ closed' = "none"
            /\ UNCHANGED <<calls, queue, last, ending>>
       ELSE /\ ending' = closed
            /\ UNCHANGED <<exec, stage, service, request, wire, early, answer, closed, calls,
                           queue, last>>
  /\ UNCHANGED <<driver, tools, aborted, prompts, sent>>

----------------------------------------------------------------------------

StreamStep ==
  \/ HttpResponds \/ HttpConnectFails \/ HttpReads \/ HttpReadFails \/ HttpAborts
  \/ CliReads \/ CliEnds
  \/ AcpProbes \/ RpcReads \/ RpcProceeds \/ RpcFails
  \/ Pull \/ PullEnd

StreamNext ==
  \/ ServiceTakes \/ ServiceEnds \/ \E frame \in Frames : ServiceSends(frame)
  \/ NotConfigured \/ RunStarts \/ AbortRun
  \/ StreamStep

StreamSpec == StreamInit /\ [][StreamNext]_streamVars

\* The driver's task goes on, its timers fire, and a subprocess exits some time.
StreamFair ==
  /\ WF_streamVars(StreamStep)
  /\ WF_streamVars(ServiceEnds)

----------------------------------------------------------------------------

\* Every driver keeps the contract that the executor is written against: no event before
\* "started", one end, no call of a tool that was not offered, an AbortError only after an
\* abort, and an error before "started" that rules out that the service took the prompt,
\* except for those that ModelStream lists.
KeepsContract == Contract!Spec

\* A run ends when its service is gone, a timer has fired or it was stopped; the app-server's
\* at least when it was stopped.
RunSettles ==
  stage # "start" /\ (driver # "codex" \/ exec \/ aborted) ~> ending # "none"

(* Claims of the repository that the code does not keep.                   *)

\* A turn of the app-server that is over without being completed ends as truncated.
CodexTurnEnds == stage # "start" /\ driver = "codex" ~> ending # "none"

\* "falls back to codex exec before acceptance": only a prompt that the app-server did
\* not take goes to codex exec.
FallsBackUntaken == [][exec' /\ ~exec => prompts = 0]_streamVars
=============================================================================
