------------------------- MODULE ToolApprovalProofs -------------------------
(***************************************************************************)
(* Proofs about ToolApproval, for any calls, runs and number of calls: the *)
(* types, the agreement of journal and answer, one effect per consent, and *)
(* that what is settled stays settled.                                     *)
(***************************************************************************)
EXTENDS ToolApproval, TLAPS, FiniteSetTheorems

(***************************************************************************)
(* The inductive invariant.                                                *)
(***************************************************************************)

\* A run waits for one call at a time, and only while it is live; what it waits for is
\* open, or has expired unnoticed.
Waiting ==
  \A c \in Call :
    /\ c \in waiter <=> outcome[c] = "waiting"
    /\ c \in waiter => /\ run[RunOf[c]] = "live"
                       /\ invocation[c] \in Open \cup {"expired"}
                       /\ \A d \in waiter : RunOf[d] = RunOf[c] => d = c

\* A call has a run that was started, no process that is down or recovering waits for
\* anything, and when the tools are recovered no run is live.
Called ==
  /\ \A c \in Call : invocation[c] # "none" => run[RunOf[c]] # "new"
  /\ \A c \in Call : invocation[c] = "none" => outcome[c] = "none"
  /\ \A r \in signal : run[r] = "ended"
  /\ app # "up" => /\ waiter = {} /\ signal = {} /\ dispatchNext = {}
                   /\ \A c \in Call : exec[c] = "none"
  /\ app = "recoverTools" => \A r \in Run : run[r] # "live"

\* A call that is executed is in the state its execution left it in, unless its abort has
\* cancelled it; and its run waits for it, or has ended.
Executing ==
  \A c \in Call :
    /\ exec[c] # "none" => /\ c \in waiter \/ run[RunOf[c]] = "ended"
                           /\ Aborted(c) => invocation[c] = "cancelled"
    /\ exec[c] = "checking" /\ ~Aborted(c) => invocation[c] = "dispatching"
    /\ exec[c] = "running"  /\ ~Aborted(c) => invocation[c] = "running"
    /\ app = "up" /\ invocation[c] \in {"dispatching", "running"} => exec[c] # "none"

\* A call whose approval has just been committed waits for its second commit, and for
\* nothing else.
Dispatching ==
  \A c \in Call :
    /\ c \in dispatchNext => /\ dispatchNext = {c} /\ c \in waiter
                             /\ invocation[c] = "approved" /\ exec[c] = "none"
    /\ app = "up" /\ invocation[c] = "approved" => c \in dispatchNext

\* The approval of a call outlives its execution, the consent is older than the approval,
\* and the tool is younger than its dispatch.
Consented ==
  \A c \in Call :
    /\ invocation[c] \in {"approved", "dispatching", "running"} =>
         approval[c] = "allowed" /\ c \in consented
    /\ invocation[c] \in {"none", "awaiting-approval", "approved", "dispatching"} => effects[c] = 0

\* Who may settle a call and who waits for it, in every state between two commits: with
\* this, no settler finds a call that another has settled already.
Inv ==
  /\ TypeOK
  /\ Waiting /\ Called /\ Executing /\ Dispatching /\ Consented
  /\ JournalAgrees
  /\ ConsentedOnce

USE CallsHaveRuns DEF Open, Terminal, journal

(***************************************************************************)
(* Types.                                                                  *)
(***************************************************************************)

\* The sizes of a set of none and of one.
LEMMA SmallSets == Cardinality({}) = 0 /\ \A c : Cardinality({c}) = 1
BY FS_EmptySet, FS_Singleton

\* The journal starts in the invariant.
LEMMA InitInv == Init => Inv
<1> SUFFICES ASSUME Init
             PROVE  Inv
  OBVIOUS
<1> USE DEF Init
<1>1. TypeOK
  BY SmallSets DEF TypeOK
<1>2. Waiting /\ Called
  BY DEF Waiting, Called
<1>3. Executing /\ Dispatching /\ Consented
  BY DEF Executing, Dispatching, Consented
<1>4. JournalAgrees
  BY DEF JournalAgrees, RowsAgree, PendingIsAwaited, AnswerMatchesJournal
<1>5. ConsentedOnce
  BY DEF ConsentedOnce
<1> QED BY <1>1, <1>2, <1>3, <1>4, <1>5 DEF Inv

\* A pending call waits and does nothing else.
LEMMA PendingCall ==
  ASSUME Inv, NEW c \in Call, approval[c] = "pending"
  PROVE  invocation[c] = "awaiting-approval" /\ exec[c] = "none" /\ effects[c] = 0
<1>1. invocation[c] = "awaiting-approval"
  BY DEF Inv, JournalAgrees, RowsAgree
<1>2. exec[c] = "none"
  BY <1>1 DEF Inv, TypeOK, Executing
<1> QED BY <1>1, <1>2 DEF Inv, Consented

\* A call that is executed, and was not aborted, is dispatching or running.
LEMMA ExecutedCall ==
  ASSUME Inv, NEW c \in Call, exec[c] # "none", ~Aborted(c)
  PROVE  /\ invocation[c] \in {"dispatching", "running"}
         /\ approval[c] = "allowed" /\ c \in consented
BY DEF Inv, TypeOK, Executing, Consented

\* A call the model asks for.
LEMMA RequestInv ==
  ASSUME Inv, NEW c \in Call, Request(c)
  PROVE  Inv'
<1> USE DEF Inv, Request, Journal, Idle
<1>1. TypeOK'
  BY DEF TypeOK
<1>2. Waiting'
  BY DEF TypeOK, Waiting
<1>3. Called'
  BY DEF TypeOK, Called
<1>4. Executing'
  BY DEF TypeOK, Executing, Aborted
<1>5. (Dispatching /\ Consented)'
  BY DEF TypeOK, Dispatching, Consented
<1>6. JournalAgrees'
  BY DEF TypeOK, JournalAgrees, RowsAgree, PendingIsAwaited, AnswerMatchesJournal, Called
<1>7. ConsentedOnce'
  BY DEF ConsentedOnce
<1> QED BY <1>1, <1>2, <1>3, <1>4, <1>5, <1>6, <1>7

\* The start of a run.
LEMMA RunStartsInv ==
  ASSUME Inv, NEW r \in Run, RunStarts(r)
  PROVE  Inv'
<1> USE DEF Inv, RunStarts, Idle
<1>1. TypeOK'
  BY SmallSets DEF TypeOK, Executing, Consented
<1>2. Waiting'
  BY DEF TypeOK, Waiting, Called, Executing
<1>3. Called'
  BY DEF TypeOK, Called, Waiting
<1>4. Executing'
  BY DEF TypeOK, Executing, Waiting, Called, Aborted
<1>5. (Dispatching /\ Consented)'
  BY DEF TypeOK, Dispatching, Consented, Executing, Waiting, Aborted
<1>6. JournalAgrees'
  BY DEF TypeOK, JournalAgrees, RowsAgree, PendingIsAwaited, AnswerMatchesJournal, Waiting,
         Called, Executing, Dispatching, Consented, Aborted
<1>7. ConsentedOnce'
  BY DEF TypeOK, ConsentedOnce, Consented, Executing
<1> QED BY <1>1, <1>2, <1>3, <1>4, <1>5, <1>6, <1>7

\* An approval that expires.
LEMMA ExpiresInv ==
  ASSUME Inv, NEW c \in Call, Expires(c)
  PROVE  Inv'
<1> USE DEF Inv, Expires
<1>1. TypeOK'
  BY SmallSets DEF TypeOK, Executing, Consented
<1>2. Waiting'
  BY DEF TypeOK, Waiting, Called, Executing
<1>3. Called'
  BY DEF TypeOK, Called, Waiting
<1>4. Executing'
  BY DEF TypeOK, Executing, Waiting, Called, Aborted
<1>5. (Dispatching /\ Consented)'
  BY DEF TypeOK, Dispatching, Consented, Executing, Waiting, Aborted
<1>6. JournalAgrees'
  BY DEF TypeOK, JournalAgrees, RowsAgree, PendingIsAwaited, AnswerMatchesJournal, Waiting,
         Called, Executing, Dispatching, Consented, Aborted
<1>7. ConsentedOnce'
  BY DEF TypeOK, ConsentedOnce, Consented, Executing
<1> QED BY <1>1, <1>2, <1>3, <1>4, <1>5, <1>6, <1>7

\* The end of a run.
LEMMA RunEndsInv ==
  ASSUME Inv, NEW r \in Run, RunEnds(r)
  PROVE  Inv'
<1> USE DEF Inv, RunEnds, Idle
<1>1. TypeOK'
  BY SmallSets DEF TypeOK, Executing, Consented
<1>2. Waiting'
  BY DEF TypeOK, Waiting, Called, Executing
<1>3. Called'
  BY DEF TypeOK, Called, Waiting
<1>4. Executing'
  BY DEF TypeOK, Executing, Waiting, Called, Aborted
<1>5. (Dispatching /\ Consented)'
  BY DEF TypeOK, Dispatching, Consented, Executing, Waiting, Aborted
<1>6. JournalAgrees'
  BY DEF TypeOK, JournalAgrees, RowsAgree, PendingIsAwaited, AnswerMatchesJournal, Waiting,
         Called, Executing, Dispatching, Consented, Aborted
<1>7. ConsentedOnce'
  BY DEF TypeOK, ConsentedOnce, Consented, Executing
<1> QED BY <1>1, <1>2, <1>3, <1>4, <1>5, <1>6, <1>7

\* The abort of a call.
LEMMA AbortInv ==
  ASSUME Inv, NEW r \in Run, Abort(r)
  PROVE  Inv'
<1> USE DEF Inv, Abort, Idle, Cancelled, Journal, Release
<1>1. TypeOK'
  BY SmallSets DEF TypeOK, Executing, Consented
<1>2. Waiting'
  BY DEF TypeOK, Waiting, Called, Executing
<1>3. Called'
  BY DEF TypeOK, Called, Waiting
<1>4. Executing'
  BY DEF TypeOK, Executing, Waiting, Called, Aborted
<1>5. (Dispatching /\ Consented)'
  BY DEF TypeOK, Dispatching, Consented, Executing, Waiting, Aborted
<1>6. JournalAgrees'
  BY DEF TypeOK, JournalAgrees, RowsAgree, PendingIsAwaited, AnswerMatchesJournal, Waiting,
         Called, Executing, Dispatching, Consented, Aborted
<1>7. ConsentedOnce'
  BY DEF TypeOK, ConsentedOnce, Consented, Executing
<1> QED BY <1>1, <1>2, <1>3, <1>4, <1>5, <1>6, <1>7

\* The consent of the user.
LEMMA AllowInv ==
  ASSUME Inv, NEW c \in Call, Allow(c)
  PROVE  Inv'
<1> USE DEF Inv, Allow, Idle, Expired, Journal
<1>0. approval[c] = "pending" /\ exec[c] = "none" /\ invocation[c] = "awaiting-approval"
  BY PendingCall
<1>1. TypeOK'
  <2>1. CASE c \in due
    BY <2>1, SMTT(30) DEF TypeOK
  <2>2. CASE c \notin due
    BY <2>2, SmallSets, SMTT(30) DEF TypeOK
  <2> QED BY <2>1, <2>2
<1>2. Waiting'
  BY DEF TypeOK, Waiting, Called, Executing
<1>3. Called'
  BY DEF TypeOK, Called, Waiting
<1>4. Executing'
  BY <1>0 DEF TypeOK, Executing, Aborted
<1>5. (Dispatching /\ Consented)'
  BY <1>0 DEF TypeOK, Dispatching, Consented, RowsAgree, JournalAgrees
<1>6. JournalAgrees'
  BY DEF TypeOK, JournalAgrees, RowsAgree, PendingIsAwaited, AnswerMatchesJournal, Waiting,
         Called, Executing, Dispatching, Consented, Aborted
<1>7. ConsentedOnce'
  BY DEF TypeOK, ConsentedOnce, Consented, Executing
<1> QED BY <1>1, <1>2, <1>3, <1>4, <1>5, <1>6, <1>7

\* The refusal of the user.
LEMMA DenyInv ==
  ASSUME Inv, NEW c \in Call, Deny(c)
  PROVE  Inv'
<1> USE DEF Inv, Deny, Idle, Expired, Journal, Release
<1>1. TypeOK'
  BY SmallSets DEF TypeOK, Executing, Consented
<1>2. Waiting'
  BY DEF TypeOK, Waiting, Called, Executing
<1>3. Called'
  BY PendingCall DEF TypeOK, Called, Waiting
<1>4. Executing'
  BY PendingCall DEF TypeOK, Executing, Waiting, Called, Aborted
<1>5. (Dispatching /\ Consented)'
  BY DEF TypeOK, Dispatching, Consented, Executing, Waiting, Aborted
<1>6. JournalAgrees'
  BY DEF TypeOK, JournalAgrees, RowsAgree, PendingIsAwaited, AnswerMatchesJournal, Waiting,
         Called, Executing, Dispatching, Consented, Aborted
<1>7. ConsentedOnce'
  BY DEF TypeOK, ConsentedOnce, Consented, Executing
<1> QED BY <1>1, <1>2, <1>3, <1>4, <1>5, <1>6, <1>7

\* The timer of an approval.
LEMMA TimerFiresInv ==
  ASSUME Inv, NEW c \in Call, TimerFires(c)
  PROVE  Inv'
<1> USE DEF Inv, TimerFires, Idle, Expired, Journal, Release
<1>1. TypeOK'
  BY SmallSets DEF TypeOK, Executing, Consented
<1>2. Waiting'
  BY DEF TypeOK, Waiting, Called, Executing
<1>3. Called'
  BY DEF TypeOK, Called, Waiting
<1>4. Executing'
  BY PendingCall DEF TypeOK, Executing, Waiting, Called, Aborted
<1>5. (Dispatching /\ Consented)'
  BY DEF TypeOK, Dispatching, Consented, Executing, Waiting, Aborted
<1>6. JournalAgrees'
  BY DEF TypeOK, JournalAgrees, RowsAgree, PendingIsAwaited, AnswerMatchesJournal, Waiting,
         Called, Executing, Dispatching, Consented, Aborted
<1>7. ConsentedOnce'
  BY DEF TypeOK, ConsentedOnce, Consented, Executing
<1> QED BY <1>1, <1>2, <1>3, <1>4, <1>5, <1>6, <1>7

\* The dispatch of an approved call.
LEMMA DispatchInv ==
  ASSUME Inv, Dispatch
  PROVE  Inv'
<1> USE DEF Inv, Dispatch
<1>1. TypeOK'
  BY SmallSets DEF TypeOK, Executing, Consented
<1>2. Waiting'
  BY DEF TypeOK, Waiting, Called, Executing
<1>3. Called'
  BY DEF TypeOK, Called, Waiting
<1>4. Executing'
  <2>1. PICK c \in dispatchNext : /\ invocation' = [invocation EXCEPT ![c] = "dispatching"]
                                  /\ exec' = [exec EXCEPT ![c] = "checking"]
    OBVIOUS
  <2>2. c \in Call /\ c \in waiter /\ run[RunOf[c]] = "live"
    BY <2>1 DEF TypeOK, Dispatching, Waiting
  <2>3. ~Aborted(c)
    BY <2>2 DEF Called, Aborted
  <2> QED BY <2>1, <2>2, <2>3 DEF TypeOK, Executing, Aborted
<1>5. (Dispatching /\ Consented)'
  <2>1. PICK c \in dispatchNext : /\ invocation' = [invocation EXCEPT ![c] = "dispatching"]
                                  /\ exec' = [exec EXCEPT ![c] = "checking"]
    OBVIOUS
  <2>2. c \in Call /\ dispatchNext = {c}
    BY <2>1 DEF TypeOK, Dispatching
  <2> QED BY <2>1, <2>2 DEF TypeOK, Dispatching, Consented
<1>6. JournalAgrees'
  BY DEF TypeOK, JournalAgrees, RowsAgree, PendingIsAwaited, AnswerMatchesJournal, Waiting,
         Called, Executing, Dispatching, Consented, Aborted
<1>7. ConsentedOnce'
  BY DEF TypeOK, ConsentedOnce, Consented, Executing
<1> QED BY <1>1, <1>2, <1>3, <1>4, <1>5, <1>6, <1>7

\* The start of the tool.
LEMMA StartToolInv ==
  ASSUME Inv, NEW c \in Call, StartTool(c)
  PROVE  Inv'
<1> USE DEF Inv, StartTool, Idle, Aborted
<1>1. TypeOK'
  BY SmallSets DEF TypeOK, Executing, Consented
<1>2. Waiting'
  BY DEF TypeOK, Waiting, Called, Executing
<1>3. Called'
  BY ExecutedCall DEF TypeOK, Called, Waiting, Aborted
<1>4. Executing'
  BY DEF TypeOK, Executing, Waiting, Called, Aborted
<1>5. (Dispatching /\ Consented)'
  BY DEF TypeOK, Dispatching, Consented, Executing, Waiting, Aborted
<1>6. JournalAgrees'
  BY DEF TypeOK, JournalAgrees, RowsAgree, PendingIsAwaited, AnswerMatchesJournal, Waiting,
         Called, Executing, Dispatching, Consented, Aborted
<1>7. ConsentedOnce'
  BY DEF TypeOK, ConsentedOnce, Consented, Executing
<1> QED BY <1>1, <1>2, <1>3, <1>4, <1>5, <1>6, <1>7

\* A tool that succeeds.
LEMMA SucceedInv ==
  ASSUME Inv, NEW c \in Call, Succeed(c)
  PROVE  Inv'
<1> USE DEF Inv, Succeed, Idle, Aborted, Completed, Release
<1>1. TypeOK'
  BY SmallSets DEF TypeOK, Executing, Consented
<1>2. Waiting'
  BY DEF TypeOK, Waiting, Called, Executing
<1>3. Called'
  BY DEF TypeOK, Called, Waiting
<1>4. Executing'
  BY DEF TypeOK, Executing, Waiting, Called, Aborted
<1>5. (Dispatching /\ Consented)'
  BY DEF TypeOK, Dispatching, Consented, Executing, Waiting, Aborted
<1>6. JournalAgrees'
  BY DEF TypeOK, JournalAgrees, RowsAgree, PendingIsAwaited, AnswerMatchesJournal, Waiting,
         Called, Executing, Dispatching, Consented, Aborted
<1>7. ConsentedOnce'
  BY DEF TypeOK, ConsentedOnce, Consented, Executing
<1> QED BY <1>1, <1>2, <1>3, <1>4, <1>5, <1>6, <1>7

\* A tool that fails.
LEMMA FailInv ==
  ASSUME Inv, NEW c \in Call, Fail(c)
  PROVE  Inv'
<1> USE DEF Inv, Fail, Idle, Throws, Aborted, Cancelled, Journal, Failed, Release
<1>1. TypeOK'
  BY SmallSets DEF TypeOK, Executing, Consented
<1>2. Waiting'
  BY DEF TypeOK, Waiting, Called, Executing
<1>3. Called'
  BY ExecutedCall DEF TypeOK, Called, Waiting, Aborted
<1>4. Executing'
  BY DEF TypeOK, Executing, Waiting, Called, Aborted
<1>5. (Dispatching /\ Consented)'
  BY DEF TypeOK, Dispatching, Consented, Executing, Waiting, Aborted
<1>6. JournalAgrees'
  BY DEF TypeOK, JournalAgrees, RowsAgree, PendingIsAwaited, AnswerMatchesJournal, Waiting,
         Called, Executing, Dispatching, Consented, Aborted
<1>7. ConsentedOnce'
  BY DEF TypeOK, ConsentedOnce, Consented, Executing
<1> QED BY <1>1, <1>2, <1>3, <1>4, <1>5, <1>6, <1>7

\* A crash.
LEMMA CrashInv ==
  ASSUME Inv, Crash
  PROVE  Inv'
<1> USE DEF Inv, Crash
<1>1. TypeOK'
  BY SmallSets DEF TypeOK, Executing, Consented
<1>2. Waiting'
  BY DEF TypeOK, Waiting, Called, Executing
<1>3. Called'
  BY DEF TypeOK, Called, Waiting
<1>4. Executing'
  BY DEF TypeOK, Executing, Waiting, Called, Aborted
<1>5. (Dispatching /\ Consented)'
  BY DEF TypeOK, Dispatching, Consented, Executing, Waiting, Aborted
<1>6. JournalAgrees'
  BY DEF TypeOK, JournalAgrees, RowsAgree, PendingIsAwaited, AnswerMatchesJournal, Waiting,
         Called, Executing, Dispatching, Consented, Aborted
<1>7. ConsentedOnce'
  BY DEF TypeOK, ConsentedOnce, Consented, Executing
<1> QED BY <1>1, <1>2, <1>3, <1>4, <1>5, <1>6, <1>7

\* The next start.
LEMMA BootInv ==
  ASSUME Inv, Boot
  PROVE  Inv'
<1> USE DEF Inv, Boot
<1>1. TypeOK'
  BY SmallSets DEF TypeOK, Executing, Consented
<1>2. Waiting'
  BY DEF TypeOK, Waiting, Called, Executing
<1>3. Called'
  BY DEF TypeOK, Called, Waiting
<1>4. Executing'
  BY DEF TypeOK, Executing, Waiting, Called, Aborted
<1>5. (Dispatching /\ Consented)'
  BY DEF TypeOK, Dispatching, Consented, Executing, Waiting, Aborted
<1>6. JournalAgrees'
  BY DEF TypeOK, JournalAgrees, RowsAgree, PendingIsAwaited, AnswerMatchesJournal, Waiting,
         Called, Executing, Dispatching, Consented, Aborted
<1>7. ConsentedOnce'
  BY DEF TypeOK, ConsentedOnce, Consented, Executing
<1> QED BY <1>1, <1>2, <1>3, <1>4, <1>5, <1>6, <1>7

\* The recovery of runs.
LEMMA RecoverRunsInv ==
  ASSUME Inv, RecoverRuns
  PROVE  Inv'
<1> USE DEF Inv, RecoverRuns
<1>1. TypeOK'
  BY SmallSets DEF TypeOK, Executing, Consented
<1>2. Waiting'
  BY DEF TypeOK, Waiting, Called, Executing
<1>3. Called'
  BY DEF TypeOK, Called, Waiting
<1>4. Executing'
  BY DEF TypeOK, Executing, Waiting, Called, Aborted
<1>5. (Dispatching /\ Consented)'
  BY DEF TypeOK, Dispatching, Consented, Executing, Waiting, Aborted
<1>6. JournalAgrees'
  BY DEF TypeOK, JournalAgrees, RowsAgree, PendingIsAwaited, AnswerMatchesJournal, Waiting,
         Called, Executing, Dispatching, Consented, Aborted
<1>7. ConsentedOnce'
  BY DEF TypeOK, ConsentedOnce, Consented, Executing
<1> QED BY <1>1, <1>2, <1>3, <1>4, <1>5, <1>6, <1>7

\* The recovery of tool calls.
LEMMA RecoverToolsInv ==
  ASSUME Inv, RecoverTools
  PROVE  Inv'
<1> USE DEF Inv, RecoverTools, RecoveredCall
<1>1. TypeOK'
  BY SmallSets DEF TypeOK, Executing, Consented
<1>2. Waiting'
  BY DEF TypeOK, Waiting, Called, Executing
<1>3. Called'
  BY DEF TypeOK, Called, Waiting
<1>4. Executing'
  BY DEF TypeOK, Executing, Waiting, Called, Aborted
<1>5. (Dispatching /\ Consented)'
  <2>1. \A c \in Call : /\ invocation'[c] \notin {"approved", "dispatching", "running"}
                        /\ invocation'[c] \in {"none", "awaiting-approval"}
                             => invocation[c] = invocation'[c]
    BY DEF TypeOK
  <2> QED BY <2>1 DEF TypeOK, Dispatching, Consented, Called
<1>6. JournalAgrees'
  BY DEF TypeOK, JournalAgrees, RowsAgree, PendingIsAwaited, AnswerMatchesJournal, Waiting,
         Called, Executing, Dispatching, Consented, Aborted
<1>7. ConsentedOnce'
  BY DEF TypeOK, ConsentedOnce, Consented, Executing
<1> QED BY <1>1, <1>2, <1>3, <1>4, <1>5, <1>6, <1>7

\* Every step keeps the invariant.
LEMMA NextInv == Inv /\ [Next]_vars => Inv'
<1> SUFFICES ASSUME Inv, [Next]_vars
             PROVE  Inv'
  OBVIOUS
<1>1. CASE UNCHANGED vars
  BY <1>1 DEF vars, Inv, TypeOK, Waiting, Called, Executing, Dispatching, Consented, Aborted,
              JournalAgrees, RowsAgree, PendingIsAwaited, AnswerMatchesJournal, ConsentedOnce
<1>2. CASE Next
  BY <1>2, RequestInv, ExpiresInv, AllowInv, DenyInv, TimerFiresInv, StartToolInv, SucceedInv,
     FailInv, RunStartsInv, RunEndsInv, AbortInv, DispatchInv, CrashInv, BootInv, RecoverRunsInv,
     RecoverToolsInv
  DEF Next, Execute
<1> QED BY <1>1, <1>2

(***************************************************************************)
(* The theorems.                                                           *)
(***************************************************************************)

\* Inv is inductive.
THEOREM InvHolds == Spec => []Inv
<1>1. Init => Inv
  BY InitInv
<1>2. Inv /\ [Next]_vars => Inv'
  BY NextInv
<1> QED BY <1>1, <1>2, PTL DEF Spec

\* The journal, the coordinator's maps and the executor only ever hold the states that
\* their types allow.
THEOREM TypeCorrect == Spec => []TypeOK
<1>1. Inv => TypeOK
  BY DEF Inv
<1> QED BY <1>1, InvHolds, PTL

\* However the user, the timer, the abort, the executor and the recovery overtake one
\* another, the two rows of a call and what its run is told agree, and nothing is pending that
\* nobody waits for.
THEOREM JournalTellsTheTruth == Spec => []JournalAgrees
<1>1. Inv => JournalAgrees
  BY DEF Inv
<1> QED BY <1>1, InvHolds, PTL

\* No tool runs without a consent in time, and none runs twice for one call.
THEOREM OneEffectPerConsent == Spec => []ConsentedOnce
<1>1. Inv => ConsentedOnce
  BY DEF Inv
<1> QED BY <1>1, InvHolds, PTL

\* Each settler finds its call open: a step changes the rows of no call that was settled.
LEMMA StepKeepsSettled ==
  ASSUME Inv, [Next]_vars, NEW d \in Call, invocation[d] \in Terminal
  PROVE  UNCHANGED <<invocation[d], approval[d]>>
<1> USE DEF Inv, TypeOK
<1>1. CASE UNCHANGED vars
  BY <1>1 DEF vars
<1>2. ASSUME NEW c \in Call, Request(c) \/ Expires(c)
      PROVE  UNCHANGED <<invocation[d], approval[d]>>
  BY <1>2 DEF Request, Expires, Journal
<1>3. ASSUME NEW c \in Call, Allow(c) \/ Deny(c) \/ TimerFires(c)
      PROVE  UNCHANGED <<invocation[d], approval[d]>>
  BY <1>3, PendingCall DEF Allow, Deny, TimerFires, Expired, Journal
<1>4. ASSUME NEW c \in Call, StartTool(c) \/ Succeed(c)
      PROVE  UNCHANGED <<invocation[d], approval[d]>>
  BY <1>4, ExecutedCall DEF StartTool, Succeed, Completed
<1>5. ASSUME NEW c \in Call, Fail(c)
      PROVE  UNCHANGED <<invocation[d], approval[d]>>
  BY <1>5, ExecutedCall DEF Fail, Throws, Cancelled, Journal
<1>6. ASSUME NEW r \in Run, RunStarts(r) \/ RunEnds(r) \/ Abort(r)
      PROVE  UNCHANGED <<invocation[d], approval[d]>>
  BY <1>6 DEF RunStarts, RunEnds, Abort, Cancelled, Journal
<1>7. CASE Dispatch \/ Crash \/ Boot \/ RecoverRuns
  BY <1>7 DEF Dispatch, Crash, Boot, RecoverRuns
<1>8. CASE RecoverTools
  <2>1. RecoveredCall(d) = invocation[d]
    BY DEF RecoveredCall
  <2>2. invocation[d] = "expired" => approval[d] = "expired"
    BY DEF JournalAgrees, RowsAgree
  <2> QED BY <1>8, <2>1, <2>2 DEF RecoverTools
<1> QED BY <1>1, <1>2, <1>3, <1>4, <1>5, <1>6, <1>7, <1>8 DEF Next, Execute

\* A settled call is never settled again: not by a late result, not by the timer, not by the
\* recovery.
THEOREM SettledStaysSettled == Spec => SettledForGood
<1>1. Inv /\ [Next]_vars => [\A c \in Call : invocation[c] \in Terminal =>
                               UNCHANGED <<invocation[c], approval[c]>>]_vars
  BY StepKeepsSettled
<1>2. Spec => [][\A c \in Call : invocation[c] \in Terminal =>
                    UNCHANGED <<invocation[c], approval[c]>>]_vars
  BY <1>1, InvHolds, PTL DEF Spec
<1> QED BY <1>2 DEF SettledForGood
=============================================================================
