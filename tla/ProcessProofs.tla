--------------------------- MODULE ProcessProofs ---------------------------
(***************************************************************************)
(* Proofs about the main process around the runs.  Of McpService, for any  *)
(* number of operations, connections and versions of the row.  Of          *)
(* ProviderRun, for any number of frames: that every driver keeps the      *)
(* contract of ModelStream.  Of MCProcess: that it has these parts, and    *)
(* the application's, so that what is proved of each part holds of it.     *)
(***************************************************************************)
EXTENDS MCProcess, AppLifecycleProofs, SequenceTheorems, FiniteSetTheorems, WellFoundedInduction

(***************************************************************************)
(* MCP connections (McpService).                                           *)
(***************************************************************************)

\* What is known of an operation between two of its steps.
Operation ==
  [kind : {"none", "start", "save", "enable", "disable", "probe", "authorize", "clear",
           "delete", "call"},
   at : {"idle", "disconnect", "browser", "exchange", "connect", "close", "call", "fail"},
   enabled : BOOLEAN, expected : 0..MaxVersions,
   connection : {NoConnection} \cup Connection, previous : Credentials]

\* The requests that will write a new version of the row once the connection is closed.
Writes(o) == At(o, "disconnect") /\ op[o].kind \in {"save", "enable", "disable", "clear"}
Writers == {o \in Op : Writes(o)}

\* Each of them finds a version left.
VersionsSuffice == server.version + Cardinality(Writers) <= MaxVersions

\* What an authorization opened only to look at is never the connection in the map: its end
\* closes its own connection without a look at the map.
LooksApart ==
  \A o \in Op : op[o].kind = "authorize" =>
    op[o].connection = NoConnection \/ op[o].connection # mapped

\* What every state of the connections satisfies.
McpInv ==
  /\ McpTypeOK
  /\ VersionsSuffice
  /\ LooksApart
  /\ MappedIsUsable

(***************************************************************************)
(* Operations, and how many of them write.                                 *)
(***************************************************************************)

\* The assumption in the form the provers use.
LEMMA McpNumbers ==
  /\ MaxVersions \in Nat /\ MaxVersions > 0 /\ MaxConnections \in Nat
  /\ Connection \subseteq Nat /\ NoConnection \notin Connection
BY McpBounds DEF Connection, NoConnection

\* The parts of an operation.
LEMMA OperationParts ==
  ASSUME NEW q \in Operation
  PROVE  /\ q.connection \in {NoConnection} \cup Connection
         /\ q.previous \in Credentials /\ q.enabled \in BOOLEAN
         /\ q.expected \in 0..MaxVersions
BY DEF Operation

\* The types with the operations folded.
LEMMA McpTypes ==
  McpTypeOK <=>
    /\ server \in [exists : BOOLEAN, enabled : BOOLEAN, version : 1..MaxVersions]
    /\ credentials \in Credentials
    /\ mapped \in {NoConnection} \cup Connection
    /\ usable \subseteq Connection
    /\ authorizing \in BOOLEAN
    /\ registered \subseteq Op
    /\ callback \in [Op -> {"none", "waiting", "code", "error"}]
    /\ op \in [Op -> Operation]
BY DEF McpTypeOK, Operation

\* Sets of operations are counted.
LEMMA Counted ==
  ASSUME NEW S \in SUBSET Op, NEW T \in SUBSET S
  PROVE  /\ Cardinality(S) \in Nat /\ Cardinality(T) \in Nat
         /\ Cardinality(T) <= Cardinality(S)
         /\ \A o \in S \ T : Cardinality(T) < Cardinality(S)
<1>1. IsFiniteSet(S) /\ IsFiniteSet(T)
  BY McpBounds, FS_Subset
<1>2. Cardinality(S) \in Nat /\ Cardinality(T) \in Nat
  BY <1>1, FS_CardinalityType
<1>3. Cardinality(T) <= Cardinality(S)
  BY <1>1, FS_Subset
<1>4. ASSUME NEW o \in S \ T
      PROVE  Cardinality(T) < Cardinality(S)
  <2>1. Cardinality(T) = Cardinality(S) => T = S
    BY <1>1, FS_Subset
  <2> QED BY <1>2, <1>3, <2>1
<1> QED BY <1>2, <1>3, <1>4

\* No more operations write than before.
LEMMA NoMoreWriters ==
  ASSUME VersionsSuffice, server.version \in Nat, server'.version = server.version,
         Writers' \subseteq Writers, MaxVersions \in Nat
  PROVE  VersionsSuffice'
<1>1. Writers \in SUBSET Op
  BY DEF Writers
<1>2. Cardinality(Writers') \in Nat /\ Cardinality(Writers) \in Nat
      /\ Cardinality(Writers') <= Cardinality(Writers)
  BY <1>1, Counted
<1> QED BY <1>2 DEF VersionsSuffice

\* An operation has written its version.
LEMMA WriterGone ==
  ASSUME VersionsSuffice, server.version \in Nat, server'.version = server.version + 1,
         NEW o \in Writers, o \notin Writers', Writers' \subseteq Writers, MaxVersions \in Nat
  PROVE  VersionsSuffice'
<1>1. Writers \in SUBSET Op
  BY DEF Writers
<1>2. Cardinality(Writers') \in Nat /\ Cardinality(Writers) \in Nat
      /\ Cardinality(Writers') < Cardinality(Writers)
  BY <1>1, Counted
<1> QED BY <1>2 DEF VersionsSuffice

\* Another operation is to write, and a version is left for it.
LEMMA WriterBegins ==
  ASSUME server.version \in Nat, server'.version = server.version, VersionsLeft,
         NEW o \in Op, Writers' \subseteq Writers \cup {o}, MaxVersions \in Nat
  PROVE  VersionsSuffice'
<1> DEFINE D == {p \in Op : At(p, "disconnect")}
<1>1. Writers \subseteq D /\ D \subseteq Op
  BY DEF Writers, Writes
<1>2. IsFiniteSet(D)
  BY <1>1, McpBounds, FS_Subset
<1>3. IsFiniteSet(D \cup {o}) /\ Cardinality(D \cup {o}) \in Nat
      /\ Cardinality(D) \in Nat /\ Cardinality(D \cup {o}) <= Cardinality(D) + 1
  <2>1. IsFiniteSet(D \cup {o})
        /\ Cardinality(D \cup {o}) = IF o \in D THEN Cardinality(D) ELSE Cardinality(D) + 1
    BY <1>2, FS_AddElement
  <2>2. Cardinality(D) \in Nat
    BY <1>2, FS_CardinalityType
  <2> QED BY <2>1, <2>2
<1>4. Writers' \subseteq D \cup {o} /\ D \cup {o} \subseteq Op
  BY <1>1
<1>5. Cardinality(Writers') \in Nat /\ Cardinality(Writers') <= Cardinality(D \cup {o})
  BY <1>4, Counted
<1>6. server.version + Cardinality(D) < MaxVersions
  BY DEF VersionsLeft
<1> QED BY <1>3, <1>5, <1>6 DEF VersionsSuffice

----------------------------------------------------------------------------
(***************************************************************************)
(* The program starts in the invariant.                                    *)
(***************************************************************************)

\* The service starts in the invariant.
LEMMA McpInitially ==
  ASSUME McpInit
  PROVE  McpInv
<1>1. op \in [Op -> Operation]
  <2>1. Done \in Operation
    <3>1. 0 \in 0..MaxVersions
      BY McpNumbers
    <3> QED BY <3>1 DEF Done, Operation, Credentials
  <2>2. [Done EXCEPT !.kind = "start", !.at = "connect", !.enabled = TRUE] \in Operation
    BY <2>1 DEF Operation
  <2> QED BY <2>1, <2>2 DEF McpInit
<1>2. \A o \in Op : op[o].kind # "authorize" /\ op[o].at # "disconnect"
  <2> TAKE o \in Op
  <2>1. op[o] = Done \/ op[o] = [Done EXCEPT !.kind = "start", !.at = "connect", !.enabled = TRUE]
    BY DEF McpInit
  <2>2. /\ Done.kind = "none" /\ Done.at = "idle"
        /\ [Done EXCEPT !.kind = "start", !.at = "connect", !.enabled = TRUE].kind = "start"
        /\ [Done EXCEPT !.kind = "start", !.at = "connect", !.enabled = TRUE].at = "connect"
    BY DEF Done
  <2> QED BY <2>1, <2>2
<1>3. 1 \in 1..MaxVersions
  BY McpNumbers
<1>4. McpTypeOK
  <2>1. server \in [exists : BOOLEAN, enabled : BOOLEAN, version : 1..MaxVersions]
    BY <1>3 DEF McpInit
  <2>2. callback \in [Op -> {"none", "waiting", "code", "error"}]
    BY DEF McpInit
  <2> QED BY <1>1, <2>1, <2>2, McpTypes DEF McpInit, Credentials
<1>5. VersionsSuffice
  <2>1. Writers = {}
    BY <1>2 DEF Writers, Writes, At
  <2>2. Cardinality(Writers) = 0
    BY <2>1, FS_EmptySet
  <2>3. server.version = 1
    BY DEF McpInit
  <2> QED BY <2>2, <2>3, McpNumbers DEF VersionsSuffice
<1>6. LooksApart /\ MappedIsUsable
  BY <1>2 DEF McpInit, LooksApart, MappedIsUsable
<1> QED BY <1>4, <1>5, <1>6 DEF McpInv

----------------------------------------------------------------------------
(***************************************************************************)
(* What an operation's step makes of it.                                   *)
(***************************************************************************)

Becomes(o, q) == op' = [op EXCEPT ![o] = q]

\* Only the operation itself changes.
LEMMA OnlyItself ==
  ASSUME op \in [Op -> Operation], NEW o \in Op, NEW q \in Operation, Becomes(o, q)
  PROVE  /\ op' \in [Op -> Operation] /\ op'[o] = q
         /\ \A p \in Op \ {o} : op'[p] = op[p]
BY DEF Becomes

\* A request begins.
LEMMA Beginning ==
  ASSUME McpTypeOK, NEW o \in Op,
         NEW kind \in {"save", "enable", "disable", "probe", "authorize", "clear", "delete"},
         Begins(o, kind, "disconnect")
  PROVE  \E q \in Operation : /\ Becomes(o, q) /\ q.kind = kind /\ q.at = "disconnect"
                              /\ q.connection = NoConnection
<1>1. PICK v \in {0} \cup {server.version} :
        op' = [op EXCEPT ![o] = [Done EXCEPT !.kind = kind, !.at = "disconnect",
                                             !.enabled = server.enabled, !.expected = v]]
  BY DEF Begins
<1> DEFINE q == [Done EXCEPT !.kind = kind, !.at = "disconnect", !.enabled = server.enabled,
                             !.expected = v]
<1>2. server.enabled \in BOOLEAN /\ v \in 0..MaxVersions
  BY McpNumbers DEF McpTypeOK
<1>3. q \in Operation
  BY <1>2, McpNumbers DEF Done, Operation, Credentials
<1>4. q.kind = kind /\ q.at = "disconnect" /\ q.connection = NoConnection
  BY DEF Done
<1> QED BY <1>1, <1>3, <1>4 DEF Becomes

\* Done is an operation.
LEMMA DoneTyped == Done \in Operation /\ Done.at = "idle" /\ Done.kind = "none"
                   /\ Done.connection = NoConnection
<1>1. 0 \in 0..MaxVersions
  BY McpNumbers
<1> QED BY <1>1 DEF Done, Operation, Credentials

\* A call begins.
LEMMA CallBegins ==
  ASSUME McpTypeOK, NEW o \in Op, Call(o)
  PROVE  \E q \in Operation : /\ Becomes(o, q) /\ q.kind = "call"
                              /\ q.at # "disconnect"
<1> DEFINE a == IF mapped # NoConnection THEN "call" ELSE "connect"
           q == [Done EXCEPT !.kind = "call", !.enabled = TRUE, !.connection = mapped, !.at = a]
<1>1. a \in {"call", "connect"} /\ mapped \in {NoConnection} \cup Connection
  BY DEF McpTypeOK
<1>2. 0 \in 0..MaxVersions
  BY McpNumbers
<1> HIDE DEF a
<1>3. q \in Operation /\ q.kind = "call" /\ q.at # "disconnect"
  BY <1>1, <1>2 DEF Done, Operation, Credentials
<1>4. Becomes(o, q)
  BY DEF Call, Becomes, a
<1> QED BY <1>3, <1>4

\* A task goes on or ends.  It never becomes another one, or one that is about to write; and
\* a connection that an authorization takes is not the one in the map.
LEMMA TaskGoesOn ==
  ASSUME McpTypeOK, NEW o \in Op, McpTask(o)
  PROVE  \E q \in Operation :
           /\ Becomes(o, q)
           /\ q.at = "disconnect" => q = op[o]
           /\ q.kind = "authorize" =>
                /\ op[o].kind = "authorize"
                /\ q.connection = op[o].connection \/ q.connection \notin {mapped, mapped'}
<1> DEFINE Goal == \E q \in Operation :
                     /\ Becomes(o, q)
                     /\ q.at = "disconnect" => q = op[o]
                     /\ q.kind = "authorize" =>
                          /\ op[o].kind = "authorize"
                          /\ \/ q.connection = op[o].connection
                             \/ q.connection \notin {mapped, mapped'}
<1> SUFFICES Goal
  OBVIOUS
<1>0. op \in [Op -> Operation] /\ op[o] \in Operation /\ credentials \in Credentials
      /\ server.enabled \in BOOLEAN /\ mapped \in {NoConnection} \cup Connection
  BY McpTypes
<1>1. ASSUME Finish(o)
      PROVE  Goal
  <2> SUFFICES /\ Done \in Operation /\ Becomes(o, Done)
               /\ Done.at # "disconnect" /\ Done.kind # "authorize"
    OBVIOUS
  <2> QED BY <1>1, DoneTyped DEF Finish, Becomes
<1>2. ASSUME NEW a \in {"browser", "exchange", "connect", "close", "call", "fail"}, GoTo(o, a)
      PROVE  Goal
  <2> DEFINE q == [op[o] EXCEPT !.at = a]
  <2>1. q \in Operation
    BY <1>0 DEF Operation
  <2>2. q.at = a /\ q.kind = op[o].kind /\ q.connection = op[o].connection
    BY <1>0 DEF Operation
  <2>3. Becomes(o, q)
    BY <1>0, <1>2 DEF GoTo, Becomes
  <2> QED BY <2>1, <2>2, <2>3
<1>3. CASE op' = op
  <2>1. Becomes(o, op[o])
    BY <1>0, <1>3 DEF Becomes
  <2> QED BY <1>0, <2>1
<1>4. CASE SwitchCommits(o)
  <2>1. CASE op' = [op EXCEPT ![o].at = "connect", ![o].enabled = TRUE, ![o].expected = 0]
    <3> DEFINE q == [op[o] EXCEPT !.at = "connect", !.enabled = TRUE, !.expected = 0]
    <3>1. 0 \in 0..MaxVersions
      BY McpNumbers
    <3>2. q \in Operation
      BY <1>0, <3>1 DEF Operation
    <3>3. q.at = "connect" /\ q.kind = op[o].kind /\ q.connection = op[o].connection
      BY <1>0 DEF Operation
    <3>4. Becomes(o, q)
      BY <1>0, <2>1 DEF Becomes, Operation
    <3> QED BY <3>2, <3>3, <3>4
  <2> QED BY <1>1, <1>4, <2>1 DEF SwitchCommits
<1>5. CASE Listens(o)
  <2> DEFINE q == [op[o] EXCEPT !.at = "browser", !.previous = credentials]
  <2>1. q \in Operation
    BY <1>0 DEF Operation
  <2>2. q.at = "browser" /\ q.kind = op[o].kind /\ q.connection = op[o].connection
    BY <1>0 DEF Operation
  <2>3. Becomes(o, q)
    BY <1>0, <1>5 DEF Listens, Becomes, Operation
  <2> QED BY <2>1, <2>2, <2>3
<1>6. CASE Exchanges(o)
  <2> DEFINE q == [op[o] EXCEPT !.at = "connect", !.enabled = server.enabled]
  <2>1. q \in Operation
    BY <1>0 DEF Operation
  <2>2. q.at = "connect" /\ q.kind = op[o].kind /\ q.connection = op[o].connection
    BY <1>0 DEF Operation
  <2>3. Becomes(o, q)
    BY <1>0, <1>6 DEF Exchanges, Becomes, Operation
  <2> QED BY <2>1, <2>2, <2>3
<1>7. CASE Connected(o)
  <2>1. ASSUME NEW n \in Connection, NEW a \in {"call", "close"},
               op' = [op EXCEPT ![o].at = a, ![o].connection = n],
               op[o].kind # "authorize" \/ n \notin {mapped, mapped'}
        PROVE  Goal
    <3> DEFINE q == [op[o] EXCEPT !.at = a, !.connection = n]
    <3>1. q \in Operation
      BY <1>0 DEF Operation
    <3>2. q.at = a /\ q.kind = op[o].kind /\ q.connection = n
      BY <1>0 DEF Operation
    <3>3. Becomes(o, q)
      BY <1>0, <2>1 DEF Becomes, Operation
    <3> QED BY <2>1, <3>1, <3>2, <3>3
  <2>2. PICK n \in Connection :
          /\ IsNew(n)
          /\ \/ /\ Keeps(o) /\ server.exists
                /\ \/ op[o].kind = "call"
                      /\ op' = [op EXCEPT ![o].at = "call", ![o].connection = n]
                   \/ GoTo(o, "close") \/ Finish(o)
             \/ GoTo(o, "fail") \/ Finish(o)
             \/ /\ op' = [op EXCEPT ![o].at = "close", ![o].connection = n]
                /\ UNCHANGED mapped
    BY <1>7, Zenon DEF Connected
  <2>3. n # mapped
    BY <2>2 DEF IsNew, Free
  <2> QED BY <1>1, <1>2, <2>1, <2>2, <2>3
<1> HIDE DEF Goal
<1> USE <1>1
<1>8. CASE SaveCommits(o)
  BY <1>8 DEF SaveCommits
<1>9. CASE ProbeConnects(o)
  BY <1>2, <1>9 DEF ProbeConnects
<1>10. CASE ClearCommits(o)
  BY <1>10 DEF ClearCommits
<1>11. CASE DeleteCommits(o)
  BY <1>11 DEF DeleteCommits
<1>12. CASE ListenFails(o)
  BY <1>12 DEF ListenFails
<1>13. CASE Redirected(o)
  BY <1>3, <1>13 DEF Redirected
<1>14. CASE CodeArrives(o)
  BY <1>2, <1>14 DEF CodeArrives
<1>15. CASE GivesUp(o)
  BY <1>15 DEF GivesUp
<1>16. CASE ConnectFails(o)
  BY <1>16 DEF ConnectFails
<1>17. CASE ProbeEnds(o)
  BY <1>17 DEF ProbeEnds
<1>18. CASE AuthorizeEnds(o)
  BY <1>18 DEF AuthorizeEnds
<1>19. CASE AuthorizeEndsDeleted(o)
  BY <1>2, <1>19 DEF AuthorizeEndsDeleted
<1>20. CASE Returns(o)
  BY <1>20 DEF Returns
<1>21. CASE CallFails(o)
  BY <1>21 DEF CallFails
<1> QED
  BY <1>4, <1>5, <1>6, <1>7, <1>8, <1>9, <1>10, <1>11, <1>12, <1>13, <1>14, <1>15, <1>16,
     <1>17, <1>18, <1>19, <1>20, <1>21 DEF McpTask

----------------------------------------------------------------------------
(***************************************************************************)
(* Every step keeps the invariant.                                         *)
(***************************************************************************)

\* A request that is to write finds a version left.
LEMMA VersionLeft ==
  ASSUME McpTypeOK, VersionsSuffice, NEW o \in Op, Writes(o)
  PROVE  server.version + 1 \in 1..MaxVersions
<1>1. o \in Writers /\ Writers \in SUBSET Op /\ {} \in SUBSET Writers
  BY DEF Writers
<1>2. Cardinality({}) = 0 /\ Cardinality({}) < Cardinality(Writers) /\ Cardinality(Writers) \in Nat
  BY <1>1, Counted, FS_EmptySet
<1>3. server.version \in 1..MaxVersions
  BY McpTypes
<1> QED BY <1>2, <1>3, McpNumbers DEF VersionsSuffice

\* The row: a request writes the next version and is done.
LEMMA RowKept ==
  ASSUME McpTypeOK, VersionsSuffice, NEW o \in Op, McpTask(o)
  PROVE  /\ server' \in [exists : BOOLEAN, enabled : BOOLEAN, version : 1..MaxVersions]
         /\ \/ server'.version = server.version
            \/ server'.version = server.version + 1 /\ Writes(o) /\ op'[o].at # "disconnect"
<1> DEFINE Rows == [exists : BOOLEAN, enabled : BOOLEAN, version : 1..MaxVersions]
           Row == /\ server' \in Rows
                  /\ \/ server'.version = server.version
                     \/ /\ server'.version = server.version + 1 /\ Writes(o)
                        /\ op'[o].at # "disconnect"
<1> SUFFICES Row
  OBVIOUS
<1>1. server \in Rows /\ op \in [Op -> Operation]
  BY McpTypes
<1>2. CASE server' = server
  BY <1>1, <1>2
<1>3. ASSUME NEW b \in BOOLEAN, server' = Rewritten(b), Writes(o), op'[o].at # "disconnect"
      PROVE  Row
  <2>1. server.version + 1 \in 1..MaxVersions
    BY <1>3, VersionLeft
  <2> QED BY <1>1, <1>3, <2>1 DEF Rewritten
<1>4. Finish(o) => op'[o].at # "disconnect"
  BY <1>1, DoneTyped DEF Finish
<1>5. CASE SaveCommits(o)
  <2>1. op'[o].at # "disconnect"
    BY <1>4, <1>5 DEF SaveCommits
  <2>2. Writes(o)
    BY <1>5 DEF SaveCommits, Writes
  <2>3. server' = Rewritten(FALSE) \/ server' = server
    BY <1>5, Zenon DEF SaveCommits
  <2> QED BY <1>2, <1>3, <2>1, <2>2, <2>3
<1>6. CASE SwitchCommits(o)
  <2>1. Writes(o)
    BY <1>6 DEF SwitchCommits, Writes
  <2>2. CASE server' = Rewritten(TRUE)
             /\ op' = [op EXCEPT ![o].at = "connect", ![o].enabled = TRUE, ![o].expected = 0]
    <3>1. op'[o].at = "connect"
      BY <1>1, <2>2 DEF Operation
    <3> QED BY <1>3, <2>1, <2>2, <3>1
  <2>3. CASE server' = Rewritten(FALSE) /\ Finish(o)
    BY <1>3, <1>4, <2>1, <2>3
  <2> QED BY <1>2, <1>6, <2>2, <2>3 DEF SwitchCommits
<1>7. CASE ClearCommits(o)
  <2>1. op'[o].at # "disconnect"
    BY <1>4, <1>7 DEF ClearCommits
  <2>2. Writes(o)
    BY <1>7 DEF ClearCommits, Writes
  <2>3. server' = Rewritten(FALSE) \/ server' = server
    BY <1>7, Zenon DEF ClearCommits
  <2> QED BY <1>2, <1>3, <2>1, <2>2, <2>3
<1>8. CASE DeleteCommits(o)
  <2>1. server' = [server EXCEPT !.exists = FALSE] \/ server' = server
    BY <1>8, Zenon DEF DeleteCommits
  <2> QED BY <1>1, <1>2, <2>1
<1>9. CASE ~(SaveCommits(o) \/ SwitchCommits(o) \/ ClearCommits(o) \/ DeleteCommits(o))
  <2>1. server' = server
    BY <1>9, Zenon
    DEF McpTask, ProbeConnects, ListenFails, Listens, Redirected, CodeArrives, Exchanges,
        GivesUp, Connected, ConnectFails, ProbeEnds, AuthorizeEnds, AuthorizeEndsDeleted,
        Returns, CallFails
  <2> QED BY <1>2, <2>1
<1> QED BY <1>5, <1>6, <1>7, <1>8, <1>9

\* Versions: one less to write for each that is written.
LEMMA VersionsKept ==
  ASSUME McpTypeOK, VersionsSuffice, [McpNext]_mcpVars
  PROVE  VersionsSuffice'
<1>1. server.version \in Nat /\ op \in [Op -> Operation] /\ MaxVersions \in Nat
  BY McpTypes, McpNumbers
<1>2. CASE op' = op /\ server' = server
  BY <1>2 DEF VersionsSuffice, Writers, Writes, At
<1>3. CASE AddServer
  <2>1. op' = [o \in Op |-> Done] /\ server'.version = 1
    BY <1>3 DEF AddServer
  <2>2. Writers' = {}
    BY <2>1, DoneTyped DEF Writers, Writes, At
  <2>3. Cardinality(Writers') = 0
    BY <2>2, FS_EmptySet
  <2> QED BY <2>1, <2>3, McpNumbers DEF VersionsSuffice
<1>4. ASSUME NEW o \in Op,
             NEW kind \in {"save", "enable", "disable", "probe", "authorize", "clear", "delete"},
             Begins(o, kind, "disconnect"), server' = server
      PROVE  VersionsSuffice'
  <2>1. PICK q \in Operation : Becomes(o, q) /\ q.kind = kind
    BY <1>4, Beginning
  <2>2. op'[o] = q /\ \A p \in Op \ {o} : op'[p] = op[p]
    BY <1>1, <2>1, OnlyItself
  <2>3. CASE VersionsLeft
    <3>1. Writers' \subseteq Writers \cup {o}
      BY <2>2 DEF Writers, Writes, At
    <3> QED BY <1>1, <1>4, <2>3, <3>1, WriterBegins
  <2>4. CASE kind \in {"probe", "authorize", "delete"}
    <3>1. Writers' \subseteq Writers
      BY <2>1, <2>2, <2>4 DEF Writers, Writes, At
    <3> QED BY <1>1, <1>4, <3>1, NoMoreWriters
  <2> QED BY <1>4, <2>3, <2>4 DEF Begins
<1>5. ASSUME NEW o \in Op, Call(o)
      PROVE  VersionsSuffice'
  <2>1. PICK q \in Operation : Becomes(o, q) /\ q.at # "disconnect"
    BY <1>5, CallBegins
  <2>2. op'[o] = q /\ \A p \in Op \ {o} : op'[p] = op[p]
    BY <1>1, <2>1, OnlyItself
  <2>3. Writers' \subseteq Writers
    BY <2>1, <2>2 DEF Writers, Writes, At
  <2>4. server' = server
    BY <1>5 DEF Call
  <2> QED BY <1>1, <2>3, <2>4, NoMoreWriters
<1>6. ASSUME NEW o \in Op, McpTask(o)
      PROVE  VersionsSuffice'
  <2>1. PICK q \in Operation : Becomes(o, q) /\ (q.at = "disconnect" => q = op[o])
    BY <1>6, TaskGoesOn
  <2>2. op'[o] = q /\ \A p \in Op \ {o} : op'[p] = op[p]
    BY <1>1, <2>1, OnlyItself
  <2>3. Writers' \subseteq Writers
    BY <2>1, <2>2 DEF Writers, Writes, At
  <2>4. CASE server'.version = server.version
    BY <1>1, <2>3, <2>4, NoMoreWriters
  <2>5. CASE server'.version = server.version + 1 /\ Writes(o) /\ op'[o].at # "disconnect"
    <3>1. o \in Writers /\ o \notin Writers'
      BY <2>5 DEF Writers, Writes, At
    <3> QED BY <1>1, <2>3, <2>5, <3>1, WriterGone
  <2> QED BY <1>6, <2>4, <2>5, RowKept
<1>7. CASE CancelAuthorization
  BY <1>2, <1>7 DEF CancelAuthorization
<1>8. CASE UNCHANGED mcpVars
  BY <1>2, <1>8 DEF mcpVars
<1>9. ASSUME NEW o \in Op, Edit(o)
      PROVE  VersionsSuffice'
  BY <1>4, <1>9 DEF Edit
<1>10. ASSUME NEW o \in Op, Delete(o)
       PROVE  VersionsSuffice'
  BY <1>4, <1>10 DEF Delete
<1>11. ASSUME NEW o \in Op, Authorize(o)
       PROVE  VersionsSuffice'
  BY <1>4, <1>11 DEF Authorize
<1> QED BY <1>3, <1>5, <1>6, <1>7, <1>8, <1>9, <1>10, <1>11 DEF McpNext

\* The operations.
LEMMA OperationsKept ==
  ASSUME McpTypeOK, [McpNext]_mcpVars
  PROVE  op' \in [Op -> Operation]
<1>1. op \in [Op -> Operation]
  BY McpTypes
<1>2. ASSUME NEW o \in Op,
             NEW kind \in {"save", "enable", "disable", "probe", "authorize", "clear", "delete"},
             Begins(o, kind, "disconnect")
      PROVE  op' \in [Op -> Operation]
  BY <1>1, <1>2, Beginning, OnlyItself
<1>3. ASSUME NEW o \in Op, Edit(o) \/ Delete(o) \/ Authorize(o)
      PROVE  op' \in [Op -> Operation]
  <2>1. PICK kind \in {"save", "enable", "disable", "probe", "authorize", "clear", "delete"} :
          Begins(o, kind, "disconnect")
    BY <1>3, Zenon DEF Edit, Delete, Authorize
  <2> QED BY <1>2, <2>1
<1>4. ASSUME NEW o \in Op, Call(o)
      PROVE  op' \in [Op -> Operation]
  BY <1>1, <1>4, CallBegins, OnlyItself
<1>5. ASSUME NEW o \in Op, McpTask(o)
      PROVE  op' \in [Op -> Operation]
  BY <1>1, <1>5, TaskGoesOn, OnlyItself
<1>6. CASE AddServer \/ CancelAuthorization \/ UNCHANGED mcpVars
  BY <1>1, <1>6 DEF AddServer, CancelAuthorization, mcpVars
<1> QED BY <1>3, <1>4, <1>5, <1>6 DEF McpNext

\* The other variables.
RestTypeOK ==
  /\ credentials \in Credentials
  /\ mapped \in {NoConnection} \cup Connection
  /\ usable \subseteq Connection
  /\ authorizing \in BOOLEAN
  /\ registered \subseteq Op
  /\ callback \in [Op -> {"none", "waiting", "code", "error"}]

\* They keep their types.
LEMMA RestKept ==
  ASSUME RestTypeOK, op \in [Op -> Operation], [McpNext]_mcpVars
  PROVE  RestTypeOK'
<1> USE McpNumbers DEF RestTypeOK, Credentials
<1>1. CASE UNCHANGED mcpVars
  BY <1>1 DEF mcpVars, At
<1>2. CASE AddServer
  BY <1>2
  DEF AddServer
<1>3. CASE CancelAuthorization
  BY <1>3
  DEF CancelAuthorization, Cancelled
<1>4. ASSUME NEW o \in Op, Edit(o)
      PROVE  RestTypeOK'
  BY <1>4
  DEF Edit, Begins, Disconnect, At
<1>5. ASSUME NEW o \in Op, Delete(o)
      PROVE  RestTypeOK'
  BY <1>5
  DEF Delete, Begins, Disconnect, Cancelled, At
<1>6. ASSUME NEW o \in Op, Authorize(o)
      PROVE  RestTypeOK'
  BY <1>6
  DEF Authorize, Begins, Disconnect, At
<1>7. ASSUME NEW o \in Op, Call(o)
      PROVE  RestTypeOK'
  BY <1>7
  DEF Call, At
<1>8. ASSUME NEW o \in Op, SaveCommits(o)
      PROVE  RestTypeOK'
  BY <1>8
  DEF SaveCommits, At, Finish, Rewritten, Current
<1>9. ASSUME NEW o \in Op, SwitchCommits(o)
      PROVE  RestTypeOK'
  BY <1>9
  DEF SwitchCommits, At, Finish, Rewritten, Current
<1>10. ASSUME NEW o \in Op, ProbeConnects(o)
      PROVE  RestTypeOK'
  BY <1>10
  DEF ProbeConnects, At, GoTo
<1>11. ASSUME NEW o \in Op, ClearCommits(o)
      PROVE  RestTypeOK'
  BY <1>11
  DEF ClearCommits, At, Finish, Rewritten, Current
<1>12. ASSUME NEW o \in Op, DeleteCommits(o)
      PROVE  RestTypeOK'
  BY <1>12
  DEF DeleteCommits, At, Finish, Current
<1>13. ASSUME NEW o \in Op, ListenFails(o)
      PROVE  RestTypeOK'
  BY <1>13
  DEF ListenFails, At, Finish
<1>14. ASSUME NEW o \in Op, Listens(o)
      PROVE  RestTypeOK'
  BY <1>14
  DEF Listens, At
<1>15. ASSUME NEW o \in Op, Redirected(o)
      PROVE  RestTypeOK'
  BY <1>15
  DEF Redirected
<1>16. ASSUME NEW o \in Op, CodeArrives(o)
      PROVE  RestTypeOK'
  BY <1>16
  DEF CodeArrives, At, GoTo
<1>17. ASSUME NEW o \in Op, Exchanges(o)
      PROVE  RestTypeOK'
  BY <1>17
  DEF Exchanges, At
<1>18. ASSUME NEW o \in Op, GivesUp(o)
      PROVE  RestTypeOK'
  <2>1. op[o].previous \in Credentials
    BY OperationParts
  <2> QED BY <1>18, <2>1 DEF GivesUp
<1>19. ASSUME NEW o \in Op, Connected(o)
      PROVE  RestTypeOK'
  BY <1>19
  DEF Connected, At, GoTo, Finish, IsNew, Free
<1>20. ASSUME NEW o \in Op, ConnectFails(o)
      PROVE  RestTypeOK'
  BY <1>20
  DEF ConnectFails, At, Finish
<1>21. ASSUME NEW o \in Op, ProbeEnds(o)
      PROVE  RestTypeOK'
  BY <1>21
  DEF ProbeEnds, At, Finish
<1>22. ASSUME NEW o \in Op, AuthorizeEnds(o)
      PROVE  RestTypeOK'
  BY <1>22
  DEF AuthorizeEnds, At, Finish
<1>23. ASSUME NEW o \in Op, AuthorizeEndsDeleted(o)
      PROVE  RestTypeOK'
  BY <1>23
  DEF AuthorizeEndsDeleted, At, GoTo
<1>24. ASSUME NEW o \in Op, Returns(o)
      PROVE  RestTypeOK'
  BY <1>24
  DEF Returns, At, Finish
<1>25. ASSUME NEW o \in Op, CallFails(o)
      PROVE  RestTypeOK'
  BY <1>25
  DEF CallFails, At, Finish, Disconnect
<1> QED BY <1>1, <1>2, <1>3, <1>4, <1>5, <1>6, <1>7, <1>8, <1>9, <1>10, <1>11, <1>12, <1>13,
     <1>14, <1>15, <1>16, <1>17, <1>18, <1>19, <1>20, <1>21, <1>22, <1>23, <1>24, <1>25
  DEF McpNext, McpTask

\* The connection in the map is usable.  AuthorizeEnds closes a connection without a look at the
\* map: LooksApart says that it is another one.
LEMMA MapKept ==
  ASSUME MappedIsUsable, LooksApart, NoConnection \notin Connection, [McpNext]_mcpVars
  PROVE  MappedIsUsable'
<1> USE DEF MappedIsUsable, LooksApart
<1>1. CASE UNCHANGED mcpVars
  BY <1>1 DEF mcpVars, At
<1>2. CASE AddServer
  BY <1>2
  DEF AddServer
<1>3. CASE CancelAuthorization
  BY <1>3
  DEF CancelAuthorization, Cancelled
<1>4. ASSUME NEW o \in Op, Edit(o)
      PROVE  MappedIsUsable'
  BY <1>4
  DEF Edit, Begins, Disconnect, At
<1>5. ASSUME NEW o \in Op, Delete(o)
      PROVE  MappedIsUsable'
  BY <1>5
  DEF Delete, Begins, Disconnect, Cancelled, At
<1>6. ASSUME NEW o \in Op, Authorize(o)
      PROVE  MappedIsUsable'
  BY <1>6
  DEF Authorize, Begins, Disconnect, At
<1>7. ASSUME NEW o \in Op, Call(o)
      PROVE  MappedIsUsable'
  BY <1>7
  DEF Call, At
<1>8. ASSUME NEW o \in Op, SaveCommits(o)
      PROVE  MappedIsUsable'
  BY <1>8
  DEF SaveCommits, At, Finish, Rewritten, Current
<1>9. ASSUME NEW o \in Op, SwitchCommits(o)
      PROVE  MappedIsUsable'
  BY <1>9
  DEF SwitchCommits, At, Finish, Rewritten, Current
<1>10. ASSUME NEW o \in Op, ProbeConnects(o)
      PROVE  MappedIsUsable'
  BY <1>10
  DEF ProbeConnects, At, GoTo
<1>11. ASSUME NEW o \in Op, ClearCommits(o)
      PROVE  MappedIsUsable'
  BY <1>11
  DEF ClearCommits, At, Finish, Rewritten, Current
<1>12. ASSUME NEW o \in Op, DeleteCommits(o)
      PROVE  MappedIsUsable'
  BY <1>12
  DEF DeleteCommits, At, Finish, Current
<1>13. ASSUME NEW o \in Op, ListenFails(o)
      PROVE  MappedIsUsable'
  BY <1>13
  DEF ListenFails, At, Finish
<1>14. ASSUME NEW o \in Op, Listens(o)
      PROVE  MappedIsUsable'
  BY <1>14
  DEF Listens, At
<1>15. ASSUME NEW o \in Op, Redirected(o)
      PROVE  MappedIsUsable'
  BY <1>15
  DEF Redirected
<1>16. ASSUME NEW o \in Op, CodeArrives(o)
      PROVE  MappedIsUsable'
  BY <1>16
  DEF CodeArrives, At, GoTo
<1>17. ASSUME NEW o \in Op, Exchanges(o)
      PROVE  MappedIsUsable'
  BY <1>17
  DEF Exchanges, At
<1>18. ASSUME NEW o \in Op, GivesUp(o)
      PROVE  MappedIsUsable'
  BY <1>18
  DEF GivesUp, At, Finish
<1>19. ASSUME NEW o \in Op, Connected(o)
      PROVE  MappedIsUsable'
  BY <1>19
  DEF Connected, At, GoTo, Finish, IsNew, Free
<1>20. ASSUME NEW o \in Op, ConnectFails(o)
      PROVE  MappedIsUsable'
  BY <1>20
  DEF ConnectFails, At, Finish
<1>21. ASSUME NEW o \in Op, ProbeEnds(o)
      PROVE  MappedIsUsable'
  BY <1>21
  DEF ProbeEnds, At, Finish
<1>22. ASSUME NEW o \in Op, AuthorizeEnds(o)
      PROVE  MappedIsUsable'
  BY <1>22
  DEF AuthorizeEnds, At, Finish
<1>23. ASSUME NEW o \in Op, AuthorizeEndsDeleted(o)
      PROVE  MappedIsUsable'
  BY <1>23
  DEF AuthorizeEndsDeleted, At, GoTo
<1>24. ASSUME NEW o \in Op, Returns(o)
      PROVE  MappedIsUsable'
  BY <1>24
  DEF Returns, At, Finish
<1>25. ASSUME NEW o \in Op, CallFails(o)
      PROVE  MappedIsUsable'
  BY <1>25
  DEF CallFails, At, Finish, Disconnect
<1> QED BY <1>1, <1>2, <1>3, <1>4, <1>5, <1>6, <1>7, <1>8, <1>9, <1>10, <1>11, <1>12, <1>13,
     <1>14, <1>15, <1>16, <1>17, <1>18, <1>19, <1>20, <1>21, <1>22, <1>23, <1>24, <1>25
  DEF McpNext, McpTask

\* What an authorization looks at stays apart from the map: the map gets a connection that
\* no operation refers to.
LEMMA LooksKept ==
  ASSUME McpTypeOK, LooksApart, [McpNext]_mcpVars
  PROVE  LooksApart'
<1>1. op \in [Op -> Operation]
  BY McpTypes
<1>2. CASE mapped' = NoConnection
  BY <1>2 DEF LooksApart
<1>3. CASE op' = op /\ mapped' = mapped
  BY <1>3 DEF LooksApart
<1>4. ASSUME NEW o \in Op, Call(o)
      PROVE  LooksApart'
  <2>1. PICK q \in Operation : Becomes(o, q) /\ q.kind = "call"
    BY <1>4, CallBegins
  <2>2. op'[o] = q /\ \A p \in Op \ {o} : op'[p] = op[p]
    BY <1>1, <2>1, OnlyItself
  <2>3. mapped' = mapped
    BY <1>4 DEF Call
  <2> QED BY <2>1, <2>2, <2>3 DEF LooksApart
<1>5. ASSUME NEW o \in Op, McpTask(o)
      PROVE  LooksApart'
  <2>1. PICK q \in Operation :
          /\ Becomes(o, q)
          /\ q.kind = "authorize" =>
               /\ op[o].kind = "authorize"
               /\ q.connection = op[o].connection \/ q.connection \notin {mapped, mapped'}
    BY <1>5, TaskGoesOn
  <2>2. op'[o] = q /\ \A p \in Op \ {o} : op'[p] = op[p]
    BY <1>1, <2>1, OnlyItself
  <2>3. mapped' \in {mapped, NoConnection} \/ mapped' \notin Held
    <3>1. CASE Connected(o)
      BY <3>1, Zenon DEF Connected, IsNew, Free
    <3>2. CASE ProbeEnds(o) \/ CallFails(o)
      BY <3>2, Zenon DEF ProbeEnds, CallFails, Disconnect
    <3>3. CASE ~Connected(o) /\ ~ProbeEnds(o) /\ ~CallFails(o)
      <4>1. mapped' = mapped
        BY <1>5, <3>3, Zenon
        DEF McpTask, SaveCommits, SwitchCommits, ProbeConnects, ClearCommits, DeleteCommits,
            ListenFails, Listens, Redirected, CodeArrives, Exchanges, GivesUp, ConnectFails,
            AuthorizeEnds, AuthorizeEndsDeleted, Returns
      <4> QED BY <4>1
    <3> QED BY <3>1, <3>2, <3>3
  <2>4. ASSUME NEW p \in Op
        PROVE  op[p].connection = mapped' =>
                 mapped' = NoConnection \/ (mapped' = mapped /\ op[p].connection = mapped)
    BY <2>3 DEF Held
  <2>5. ASSUME NEW p \in Op, op'[p].kind = "authorize"
        PROVE  op'[p].connection = NoConnection \/ op'[p].connection # mapped'
    <3>1. CASE p # o
      BY <2>2, <2>4, <2>5, <3>1 DEF LooksApart
    <3>2. CASE p = o
      BY <2>1, <2>2, <2>4, <2>5, <3>2 DEF LooksApart
    <3> QED BY <3>1, <3>2
  <2> QED BY <2>5 DEF LooksApart
<1>6. ASSUME NEW o \in Op, Edit(o) \/ Delete(o) \/ Authorize(o)
      PROVE  LooksApart'
  BY <1>2, <1>6, Zenon DEF Edit, Delete, Authorize, Disconnect
<1>7. CASE AddServer
  BY <1>2, <1>7 DEF AddServer
<1>8. CASE CancelAuthorization
  BY <1>3, <1>8 DEF CancelAuthorization
<1>9. CASE UNCHANGED mcpVars
  BY <1>3, <1>9 DEF mcpVars
<1> QED BY <1>4, <1>5, <1>6, <1>7, <1>8, <1>9 DEF McpNext

\* The row.
LEMMA ServerKept ==
  ASSUME McpTypeOK, VersionsSuffice, [McpNext]_mcpVars
  PROVE  server' \in [exists : BOOLEAN, enabled : BOOLEAN, version : 1..MaxVersions]
<1>1. server \in [exists : BOOLEAN, enabled : BOOLEAN, version : 1..MaxVersions]
  BY McpTypes
<1>2. ASSUME NEW o \in Op, McpTask(o)
      PROVE  server' \in [exists : BOOLEAN, enabled : BOOLEAN, version : 1..MaxVersions]
  BY <1>2, RowKept
<1>3. ASSUME NEW o \in Op, Edit(o) \/ Delete(o) \/ Authorize(o) \/ Call(o)
      PROVE  server' = server
  BY <1>3, Zenon DEF Edit, Delete, Authorize, Call
<1>4. CASE AddServer
  <2>1. 1 \in 1..MaxVersions
    BY McpNumbers
  <2> QED BY <1>4, <2>1 DEF AddServer
<1>5. CASE CancelAuthorization \/ UNCHANGED mcpVars
  BY <1>1, <1>5 DEF CancelAuthorization, mcpVars
<1> QED BY <1>1, <1>2, <1>3, <1>4, <1>5 DEF McpNext

----------------------------------------------------------------------------

\* The invariant holds for every interleaving of requests, calls and authorizations.
THEOREM McpInvHolds == McpSpec => []McpInv
<1>1. ASSUME McpInv, [McpNext]_mcpVars
      PROVE  McpInv'
  <2>1. McpTypeOK /\ op \in [Op -> Operation] /\ RestTypeOK
    BY <1>1, McpTypes DEF McpInv, RestTypeOK
  <2>2. server' \in [exists : BOOLEAN, enabled : BOOLEAN, version : 1..MaxVersions]
        /\ op' \in [Op -> Operation] /\ RestTypeOK'
    BY <1>1, <2>1, ServerKept, OperationsKept, RestKept DEF McpInv
  <2>3. McpTypeOK'
    BY <2>2 DEF McpTypeOK, RestTypeOK, Operation
  <2>4. VersionsSuffice' /\ LooksApart' /\ MappedIsUsable'
    BY <1>1, <2>1, McpNumbers, VersionsKept, LooksKept, MapKept DEF McpInv
  <2> QED BY <2>3, <2>4 DEF McpInv
<1> QED BY McpInitially, <1>1, PTL DEF McpSpec

\* Every variable keeps its type.
THEOREM McpTypeCorrect == McpSpec => []McpTypeOK
<1>1. McpInv => McpTypeOK
  BY DEF McpInv
<1> QED BY McpInvHolds, <1>1, PTL

\* McpService.connections: no call gets a connection that the service has closed or that a call
\* has found broken, for any number of operations that connect, probe, authorize, edit and fail
\* at once.
THEOREM MapHoldsNoSpentConnection == McpSpec => []MappedIsUsable
<1>1. McpInv => MappedIsUsable
  BY DEF McpInv
<1> QED BY McpInvHolds, <1>1, PTL

----------------------------------------------------------------------------
(***************************************************************************)
(* A model run as its driver performs it (ProviderRun).                    *)
(***************************************************************************)

\* The reader has the first event, or it is in the queue.
Started == last # "none" \/ queue # <<>>

\* Which driver may be where, and what is there before the prompt.
StageTells ==
  /\ exec => driver = "codex" /\ stage \in {"read", "over"}
  /\ stage = "connect" => driver = "http"
  /\ stage = "read" => ~Rpc
  /\ stage = "probe" => driver = "acp"
  /\ stage = "initialize" => driver \in {"codex", "acp"}
  /\ stage \in {"thread", "turn", "wait"} => driver = "codex"
  /\ stage \in {"session", "model", "prompt"} => driver = "acp"
  /\ stage \in {"start", "probe", "initialize", "thread", "session", "model"} => request = "none"
  /\ stage \in {"connect", "read", "turn", "wait", "prompt"} => request # "none"
  /\ stage \in {"start", "probe", "connect", "initialize", "thread", "session", "model", "turn"}
       => ~Started
  /\ stage \in {"start", "probe"} => wire = <<>> /\ answer = "none" /\ closed = "none"
  /\ stage = "read" /\ driver \in {"http", "ollama"} => last # "none"
  /\ ~Rpc => queue = <<>> /\ closed = "none"

\* The reader is done when the driver is, or when it was told to stop; an error that came
\* before the first event, and is not a lost connection, has ended the prompt as well.
EndTells ==
  /\ ending # "none" => stage = "over" \/ (Rpc /\ ending = "aborted" /\ closed = "aborted")
  /\ ending \notin {"none", "transport", "aborted"} /\ last = "none"
       => request # "sent" \/ service # "up"

\* The prompt is taken once, and once more by codex exec.
PromptCounted ==
  /\ ~exec => prompts = IF request = "taken" THEN 1 ELSE 0
  /\ exec => prompts <= (IF request = "taken" THEN 2 ELSE 1)
  /\ request = "taken" => prompts > 0
  /\ driver = "ollama" /\ last = "text" => prompts > 0

\* Content is on its way once the prompt is taken, and one reply at most; that to the prompt
\* says what became of it.
WireTells ==
  /\ \A i \in DOMAIN wire :
       /\ wire[i] \notin Replies => request = "taken"
       /\ wire[i] = "busy" => driver = "http"
       /\ wire[i] \in Replies => /\ answer = "none"
                                 /\ \A j \in DOMAIN wire : wire[j] \in Replies => j = i
  /\ stage \in {"connect", "turn", "prompt"} =>
       /\ Replied => request # "sent"
       /\ answer = "ok" \/ (\E i \in DOMAIN wire : wire[i] = "ok") => request = "taken"

\* The queue begins with the first event, unless the reader has it, and ends with the last.
QueueTells ==
  /\ \A i \in DOMAIN queue :
       /\ queue[i] = "started" <=> i = 1 /\ last = "none"
       /\ queue[i] = "call" => tools
       /\ queue[i] = "completed" => i = Len(queue) /\ closed = "completed"
  /\ queue # <<>> => driver = "acp" \/ prompts > 0
  /\ closed = "completed" =>
       /\ prompts > 0
       /\ ending = "none" => queue # <<>> /\ queue[Len(queue)] = "completed"

\* How the queue is closed says where the task is, and what became of the prompt.
ClosedTells ==
  /\ closed # "retryable"
  /\ closed = "aborted" => aborted
  /\ closed \in {"refused", "other", "completed"} => request # "sent"
  /\ closed # "none" => closed = "aborted" \/ stage = "over"
  /\ stage = "wait" => closed = "none" /\ Started
  /\ driver = "acp" /\ request # "none" => closed = "aborted" \/ Started

\* What every state of a run satisfies.  The contract alone says nothing of frames, queue
\* and stage, and which event may come next depends on these.
StreamInv ==
  StreamTypeOK /\ StageTells /\ EndTells /\ PromptCounted /\ WireTells /\ QueueTells
    /\ ClosedTells

----------------------------------------------------------------------------

\* A sequence and one element more.
LEMMA OneMore ==
  ASSUME NEW S, NEW s \in Seq(S), NEW x \in S
  PROVE  /\ Append(s, x) \in Seq(S) /\ Append(s, x) # <<>>
         /\ DOMAIN s = 1..Len(s) /\ Len(s) \in Nat
         /\ DOMAIN Append(s, x) = 1..(Len(s) + 1)
         /\ \A i \in 1..Len(s) : Append(s, x)[i] = s[i]
         /\ Append(s, x)[Len(s) + 1] = x
<1>1. Append(s, x) \in Seq(S) /\ Len(Append(s, x)) = Len(s) + 1 /\ Len(s) \in Nat
      /\ (\A i \in 1..Len(s) : Append(s, x)[i] = s[i]) /\ Append(s, x)[Len(s) + 1] = x
  BY AppendProperties, LenProperties
<1>2. DOMAIN s = 1..Len(s) /\ DOMAIN Append(s, x) = 1..Len(Append(s, x))
  BY <1>1, LenProperties
<1>3. Append(s, x) # <<>>
  BY <1>1
<1> QED BY <1>1, <1>2, <1>3

\* A sequence without its first element.
LEMMA OneLess ==
  ASSUME NEW S, NEW s \in Seq(S), s # <<>>
  PROVE  /\ Tail(s) \in Seq(S) /\ Head(s) = s[1] /\ Head(s) \in S
         /\ DOMAIN s = 1..Len(s) /\ Len(s) \in Nat /\ 1 \in DOMAIN s
         /\ DOMAIN Tail(s) = 1..Len(Tail(s)) /\ Len(Tail(s)) = Len(s) - 1
         /\ \A i \in DOMAIN Tail(s) : /\ i \in Nat /\ i + 1 \in DOMAIN s /\ i + 1 # 1
                                      /\ Tail(s)[i] = s[i + 1]
<1>1. /\ Head(s) \in S /\ Tail(s) \in Seq(S)
      /\ Len(Tail(s)) = Len(s) - 1 /\ \A i \in 1..Len(Tail(s)) : Tail(s)[i] = s[i + 1]
  BY HeadTailProperties
<1>2. Len(s) \in Nat /\ DOMAIN s = 1..Len(s) /\ DOMAIN Tail(s) = 1..Len(Tail(s))
  BY <1>1, LenProperties
<1>3. Head(s) = s[1] /\ Len(s) > 0
  BY <1>2
<1> QED BY <1>1, <1>2, <1>3

\* Two sequences, one after the other.
LEMMA Joined ==
  ASSUME NEW S, NEW s \in Seq(S), NEW t \in Seq(S)
  PROVE  /\ s \o t \in Seq(S) /\ Len(s) \in Nat /\ Len(t) \in Nat /\ Len(s \o t) = Len(s) + Len(t)
         /\ DOMAIN s = 1..Len(s) /\ DOMAIN t = 1..Len(t) /\ DOMAIN (s \o t) = 1..(Len(s) + Len(t))
         /\ \A i \in 1..Len(s) : (s \o t)[i] = s[i]
         /\ \A i \in 1..Len(t) : (s \o t)[Len(s) + i] = t[i]
<1>1. /\ s \o t \in Seq(S) /\ Len(s \o t) = Len(s) + Len(t)
      /\ \A i \in 1..Len(s) + Len(t) :
           (s \o t)[i] = IF i <= Len(s) THEN s[i] ELSE t[i - Len(s)]
  BY ConcatProperties
<1>2. Len(s) \in Nat /\ Len(t) \in Nat /\ DOMAIN s = 1..Len(s) /\ DOMAIN t = 1..Len(t)
      /\ DOMAIN (s \o t) = 1..Len(s \o t)
  BY <1>1, LenProperties
<1> QED BY <1>1, <1>2

----------------------------------------------------------------------------

\* Nothing is read or written, and the task does not ask anew.
LEMMA WireStays ==
  ASSUME WireTells, UNCHANGED <<driver, wire, answer>>,
         request' = request \/ (request = "sent" /\ request' = "taken"),
         stage' = stage \/ stage' \notin {"connect", "turn", "prompt"}
  PROVE  WireTells'
BY DEF WireTells, Replied, Replies

\* A frame is taken off the wire.
LEMMA WireShrinks ==
  ASSUME StreamTypeOK, WireTells, wire # <<>>, wire' = Tail(wire),
         UNCHANGED <<driver, request, answer>>,
         stage' = stage \/ stage' \notin {"connect", "turn", "prompt"}
  PROVE  WireTells'
<1>1. wire \in Seq(Frames)
  BY DEF StreamTypeOK
<1>2. \A i \in DOMAIN wire' : i \in Nat /\ i + 1 \in DOMAIN wire /\ wire'[i] = wire[i + 1]
  BY <1>1, OneLess
<1>3. \A i \in DOMAIN wire' :
        /\ wire'[i] \notin Replies => request = "taken"
        /\ wire'[i] = "busy" => driver = "http"
        /\ wire'[i] \in Replies => answer = "none"
  BY <1>2 DEF WireTells
<1>4. \A i, j \in DOMAIN wire' : wire'[i] \in Replies /\ wire'[j] \in Replies => j = i
  BY <1>2 DEF WireTells
<1>5. stage' \in {"connect", "turn", "prompt"} =>
        /\ Replied' => request # "sent"
        /\ answer = "ok" \/ (\E i \in DOMAIN wire' : wire'[i] = "ok") => request = "taken"
  BY <1>2 DEF WireTells, Replied
<1> QED BY <1>3, <1>4, <1>5 DEF WireTells, Replies

\* Where there is no queue.
LEMMA NoQueue ==
  ASSUME queue' = <<>>, closed' = "none", stage' # "wait",
         (driver' = "acp" /\ request' # "none") => last' # "none"
  PROVE  QueueTells' /\ ClosedTells'
<1>1. DOMAIN queue' = {}
  OBVIOUS
<1> QED BY <1>1 DEF QueueTells, ClosedTells, Started

----------------------------------------------------------------------------

\* The contract allows the step, or does not notice it.
Allowed == Contract!Next \/ UNCHANGED Contract!vars

\* A driver does what changes neither itself nor the prompt.
Unseen == UNCHANGED <<driver, tools, exec, aborted, service, request, prompts, sent>>

\* The beginning.
LEMMA StreamInitially ==
  ASSUME StreamInit
  PROVE  StreamInv
<1>1. StreamTypeOK
  <2>1. exec \in BOOLEAN /\ calls \in BOOLEAN /\ aborted \in BOOLEAN
    BY DEF StreamInit
  <2>2. prompts \in 0..2 /\ sent \in 0..MaxFrames
    BY FramesBound DEF StreamInit
  <2>3. wire \in Seq(Frames) /\ early \in Seq(Frames) /\ queue \in Seq(Events)
    BY DEF StreamInit
  <2> QED BY <2>1, <2>2, <2>3 DEF StreamInit, StreamTypeOK, Stages, Endings
<1>2. StageTells /\ EndTells /\ PromptCounted
  BY DEF StreamInit, StageTells, EndTells, PromptCounted, Started, Contract!Drivers
<1>3. WireTells
  BY DEF StreamInit, WireTells
<1>4. QueueTells
  BY DEF StreamInit, QueueTells, Started
<1>5. ClosedTells
  BY DEF StreamInit, ClosedTells, Started
<1> QED BY <1>1, <1>2, <1>3, <1>4, <1>5 DEF StreamInv

\* The service takes a prompt: the contract's Prompt.
LEMMA PromptArrives ==
  ASSUME StreamInv, ServiceTakes
  PROVE  StreamInv' /\ Allowed
<1>1. /\ service = "up" /\ request = "sent" /\ request' = "taken" /\ prompts' = prompts + 1
      /\ UNCHANGED <<driver, tools, exec, aborted, stage, answer, early, calls, queue, closed,
                     service, wire, sent, last, ending>>
  BY DEF ServiceTakes, fixedVars, taskVars
<1>2. prompts \in Nat /\ (~exec => prompts = 0) /\ (exec => driver = "codex" /\ prompts <= 1)
  BY <1>1 DEF StreamInv, StreamTypeOK, PromptCounted, StageTells
<1>3. StreamTypeOK'
  BY <1>1, <1>2 DEF StreamInv, StreamTypeOK
<1>4. StageTells' /\ EndTells'
  BY <1>1 DEF StreamInv, StageTells, EndTells, Started, Rpc
<1>5. PromptCounted'
  BY <1>1, <1>2 DEF PromptCounted
<1>6. WireTells'
  BY <1>1, WireStays DEF StreamInv
<1>7. QueueTells' /\ ClosedTells'
  BY <1>1, <1>2 DEF StreamInv, QueueTells, ClosedTells, Started
<1>8. Contract!Prompt
  <2>1. driver \in Contract!Drivers
    BY DEF StreamInv, StreamTypeOK
  <2>2. prompts < Contract!MaxPrompts[driver]
    BY <1>2, <2>1 DEF Contract!MaxPrompts, Contract!Drivers
  <2>3. ending = "none" \/ last # "none" \/ ending \in {"transport", "aborted"}
    BY <1>1 DEF StreamInv, EndTells
  <2> QED BY <1>1, <2>2, <2>3 DEF Contract!Prompt, Contract!Running
<1> QED BY <1>3, <1>4, <1>5, <1>6, <1>7, <1>8 DEF StreamInv, Allowed, Contract!Next

\* The service sends a frame.
LEMMA FrameArrives ==
  ASSUME StreamInv, NEW frame \in Frames, ServiceSends(frame)
  PROVE  StreamInv' /\ Allowed
<1>1. /\ service = "up" /\ stage # "over" /\ sent < MaxFrames /\ MaySend(frame)
      /\ wire' = Append(wire, frame) /\ sent' = sent + 1
      /\ request' = IF frame \in {"error", "busy"} /\ request = "sent" THEN "rejected" ELSE request
      /\ UNCHANGED <<driver, tools, exec, aborted, stage, answer, early, calls, queue, closed,
                     service, prompts, last, ending>>
  BY DEF ServiceSends, fixedVars, taskVars
<1>2. wire \in Seq(Frames) /\ sent \in Nat /\ sent' \in 0..MaxFrames
  BY <1>1, FramesBound DEF StreamInv, StreamTypeOK
<1>3. /\ wire' \in Seq(Frames) /\ DOMAIN wire = 1..Len(wire) /\ Len(wire) \in Nat
      /\ DOMAIN wire' = 1..(Len(wire) + 1) /\ wire'[Len(wire) + 1] = frame
      /\ \A i \in DOMAIN wire : wire'[i] = wire[i]
  BY <1>1, <1>2, OneMore
<1>4. StreamTypeOK'
  BY <1>1, <1>2, <1>3 DEF StreamInv, StreamTypeOK
<1>5. /\ frame \in {"error", "busy"} => Asking /\ ~Replied
      /\ frame = "busy" => stage = "connect"
      /\ frame = "ok" => Asking /\ ~Replied /\ request \in {"none", "taken"}
      /\ frame \notin Replies => request = "taken"
      /\ Asking \/ request = "taken"
  BY <1>1 DEF MaySend, Replies, Asking, Frames
<1>6. StageTells'
  BY <1>1, <1>5 DEF StreamInv, StageTells, Started, Rpc, Asking
<1>7. EndTells' /\ PromptCounted'
  BY <1>1, <1>5 DEF StreamInv, EndTells, PromptCounted, Rpc
<1>8. WireTells'
  <2>1. \A i \in DOMAIN wire' : (i \in DOMAIN wire /\ wire'[i] = wire[i])
                                \/ (i = Len(wire) + 1 /\ wire'[i] = frame)
    BY <1>3
  <2>2. \A i \in DOMAIN wire : wire[i] \notin Replies => request = "taken"
    BY DEF StreamInv, WireTells
  <2>3. \A i \in DOMAIN wire' : wire'[i] \notin Replies => request' = "taken"
    BY <1>1, <1>5, <2>1, <2>2
  <2>4. \A i \in DOMAIN wire' : wire'[i] = "busy" => driver = "http"
    BY <1>1, <1>5, <2>1 DEF StreamInv, WireTells, StageTells
  <2>5. frame \in Replies => answer = "none" /\ \A i \in DOMAIN wire : wire[i] \notin Replies
    BY <1>5 DEF Replied, Replies
  <2>6. \A i \in DOMAIN wire' : wire'[i] \in Replies =>
          answer = "none" /\ \A j \in DOMAIN wire' : wire'[j] \in Replies => j = i
    BY <2>1, <2>5 DEF StreamInv, WireTells
  <2>7. stage \in {"connect", "turn", "prompt"} /\ Replied' => request' # "sent"
    BY <1>1, <1>5, <2>1 DEF StreamInv, WireTells, Replied, Replies
  <2>8. stage \in {"connect", "turn", "prompt"}
          /\ (answer = "ok" \/ \E i \in DOMAIN wire' : wire'[i] = "ok") => request' = "taken"
    BY <1>1, <1>5, <2>1 DEF StreamInv, WireTells, StageTells
  <2> QED BY <1>1, <2>3, <2>4, <2>6, <2>7, <2>8 DEF WireTells
<1>9. QueueTells' /\ ClosedTells'
  BY <1>1 DEF StreamInv, QueueTells, ClosedTells, Started
<1> QED BY <1>1, <1>4, <1>6, <1>7, <1>8, <1>9 DEF StreamInv, Allowed, Contract!vars

\* The service ends.
LEMMA ServiceGoes ==
  ASSUME StreamInv, ServiceEnds
  PROVE  StreamInv' /\ Allowed
<1>1. /\ service' = "gone"
      /\ UNCHANGED <<driver, tools, exec, aborted, stage, answer, early, calls, queue, closed,
                     request, prompts, wire, sent, last, ending>>
  BY DEF ServiceEnds, fixedVars, taskVars
<1>2. StreamTypeOK' /\ StageTells' /\ EndTells' /\ PromptCounted'
  BY <1>1 DEF StreamInv, StreamTypeOK, StageTells, EndTells, PromptCounted, Started, Rpc
<1>3. WireTells' /\ QueueTells' /\ ClosedTells'
  BY <1>1 DEF StreamInv, WireTells, QueueTells, ClosedTells, Started, Replied
<1> QED BY <1>1, <1>2, <1>3 DEF StreamInv, Allowed, Contract!vars

----------------------------------------------------------------------------
(* The generators.                                                         *)

\* A generator ends.  It completes once the prompt is taken, and what it raises before its
\* first event is what the contract lists, or tells that the prompt is not there.
LEMMA Finishes ==
  ASSUME StreamInv, NEW how \in Endings, how # "none", EndsWith(how), Unseen,
         wire' = wire \/ (wire # <<>> /\ wire' = Tail(wire)),
         stage \in {"start", "probe"} \/ (~Rpc /\ stage \in {"connect", "read"}),
         how = "completed" => ~Rpc /\ last # "none" /\ prompts > 0,
         how = "aborted" => aborted,
         how \in Contract!Failures /\ last = "none" =>
           prompts = 0 \/ how \in Contract!Late[driver],
         how \in Contract!Failures \ {"transport"} /\ last = "none" =>
           request # "sent" \/ service # "up"
  PROVE  StreamInv' /\ Allowed
<1>1. /\ ending' = how /\ stage' = "over"
      /\ last' = (IF how = "completed" THEN "completed" ELSE last)
      /\ UNCHANGED <<driver, tools, exec, aborted, service, request, prompts, sent, answer,
                     early, calls, queue, closed>>
  BY DEF EndsWith, Unseen
<1>2. closed = "none" /\ ending = "none"
  BY DEF StreamInv, StageTells, EndTells
<1>3. ~Rpc => queue = <<>>
  BY DEF StreamInv, StageTells
<1>4. wire' \in Seq(Frames)
  BY OneLess DEF StreamInv, StreamTypeOK
<1>5. StreamTypeOK'
  BY <1>1, <1>4 DEF StreamInv, StreamTypeOK, Stages, Events
<1>6. StageTells' /\ EndTells' /\ PromptCounted'
  <2>1. StageTells'
    BY <1>1 DEF StreamInv, StageTells, Started, Rpc
  <2>2. EndTells'
    BY <1>1 DEF EndTells, Endings
  <2>3. PromptCounted'
    BY <1>1 DEF StreamInv, PromptCounted
  <2> QED BY <2>1, <2>2, <2>3
<1>7. WireTells'
  BY <1>1, WireStays, WireShrinks DEF StreamInv
<1>8. QueueTells'
  <2>1. CASE how = "completed"
    <3>1. DOMAIN queue' = {}
      BY <1>1, <1>3, <2>1
    <3> QED BY <1>1, <1>2, <1>3, <2>1, <3>1 DEF QueueTells
  <2>2. CASE how # "completed"
    BY <1>1, <1>2, <2>2 DEF StreamInv, QueueTells
  <2> QED BY <2>1, <2>2
<1>9. ClosedTells'
  <2>1. Started => Started'
    BY <1>1 DEF Started
  <2> QED BY <1>1, <1>2, <2>1 DEF StreamInv, ClosedTells
<1>10. Allowed
  <2>1. CASE how = "completed"
    BY <1>1, <1>2, <2>1 DEF Allowed, Contract!Next, Contract!Complete, Contract!Running
  <2>2. CASE how = "aborted"
    BY <1>1, <1>2, <2>2 DEF Allowed, Contract!Next, Contract!Stop, Contract!Running
  <2>3. CASE how \notin {"completed", "aborted"}
    <3>1. how \in Contract!Failures
      BY <2>3 DEF Endings
    <3>2. Contract!Fail
      BY <1>1, <1>2, <2>3, <3>1 DEF Contract!Fail, Contract!Running
    <3> QED BY <3>2 DEF Allowed, Contract!Next
  <2> QED BY <2>1, <2>2, <2>3
<1> QED BY <1>5, <1>6, <1>7, <1>8, <1>9, <1>10 DEF StreamInv

\* A generator yields an event, the first of which is "started", to a prompt that is taken.
LEMMA Yields ==
  ASSUME StreamInv, NEW e \in {"started", "text", "call"}, Yield(e), Unseen, ~Rpc,
         UNCHANGED <<answer, early, queue, closed>>, calls' \in BOOLEAN,
         wire' = wire \/ (wire # <<>> /\ wire' = Tail(wire)),
         stage \in {"connect", "read"}, stage' = "read",
         e = "started" <=> last = "none", e = "call" => tools, prompts > 0
  PROVE  StreamInv' /\ Allowed
<1>1. /\ last' = e
      /\ UNCHANGED <<driver, tools, exec, aborted, service, request, prompts, sent, answer,
                     early, queue, closed, ending>>
  BY DEF Yield, Unseen
<1>2. closed = "none" /\ ending = "none" /\ queue = <<>> /\ request # "none"
  BY DEF StreamInv, StageTells, EndTells
<1>3. wire' \in Seq(Frames)
  BY OneLess DEF StreamInv, StreamTypeOK
<1>4. StreamTypeOK'
  BY <1>1, <1>3 DEF StreamInv, StreamTypeOK, Stages, Events
<1>5. StageTells' /\ EndTells' /\ PromptCounted'
  BY <1>1, <1>2 DEF StreamInv, StageTells, EndTells, PromptCounted, Started, Rpc
<1>6. WireTells'
  BY <1>1, WireStays, WireShrinks DEF StreamInv
<1>7. QueueTells' /\ ClosedTells'
  BY <1>1, <1>2, NoQueue
<1>8. Allowed
  <2>1. CASE e = "started"
    BY <1>1, <1>2, <2>1 DEF Allowed, Contract!Next, Contract!Start, Contract!Running
  <2>2. CASE e # "started"
    <3>1. e \in {"text"} \cup Contract!Offered
      BY <2>2 DEF Contract!Offered
    <3> QED BY <1>1, <1>2, <2>2, <3>1 DEF Allowed, Contract!Next, Contract!Speak, Contract!Running
  <2> QED BY <2>1, <2>2
<1> QED BY <1>4, <1>5, <1>6, <1>7, <1>8 DEF StreamInv

\* A generator takes a frame that brings no event.
LEMMA Skips ==
  ASSUME StreamInv, Unseen, ~Rpc, stage = "read", wire # <<>>, wire' = Tail(wire),
         UNCHANGED <<stage, answer, early, queue, closed, last, ending>>, calls' \in BOOLEAN
  PROVE  StreamInv' /\ Allowed
<1>1. UNCHANGED <<driver, tools, exec, aborted, service, request, prompts, sent>>
  BY DEF Unseen
<1>2. wire' \in Seq(Frames)
  BY OneLess DEF StreamInv, StreamTypeOK
<1>3. StreamTypeOK'
  BY <1>1, <1>2 DEF StreamInv, StreamTypeOK
<1>4. StageTells' /\ EndTells' /\ PromptCounted'
  BY <1>1 DEF StreamInv, StageTells, EndTells, PromptCounted, Started, Rpc
<1>5. WireTells'
  BY <1>1, WireShrinks DEF StreamInv
<1>6. QueueTells' /\ ClosedTells'
  BY <1>1 DEF StreamInv, QueueTells, ClosedTells, Started
<1>7. Allowed
  BY <1>1 DEF Allowed, Contract!vars
<1> QED BY <1>3, <1>4, <1>5, <1>6, <1>7 DEF StreamInv

\* The first frame of the wire.
LEMMA FirstFrame ==
  ASSUME StreamInv, wire # <<>>
  PROVE  /\ Head(wire) = wire[1] /\ 1 \in DOMAIN wire /\ Head(wire) \in Frames
         /\ Head(wire) \notin Replies => request = "taken" /\ prompts > 0
BY OneLess DEF StreamInv, StreamTypeOK, WireTells, PromptCounted

\* A run that is not configured ends at once.
LEMMA EndsUnconfigured ==
  ASSUME StreamInv, NotConfigured
  PROVE  StreamInv' /\ Allowed
<1>1. EndsWith("other") /\ Unseen /\ stage = "start" /\ wire' = wire
  BY DEF NotConfigured, Unseen, fixedVars, remoteVars
<1>2. prompts = 0 /\ request = "none"
  BY <1>1 DEF StreamInv, StageTells, PromptCounted
<1>3. "other" \in Endings
  BY DEF Endings, Contract!Failures
<1> QED BY <1>1, <1>2, <1>3, Finishes

\* A run begins.
LEMMA RunBegins ==
  ASSUME StreamInv, RunStarts
  PROVE  StreamInv' /\ Allowed
<1>1. /\ stage = "start" /\ stage' \in {"connect", "initialize", "probe", "read"}
      /\ stage' = "connect" <=> driver = "http"
      /\ stage' = "initialize" <=> driver = "codex"
      /\ stage' = "probe" <=> driver = "acp"
      /\ request' = IF Rpc THEN "none" ELSE "sent"
      /\ service' \in {"none", "up", "gone"}
      /\ last' = IF driver = "ollama" THEN "started" ELSE last
      /\ UNCHANGED <<driver, tools, exec, aborted, prompts, wire, sent, answer, early, calls,
                     queue, closed, ending>>
  BY DEF RunStarts, fixedVars
<1>2. /\ ~exec /\ prompts = 0 /\ request = "none" /\ last = "none" /\ queue = <<>>
      /\ wire = <<>> /\ answer = "none" /\ closed = "none" /\ ending = "none"
  BY <1>1 DEF StreamInv, StageTells, PromptCounted, EndTells, Started
<1>3. StreamTypeOK'
  BY <1>1 DEF StreamInv, StreamTypeOK, Stages, Events
<1>4. StageTells' /\ EndTells' /\ PromptCounted'
  <2>1. driver \in {"http", "claude", "ollama", "codex", "acp"}
    BY DEF StreamInv, StreamTypeOK, Contract!Drivers
  <2>2. StageTells'
    BY <1>1, <1>2, <2>1 DEF StageTells, Started, Rpc
  <2> QED BY <1>1, <1>2, <2>2 DEF EndTells, PromptCounted, Rpc
<1>5. WireTells'
  <2>1. DOMAIN wire' = {}
    BY <1>1, <1>2
  <2> QED BY <1>1, <1>2, <2>1 DEF WireTells, Replied
<1>6. QueueTells' /\ ClosedTells'
  BY <1>1, <1>2, NoQueue DEF Rpc
<1>7. Allowed
  <2>1. CASE driver = "ollama"
    BY <1>1, <1>2, <2>1
       DEF Allowed, Contract!Next, Contract!Start, Contract!Running, Contract!StartsEarly
  <2>2. CASE driver # "ollama"
    BY <1>1, <2>2 DEF Allowed, Contract!vars
  <2> QED BY <2>1, <2>2
<1> QED BY <1>3, <1>4, <1>5, <1>6, <1>7 DEF StreamInv

\* The steps of an HTTP request.
LEMMA HttpGoesOn ==
  ASSUME StreamInv,
         HttpResponds \/ HttpConnectFails \/ HttpReads \/ HttpReadFails \/ HttpAborts
  PROVE  StreamInv' /\ Allowed
<1>1. driver = "http" /\ stage \in {"connect", "read"} /\ Unseen /\ ~Rpc
  BY DEF HttpResponds, HttpConnectFails, HttpReads, HttpReadFails, HttpAborts, Unseen, fixedVars,
         remoteVars, StreamInv, StageTells, Rpc
<1>2. {"transport", "refused", "retryable", "other", "completed", "aborted"} \subseteq Endings
  BY DEF Endings, Contract!Failures
<1>3. {"transport", "refused", "retryable"} \subseteq Contract!Late[driver]
  BY <1>1 DEF Contract!Late, Contract!Drivers
<1>4. CASE HttpResponds
  <2>1. stage = "connect" /\ wire # <<>> /\ wire' = Tail(wire)
    BY <1>4 DEF HttpResponds, Receives
  <2>2. /\ Head(wire) = "ok" => request = "taken"
        /\ Head(wire) \in Replies => request # "sent"
    BY <2>1, FirstFrame DEF StreamInv, WireTells, Replied
  <2>3. ~exec /\ last = "none"
    BY <1>1, <2>1 DEF StreamInv, StageTells, Started
  <2>4. CASE Receives("ok") /\ Yield("started") /\ stage' = "read"
             /\ UNCHANGED <<answer, early, calls, queue, closed>>
    <3>1. prompts > 0 /\ calls' \in BOOLEAN
      BY <2>2, <2>4 DEF Receives, StreamInv, PromptCounted, StreamTypeOK
    <3> QED BY <1>1, <2>1, <2>3, <2>4, <3>1, Yields
  <2>5. CASE Receives("error") /\ EndsWith("refused")
    BY <1>1, <1>2, <1>3, <2>1, <2>2, <2>5, Finishes DEF Receives, Replies
  <2>6. CASE Receives("busy") /\ EndsWith("retryable")
    BY <1>1, <1>2, <1>3, <2>1, <2>2, <2>6, Finishes DEF Receives, Replies
  <2> QED BY <1>4, <2>4, <2>5, <2>6 DEF HttpResponds
<1>5. CASE HttpConnectFails
  BY <1>1, <1>2, <1>3, <1>5, Finishes DEF HttpConnectFails, remoteVars
<1>6. CASE HttpReads
  <2>1. stage = "read" /\ last # "none"
    BY <1>1, <1>6 DEF HttpReads, StreamInv, StageTells
  <2>2. wire # <<>> /\ Head(wire) \in {"text", "call", "bad", "refusal", "done"}
    BY <1>6 DEF HttpReads, Receives
  <2>3. request = "taken" /\ prompts > 0
    BY <2>2, FirstFrame DEF Replies
  <2>4. calls \in BOOLEAN
    BY DEF StreamInv, StreamTypeOK
  <2>5. CASE Receives("text") /\ Yield("text") /\ UNCHANGED taskVars
    BY <1>1, <2>1, <2>3, <2>4, <2>5, Yields DEF Receives, taskVars
  <2>6. CASE /\ Receives("call") /\ calls' = TRUE
             /\ UNCHANGED <<stage, answer, early, queue, closed, last, ending>>
    <3>1. calls' \in BOOLEAN
      BY <2>6
    <3> QED BY <1>1, <2>1, <2>6, <3>1, Skips DEF Receives
  <2>7. CASE /\ Receives("bad") \/ Receives("refusal") \/ Receives("call")
             /\ EndsWith("other")
    BY <1>1, <1>2, <2>1, <2>7, Finishes DEF Receives
  <2>8. CASE Receives("done") /\ EndsWith(IF calls THEN "other" ELSE "completed")
    BY <1>1, <1>2, <2>1, <2>3, <2>8, Finishes DEF Receives
  <2>9. CASE finalizeToolCalls /\ UNCHANGED <<stage, answer, early, queue, closed, wire>>
    <3>1. tools /\ Yield("call") /\ calls' \in BOOLEAN
      BY <2>9 DEF finalizeToolCalls
    <3> QED BY <1>1, <2>1, <2>3, <2>9, <3>1, Yields
  <2> QED BY <1>6, <2>5, <2>6, <2>7, <2>8, <2>9 DEF HttpReads
<1>7. CASE HttpReadFails
  <2>1. last # "none"
    BY <1>7 DEF HttpReadFails, StreamInv, StageTells
  <2> QED BY <1>1, <1>2, <1>7, <2>1, Finishes DEF HttpReadFails, remoteVars
<1>8. CASE HttpAborts
  BY <1>1, <1>2, <1>8, Finishes DEF HttpAborts, remoteVars, Contract!Failures
<1> QED BY <1>4, <1>5, <1>6, <1>7, <1>8

\* The steps of a subprocess whose output is read.
LEMMA CliGoesOn ==
  ASSUME StreamInv, CliReads \/ CliEnds
  PROVE  StreamInv' /\ Allowed
<1>1. Subprocess /\ stage = "read" /\ Unseen
  BY DEF CliReads, CliEnds, Unseen, fixedVars, remoteVars
<1>2. driver \in {"claude", "ollama", "codex"} /\ ~Rpc /\ (driver = "codex" <=> exec)
      /\ (driver = "ollama" => last # "none")
  BY <1>1 DEF Subprocess, StreamInv, StageTells, Rpc
<1>3. {"transport", "refused", "retryable", "other", "completed", "aborted"} \subseteq Endings
  BY DEF Endings, Contract!Failures
<1>4. driver # "ollama" => {"refused", "other"} \subseteq Contract!Late[driver]
  BY <1>2 DEF Contract!Late, Contract!Drivers
<1>5. calls \in BOOLEAN
  BY DEF StreamInv, StreamTypeOK
<1>6. CASE CliReads
  <2>1. wire # <<>> /\ Head(wire) \in {"text", "begin", "refusal", "done"}
    BY <1>6 DEF CliReads, Receives
  <2>2. request = "taken" /\ prompts > 0
    BY <2>1, FirstFrame DEF Replies
  <2>3. CASE last = "none" /\ Yield("started") /\ UNCHANGED <<taskVars, wire>>
    BY <1>1, <1>2, <1>5, <2>2, <2>3, Yields DEF taskVars
  <2>4. CASE /\ Receives("begin")
             /\ IF last = "none" THEN Yield("started") ELSE UNCHANGED <<last, ending>>
             /\ UNCHANGED taskVars
    <3>1. CASE last = "none"
      BY <1>1, <1>2, <1>5, <2>2, <2>4, <3>1, Yields DEF taskVars, Receives
    <3>2. CASE last # "none"
      BY <1>1, <1>2, <1>5, <2>4, <3>2, Skips DEF taskVars, Receives
    <3> QED BY <3>1, <3>2
  <2>5. CASE Receives("text") /\ last # "none" /\ Yield("text") /\ UNCHANGED taskVars
    BY <1>1, <1>2, <1>5, <2>2, <2>5, Yields DEF taskVars, Receives
  <2>6. CASE (Receives("done") \/ Receives("refusal")) /\ UNCHANGED <<taskVars, last, ending>>
    BY <1>1, <1>2, <1>5, <2>6, Skips DEF taskVars, Receives
  <2>7. CASE Receives("done") /\ last # "none" /\ EndsWith("completed")
    BY <1>1, <1>2, <1>3, <2>2, <2>7, Finishes DEF Receives, Contract!Failures
  <2>8. CASE last = "started" /\ Yield("text") /\ UNCHANGED <<taskVars, wire>>
    BY <1>1, <1>2, <1>5, <2>2, <2>8, Yields DEF taskVars
  <2>9. CASE driver # "ollama" /\ Receives("refusal") /\ EndsWith("refused")
    BY <1>1, <1>2, <1>3, <1>4, <2>2, <2>9, Finishes DEF Receives
  <2> QED BY <1>6, <2>3, <2>4, <2>5, <2>6, <2>7, <2>8, <2>9 DEF CliReads
<1>7. CASE CliEnds
  <2>1. service = "gone" /\ wire' = wire
    BY <1>7 DEF CliEnds, remoteVars
  <2>2. CASE aborted /\ EndsWith("aborted")
    BY <1>1, <1>2, <1>3, <2>1, <2>2, Finishes DEF Contract!Failures
  <2>3. CASE EndsWith("other")
    BY <1>1, <1>2, <1>3, <1>4, <2>1, <2>3, Finishes
  <2>4. CASE driver = "ollama" /\ EndsWith("refused")
    BY <1>1, <1>2, <1>3, <2>1, <2>4, Finishes
  <2>5. CASE driver = "ollama" /\ last = "text" /\ EndsWith("completed")
    <3>1. prompts > 0
      BY <2>5 DEF StreamInv, PromptCounted
    <3> QED BY <1>1, <1>2, <1>3, <2>1, <2>5, <3>1, Finishes DEF Contract!Failures
  <2> QED BY <1>7, <2>2, <2>3, <2>4, <2>5 DEF CliEnds
<1> QED BY <1>6, <1>7

----------------------------------------------------------------------------
(* The queue, and the task that fills it.                                  *)

\* The task appends events to a queue that is open.
LEMMA Pushes ==
  ASSUME StreamInv, NEW events \in Seq(Events), closed = "none",
         queue' = queue \o events, UNCHANGED <<driver, tools, prompts, last, ending>>,
         \A i \in DOMAIN events :
           /\ events[i] = "started" <=> i = 1 /\ ~Started
           /\ events[i] = "call" => tools
           /\ events[i] = "completed" => i = Len(events) /\ closed' = "completed",
         driver = "acp" \/ prompts > 0,
         closed' = "completed" =>
           events # <<>> /\ events[Len(events)] = "completed" /\ prompts > 0
  PROVE  /\ queue' \in Seq(Events) /\ QueueTells'
         /\ Started' <=> Started \/ events # <<>>
<1>1. queue \in Seq(Events)
  BY DEF StreamInv, StreamTypeOK
<1>2. /\ queue' \in Seq(Events) /\ Len(queue) \in Nat /\ Len(events) \in Nat
      /\ Len(queue') = Len(queue) + Len(events)
      /\ DOMAIN queue = 1..Len(queue) /\ DOMAIN events = 1..Len(events)
      /\ DOMAIN queue' = 1..Len(queue')
      /\ \A i \in 1..Len(queue) : queue'[i] = queue[i]
      /\ \A i \in 1..Len(events) : queue'[Len(queue) + i] = events[i]
  BY <1>1, Joined
<1>3. queue # <<>> <=> Len(queue) > 0
  BY <1>1, <1>2
<1>4. events # <<>> <=> Len(events) > 0
  BY <1>2
<1>5. queue' # <<>> <=> Len(queue') > 0
  BY <1>2
<1>6. Started' <=> Started \/ events # <<>>
  BY <1>2, <1>3, <1>4, <1>5 DEF Started
<1>7. ASSUME NEW i \in DOMAIN queue'
      PROVE  /\ queue'[i] = "started" <=> i = 1 /\ last = "none"
             /\ queue'[i] = "call" => tools
             /\ queue'[i] = "completed" => i = Len(queue') /\ closed' = "completed"
  <2>1. CASE i <= Len(queue)
    <3>1. i \in DOMAIN queue /\ queue'[i] = queue[i]
      BY <1>2, <2>1
    <3>2. queue[i] # "completed"
      BY <3>1 DEF StreamInv, QueueTells
    <3> QED BY <3>1, <3>2 DEF StreamInv, QueueTells
  <2>2. CASE i > Len(queue)
    <3> DEFINE j == i - Len(queue)
    <3>1. j \in DOMAIN events /\ i = Len(queue) + j /\ queue'[i] = events[j]
      BY <1>2, <2>2
    <3>2. j = 1 /\ ~Started <=> i = 1 /\ last = "none"
      BY <1>2, <1>3, <2>2 DEF Started
    <3>3. j = Len(events) => i = Len(queue')
      BY <1>2
    <3> HIDE DEF j
    <3> QED BY <3>1, <3>2, <3>3
  <2> QED BY <1>2, <2>1, <2>2
<1>8. queue' # <<>> => driver = "acp" \/ prompts > 0
  OBVIOUS
<1>9. closed' = "completed" => prompts > 0 /\ queue' # <<>> /\ queue'[Len(queue')] = "completed"
  BY <1>2, <1>4, <1>5
<1> QED BY <1>2, <1>6, <1>7, <1>8, <1>9 DEF QueueTells

\* What a frame of a turn adds to the queue, and how it closes it.
LEMMA FrameAdds ==
  ASSUME NEW frame
  PROVE  /\ Closes(frame) \in {"none", "completed", "refused"}
         /\ Adds(frame) \in Seq(Events)
         /\ \A i \in DOMAIN Adds(frame) :
              /\ Adds(frame)[i] # "started"
              /\ Adds(frame)[i] = "call" => tools
              /\ Adds(frame)[i] = "completed" =>
                   i = Len(Adds(frame)) /\ Closes(frame) = "completed"
         /\ Closes(frame) = "completed" =>
              Adds(frame) # <<>> /\ Adds(frame)[Len(Adds(frame))] = "completed"
<1>1. CASE frame = "text"
  BY <1>1 DEF Adds, Closes, Events
<1>2. CASE frame = "call" /\ tools
  BY <1>2 DEF Adds, Closes, Events
<1>3. CASE frame = "done"
  BY <1>3 DEF Adds, Closes, Events
<1>4. CASE frame \notin {"text", "done"} /\ ~(frame = "call" /\ tools)
  BY <1>4 DEF Adds, Closes, Events
<1> QED BY <1>1, <1>2, <1>3, <1>4

\* The command of an ACP driver is there, or it is not.
LEMMA Probes ==
  ASSUME StreamInv, AcpProbes
  PROVE  StreamInv' /\ Allowed
<1>1. stage = "probe" /\ UNCHANGED <<driver, tools, exec, aborted, request, prompts, wire, sent>>
  BY DEF AcpProbes, fixedVars
<1>2. /\ driver = "acp" /\ ~exec /\ prompts = 0 /\ request = "none" /\ wire = <<>>
      /\ answer = "none" /\ ~Started
  BY <1>1 DEF StreamInv, StageTells, PromptCounted
<1>3. CASE stage' = "initialize" /\ service' \in {"up", "gone"}
           /\ UNCHANGED <<answer, early, calls, queue, closed, last, ending>>
  <2>1. StreamTypeOK' /\ StageTells' /\ EndTells' /\ PromptCounted'
    BY <1>1, <1>2, <1>3 DEF StreamInv, StreamTypeOK, Stages, StageTells, EndTells, PromptCounted,
                            Started, Rpc
  <2>2. WireTells'
    BY <1>1, <1>3, WireStays DEF StreamInv
  <2>3. QueueTells' /\ ClosedTells'
    BY <1>1, <1>2, <1>3 DEF StreamInv, QueueTells, ClosedTells, Started, StageTells
  <2>4. Allowed
    BY <1>1, <1>3 DEF Allowed, Contract!vars
  <2> QED BY <2>1, <2>2, <2>3, <2>4 DEF StreamInv
<1>4. CASE EndsWith("other") /\ UNCHANGED service
  <2>1. "other" \in Endings /\ Unseen
    BY <1>1, <1>4 DEF Endings, Contract!Failures, Unseen
  <2> QED BY <1>1, <1>2, <1>4, <2>1, Finishes
<1> QED BY <1>3, <1>4 DEF AcpProbes

\* A frame is read: a reply wakes its waiter, anything else is queued or kept.
LEMMA TaskReads ==
  ASSUME StreamInv, RpcReads
  PROVE  StreamInv' /\ Allowed
<1> DEFINE frame == Head(wire)
<1>1. /\ Rpc /\ stage \notin {"start", "probe", "over"} /\ wire # <<>> /\ wire' = Tail(wire)
      /\ UNCHANGED <<driver, tools, exec, aborted, service, request, prompts, sent, calls, last,
                     ending>>
  BY DEF RpcReads, fixedVars
<1>2. wire \in Seq(Frames) /\ wire' \in Seq(Frames) /\ frame \in Frames /\ frame = wire[1]
      /\ 1 \in DOMAIN wire
  BY <1>1, OneLess DEF StreamInv, StreamTypeOK
<1>3. frame \notin Replies =>
        request = "taken" /\ prompts > 0 /\ stage \in {"turn", "wait", "prompt"}
  BY <1>1, <1>2 DEF StreamInv, WireTells, PromptCounted, StageTells, StreamTypeOK, Stages, Rpc
<1>4. /\ Rpc' /\ driver \in {"codex", "acp"} /\ ~exec
      /\ ending # "none" => ending = "aborted" /\ closed = "aborted"
      /\ closed # "none" => closed = "aborted"
  BY <1>1 DEF Rpc, StreamInv, EndTells, ClosedTells
<1>5. Allowed
  BY <1>1 DEF Allowed, Contract!vars
<1>6. CASE /\ frame \in Replies
           /\ answer' = IF frame = "ok" THEN "ok" ELSE "bad"
           /\ UNCHANGED <<stage, early, queue, closed>>
  <2>1. StreamTypeOK' /\ StageTells' /\ EndTells' /\ PromptCounted'
    <3>1. StreamTypeOK'
      BY <1>1, <1>2, <1>6 DEF StreamInv, StreamTypeOK
    <3> QED BY <1>1, <1>6, <3>1 DEF StreamInv, StageTells, EndTells, PromptCounted, Started, Rpc
  <2>2. WireTells'
    <3>1. \A i \in DOMAIN wire' : i \in Nat /\ i + 1 \in DOMAIN wire /\ wire'[i] = wire[i + 1]
      BY <1>1, <1>2, OneLess
    <3>2. \A i \in DOMAIN wire' : wire'[i] \notin Replies
      BY <1>2, <1>6, <3>1 DEF StreamInv, WireTells
    <3>3. \A i \in DOMAIN wire' : wire'[i] \notin Replies => request = "taken"
      BY <3>1 DEF StreamInv, WireTells
    <3>4. stage \in {"connect", "turn", "prompt"} =>
            request # "sent" /\ (frame = "ok" => request = "taken")
      BY <1>2, <1>6 DEF StreamInv, WireTells, Replied
    <3> HIDE DEF frame
    <3> QED BY <1>1, <1>6, <3>2, <3>3, <3>4 DEF WireTells, Replies
  <2>3. QueueTells' /\ ClosedTells'
    BY <1>1, <1>6 DEF StreamInv, QueueTells, ClosedTells, Started
  <2> QED BY <1>5, <2>1, <2>2, <2>3 DEF StreamInv
<1>7. CASE /\ frame \notin Replies /\ driver = "acp"
           /\ Push(IF frame = "text" THEN <<"text">> ELSE <<>>)
           /\ UNCHANGED <<stage, answer, early, closed>>
  <2>1. stage = "prompt" /\ request = "taken" /\ prompts > 0
    BY <1>3, <1>7 DEF StreamInv, StageTells
  <2>2. queue' \in Seq(Events) /\ QueueTells' /\ (Started => Started')
    <3> DEFINE events == IF frame = "text" THEN <<"text">> ELSE <<>>
    <3>1. CASE closed = "none"
      <4>1. Started
        BY <1>7, <2>1, <3>1 DEF StreamInv, ClosedTells
      <4>2. events \in Seq(Events)
        BY DEF Events
      <4>3. \A i \in DOMAIN events : events[i] = "text"
        OBVIOUS
      <4>4. queue' = queue \o events
        BY <1>7, <3>1 DEF Push
      <4> HIDE DEF events
      <4> QED BY <1>1, <1>7, <2>1, <3>1, <4>1, <4>2, <4>3, <4>4, Pushes
    <3>2. CASE closed # "none"
      BY <1>1, <1>7, <3>2 DEF Push, StreamInv, StreamTypeOK, QueueTells, Started
    <3> QED BY <3>1, <3>2
  <2>3. StreamTypeOK'
    BY <1>1, <1>2, <1>7, <2>2 DEF StreamInv, StreamTypeOK
  <2>4. StageTells' /\ EndTells' /\ PromptCounted'
    BY <1>1, <1>4, <1>7, <2>1 DEF StreamInv, StageTells, EndTells, PromptCounted, Rpc
  <2>5. WireTells'
    BY <1>1, <1>7, WireShrinks DEF StreamInv
  <2>6. ClosedTells'
    BY <1>1, <1>7, <2>2 DEF StreamInv, ClosedTells
  <2> QED BY <1>5, <2>2, <2>3, <2>4, <2>5, <2>6 DEF StreamInv
<1>8. CASE early' = Append(early, frame) /\ UNCHANGED <<stage, answer, queue, closed>>
  <2>1. early' \in Seq(Frames)
    BY <1>2, <1>8, OneMore DEF StreamInv, StreamTypeOK
  <2>2. StreamTypeOK'
    BY <1>1, <1>2, <1>8, <2>1 DEF StreamInv, StreamTypeOK
  <2>3. StageTells' /\ EndTells' /\ PromptCounted'
    BY <1>1, <1>8 DEF StreamInv, StageTells, EndTells, PromptCounted, Started, Rpc
  <2>4. WireTells'
    BY <1>1, <1>8, WireShrinks DEF StreamInv
  <2>5. QueueTells' /\ ClosedTells'
    BY <1>1, <1>8 DEF StreamInv, QueueTells, ClosedTells, Started
  <2> QED BY <1>5, <2>2, <2>3, <2>4, <2>5 DEF StreamInv
<1>9. CASE /\ frame \notin Replies /\ stage = "wait"
           /\ Push(Adds(frame)) /\ Close(Closes(frame))
           /\ stage' = IF Closes(frame) = "none" THEN stage ELSE "over"
           /\ UNCHANGED <<answer, early>>
  <2>1. closed = "none" /\ ending = "none" /\ Started /\ request = "taken" /\ prompts > 0
        /\ driver = "codex"
    BY <1>3, <1>4, <1>9 DEF StreamInv, ClosedTells, StageTells
  <2>2. queue' = queue \o Adds(frame) /\ closed' = Closes(frame)
    BY <1>9, <2>1 DEF Push, Close
  <2>3. /\ Closes(frame) \in {"none", "completed", "refused"}
        /\ Adds(frame) \in Seq(Events)
        /\ \A i \in DOMAIN Adds(frame) :
             /\ Adds(frame)[i] # "started"
             /\ Adds(frame)[i] = "call" => tools
             /\ Adds(frame)[i] = "completed" =>
                  i = Len(Adds(frame)) /\ Closes(frame) = "completed"
        /\ Closes(frame) = "completed" =>
             Adds(frame) # <<>> /\ Adds(frame)[Len(Adds(frame))] = "completed"
    BY FrameAdds
  <2>4. queue' \in Seq(Events) /\ QueueTells' /\ Started'
    <3> HIDE DEF frame
    <3> QED BY <1>1, <2>1, <2>2, <2>3, Pushes
  <2> HIDE DEF frame
  <2>5. StreamTypeOK'
    BY <1>1, <1>2, <1>9, <2>2, <2>3, <2>4 DEF StreamInv, StreamTypeOK, Stages, Endings,
                                              Contract!Failures
  <2>6. StageTells' /\ EndTells' /\ PromptCounted'
    BY <1>1, <1>4, <1>9, <2>1 DEF StreamInv, StageTells, EndTells, PromptCounted, Rpc
  <2>7. WireTells'
    BY <1>1, <1>9, WireShrinks DEF StreamInv
  <2>8. ClosedTells'
    BY <1>1, <1>9, <2>1, <2>2, <2>3, <2>4 DEF ClosedTells
  <2> QED BY <1>5, <2>4, <2>5, <2>6, <2>7, <2>8 DEF StreamInv
<1> HIDE DEF frame
<1> QED BY <1>1, <1>4, <1>6, <1>7, <1>8, <1>9 DEF RpcReads, frame

\* The events of some frames.
LEMMA EachIs ==
  ASSUME NEW event \in Events, NEW frames \in SUBSET (DOMAIN early), early \in Seq(Frames)
  PROVE  /\ Each(event, frames) \in Seq(Events)
         /\ \A i \in DOMAIN Each(event, frames) : frames # {} /\ Each(event, frames)[i] = event
<1>1. IsFiniteSet(frames)
  <2>1. DOMAIN early = 1..Len(early) /\ Len(early) \in Nat
    BY LenProperties
  <2>2. IsFiniteSet(1..Len(early)) /\ frames \in SUBSET (1..Len(early))
    BY <2>1, FS_Interval
  <2> QED BY <2>2, FS_Subset
<1>2. Cardinality(frames) \in Nat /\ (frames = {} => Cardinality(frames) = 0)
  BY <1>1, FS_CardinalityType, FS_EmptySet
<1>3. Each(event, frames) \in [1..Cardinality(frames) -> Events]
  BY DEF Each
<1> QED BY <1>2, <1>3 DEF Each

\* Of what came early, some frame was the first to end the turn.
LEMMA FirstEnd ==
  ASSUME NEW ends \in SUBSET Nat, ends # {}
  PROVE  (CHOOSE i \in ends : \A j \in ends : i <= j) \in ends
<1> DEFINE R == OpToRel(<, Nat)
<1>1. PICK i \in ends : \A j \in ends : <<j, i>> \notin R
  <2>1. IsWellFoundedOn(R, Nat)
    BY NatLessThanWellFounded
  <2> HIDE DEF R
  <2> QED BY <2>1, WFMin
<1>2. ASSUME NEW j \in ends
      PROVE  i <= j
  <2>1. i \in Nat /\ j \in Nat
    OBVIOUS
  <2>2. ~(j < i)
    BY <1>1, <2>1 DEF OpToRel
  <2> QED BY <2>1, <2>2
<1> QED BY <1>2

\* Three sequences, one after the other.
LEMMA ThreeJoined ==
  ASSUME NEW S, NEW first \in Seq(S), NEW middle \in Seq(S), NEW rest \in Seq(S)
  PROVE  /\ (first \o middle) \o rest \in Seq(S)
         /\ Len(first) \in Nat /\ Len(middle) \in Nat /\ Len(rest) \in Nat
         /\ DOMAIN first = 1..Len(first) /\ DOMAIN middle = 1..Len(middle)
         /\ DOMAIN rest = 1..Len(rest)
         /\ Len((first \o middle) \o rest) = (Len(first) + Len(middle)) + Len(rest)
         /\ \A i \in 1..Len(first) : ((first \o middle) \o rest)[i] = first[i]
         /\ \A i \in 1..Len(middle) : ((first \o middle) \o rest)[Len(first) + i] = middle[i]
         /\ \A i \in 1..Len(rest) :
              ((first \o middle) \o rest)[(Len(first) + Len(middle)) + i] = rest[i]
<1> DEFINE begin == first \o middle
           whole == begin \o rest
<1>1. /\ begin \in Seq(S) /\ Len(first) \in Nat /\ Len(middle) \in Nat
      /\ Len(begin) = Len(first) + Len(middle)
      /\ DOMAIN first = 1..Len(first) /\ DOMAIN middle = 1..Len(middle)
      /\ \A i \in 1..Len(first) : begin[i] = first[i]
      /\ \A i \in 1..Len(middle) : begin[Len(first) + i] = middle[i]
  BY Joined
<1>2. ASSUME NEW s \in Seq(S), s = begin
      PROVE  /\ s \o rest \in Seq(S) /\ Len(rest) \in Nat /\ Len(s \o rest) = Len(s) + Len(rest)
             /\ DOMAIN rest = 1..Len(rest)
             /\ \A i \in 1..Len(s) : (s \o rest)[i] = s[i]
             /\ \A i \in 1..Len(rest) : (s \o rest)[Len(s) + i] = rest[i]
  <2> HIDE DEF begin
  <2> QED BY Joined
<1>3. /\ whole \in Seq(S) /\ Len(rest) \in Nat /\ Len(whole) = Len(begin) + Len(rest)
      /\ DOMAIN rest = 1..Len(rest)
      /\ \A i \in 1..Len(begin) : whole[i] = begin[i]
      /\ \A i \in 1..Len(rest) : whole[Len(begin) + i] = rest[i]
  <2> HIDE DEF begin
  <2> QED BY <1>1, <1>2
<1> HIDE DEF begin, whole
<1>4. \A i \in 1..Len(first) : whole[i] = first[i]
  BY <1>1, <1>3
<1>5. \A i \in 1..Len(middle) : whole[Len(first) + i] = middle[i]
  <2>1. \A i \in 1..Len(middle) : Len(first) + i \in 1..Len(begin)
    BY <1>1
  <2> QED BY <1>1, <1>3, <2>1
<1>6. \A i \in 1..Len(rest) : whole[(Len(first) + Len(middle)) + i] = rest[i]
  BY <1>1, <1>3
<1>7. /\ whole \in Seq(S) /\ Len(first) \in Nat /\ Len(middle) \in Nat /\ Len(rest) \in Nat
      /\ DOMAIN first = 1..Len(first) /\ DOMAIN middle = 1..Len(middle)
      /\ DOMAIN rest = 1..Len(rest) /\ Len(whole) = (Len(first) + Len(middle)) + Len(rest)
  BY <1>1, <1>3
<1> QED BY <1>4, <1>5, <1>6, <1>7, Zenon DEF begin, whole

\* A turn is announced: "started", what was said, and then the rest, which may end it.
Announced(first, middle, rest, how, events) ==
  /\ Len(middle) \in Nat /\ Len(rest) \in Nat
  /\ Len(events) = (Len(first) + Len(middle)) + Len(rest)
  /\ DOMAIN middle = 1..Len(middle) /\ DOMAIN rest = 1..Len(rest)
  /\ \A i \in 1..Len(first) : events[i] = first[i]
  /\ \A i \in 1..Len(middle) : events[Len(first) + i] = middle[i]
  /\ \A i \in 1..Len(rest) : events[(Len(first) + Len(middle)) + i] = rest[i]
  /\ Len(first) = 1 /\ first[1] = "started"
  /\ \A i \in DOMAIN middle : middle[i] = "text"
  /\ \A i \in DOMAIN rest :
       /\ rest[i] # "started"
       /\ rest[i] = "call" => tools
       /\ rest[i] = "completed" => i = Len(rest) /\ how = "completed"
  /\ how = "completed" => rest # <<>> /\ rest[Len(rest)] = "completed"

\* Its events are those that the queue may take.
LEMMA Announces ==
  ASSUME NEW first \in Seq(Events), NEW middle \in Seq(Events), NEW rest \in Seq(Events),
         NEW how \in Endings, NEW events \in Seq(Events),
         Announced(first, middle, rest, how, events)
  PROVE  /\ events # <<>>
         /\ \A i \in DOMAIN events :
              /\ events[i] = "started" <=> i = 1
              /\ events[i] = "call" => tools
              /\ events[i] = "completed" => i = Len(events) /\ how = "completed"
         /\ how = "completed" => events[Len(events)] = "completed"
<1>1. /\ \A i \in 1..Len(first) : events[i] = first[i]
      /\ \A i \in 1..Len(middle) : events[Len(first) + i] = middle[i]
      /\ \A i \in 1..Len(rest) : events[(Len(first) + Len(middle)) + i] = rest[i]
      /\ Len(first) = 1 /\ first[1] = "started"
      /\ DOMAIN middle = 1..Len(middle) /\ DOMAIN rest = 1..Len(rest)
      /\ \A i \in DOMAIN middle : middle[i] = "text"
      /\ \A i \in DOMAIN rest :
           /\ rest[i] # "started"
           /\ rest[i] = "call" => tools
           /\ rest[i] = "completed" => i = Len(rest) /\ how = "completed"
      /\ how = "completed" => rest # <<>> /\ rest[Len(rest)] = "completed"
  BY DEF Announced
<1>2. /\ Len(events) = (1 + Len(middle)) + Len(rest) /\ Len(middle) \in Nat /\ Len(rest) \in Nat
      /\ DOMAIN events = 1..Len(events)
  BY LenProperties DEF Announced
<1>3. ASSUME NEW i \in DOMAIN events
      PROVE  /\ events[i] = "started" <=> i = 1
             /\ events[i] = "call" => tools
             /\ events[i] = "completed" => i = Len(events) /\ how = "completed"
  <2>1. i \in Nat /\ i >= 1 /\ i <= (1 + Len(middle)) + Len(rest)
    BY <1>2
  <2>2. CASE i = 1
    BY <1>1, <2>2
  <2>3. CASE i > 1 /\ i <= 1 + Len(middle)
    <3>1. PICK j \in 1..Len(middle) : i = 1 + j
      <4>1. i - 1 \in 1..Len(middle) /\ i = 1 + (i - 1)
        BY <1>2, <2>1, <2>3
      <4> QED BY <4>1
    <3>2. events[i] = middle[j] /\ middle[j] = "text"
      BY <1>1, <3>1
    <3> QED BY <2>3, <3>2
  <2>4. CASE i > 1 + Len(middle)
    <3>1. PICK j \in 1..Len(rest) : i = (1 + Len(middle)) + j
      <4>1. i - (1 + Len(middle)) \in 1..Len(rest)
            /\ i = (1 + Len(middle)) + (i - (1 + Len(middle)))
        BY <1>2, <2>1, <2>4
      <4> QED BY <4>1
    <3>2. events[i] = rest[j] /\ j \in DOMAIN rest
      BY <1>1, <3>1
    <3>3. j = Len(rest) => i = Len(events)
      BY <1>2, <3>1
    <3>4. i # 1
      BY <1>2, <2>4
    <3> QED BY <1>1, <3>2, <3>3, <3>4
  <2> QED BY <2>1, <2>2, <2>3, <2>4, <1>2
<1>4. events # <<>>
  BY <1>2
<1>5. how = "completed" => events[Len(events)] = "completed"
  <2>1. rest # <<>> => Len(rest) \in 1..Len(rest)
    BY <1>2
  <2>2. rest # <<>> => events[(1 + Len(middle)) + Len(rest)] = rest[Len(rest)]
    BY <1>1, <1>2, <2>1
  <2> QED BY <1>1, <1>2, <2>2
<1> QED BY <1>3, <1>4, <1>5

\* The turn is known: the queue gets "started", what came early, and perhaps the end.
LEMMA Flushes ==
  ASSUME StreamInv, Flush, UNCHANGED <<driver, tools, prompts, last, ending>>,
         driver = "codex", ~Started, prompts > 0, closed \in {"none", "aborted"}
  PROVE  /\ queue' \in Seq(Events) /\ QueueTells' /\ (closed = "none" => Started')
         /\ stage' \in {"wait", "over"} /\ (stage' = "wait" => closed' = "none")
         /\ IF closed = "none" THEN closed' \in {"none", "completed", "refused"}
                               ELSE closed' = closed
         /\ closed' # "none" => closed' = "aborted" \/ stage' = "over"
<1> DEFINE ends == {i \in DOMAIN early : Closes(early[i]) # "none"}
           end == early[CHOOSE i \in ends : \A j \in ends : i <= j]
           texts == {i \in DOMAIN early : early[i] = "text" /\ \A j \in ends : i < j}
           asked == {i \in DOMAIN early : early[i] = "call" /\ tools}
           said == Each("text", texts)
           remains == IF ends = {} THEN Each("call", asked) ELSE Adds(end)
<1>1. /\ Push((<<"started">> \o said) \o remains)
      /\ IF ends = {} THEN UNCHANGED closed ELSE Close(Closes(end))
      /\ stage' = IF ends # {} \/ aborted THEN "over" ELSE "wait"
  BY DEF Flush
<1>2. early \in Seq(Frames) /\ queue \in Seq(Events)
      /\ (closed = "aborted" => aborted)
  BY DEF StreamInv, StreamTypeOK, ClosedTells
<1>3. ends # {} => Closes(end) \in {"completed", "refused"}
  <2>1. ends \in SUBSET Nat
    BY <1>2, LenProperties
  <2>2. ends # {} => (CHOOSE i \in ends : \A j \in ends : i <= j) \in ends
    BY <2>1, FirstEnd
  <2>3. ends # {} => Closes(end) # "none"
    BY <2>2
  <2> QED BY <2>3, FrameAdds
<1>4. PICK how \in Endings : how = IF ends = {} THEN "none" ELSE Closes(end)
  <2> HIDE DEF ends, end
  <2> QED BY <1>3 DEF Endings, Contract!Failures
<1>5. PICK middle \in Seq(Events) :
        middle = said /\ \A i \in DOMAIN middle : middle[i] = "text"
  <2>1. texts \in SUBSET (DOMAIN early) /\ "text" \in Events
    BY DEF Events
  <2> HIDE DEF texts
  <2> QED BY <1>2, <2>1, EachIs
<1>6. PICK rest \in Seq(Events) :
        /\ rest = remains
        /\ \A i \in DOMAIN rest :
             /\ rest[i] # "started"
             /\ rest[i] = "call" => tools
             /\ rest[i] = "completed" => i = Len(rest) /\ how = "completed"
        /\ how = "completed" => rest # <<>> /\ rest[Len(rest)] = "completed"
  <2>1. CASE ends = {}
    <3>1. asked \in SUBSET (DOMAIN early) /\ "call" \in Events /\ (asked # {} => tools)
      BY DEF Events
    <3> HIDE DEF asked
    <3>2. /\ Each("call", asked) \in Seq(Events)
          /\ \A i \in DOMAIN Each("call", asked) : asked # {} /\ Each("call", asked)[i] = "call"
      BY <1>2, <3>1, EachIs
    <3>3. remains = Each("call", asked) /\ how = "none"
      BY <1>4, <2>1
    <3> HIDE DEF remains
    <3> QED BY <3>1, <3>2, <3>3
  <2>2. CASE ends # {}
    <3>1. remains = Adds(end) /\ how = Closes(end)
      BY <1>4, <2>2
    <3> HIDE DEF end, ends, remains
    <3> QED BY <3>1, FrameAdds
  <2> QED BY <2>1, <2>2
<1> HIDE DEF ends, end, said, remains, texts, asked
<1>7. PICK first \in Seq(Events) : first = <<"started">> /\ Len(first) = 1 /\ first[1] = "started"
  <2>1. <<"started">> \in Seq(Events)
    BY DEF Events
  <2>2. Len(<<"started">>) = 1 /\ <<"started">>[1] = "started"
    OBVIOUS
  <2> QED BY <2>1, <2>2
<1>8. PICK events : events = (first \o middle) \o rest
  OBVIOUS
<1>9. /\ events \in Seq(Events) /\ Len(middle) \in Nat /\ Len(rest) \in Nat
      /\ Len(events) = (Len(first) + Len(middle)) + Len(rest)
      /\ DOMAIN middle = 1..Len(middle) /\ DOMAIN rest = 1..Len(rest)
      /\ \A i \in 1..Len(first) : events[i] = first[i]
      /\ \A i \in 1..Len(middle) : events[Len(first) + i] = middle[i]
      /\ \A i \in 1..Len(rest) : events[(Len(first) + Len(middle)) + i] = rest[i]
  BY <1>8, ThreeJoined
<1>10. /\ events # <<>>
       /\ \A i \in DOMAIN events :
            /\ events[i] = "started" <=> i = 1
            /\ events[i] = "call" => tools
            /\ events[i] = "completed" => i = Len(events) /\ how = "completed"
       /\ how = "completed" => events[Len(events)] = "completed"
  <2>1. Announced(first, middle, rest, how, events)
    BY <1>5, <1>6, <1>7, <1>9 DEF Announced
  <2> QED BY <1>9, <2>1, Announces
<1>11. CASE closed = "none"
  <2>1. closed' = IF ends = {} THEN "none" ELSE Closes(end)
    BY <1>1, <1>11 DEF Close
  <2>2. queue' = queue \o events
    BY <1>1, <1>5, <1>6, <1>8, <1>11, <1>7, Zenon DEF Push
  <2>3. queue' \in Seq(Events) /\ QueueTells' /\ Started'
    BY <1>3, <1>4, <1>9, <1>10, <1>11, <2>1, <2>2, Pushes
  <2> QED BY <1>1, <1>3, <1>11, <2>1, <2>3
<1>12. CASE closed = "aborted"
  <2>1. queue' = queue /\ closed' = closed /\ stage' = "over"
    BY <1>1, <1>2, <1>12 DEF Push, Close
  <2>2. queue' \in Seq(Events) /\ QueueTells'
    BY <1>2, <2>1 DEF StreamInv, QueueTells
  <2> QED BY <1>12, <2>1, <2>2
<1> QED BY <1>11, <1>12

\* The waiter of a reply goes on.
LEMMA TaskProceeds ==
  ASSUME StreamInv, RpcProceeds
  PROVE  StreamInv' /\ Allowed
<1>1. /\ Rpc /\ answer = "ok" /\ answer' = "none"
      /\ UNCHANGED <<driver, tools, exec, aborted, service, prompts, wire, sent, calls, last,
                     ending>>
  BY DEF RpcProceeds, fixedVars
<1>2. /\ Rpc' /\ ~exec /\ driver \in {"codex", "acp"}
      /\ ending # "none" => stage = "over" \/ (ending = "aborted" /\ closed = "aborted")
      /\ closed # "none" => closed = "aborted" \/ stage = "over"
      /\ closed = "aborted" => aborted
      /\ queue \in Seq(Events)
  BY <1>1 DEF Rpc, StreamInv, StreamTypeOK, EndTells, ClosedTells
<1>3. \A i \in DOMAIN wire : wire[i] \notin Replies /\ request = "taken"
  BY <1>1 DEF StreamInv, WireTells
<1>4. Allowed
  BY <1>1 DEF Allowed, Contract!vars
<1>5. CASE \/ driver = "codex" /\ stage = "initialize" /\ stage' = "thread"
           \/ driver = "acp" /\ stage = "initialize" /\ stage' = "session"
           \/ stage = "session" /\ stage' = "model"
  <2> SUFFICES ASSUME UNCHANGED <<request, early, queue, closed>>
               PROVE  StreamInv'
    BY <1>4, <1>5 DEF RpcProceeds
  <2>1. StreamTypeOK'
    BY <1>1, <1>5 DEF StreamInv, StreamTypeOK, Stages
  <2>2. StageTells' /\ EndTells' /\ PromptCounted'
    BY <1>1, <1>2, <1>5 DEF StreamInv, StageTells, EndTells, PromptCounted, Started
  <2>3. WireTells'
    BY <1>1, <1>3, <1>5 DEF WireTells, Replied, Replies
  <2>4. QueueTells' /\ ClosedTells'
    BY <1>1, <1>5 DEF StreamInv, QueueTells, ClosedTells, Started
  <2> QED BY <1>4, <2>1, <2>2, <2>3, <2>4 DEF StreamInv
<1>6. CASE /\ driver = "codex" /\ stage = "thread" /\ stage' = "turn" /\ request' = "sent"
           /\ UNCHANGED <<early, queue, closed>>
  <2>1. request = "none" /\ ~Started
    BY <1>6 DEF StreamInv, StageTells
  <2>2. DOMAIN wire = {}
    BY <1>3, <2>1
  <2>3. StreamTypeOK'
    BY <1>1, <1>6 DEF StreamInv, StreamTypeOK, Stages
  <2>4. StageTells' /\ EndTells' /\ PromptCounted'
    BY <1>1, <1>2, <1>6, <2>1 DEF StreamInv, StageTells, EndTells, PromptCounted, Started
  <2>5. WireTells'
    BY <1>1, <1>6, <2>2 DEF WireTells, Replied
  <2>6. QueueTells' /\ ClosedTells'
    BY <1>1, <1>2, <1>6 DEF StreamInv, QueueTells, ClosedTells, Started
  <2> QED BY <1>4, <2>3, <2>4, <2>5, <2>6 DEF StreamInv
<1>7. CASE stage = "turn" /\ Flush /\ early' = <<>> /\ UNCHANGED request
  <2>1. driver = "codex" /\ ~Started /\ request = "taken" /\ prompts > 0
        /\ closed \in {"none", "aborted"}
    BY <1>1, <1>2, <1>7 DEF StreamInv, StageTells, WireTells, PromptCounted
  <2>2. /\ queue' \in Seq(Events) /\ QueueTells' /\ (closed = "none" => Started')
        /\ stage' \in {"wait", "over"} /\ (stage' = "wait" => closed' = "none")
        /\ IF closed = "none" THEN closed' \in {"none", "completed", "refused"}
                              ELSE closed' = closed
        /\ closed' # "none" => closed' = "aborted" \/ stage' = "over"
    BY <1>1, <1>7, <2>1, Flushes
  <2>3. StreamTypeOK'
    <3>1. early' \in Seq(Frames)
      BY <1>7
    <3>2. closed' \in Endings /\ stage' \in Stages
      BY <2>1, <2>2 DEF Endings, Stages, Contract!Failures
    <3> QED BY <1>1, <1>7, <2>2, <3>1, <3>2 DEF StreamInv, StreamTypeOK
  <2>4. StageTells' /\ EndTells' /\ PromptCounted'
    <3>1. StageTells'
      BY <1>1, <1>2, <1>7, <2>1, <2>2 DEF StageTells
    <3>2. EndTells'
      BY <1>1, <1>2, <1>7, <2>1, <2>2 DEF StreamInv, EndTells
    <3> QED BY <1>1, <1>7, <3>1, <3>2 DEF StreamInv, PromptCounted
  <2>5. WireTells'
    BY <1>1, <1>3, <1>7, <2>2 DEF WireTells, Replied, Replies
  <2>6. ClosedTells'
    BY <1>1, <1>2, <1>7, <2>1, <2>2 DEF ClosedTells
  <2> QED BY <1>4, <2>2, <2>3, <2>4, <2>5, <2>6 DEF StreamInv
<1>8. CASE /\ stage \in {"session", "model"} /\ stage' = "prompt" /\ request' = "sent"
           /\ Push(<<"started">>)
           /\ UNCHANGED <<early, closed>>
  <2>1. driver = "acp" /\ ~Started /\ request = "none" /\ closed \in {"none", "aborted"}
    BY <1>2, <1>8 DEF StreamInv, StageTells
  <2>2. DOMAIN wire = {}
    BY <1>3, <2>1
  <2>3. queue' \in Seq(Events) /\ QueueTells' /\ (closed = "none" => Started')
    <3>1. CASE closed = "none"
      <4> DEFINE events == <<"started">>
      <4>1. /\ events \in Seq(Events) /\ events # <<>>
            /\ \A i \in DOMAIN events : i = 1 /\ events[i] = "started"
        BY DEF Events
      <4>2. queue' = queue \o events
        BY <1>8, <3>1 DEF Push
      <4> HIDE DEF events
      <4> QED BY <1>1, <1>8, <2>1, <3>1, <4>1, <4>2, Pushes
    <3>2. CASE closed # "none"
      BY <1>1, <1>2, <1>8, <3>2 DEF Push, StreamInv, QueueTells
    <3> QED BY <3>1, <3>2
  <2>4. StreamTypeOK'
    BY <1>1, <1>8, <2>3 DEF StreamInv, StreamTypeOK, Stages
  <2>5. StageTells' /\ EndTells' /\ PromptCounted'
    BY <1>1, <1>2, <1>8, <2>1 DEF StreamInv, StageTells, EndTells, PromptCounted
  <2>6. WireTells'
    BY <1>1, <1>8, <2>2 DEF WireTells, Replied
  <2>7. ClosedTells'
    BY <1>1, <1>2, <1>8, <2>1, <2>3 DEF ClosedTells
  <2> QED BY <1>4, <2>3, <2>4, <2>5, <2>6, <2>7 DEF StreamInv
<1>9. CASE /\ stage = "prompt" /\ stage' = "over"
           /\ Push(<<"completed">>) /\ Close("completed")
           /\ UNCHANGED <<request, early>>
  <2>1. driver = "acp" /\ request = "taken" /\ prompts > 0 /\ closed \in {"none", "aborted"}
        /\ (closed = "none" => Started)
    BY <1>1, <1>2, <1>9 DEF StreamInv, StageTells, WireTells, PromptCounted, ClosedTells
  <2>2. closed' = IF closed = "none" THEN "completed" ELSE closed
    BY <1>9 DEF Close
  <2>3. queue' \in Seq(Events) /\ QueueTells' /\ (closed = "none" => Started')
    <3>1. CASE closed = "none"
      <4> DEFINE events == <<"completed">>
      <4>1. /\ events \in Seq(Events) /\ events # <<>> /\ Len(events) = 1
            /\ \A i \in DOMAIN events : i = 1 /\ events[i] = "completed"
            /\ events[Len(events)] = "completed"
        BY DEF Events
      <4>2. queue' = queue \o events
        BY <1>9, <3>1 DEF Push
      <4> HIDE DEF events
      <4> QED BY <1>1, <2>1, <2>2, <3>1, <4>1, <4>2, Pushes
    <3>2. CASE closed # "none"
      BY <1>1, <1>2, <1>9, <2>2, <3>2 DEF Push, StreamInv, QueueTells
    <3> QED BY <3>1, <3>2
  <2>4. StreamTypeOK'
    <3>1. closed' \in Endings
      BY <2>1, <2>2 DEF Endings
    <3> QED BY <1>1, <1>9, <2>3, <3>1 DEF StreamInv, StreamTypeOK, Stages
  <2>5. StageTells' /\ EndTells' /\ PromptCounted'
    BY <1>1, <1>2, <1>9, <2>1 DEF StreamInv, StageTells, EndTells, PromptCounted
  <2>6. WireTells'
    BY <1>1, <1>9, <1>3 DEF WireTells, Replied, Replies
  <2>7. ClosedTells'
    BY <1>1, <1>2, <1>9, <2>1, <2>2, <2>3 DEF ClosedTells
  <2> QED BY <1>4, <2>3, <2>4, <2>5, <2>6, <2>7 DEF StreamInv
<1> QED BY <1>5, <1>6, <1>7, <1>8, <1>9 DEF RpcProceeds

\* The task fails.
LEMMA TaskFails ==
  ASSUME StreamInv, RpcFails
  PROVE  StreamInv' /\ Allowed
<1>1. /\ Rpc /\ Asking /\ stage' = "over" /\ answer' = "none"
      /\ UNCHANGED <<driver, tools, exec, aborted, service, request, prompts, wire, sent, early,
                     calls, queue, last, ending>>
  BY DEF RpcFails, fixedVars
<1>2. PICK how \in {"refused", "other", "transport"} :
        (how \in {"refused", "other"} => answer # "none") /\ Close(how)
  BY DEF RpcFails
<1>3. closed' = (IF closed = "none" THEN how ELSE closed) /\ closed \in {"none", "aborted"}
      /\ (how # "transport" => request # "sent")
  BY <1>1, <1>2 DEF Close, Asking, Rpc, StreamInv, ClosedTells, WireTells, Replied, StageTells
<1>4. Rpc' /\ ~exec /\ (closed = "aborted" => aborted)
  BY <1>1 DEF Rpc, StreamInv, ClosedTells
<1>5. StreamTypeOK'
  <2>1. closed' \in Endings
    BY <1>2, <1>3 DEF Endings, Contract!Failures
  <2> QED BY <1>1, <2>1 DEF StreamInv, StreamTypeOK, Stages
<1>6. StageTells' /\ EndTells' /\ PromptCounted'
  BY <1>1, <1>4 DEF StreamInv, StageTells, EndTells, PromptCounted
<1>7. WireTells'
  BY <1>1 DEF StreamInv, WireTells, Replied
<1>8. QueueTells'
  BY <1>1, <1>2, <1>3 DEF StreamInv, QueueTells
<1>9. ClosedTells'
  BY <1>1, <1>2, <1>3, <1>4 DEF StreamInv, ClosedTells, Started
<1>10. Allowed
  BY <1>1 DEF Allowed, Contract!vars
<1> QED BY <1>5, <1>6, <1>7, <1>8, <1>9, <1>10 DEF StreamInv

\* The reader takes an event: the contract starts, speaks or completes.
LEMMA Pulls ==
  ASSUME StreamInv, Pull
  PROVE  StreamInv' /\ Allowed
<1>1. /\ Rpc /\ ending = "none" /\ queue # <<>> /\ queue' = Tail(queue) /\ last' = Head(queue)
      /\ ending' = (IF Head(queue) = "completed" THEN "completed" ELSE ending)
      /\ UNCHANGED <<driver, tools, exec, aborted, service, request, prompts, wire, sent, stage,
                     answer, early, calls, closed>>
  BY DEF Pull, fixedVars, remoteVars
<1>2. queue \in Seq(Events)
  BY DEF StreamInv, StreamTypeOK
<1>3. /\ queue' \in Seq(Events) /\ Head(queue) = queue[1] /\ Head(queue) \in Events
      /\ DOMAIN queue = 1..Len(queue) /\ Len(queue) \in Nat /\ 1 \in DOMAIN queue
      /\ DOMAIN queue' = 1..Len(queue') /\ Len(queue') = Len(queue) - 1
      /\ \A i \in DOMAIN queue' : /\ i \in Nat /\ i + 1 \in DOMAIN queue /\ i + 1 # 1
                                  /\ queue'[i] = queue[i + 1]
  BY <1>1, <1>2, OneLess
<1>4. /\ Head(queue) = "started" <=> last = "none"
      /\ Head(queue) = "call" => tools
      /\ Head(queue) = "completed" => Len(queue) = 1 /\ closed = "completed" /\ prompts > 0
      /\ driver = "acp" \/ prompts > 0
  BY <1>1, <1>3 DEF StreamInv, QueueTells
<1>5. last' # "none" /\ ~exec
  BY <1>1, <1>3 DEF Events, Rpc
<1>6. StreamTypeOK'
  BY <1>1, <1>3 DEF StreamInv, StreamTypeOK, Endings
<1>7. StageTells' /\ EndTells' /\ PromptCounted'
  <2>1. StageTells'
    BY <1>1, <1>5 DEF StreamInv, StageTells, Started, Rpc
  <2>2. EndTells'
    BY <1>1, <1>4, <1>5 DEF StreamInv, EndTells, ClosedTells
  <2>3. PromptCounted'
    BY <1>1 DEF StreamInv, PromptCounted, Rpc
  <2> QED BY <2>1, <2>2, <2>3
<1>8. WireTells'
  BY <1>1, WireStays DEF StreamInv
<1>9. QueueTells'
  <2>1. \A i \in DOMAIN queue' :
          /\ queue'[i] # "started" /\ (queue'[i] = "call" => tools)
          /\ queue'[i] = "completed" => i + 1 = Len(queue) /\ closed = "completed"
    BY <1>3 DEF StreamInv, QueueTells
  <2>2. \A i \in DOMAIN queue' : i + 1 = Len(queue) => i = Len(queue')
    BY <1>3
  <2>3. closed = "completed" /\ ending' = "none" =>
          queue' # <<>> /\ queue'[Len(queue')] = "completed"
    <3>1. SUFFICES ASSUME closed = "completed", ending' = "none"
                   PROVE  queue' # <<>> /\ queue'[Len(queue')] = "completed"
      OBVIOUS
    <3>2. queue[Len(queue)] = "completed" /\ Len(queue) # 1
      BY <1>1, <1>3, <3>1 DEF StreamInv, QueueTells
    <3>3. Len(queue') > 0
      BY <1>3, <3>2
    <3>4. Len(queue') \in DOMAIN queue' /\ Len(queue') + 1 = Len(queue) /\ queue' # <<>>
      BY <1>3, <3>3
    <3> QED BY <1>3, <3>2, <3>4
  <2>4. closed = "completed" => prompts > 0
    BY DEF StreamInv, QueueTells
  <2> QED BY <1>1, <1>4, <1>5, <2>1, <2>2, <2>3, <2>4 DEF QueueTells
<1>10. ClosedTells'
  BY <1>1, <1>5 DEF StreamInv, ClosedTells, Started
<1>11. Allowed
  <2>1. CASE Head(queue) = "started"
    BY <1>1, <1>4, <2>1
       DEF Allowed, Contract!Next, Contract!Start, Contract!Running, Contract!StartsEarly
  <2>2. CASE Head(queue) = "completed"
    BY <1>1, <1>4, <2>2 DEF Allowed, Contract!Next, Contract!Complete, Contract!Running
  <2>3. CASE Head(queue) \in {"text", "call"}
    <3>1. Head(queue) \in {"text"} \cup Contract!Offered
      BY <1>4, <2>3 DEF Contract!Offered
    <3> QED BY <1>1, <1>4, <2>3, <3>1
            DEF Allowed, Contract!Next, Contract!Speak, Contract!Running
  <2> QED BY <1>3, <2>1, <2>2, <2>3 DEF Events
<1> QED BY <1>6, <1>7, <1>8, <1>9, <1>10, <1>11 DEF StreamInv

\* The queue is empty and closed: codex exec runs the turn again, or the reader is done.
LEMMA PullsEnd ==
  ASSUME StreamInv, PullEnd
  PROVE  StreamInv' /\ Allowed
<1>1. /\ Rpc /\ ending = "none" /\ queue = <<>> /\ closed # "none"
      /\ UNCHANGED <<driver, tools, aborted, prompts, sent>>
  BY DEF PullEnd
<1>2. /\ driver \in {"codex", "acp"} /\ ~exec /\ closed \in {"aborted"} \cup Contract!Failures
      /\ closed # "completed" /\ closed # "retryable"
      /\ closed = "aborted" => aborted
      /\ closed # "aborted" => stage = "over"
      /\ closed \in {"refused", "other"} => request # "sent"
      /\ prompts = IF request = "taken" THEN 1 ELSE 0
  BY <1>1 DEF Rpc, StreamInv, StreamTypeOK, QueueTells, ClosedTells, PromptCounted, Endings
<1>3. CASE /\ FallsBack /\ exec' = TRUE /\ stage' = "read"
           /\ service' \in {"up", "gone"} /\ request' = "sent" /\ wire' = <<>>
           /\ early' = <<>> /\ answer' = "none" /\ closed' = "none"
           /\ UNCHANGED <<calls, queue, last, ending>>
  <2>1. driver = "codex" /\ last = "none"
    BY <1>3 DEF FallsBack
  <2>2. StreamTypeOK'
    <3>1. exec' \in BOOLEAN
      BY <1>3
    <3>2. wire' \in Seq(Frames) /\ early' \in Seq(Frames)
      BY <1>3
    <3> QED BY <1>1, <1>3, <3>1, <3>2 DEF StreamInv, StreamTypeOK, Stages, Endings
  <2>3. StageTells' /\ EndTells' /\ PromptCounted'
    <3>1. StageTells'
      BY <1>1, <1>3, <2>1 DEF StageTells, Started, Rpc
    <3> QED BY <1>1, <1>2, <1>3, <2>1, <3>1 DEF EndTells, PromptCounted
  <2>4. WireTells'
    <3>1. DOMAIN wire' = {}
      BY <1>3
    <3> QED BY <1>3, <3>1 DEF WireTells, Replied
  <2>5. QueueTells' /\ ClosedTells'
    BY <1>1, <1>3, <2>1, NoQueue
  <2>6. Allowed
    BY <1>1, <1>3 DEF Allowed, Contract!vars
  <2> QED BY <2>2, <2>3, <2>4, <2>5, <2>6 DEF StreamInv
<1>4. CASE /\ ending' = closed
           /\ UNCHANGED <<exec, stage, service, request, wire, early, answer, closed, calls,
                          queue, last>>
  <2>1. StreamTypeOK'
    BY <1>1, <1>4 DEF StreamInv, StreamTypeOK
  <2>2. StageTells' /\ EndTells' /\ PromptCounted'
    <3>1. StageTells'
      BY <1>1, <1>4 DEF StreamInv, StageTells, Started, Rpc
    <3>2. EndTells'
      BY <1>1, <1>2, <1>4 DEF EndTells, Rpc, Contract!Failures
    <3> QED BY <1>1, <1>4, <3>1, <3>2 DEF StreamInv, PromptCounted
  <2>3. WireTells'
    BY <1>1, <1>4, WireStays DEF StreamInv
  <2>4. QueueTells' /\ ClosedTells'
    BY <1>1, <1>2, <1>4 DEF StreamInv, QueueTells, ClosedTells, Started
  <2>5. Allowed
    <3>1. CASE closed = "aborted"
      BY <1>1, <1>2, <1>4, <3>1 DEF Allowed, Contract!Next, Contract!Stop, Contract!Running
    <3>2. CASE closed # "aborted"
      <4>1. closed \in {"transport", "refused", "other"}
        BY <1>2, <3>2 DEF Contract!Failures
      <4>2. driver = "codex" => closed \in Contract!Late[driver]
        BY <4>1 DEF Contract!Late, Contract!Drivers
      <4>3. driver = "acp" => last # "none" \/ prompts = 0
        BY <1>1, <1>2, <3>2 DEF StreamInv, ClosedTells, Started
      <4> QED BY <1>1, <1>2, <1>4, <4>1, <4>2, <4>3
              DEF Allowed, Contract!Next, Contract!Fail, Contract!Running, Contract!Failures
    <3> QED BY <3>1, <3>2
  <2> QED BY <2>1, <2>2, <2>3, <2>4, <2>5 DEF StreamInv
<1> QED BY <1>3, <1>4 DEF PullEnd

\* The run is told to stop.
LEMMA Aborts ==
  ASSUME StreamInv, AbortRun
  PROVE  StreamInv' /\ Allowed
<1>1. /\ stage # "start" /\ ending = "none" /\ aborted' = TRUE
      /\ UNCHANGED <<driver, tools, exec, service, request, prompts, wire, sent, answer, early,
                     calls, queue, last, ending>>
  BY DEF AbortRun, remoteVars
<1>2. aborted' \in BOOLEAN
  BY <1>1
<1>3. \/ /\ Rpc /\ stage # "probe" /\ closed = "none" /\ closed' = "aborted"
         /\ stage' = IF stage = "wait" THEN "over" ELSE stage
      \/ ~(Rpc /\ stage # "probe" /\ closed = "none") /\ UNCHANGED <<closed, stage>>
  BY DEF AbortRun
<1>4. StreamTypeOK'
  BY <1>1, <1>2, <1>3 DEF StreamInv, StreamTypeOK, Stages, Endings
<1>5. StageTells' /\ EndTells' /\ PromptCounted'
  BY <1>1, <1>3 DEF StreamInv, StageTells, EndTells, PromptCounted, Started, Rpc
<1>6. WireTells'
  BY <1>1, <1>3, WireStays DEF StreamInv
<1>7. QueueTells' /\ ClosedTells'
  BY <1>1, <1>3 DEF StreamInv, StageTells, QueueTells, ClosedTells, Started
<1>8. Allowed
  BY <1>1 DEF Allowed, Contract!Next, Contract!Abort
<1> QED BY <1>4, <1>5, <1>6, <1>7, <1>8 DEF StreamInv

\* Every step keeps the invariant, and the contract allows it.
LEMMA StreamKept ==
  ASSUME StreamInv, [StreamNext]_streamVars
  PROVE  StreamInv' /\ Allowed
<1>1. CASE UNCHANGED streamVars
  <2>1. UNCHANGED <<driver, tools, stage, exec, service, request, prompts, wire, sent, answer,
                    early, calls, queue, closed, aborted, last, ending>>
    BY <1>1 DEF streamVars
  <2>2. StreamTypeOK' /\ StageTells' /\ EndTells' /\ PromptCounted'
    BY <2>1 DEF StreamInv, StreamTypeOK, StageTells, EndTells, PromptCounted, Started, Rpc
  <2>3. WireTells' /\ QueueTells' /\ ClosedTells'
    BY <2>1 DEF StreamInv, WireTells, QueueTells, ClosedTells, Started, Replied
  <2> QED BY <2>1, <2>2, <2>3 DEF StreamInv, Allowed, Contract!vars
<1>2. CASE ServiceTakes \/ ServiceEnds \/ \E frame \in Frames : ServiceSends(frame)
  BY <1>2, PromptArrives, ServiceGoes, FrameArrives
<1>3. CASE NotConfigured \/ RunStarts \/ AbortRun
  BY <1>3, EndsUnconfigured, RunBegins, Aborts
<1>4. CASE StreamStep
  BY <1>4, HttpGoesOn, CliGoesOn, Probes, TaskReads, TaskProceeds, TaskFails, Pulls, PullsEnd
     DEF StreamStep
<1> QED BY <1>1, <1>2, <1>3, <1>4 DEF StreamNext

\* What every state of a model run satisfies.
THEOREM StreamInvHolds == StreamSpec => []StreamInv
<1>1. StreamInit => StreamInv
  BY StreamInitially
<1>2. StreamInv /\ [StreamNext]_streamVars => StreamInv'
  BY StreamKept
<1> QED BY <1>1, <1>2, PTL DEF StreamSpec

\* The variables of a model run keep their types.
THEOREM StreamTypeCorrect == StreamSpec => []StreamTypeOK
<1>1. StreamInv => StreamTypeOK
  BY DEF StreamInv
<1> QED BY <1>1, StreamInvHolds, PTL

\* Whichever driver performs a run, its reader may rely on the contract of ModelStream.
THEOREM DriversKeepContract == StreamSpec => KeepsContract
<1>1. StreamInit => Contract!Init
  BY DEF StreamInit, Contract!Init
<1>2. StreamInv /\ [StreamNext]_streamVars => [Contract!Next]_(Contract!vars)
  BY StreamKept DEF Allowed
<1> QED BY <1>1, <1>2, StreamInvHolds, PTL DEF StreamSpec, KeepsContract, Contract!Spec

----------------------------------------------------------------------------
(***************************************************************************)
(* The main process (MCProcess): what its parts do, it does.               *)
(***************************************************************************)

\* Each move is one of one part, which leaves the others alone.
LEMMA OneOfThemMoves ==
  ASSUME Next
  PROVE  /\ [LifeNext]_lifeVars /\ [McpNext]_mcpVars
         /\ [StreamNext]_streamVars /\ [StartupNext]_startupVars
<1>1. CASE LifeMoves
  BY <1>1 DEF LifeMoves, LifeStep, LifeNext
<1>2. CASE McpMoves
  BY <1>2 DEF McpMoves, McpStep, McpNext, McpTask
<1>3. CASE DriverMoves
  BY <1>3 DEF DriverMoves, DriverStep, StreamNext, StreamStep
<1>4. CASE StartupMoves
  BY <1>4 DEF StartupMoves, StartupStep, StartupNext
<1> QED BY <1>1, <1>2, <1>3, <1>4 DEF Next

\* The main process is the application, MCP, a model run and a start.
THEOREM ProcessHasItsParts == Spec => LifeSpec /\ McpSpec /\ StreamSpec /\ StartupSpec
<1>1. Init => LifeInit /\ McpInit /\ StreamInit /\ StartupInit
  BY DEF Init
<1>2. [Next]_vars => /\ [LifeNext]_lifeVars /\ [McpNext]_mcpVars
                     /\ [StreamNext]_streamVars /\ [StartupNext]_startupVars
  <2>1. CASE Next
    BY <2>1, OneOfThemMoves
  <2>2. CASE UNCHANGED vars
    BY <2>2 DEF vars
  <2> QED BY <2>1, <2>2
<1> QED BY <1>1, <1>2, PTL DEF Spec, LifeSpec, McpSpec, StreamSpec, StartupSpec

\* Every variable of the main process keeps its type.
THEOREM ProcessTypeCorrect == Spec => []ProcessTypeOK
<1>1. Inv /\ McpInv /\ StreamInv /\ StartupInv => ProcessTypeOK
  BY DEF Inv, McpInv, StreamInv, StartupInv, ProcessTypeOK
<1> QED BY <1>1, ProcessHasItsParts, InvHolds, McpInvHolds, StreamInvHolds, StartupInvHolds, PTL

\* In the main process as a whole, too, the receipt of a download is true, the map of
\* connections holds no closed one, and no start loses data.
THEOREM ProcessIsSafe == Spec => []ReceiptTellsTruth /\ []MappedIsUsable /\ []BackupFirst
BY ProcessHasItsParts, ReceiptIsTrue, MapHoldsNoSpentConnection, NothingIsLost, PTL

\* It exits in order, and its drivers keep their contract.
THEOREM ProcessKeepsPromises == Spec => OrderlyExit /\ KeepsContract
BY ProcessHasItsParts, ExitIsOrderly, DriversKeepContract
=============================================================================
