----------------------------- MODULE McpService -----------------------------
(***************************************************************************)
(* One MCP server: its row, its connection, its authorization              *)
(* (mcp-service.ts, mcp-oauth.ts, the server table of database.ts).        *)
(*                                                                         *)
(* Requests of the settings page and tool calls of runs are not queued:    *)
(* each is a task of its own, and at its awaits (closing a connection,     *)
(* connecting, the browser, the network, a call) the others go on.  Every  *)
(* task works with the row it has read when it began.                      *)
(*                                                                         *)
(* Left out: secrets, trust in single tools, what a call returns, the kind *)
(* of transport, tokens that are refreshed, the address of the server      *)
(* (which decides whether save drops the credentials).  The row of a       *)
(* deleted server is never used again.  Nor does the model tell when a     *)
(* connection dies by itself (its process exits, its transport closes):    *)
(* the service listens for no close, so such a connection stays in the map *)
(* until a call fails over it, and that call is CallFails.                 *)
(***************************************************************************)
EXTENDS Naturals, FiniteSets

CONSTANTS
  Op,            \* requests and calls that may be under way at once
  MaxVersions,   \* bound: versions of the row
  MaxConnections \* bound: connections that are open or still referred to

ASSUME McpBounds ==
  IsFiniteSet(Op) /\ MaxVersions \in Nat \ {0} /\ MaxConnections \in Nat

VARIABLES
  server,        \* the row: exists, enabled, version
  credentials,   \* the oauth setting: "none", "redirect" (no tokens yet), "tokens"
  mapped,        \* McpService.connections: the connection, or NoConnection
  usable,        \* the connections that the service has not closed and over which no
                 \* call has failed: all that it could know of
  authorizing,   \* authorizingIds has the server
  registered,    \* activeAuthorizations: operations whose callback is registered
  callback,      \* the callback server of an operation: "none", "waiting", "code", "error"
  op             \* what each operation is doing and what it has read

mcpVars == <<server, credentials, mapped, usable, authorizing, registered,
             callback, op>>

NoConnection == 0
Connection == 1..MaxConnections
Credentials == {"none", "redirect", "tokens"}

Done == [kind |-> "none", at |-> "idle", enabled |-> FALSE, expected |-> 0,
         connection |-> NoConnection, previous |-> "none"]

McpTypeOK ==
  /\ server \in [exists : BOOLEAN, enabled : BOOLEAN, version : 1..MaxVersions]
  /\ credentials \in Credentials
  /\ mapped \in {NoConnection} \cup Connection
  /\ usable \subseteq Connection
  /\ authorizing \in BOOLEAN
  /\ registered \subseteq Op
  /\ callback \in [Op -> {"none", "waiting", "code", "error"}]
  /\ op \in [Op -> [kind : {"none", "start", "save", "enable", "disable", "probe", "authorize",
                            "clear", "delete", "call"},
                    at : {"idle", "disconnect", "browser", "exchange", "connect", "close",
                          "call", "fail"},
                    enabled : BOOLEAN, expected : 0..MaxVersions,
                    connection : {NoConnection} \cup Connection, previous : Credentials]]

\* initialize: a server that is switched on is connected when the application starts.
McpInit ==
  /\ server \in [exists : {TRUE}, enabled : BOOLEAN, version : {1}]
  /\ credentials \in {"none", "tokens"}
  /\ mapped = NoConnection
  /\ usable = {}
  /\ authorizing = FALSE
  /\ registered = {}
  /\ callback = [o \in Op |-> "none"]
  /\ op \in [Op -> {Done, [Done EXCEPT !.kind = "start", !.at = "connect", !.enabled = TRUE]}]
  /\ Cardinality({o \in Op : op[o].kind = "start"}) = IF server.enabled THEN 1 ELSE 0

----------------------------------------------------------------------------
(* Helpers.                                                                *)

At(o, where) == op[o].at = where
GoTo(o, where) == op' = [op EXCEPT ![o].at = where]
Finish(o) == op' = [op EXCEPT ![o] = Done]

\* The number of a connection nobody refers to any more is used again, whether it was closed
\* or not.
Held == {op[o].connection : o \in Op}
Free == Connection \ (Held \cup {mapped})
IsNew(n) == n \in Free /\ \A m \in Free : n <= m

\* disconnect, up to its await: out of the map, then closed
Disconnect ==
  /\ mapped' = NoConnection
  /\ usable' = usable \ {mapped}

----------------------------------------------------------------------------
(* Requests.                                                               *)

\* createMcpServerConfig: another server takes the place of a deleted one, with an id and a
\* connection of its own.
AddServer ==
  /\ ~server.exists /\ op = [o \in Op |-> Done]
  /\ server' = [exists |-> TRUE, enabled |-> FALSE, version |-> 1]
  /\ credentials' = "none" /\ mapped' = NoConnection /\ usable' = {}
  /\ callback' = [o \in Op |-> "none"]
  /\ UNCHANGED <<authorizing, registered, op>>

\* bound: every change of the row that is under way finds a version
VersionsLeft ==
  server.version + Cardinality({p \in Op : At(p, "disconnect")}) < MaxVersions

\* A request reads the row; the page sends the version it has seen, this one or an older one
\* (0), if the request is to change the row.
Begins(o, kind, where) ==
  /\ kind \in {"probe", "authorize", "delete"} \/ VersionsLeft
  /\ \E v \in {0} \cup {w \in {server.version} : kind \notin {"probe", "authorize"}} :
      op' = [op EXCEPT ![o] = [Done EXCEPT !.kind = kind, !.at = where, !.enabled = server.enabled,
                                           !.expected = v]]

\* save, setEnabled and probe are refused during an authorization.
Edit(o) ==
  /\ At(o, "idle")
  /\ server.exists /\ ~authorizing
  /\ \E kind \in {"save", "enable", "disable", "probe"} : Begins(o, kind, "disconnect")
  /\ Disconnect
  /\ UNCHANGED <<server, credentials, authorizing, registered, callback>>

\* the callbacks of an authorization that is given up
Cancelled == [o \in Op |-> IF o \in registered /\ callback[o] = "waiting" THEN "error"
                           ELSE callback[o]]

\* clearAuthorization and delete end an authorization first.
Delete(o) ==
  /\ At(o, "idle")
  /\ server.exists
  /\ \E kind \in {"clear", "delete"} : Begins(o, kind, "disconnect")
  /\ callback' = Cancelled /\ registered' = {} /\ authorizing' = FALSE
  /\ Disconnect
  /\ UNCHANGED <<server, credentials>>

CancelAuthorization ==
  /\ registered # {}
  /\ callback' = Cancelled /\ registered' = {} /\ authorizing' = FALSE
  /\ UNCHANGED <<server, credentials, mapped, usable, op>>

Authorize(o) ==
  /\ At(o, "idle")
  /\ server.exists /\ ~authorizing
  /\ Begins(o, "authorize", "disconnect")
  /\ authorizing' = TRUE
  /\ Disconnect
  /\ UNCHANGED <<server, credentials, registered, callback>>

\* run, for an approved tool call: connects if there is no connection
Call(o) ==
  /\ At(o, "idle")
  /\ server.exists /\ server.enabled
  /\ op' = [op EXCEPT ![o] = [Done EXCEPT
                !.kind = "call", !.enabled = TRUE, !.connection = mapped,
                !.at = IF mapped # NoConnection THEN "call" ELSE "connect"]]
  /\ UNCHANGED <<server, credentials, mapped, usable, authorizing, registered, callback>>

----------------------------------------------------------------------------
(* After the connection was closed.                                        *)

\* the version check of every write to the row; a conflict ends the request
Current(o) == server.exists /\ op[o].expected = server.version

Rewritten(enabled) == [server EXCEPT !.enabled = enabled, !.version = @ + 1]

\* updateMcpServerConfig: a server whose configuration is saved is switched off; the
\* credentials go when its address has changed
SaveCommits(o) ==
  /\ At(o, "disconnect") /\ op[o].kind = "save"
  /\ IF Current(o)
       THEN /\ server' = Rewritten(FALSE)
            /\ credentials' \in {credentials, "none"}
       ELSE UNCHANGED <<server, credentials>>
  /\ Finish(o)
  /\ UNCHANGED <<mapped, usable, authorizing, registered, callback>>

\* setMcpServerEnabled; a server that is switched on is connected
SwitchCommits(o) ==
  /\ At(o, "disconnect") /\ op[o].kind \in {"enable", "disable"}
  /\ \/ /\ Current(o)
        /\ IF op[o].kind = "enable"
             THEN /\ server' = Rewritten(TRUE)
                  /\ op' = [op EXCEPT ![o].at = "connect", ![o].enabled = TRUE,
                                      ![o].expected = 0]
             ELSE /\ server' = Rewritten(FALSE)
                  /\ Finish(o)
     \/ /\ ~Current(o)
        /\ Finish(o)
        /\ UNCHANGED server
  /\ UNCHANGED <<credentials, mapped, usable, authorizing, registered, callback>>

ProbeConnects(o) ==
  /\ At(o, "disconnect") /\ op[o].kind = "probe"
  /\ GoTo(o, "connect")
  /\ UNCHANGED <<server, credentials, mapped, usable, authorizing, registered, callback>>

\* clearAuthorization: the credentials go also when the version check then fails.
ClearCommits(o) ==
  /\ At(o, "disconnect") /\ op[o].kind = "clear"
  /\ credentials' = "none"
  /\ IF Current(o)
       THEN server' = Rewritten(FALSE)
       ELSE UNCHANGED server
  /\ Finish(o)
  /\ UNCHANGED <<mapped, usable, authorizing, registered, callback>>

DeleteCommits(o) ==
  /\ At(o, "disconnect") /\ op[o].kind = "delete"
  /\ IF Current(o)
       THEN server' = [server EXCEPT !.exists = FALSE] /\ credentials' = "none"
       ELSE UNCHANGED <<server, credentials>>
  /\ Finish(o)
  /\ UNCHANGED <<mapped, usable, authorizing, registered, callback>>

----------------------------------------------------------------------------
(* Authorization.                                                          *)

\* Mutant: the lock is kept when there is no callback server.
ListenFailsLocked(o) ==
  /\ At(o, "disconnect") /\ op[o].kind = "authorize"
  /\ Finish(o)
  /\ UNCHANGED <<server, credentials, mapped, usable, authorizing, registered, callback>>

\* createOAuthCallback rejects, or the stored credentials cannot be read
ListenFails(o) ==
  /\ At(o, "disconnect") /\ op[o].kind = "authorize"
  /\ Finish(o)
  /\ authorizing' = FALSE
  /\ UNCHANGED <<server, credentials, mapped, usable, registered, callback>>

\* the callback server listens; the credentials make room for the new ones
Listens(o) ==
  /\ At(o, "disconnect") /\ op[o].kind = "authorize"
  /\ registered' = {o}
  /\ callback' = [callback EXCEPT ![o] = "waiting"]
  /\ op' = [op EXCEPT ![o].at = "browser", ![o].previous = credentials]
  /\ credentials' = "redirect"
  /\ UNCHANGED <<server, mapped, usable, authorizing>>

\* the callback server gets its one answer, or times out
Redirected(o) ==
  /\ callback[o] = "waiting"
  /\ \E answer \in {"code", "error"} : callback' = [callback EXCEPT ![o] = answer]
  /\ UNCHANGED <<server, credentials, mapped, usable, authorizing, registered, op>>

CodeArrives(o) ==
  /\ At(o, "browser") /\ callback[o] = "code"
  /\ GoTo(o, "exchange")
  /\ UNCHANGED <<server, credentials, mapped, usable, authorizing, registered, callback>>

\* the code is exchanged for tokens (saveTokens), and the row is read again
Exchanges(o) ==
  /\ At(o, "exchange") /\ server.exists
  /\ credentials' = "tokens"
  /\ op' = [op EXCEPT ![o].at = "connect", ![o].enabled = server.enabled]
  /\ UNCHANGED <<server, mapped, usable, authorizing, registered, callback>>

\* the catch of authorize: the credentials are what they were before, whatever else happened
\* to them; finally the lock goes, also that of a later authorization
GivesUp(o) ==
  /\ op[o].kind = "authorize"
  /\ At(o, "browser") \/ At(o, "exchange") \/ At(o, "connect") \/ At(o, "fail")
  /\ credentials' = op[o].previous
  /\ callback' = [callback EXCEPT ![o] = "none"]
  /\ registered' = {} /\ authorizing' = FALSE
  /\ Finish(o)
  /\ UNCHANGED <<server, mapped, usable>>

----------------------------------------------------------------------------
(* Connecting.                                                             *)

\* probe, and authorize for a server that is switched off, only look.
Looks(o) == op[o].kind = "probe" \/ (op[o].kind = "authorize" /\ ~op[o].enabled)
Keeps(o) == op[o].enabled /\ ~Looks(o)

\* Connected, and the tools are listed.  The connection goes into the map over any other
\* one that is there, which nobody closes any more.
Connected(o) ==
  /\ At(o, "connect")
  /\ \E n \in Connection :
       /\ IsNew(n)
       /\ \/ /\ Keeps(o) /\ server.exists
             /\ mapped' = n /\ usable' = (usable \cap Held) \cup {n}
             /\ CASE op[o].kind = "call" -> op' = [op EXCEPT ![o].at = "call", ![o].connection = n]
                  [] op[o].kind = "authorize" -> GoTo(o, "close")
                  [] OTHER -> Finish(o)
          \/ /\ Keeps(o) /\ ~server.exists        \* the row is gone: closed again, but mapped
             /\ mapped' = n /\ usable' = usable \ {n}
             /\ IF op[o].kind = "authorize" THEN GoTo(o, "fail") ELSE Finish(o)
          \/ /\ Looks(o)
             /\ usable' = (usable \cap (Held \cup {mapped})) \cup {n}
             /\ op' = [op EXCEPT ![o].at = "close", ![o].connection = n]
             /\ UNCHANGED mapped
  /\ UNCHANGED <<server, credentials, authorizing, registered, callback>>

\* connect's catch: nothing is left of the attempt.
ConnectFails(o) ==
  /\ At(o, "connect") /\ op[o].kind # "authorize"
  /\ Finish(o)
  /\ UNCHANGED <<server, credentials, mapped, usable, authorizing, registered, callback>>

\* probe closes its own connection, then empties the map; it does not look whose connection
\* is in it.
ProbeEnds(o) ==
  /\ At(o, "close") /\ op[o].kind = "probe"
  /\ usable' = usable \ {op[o].connection}
  /\ mapped' = NoConnection
  /\ Finish(o)
  /\ UNCHANGED <<server, credentials, authorizing, registered, callback>>

\* authorize, once connected: the lock goes
AuthorizeEnds(o) ==
  /\ At(o, "close") /\ op[o].kind = "authorize"
  /\ server.exists
  /\ usable' = usable \ {op[o].connection}
  /\ callback' = [callback EXCEPT ![o] = "none"]
  /\ registered' = {} /\ authorizing' = FALSE
  /\ Finish(o)
  /\ UNCHANGED <<server, credentials, mapped>>

\* ... or the server was deleted meanwhile
AuthorizeEndsDeleted(o) ==
  /\ At(o, "close") /\ op[o].kind = "authorize"
  /\ ~server.exists
  /\ usable' = usable \ {op[o].connection}
  /\ GoTo(o, "fail")
  /\ UNCHANGED <<server, credentials, mapped, authorizing, registered, callback>>

----------------------------------------------------------------------------
(* Calls.                                                                  *)

\* The call returns, or fails for a reason of its own (cancelled, an unknown tool, an error
\* result).
Returns(o) ==
  /\ At(o, "call")
  /\ Finish(o)
  /\ UNCHANGED <<server, credentials, mapped, usable, authorizing, registered, callback>>

\* Mutant: a connection that failed stays in the map for the next call.
CallFailsQuietly(o) ==
  /\ At(o, "call")
  /\ usable' = usable \ {op[o].connection}
  /\ Finish(o)
  /\ UNCHANGED <<server, credentials, mapped, authorizing, registered, callback>>

\* the connection fails: whatever connection is in the map by now is closed
CallFails(o) ==
  /\ At(o, "call")
  /\ mapped' = IF server.exists THEN NoConnection ELSE mapped
  /\ usable' = usable \ {op[o].connection, IF server.exists THEN mapped ELSE NoConnection}
  /\ Finish(o)
  /\ UNCHANGED <<server, credentials, authorizing, registered, callback>>

----------------------------------------------------------------------------

McpTask(o) ==
  \/ SaveCommits(o) \/ SwitchCommits(o) \/ ProbeConnects(o) \/ ClearCommits(o)
  \/ DeleteCommits(o) \/ ListenFails(o) \/ Listens(o)
  \/ Redirected(o) \/ CodeArrives(o) \/ Exchanges(o) \/ GivesUp(o)
  \/ Connected(o) \/ ConnectFails(o) \/ ProbeEnds(o) \/ AuthorizeEnds(o)
  \/ AuthorizeEndsDeleted(o) \/ Returns(o) \/ CallFails(o)

McpNext ==
  \/ AddServer
  \/ CancelAuthorization
  \/ \E o \in Op : Edit(o) \/ Delete(o) \/ Authorize(o) \/ Call(o) \/ McpTask(o)

McpSpec == McpInit /\ [][McpNext]_mcpVars

\* Connections, calls and the callback server have time-outs.
McpFair == \A o \in Op : WF_mcpVars(McpTask(o))

----------------------------------------------------------------------------

\* A call never gets a connection that the service has closed, or that a call has already
\* found broken, although probes, edits, failing calls and late connections of several tasks
\* put connections into the map, replace them and close them.
MappedIsUsable ==
  server.exists /\ mapped # NoConnection => mapped \in usable

\* An authorization does not lock its server for ever, on any of its ways out.
AuthorizationReleases == authorizing ~> ~authorizing
=============================================================================
