---------------------------- MODULE RealtimeGateway ----------------------------
(***************************************************************************)
(* The WebSocket gateway of an API process: upgrades that authenticate     *)
(* against PostgreSQL before they are admitted, the hub that keeps the     *)
(* connections of each session, the heartbeat cycle that checks every      *)
(* session again, and the shutdown.                                        *)
(*                                                                         *)
(* Each await of the code separates two actions: the reads of PostgreSQL   *)
(* and what is done with their answer.  Frames are modelled by their effect *)
(* (a pong, a close); a refused frame closes the connection.  TenantConnec- *)
(* tionHub adds and removes a connection under its session and under its   *)
(* organization together: hub stands for both maps, and what broadcast     *)
(* sends along the second one is not modelled.                             *)
(***************************************************************************)
EXTENDS Integers, Sequences, FiniteSets

CONSTANTS
  Socket,         \* connections of the process's life
  Session,        \* rows of sessions
  MaxPerSession,  \* MAX_CONNECTIONS_PER_SESSION
  MaxRotations    \* bound: token refreshes of a session

VARIABLES
  session,     \* Session -> [valid, token]: row and user active, current jwt_id
  socket,      \* Socket -> [stage, session, token, answer, observed, check, lost]
  hub,         \* sockets registered in the hub and in the gateway
  attached,    \* the upgrade handler and the heartbeat timer are set
  checking,    \* heartbeatCheckRunning
  shutdown     \* "running", "gateway closed" or "http closed"
vars == <<session, socket, hub, attached, checking, shutdown>>

Unused == [stage |-> "unused", session |-> CHOOSE s \in Session : TRUE, token |-> 0,
           answer |-> FALSE, observed |-> FALSE, check |-> "none", lost |-> FALSE]
Open(c) == socket[c].stage = "open"
Of(s) == {c \in hub : socket[c].session = s}

\* loadActiveState: the session of the token, and its user, are active.
LoadActiveState(s, token) == session[s].valid /\ session[s].token = token

\* NodeRealtimeConnection.close and finish: a connection that is open leaves
\* the hub and the gateway; closing it again does nothing.
Gone(c, stage) == [Unused EXCEPT !.stage = stage, !.check = socket[c].check]
Closed(S) == [c \in Socket |-> IF c \in S /\ Open(c) THEN Gone(c, "closed") ELSE socket[c]]

-----------------------------------------------------------------------------
(* Upgrades.                                                               *)

\* handleUpgrade: the request is a WebSocket one, its origin is the
\* frontend's and its token, the session's of now, verifies.
Upgrade(c, s) ==
  /\ attached
  /\ socket[c] = Unused
  /\ socket' = [socket EXCEPT ![c].stage = "authenticating", ![c].session = s,
                              ![c].token = session[s].token]
  /\ UNCHANGED <<session, hub, attached, checking, shutdown>>

\* authenticate; a read that fails refuses the client.
ReadSession(c) ==
  /\ socket[c].stage = "authenticating"
  /\ \E answer \in {LoadActiveState(socket[c].session, socket[c].token), FALSE} :
       socket' = [socket EXCEPT ![c].stage = "answered", ![c].answer = answer]
  /\ UNCHANGED <<session, hub, attached, checking, shutdown>>

\* The client is lost before its connection listens to the socket: the admission
\* does not ask, and only the heartbeat notices.
LoseClient(c) ==
  /\ socket[c].stage \in {"authenticating", "answered"}
  /\ ~socket[c].lost
  /\ socket' = [socket EXCEPT ![c].lost = TRUE]
  /\ UNCHANGED <<session, hub, attached, checking, shutdown>>

\* Mutant: the limit is checked before the authentication only.
AdmitUnlimited(c) ==
  /\ socket[c].stage = "answered"
  /\ IF socket[c].answer
     THEN /\ socket' = [socket EXCEPT ![c].stage = "open", ![c].answer = FALSE,
                                        ![c].observed = TRUE]
          /\ hub' = hub \cup {c}
     ELSE /\ socket' = [socket EXCEPT ![c] = Gone(c, "rejected")]
          /\ UNCHANGED hub
  /\ UNCHANGED <<session, attached, checking, shutdown>>

\* After the await: nothing asks whether the gateway was closed meanwhile.
Admit(c) ==
  /\ socket[c].stage = "answered"
  /\ IF socket[c].answer /\ Cardinality(Of(socket[c].session)) < MaxPerSession
     THEN /\ socket' = [socket EXCEPT ![c].stage = "open", ![c].answer = FALSE,
                                        ![c].observed = TRUE]
          /\ hub' = hub \cup {c}
     ELSE /\ socket' = [socket EXCEPT ![c] = Gone(c, "rejected")]
          /\ UNCHANGED hub
  /\ UNCHANGED <<session, attached, checking, shutdown>>

-----------------------------------------------------------------------------
(* The session and the client.                                             *)

\* Logout, revocation, deactivation of the user; or the session expires, and
\* with it the timers of its connections fire.
Revoke(s) ==
  /\ session[s].valid
  /\ session' = [session EXCEPT ![s].valid = FALSE]
  /\ UNCHANGED <<socket, hub, attached, checking, shutdown>>

Expire(s) ==
  /\ session[s].valid
  /\ session' = [session EXCEPT ![s].valid = FALSE]
  /\ socket' = Closed(Of(s))
  /\ hub' = hub \ Of(s)
  /\ UNCHANGED <<attached, checking, shutdown>>

\* A refresh gives the session's row another jwt_id.
Rotate(s) ==
  /\ session[s].valid
  /\ session[s].token < MaxRotations
  /\ session' = [session EXCEPT ![s].token = @ + 1]
  /\ UNCHANGED <<socket, hub, attached, checking, shutdown>>

\* The client leaves, breaks the protocol or sends too many frames, or a
\* notification is too large for it.
Leave(c) ==
  /\ Open(c)
  /\ socket' = Closed({c})
  /\ hub' = hub \ {c}
  /\ UNCHANGED <<session, attached, checking, shutdown>>

Pong(c) ==
  /\ Open(c)
  /\ ~socket[c].observed /\ ~socket[c].lost
  /\ socket' = [socket EXCEPT ![c].observed = TRUE]
  /\ UNCHANGED <<session, hub, attached, checking, shutdown>>

-----------------------------------------------------------------------------
(* checkHeartbeats: one cycle at a time over the connections of its start.  *)

StartCheck ==
  /\ attached
  /\ ~checking
  /\ hub # {}
  /\ LET silent == {c \in hub : ~socket[c].observed} IN
       /\ hub' = hub \ silent
       /\ socket' = [c \in Socket |->
                       IF c \in silent THEN Gone(c, "closed")
                       ELSE IF c \in hub THEN [socket[c] EXCEPT !.check = "reading"] ELSE socket[c]]
  /\ checking' = TRUE
  /\ UNCHANGED <<session, attached, shutdown>>

\* isStillAuthorized; a read that fails counts as no.
CheckRead(c) ==
  /\ socket[c].check = "reading"
  /\ \E answer \in {Open(c) /\ LoadActiveState(socket[c].session, socket[c].token), FALSE} :
       socket' = [socket EXCEPT ![c].check = "answered", ![c].answer = answer]
  /\ UNCHANGED <<session, hub, attached, checking, shutdown>>

\* Mutant: only the user and the session are asked for, not whether they are active.
CheckDonePinging(c) ==
  /\ socket[c].check = "answered"
  /\ socket' = [socket EXCEPT ![c].check = "none", ![c].answer = FALSE,
                                        ![c].observed = FALSE]
  /\ UNCHANGED <<session, hub, attached, checking, shutdown>>

\* A connection that is no longer authorized is closed, another is pinged.
CheckDone(c) ==
  /\ socket[c].check = "answered"
  /\ IF socket[c].answer \/ ~Open(c)
     THEN /\ socket' = [socket EXCEPT ![c].check = "none", ![c].answer = FALSE,
                                        ![c].observed = FALSE]
          /\ UNCHANGED hub
     ELSE /\ socket' = [Closed({c}) EXCEPT ![c].check = "none"]
          /\ hub' = hub \ {c}
  /\ UNCHANGED <<session, attached, checking, shutdown>>

EndCheck ==
  /\ checking
  /\ \A c \in Socket : socket[c].check = "none"
  /\ checking' = FALSE
  /\ UNCHANGED <<session, socket, hub, attached, shutdown>>

-----------------------------------------------------------------------------
(* Shutdown: the gateway, then the HTTP server, whose close waits for the   *)
(* connections it accepted, upgraded ones included, unless they are lost.  *)

CloseGateway ==
  /\ attached
  /\ attached' = FALSE
  /\ socket' = Closed(hub)
  /\ hub' = {}
  /\ shutdown' = "gateway closed"
  /\ UNCHANGED <<session, checking>>

CloseHttp ==
  /\ shutdown = "gateway closed"
  /\ \A c \in Socket :
       socket[c].stage \in {"authenticating", "answered", "open"} => socket[c].lost
  /\ shutdown' = "http closed"
  /\ UNCHANGED <<session, socket, hub, attached, checking>>

-----------------------------------------------------------------------------
GatewayInit ==
  /\ session = [s \in Session |-> [valid |-> TRUE, token |-> 0]]
  /\ socket = [c \in Socket |-> Unused]
  /\ hub = {} /\ attached = TRUE /\ checking = FALSE /\ shutdown = "running"

GatewayNext ==
  \/ \E c \in Socket, s \in Session : Upgrade(c, s)
  \/ \E c \in Socket : ReadSession(c) \/ Admit(c) \/ LoseClient(c) \/ Leave(c) \/ Pong(c)
                       \/ CheckRead(c) \/ CheckDone(c)
  \/ \E s \in Session : Revoke(s) \/ Expire(s) \/ Rotate(s)
  \/ StartCheck \/ EndCheck
  \/ CloseGateway \/ CloseHttp

\* The reads are answered, the timer of 30 s fires.
GatewayFairness ==
  /\ \A c \in Socket : WF_vars(ReadSession(c) \/ Admit(c)) /\ WF_vars(CheckRead(c) \/ CheckDone(c))
  /\ WF_vars(StartCheck)
  /\ WF_vars(EndCheck)
  /\ WF_vars(CloseHttp)

-----------------------------------------------------------------------------
\* The hub holds exactly the open connections, so none is missed and none leaks,
\* and no session has more than its share, though many upgrades of one session
\* authenticate at the same time.
HubExact ==
  /\ hub = {c \in Socket : Open(c)}
  /\ \A s \in Session : Cardinality(Of(s)) <= MaxPerSession

\* While the gateway runs, a connection whose session ended is closed, also
\* when the session ended between its authentication and its admission; and so
\* is one that was admitted after its client was lost.
EndedSessionLeaves ==
  \A c \in Socket :
    Open(c) /\ (~session[socket[c].session].valid \/ socket[c].lost) ~> (~Open(c) \/ ~attached)

=============================================================================
