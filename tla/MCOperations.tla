----------------------------- MODULE MCOperations -----------------------------
(***************************************************************************)
(* Four services that share no state: rule administration with the         *)
(* worker's reload, the dispatch of incident notifications, the WebSocket   *)
(* gateway and the heartbeat monitor.  As no step of one is seen by         *)
(* another, each behaviour runs one of them, chosen at its start; their    *)
(* product would only repeat it.  RuleReload has a subscriber here, so that *)
(* its reload is exercised.                                                *)
(***************************************************************************)
EXTENDS Integers, Sequences, FiniteSets

CONSTANTS
  Api, Sigma, Name, Imports, MaxRules, MaxChanges, PageSize, Subscribed, Faults,
  Worker, Notice, MaxAttempts, BatchSize, MaxFaults,
  Socket, Session, MaxPerSession, MaxRotations,
  StaleAfter, MaxClock, MaxNumbers, Skews, MaxFutureSkew,
  s1, s2, n1, n2

ASSUME LimitsAssumption ==
  /\ {MaxAttempts, BatchSize, PageSize, MaxPerSession, StaleAfter} \subseteq Nat \ {0}
  /\ IsFiniteSet(Notice) /\ IsFiniteSet(Socket)
  /\ Skews \subseteq Int /\ MaxFutureSkew \in Nat
  /\ "nobody" \notin Worker
  /\ Sigma \ {"none"} # {} /\ Name \ {"builtin"} # {}

\* One period behind, on time, two ahead.
AroundZero == {1, 0, -2}
OneImport == {<< <<s2, n2, "count">>, <<s1, n2, "match">> >>}

VARIABLES
  service,
  rules, recency, audit, api, inbox, worker, ready, load, cache, stale, changes,
  notices, batch, marker, sent, lost, faults,
  session, socket, hub, attached, checking, shutdown,
  clock, collector, reserved, stored, file, written, row, monitor

Rules == INSTANCE RuleReload
Dispatch == INSTANCE NotificationDispatch
Gateway == INSTANCE RealtimeGateway
Heartbeats == INSTANCE HeartbeatMonitor

ASSUME ImportsAssumption == Imports \subseteq Seq(Sigma \X Name \X Rules!Type)

ruleVars == <<rules, recency, audit, api, inbox, worker, ready, load, cache, stale, changes>>
noticeVars == <<notices, batch, marker, sent, lost, faults>>
gatewayVars == <<session, socket, hub, attached, checking, shutdown>>
heartbeatVars == <<clock, collector, reserved, stored, file, written, row, monitor>>
vars == <<service, ruleVars, noticeVars, gatewayVars, heartbeatVars>>

Init ==
  /\ service \in {"rules", "notifications", "gateway", "heartbeats"}
  /\ IF service = "rules" THEN Rules!RulesInit ELSE Rules!RulesInit /\ rules[2].type = "match"
  /\ Dispatch!DispatchInit
  /\ Gateway!GatewayInit
  /\ Heartbeats!MonitorInit

Next ==
  /\ UNCHANGED service
  /\ \/ /\ service = "rules" /\ Rules!RulesNext
        /\ UNCHANGED <<noticeVars, gatewayVars, heartbeatVars>>
     \/ /\ service = "notifications" /\ Dispatch!DispatchNext
        /\ UNCHANGED <<ruleVars, gatewayVars, heartbeatVars>>
     \/ /\ service = "gateway" /\ Gateway!GatewayNext
        /\ UNCHANGED <<ruleVars, noticeVars, heartbeatVars>>
     \/ /\ service = "heartbeats" /\ Heartbeats!MonitorNext
        /\ UNCHANGED <<ruleVars, noticeVars, gatewayVars>>

\* DispatchFairness and GatewayFairness, of the service that runs.
Fairness ==
  /\ \A w \in Worker : WF_noticeVars(service = "notifications" /\ Dispatch!Work(w))
  /\ \A n \in Notice :
       /\ WF_noticeVars(service = "notifications" /\ Dispatch!LeaseExpires(n))
       /\ WF_noticeVars(service = "notifications" /\ Dispatch!RetryDue(n))
  /\ \A c \in Socket :
       /\ WF_gatewayVars(service = "gateway" /\ (Gateway!ReadSession(c) \/ Gateway!Admit(c)))
       /\ WF_gatewayVars(service = "gateway" /\ (Gateway!CheckRead(c) \/ Gateway!CheckDone(c)))
  /\ WF_gatewayVars(service = "gateway" /\ Gateway!StartCheck)
  /\ WF_gatewayVars(service = "gateway" /\ Gateway!EndCheck)
  /\ WF_gatewayVars(service = "gateway" /\ Gateway!CloseHttp)

Spec == Init /\ [][Next]_vars /\ Fairness

\* RuleReload: the audit trail replays to the rules table, and identities and
\* names are distinct.
RulesAudited == Rules!RulesAudited
\* RuleReload: an undisturbed load leaves exactly the active rules in use.
LoadedAsStored == Rules!LoadedAsStored
\* NotificationDispatch: published once for each life of the marker.
SentOnce == Dispatch!SentOnce
\* NotificationDispatch: each row is published or given up.
EveryNoticeSettles == Dispatch!EveryNoticeSettles
\* RealtimeGateway: the hub is the set of open connections, within limits.
HubExact == Gateway!HubExact
\* RealtimeGateway: the connections of an ended session are closed.
EndedSessionLeaves == Gateway!EndedSessionLeaves
\* HeartbeatMonitor: a running Collector is never refused as a collision.
NoCollision == Heartbeats!NoCollision
\* HeartbeatMonitor: the row only goes forward and no stale one stays online.
HeartbeatsAdvance == Heartbeats!HeartbeatsAdvance
=============================================================================
