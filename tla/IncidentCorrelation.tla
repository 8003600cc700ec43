------------------------- MODULE IncidentCorrelation ------------------------
(***************************************************************************)
(* The incidents of one organization.  Processing jobs correlate their     *)
(* alerts into incidents, each job in one serializable transaction; the    *)
(* commands of analysts change status and assignee of the same rows, each  *)
(* under FOR UPDATE in a serializable transaction of its own.              *)
(*                                                                         *)
(* A correlation works on the snapshot of its first statement and commits  *)
(* what it changed there, unless PostgreSQL refuses it (ConflictFree); it  *)
(* is then tried again with a new snapshot.  An incident is named after    *)
(* the alert that created it.  Titles, severities and scores are left out; *)
(* times are ticks.                                                        *)
(***************************************************************************)
EXTENDS Integers, FiniteSets, FiniteSetsExt, Sequences, SequencesExt

CONSTANTS
  Job,          \* processing jobs, each with the alerts of its batch
  AlertsOf,     \* job -> its alerts, in the order of compareAlerts
  Entities,     \* alert -> its entities
  Correlating,  \* entities of the types of DEFAULT_CORRELATION_ENTITY_TYPES
  Primary,      \* alert -> the first of its entities in normalized order
  Source,       \* alert -> "rule" or "ai"
  EventsOf,     \* alert -> its matched events
  TimeOf,       \* event -> its time
  User,         \* users of the organization that are active
  TimeWindow,   \* timeWindowMinutes
  MaxDuration,  \* maxDurationHours
  MaxAlerts,    \* MAX_ALERTS_PER_INCIDENT
  MaxTries,     \* maxAttempts of the unit of work
  Workers,      \* jobs processed at the same time
  MaxTime,      \* bound: ticks
  MaxFaults,    \* bound: attempts that fail, acknowledgements that are lost
  MaxCommands   \* bound: commands of analysts, but for Resolve

Alert == UNION {Range(AlertsOf[j]) : j \in Job}
Event == UNION {EventsOf[a] : a \in Alert}
None == "none"

\* A batch has finitely many alerts, an alert one event at least.
ASSUME IncidentAssumption ==
  /\ IsFiniteSet(Job) /\ None \notin Alert
  /\ \A j \in Job : AlertsOf[j] \in Seq(Range(AlertsOf[j])) /\ IsInjective(AlertsOf[j])
  /\ \A a \in Alert :
       /\ IsFiniteSet(Entities[a]) /\ (Entities[a] # {} => Primary[a] \in Entities[a])
       /\ IsFiniteSet(EventsOf[a]) /\ EventsOf[a] # {} /\ \A e \in EventsOf[a] : TimeOf[e] \in Int
  /\ {TimeWindow, MaxDuration, MaxAlerts, MaxTries, Workers} \subseteq Nat \ {0}

VARIABLES
  db,        \* what is committed
  pc,        \* job -> "waiting", "running" or "done"
  tries,     \* job -> attempts of its unit of work so far
  tx,        \* job -> its transaction
  at,        \* job -> evaluatedAt of its attempt
  raised,    \* job -> when its alerts were raised; -1: not yet
  now, faults, commands

jobVars == <<pc, tries, tx, at, raised>>
boundVars == <<faults, commands>>
vars == <<db, jobVars, now, boundVars>>

Status == {"open", "investigating", "resolved", "closed"}
Active == {"open", "investigating"}
NoIncident == [status |-> None]
NoTx == [snapshot |-> None]

Journal == [alerts |-> <<>>, status |-> <<>>, assignee |-> <<>>, notes |-> 0]

Empty ==
  [inc |-> [a \in Alert |-> NoIncident], in |-> [a \in Alert |-> None],
   links |-> {}, rows |-> {}, journal |-> [a \in Alert |-> Journal]]

Init ==
  /\ db = Empty
  /\ pc = [j \in Job |-> "waiting"] /\ tries = [j \in Job |-> 0]
  /\ tx = [j \in Job |-> NoTx]
  /\ at = [j \in Job |-> 0] /\ raised = [j \in Job |-> -1]
  /\ now = 0 /\ faults = 0 /\ commands = 0

-----------------------------------------------------------------------------
(* The repositories, on a database d.                                      *)

Attached(d, i) == {a \in Alert : d.in[a] = i}
LinkedTo(d, i) == {e \in Event : <<i, e>> \in d.links}
SourcesOf(d, i) == {Source[a] : a \in Attached(d, i)}

\* create: no events yet, one entity at least.
NewIncident(a, t) ==
  [status |-> "open", primary |-> Primary[a], entities |-> Entities[a],
   alerts |-> 0, events |-> 0, first |-> -1, last |-> -1, created |-> t,
   assignee |-> None, resolvedAt |-> FALSE, closedAt |-> FALSE]

\* audit.create, and what it says of one field of the incident.
Audited(d, i, field, old, new) ==
  [d EXCEPT !.journal[i][field] = Append(@, <<old, new>>)]

\* An alert is correlated by these, an incident holds all entities.
EligibleEntities(a) == Entities[a] \cap Correlating

\* findOpenCandidatesForUpdate: by primary entity only.  A transaction sees
\* at least one linked event in each incident, so last is not null.  The limit
\* of 25 rows is left out: here a transaction reads and locks all of them.
Candidates(d, a, t) ==
  {i \in Alert :
     /\ d.inc[i].status \in Active
     /\ d.inc[i].last >= t - TimeWindow
     /\ d.inc[i].primary \in EligibleEntities(a)}

\* transitionStatus to "closed": both time stamps are given.
CloseExpired(d, i, a) ==
  [Audited(d, i, "status", d.inc[i].status, "closed") EXCEPT
     !.inc[i].status = "closed", !.inc[i].resolvedAt = TRUE, !.inc[i].closedAt = TRUE,
     !.rows = @ \cup {<<i, "INCIDENT_STATUS_CHANGED", a>>}]

-----------------------------------------------------------------------------
(* The candidate ranker.                                                   *)

Expired(d, a, t, e) == {i \in Candidates(d, a, t) : e - d.inc[i].created >= MaxDuration}

Ranked(d, a, t, e) ==
  {i \in Candidates(d, a, t) \ Expired(d, a, t, e) :
     d.inc[i].last - t <= TimeWindow /\ t - d.inc[i].last <= TimeWindow}

\* compareCandidates: overlap, recency, source, age.
Before(x, y) ==
  \E k \in DOMAIN x : x[k] > y[k] /\ \A l \in 1..k-1 : x[l] = y[l]

Rank(d, i, a) ==
  <<Cardinality(d.inc[i].entities \cap EligibleEntities(a)), d.inc[i].last,
    IF Source[a] \in SourcesOf(d, i) THEN 1 ELSE 0, -d.inc[i].created>>

Best(d, S, a) == CHOOSE i \in S : \A k \in S : ~Before(Rank(d, k, a), Rank(d, i, a))

-----------------------------------------------------------------------------
(* correlateAlert for one alert raised at t and evaluated at e.            *)

\* The incident is created at e: the row's default is the transaction's time.
Target(d, a, t, e) ==
  LET S == Ranked(d, a, t, e) IN
    IF S = {} \/ d.inc[Best(d, S, a)].alerts >= MaxAlerts THEN a ELSE Best(d, S, a)

Expire(d, S, a) ==
  [d EXCEPT
     !.inc = [i \in Alert |-> IF i \in S THEN CloseExpired(d, i, a).inc[i] ELSE @[i]],
     !.journal = [i \in Alert |-> IF i \in S THEN CloseExpired(d, i, a).journal[i] ELSE @[i]],
     !.rows = @ \cup UNION {CloseExpired(d, i, a).rows : i \in S}]

\* attachToIncidentIfUnassigned, the event links, the recount and the update.
\* createIncidentNotification: the incident, the kind and the cause make the
\* notification's key, so what is enqueued twice is one row.
Notification(i, a) == <<i, IF i = a THEN "INCIDENT_CREATED" ELSE "INCIDENT_UPDATED", a>>

\* The number of events grows by the links that were new.
Attach(d, i, a) ==
  LET new == EventsOf[a] \ LinkedTo(d, i)
      times == {TimeOf[x] : x \in EventsOf[a] \cup LinkedTo(d, i)}
      in == [d.in EXCEPT ![a] = i]
      old == d.inc[i].alerts
      count == Cardinality({b \in Alert : in[b] = i})
  IN Audited([d EXCEPT
       !.in = in,
       !.links = @ \cup {<<i, x>> : x \in new},
       !.inc[i].alerts = count,
       !.inc[i].events = @ + Cardinality(new),
       !.inc[i].entities = @ \cup Entities[a],
       !.inc[i].first = Min(times), !.inc[i].last = Max(times),
       !.rows = @ \cup {Notification(i, a)}],
       i, "alerts", old, count)

\* Mutant: no second incident is opened beside a full one.
CorrelateAlertDropped(d, a, t, e) ==
  IF d.in[a] # None \/ Entities[a] = {} THEN d
  ELSE LET closed == Expire(d, Expired(d, a, t, e), a)
           S == Ranked(d, a, t, e)
       IN IF S = {} THEN Attach([closed EXCEPT !.inc[a] = NewIncident(a, e)], a, a)
          ELSE IF d.inc[Best(d, S, a)].alerts >= MaxAlerts THEN closed
          ELSE Attach(closed, Best(d, S, a), a)

CorrelateAlert(d, a, t, e) ==
  IF d.in[a] # None \/ Entities[a] = {} THEN d
  ELSE LET closed == Expire(d, Expired(d, a, t, e), a)
           i == Target(d, a, t, e)
       IN Attach(IF i = a THEN [closed EXCEPT !.inc[i] = NewIncident(a, e)] ELSE closed, i, a)

\* The alerts of job j one after the other.
Correlate(d, j, t, e) ==
  LET after[n \in 0..Len(AlertsOf[j])] ==
        IF n = 0 THEN d ELSE CorrelateAlert(after[n-1], AlertsOf[j][n], t, e)
  IN after[Len(AlertsOf[j])]

-----------------------------------------------------------------------------
(* PostgreSQL: serializable transactions.                                  *)

Result(j) == tx[j].result

\* The rows it inserted, updated or locked.
Changed(j) == {i \in Alert : Result(j).inc[i] # tx[j].snapshot.inc[i]}
Locked(j) ==
  UNION {Candidates(tx[j].snapshot, a, raised[j]) : a \in Range(AlertsOf[j])}
AttachedBy(j) == {a \in Alert : Result(j).in[a] # tx[j].snapshot.in[a]}

\* Mutant: read committed.
ConflictFreeReadCommitted(j) == \A a \in AttachedBy(j) : db.in[a] = tx[j].snapshot.in[a]

\* A row it touched was changed since the snapshot; or its reads missed what a
\* concurrent transaction wrote while a concurrent one missed its writes.
ConflictFree(j) ==
  /\ \A i \in Changed(j) \cup Locked(j) : db.inc[i] = tx[j].snapshot.inc[i]
  /\ \A a \in AttachedBy(j) : db.in[a] = tx[j].snapshot.in[a]
  /\ \/ \A a \in Range(AlertsOf[j]) :
          Candidates(db, a, raised[j]) = Candidates(tx[j].snapshot, a, raised[j])
     \/ \A k \in tx[j].others : \A b \in Range(AlertsOf[k]) :
          Candidates(Result(j), b, raised[k]) \cap Changed(j) = {}

\* What was changed is written, the rest is as others left it.
Merge(j) ==
  LET s == tx[j].snapshot
      r == Result(j)
  IN [inc |-> [i \in Alert |-> IF i \in Changed(j) THEN r.inc[i] ELSE db.inc[i]],
      in |-> [a \in Alert |-> IF a \in AttachedBy(j) THEN r.in[a] ELSE db.in[a]],
      links |-> db.links \cup r.links, rows |-> db.rows \cup r.rows,
      journal |-> [i \in Alert |->
        IF i \notin Changed(j) THEN db.journal[i]
        ELSE [db.journal[i] EXCEPT
                !.alerts = @ \o SubSeq(r.journal[i].alerts, Len(s.journal[i].alerts) + 1,
                                       Len(r.journal[i].alerts)),
                !.status = @ \o SubSeq(r.journal[i].status, Len(s.journal[i].status) + 1,
                                       Len(r.journal[i].status))]]]

Running == {j \in Job : pc[j] = "running"}

\* The transaction's statements, on the snapshot of the first one.
Execute(j) ==
  tx' = [tx EXCEPT ![j] = [snapshot |-> db, others |-> {},
                           result |-> Correlate(db, j, raised'[j], at'[j])]]

Correlated == {j \in Job : \E a \in Range(AlertsOf[j]) : db.in[a] # None}

Taken(j) ==
  /\ pc[j] = "waiting" /\ Cardinality(Running) < Workers
  /\ \A a \in Range(AlertsOf[j]) : \A e \in EventsOf[a] : TimeOf[e] <= now
  /\ pc' = [pc EXCEPT ![j] = "running"]

\* The worker takes the job; the alerts are raised by its first attempt.  A
\* replay changes nothing, whatever its time.
Begin(j) ==
  /\ Taken(j)
  /\ tries' = [tries EXCEPT ![j] = 1]
  /\ at' = [at EXCEPT ![j] = IF j \in Correlated THEN @ ELSE now]
  /\ raised' = [raised EXCEPT ![j] = IF @ < 0 THEN now ELSE @]
  /\ Execute(j)
  /\ UNCHANGED <<db, now, boundVars>>

\* mergeRetryOptions: the attempts an operation has.
LastTry(j) == tries[j] = MaxTries

\* The attempt comes to its end; the unit of work may go on to the next one.
Ended(j) ==
  /\ pc[j] = "running"
  /\ tries' = [tries EXCEPT ![j] = IF ConflictFree(j) \/ LastTry(j) THEN 0 ELSE @ + 1]

Commit(j) ==
  /\ Ended(j) /\ ConflictFree(j)
  /\ db' = Merge(j)
  /\ pc' = [pc EXCEPT ![j] = "done"]
  /\ tx' = [k \in Job |-> IF k = j THEN NoTx
                          ELSE IF k \in Running THEN [tx[k] EXCEPT !.others = @ \cup {j}]
                          ELSE tx[k]]
  /\ UNCHANGED <<at, raised, now, boundVars>>

\* A serialization failure: the unit of work tries again, then the job fails
\* and is handed out again.
Retry(j) ==
  /\ Ended(j) /\ ~ConflictFree(j)
  /\ UNCHANGED <<db, at, raised, now, boundVars>>
  /\ IF tries'[j] > 0
     THEN Execute(j) /\ UNCHANGED pc
     ELSE pc' = [pc EXCEPT ![j] = "waiting"] /\ tx' = [tx EXCEPT ![j] = NoTx]

\* The attempt ends in a timeout, an error or a crash.
Abort(j) ==
  /\ pc[j] = "running" /\ faults < MaxFaults
  /\ faults' = faults + 1
  /\ pc' = [pc EXCEPT ![j] = "waiting"] /\ tries' = [tries EXCEPT ![j] = 0]
  /\ tx' = [tx EXCEPT ![j] = NoTx]
  /\ UNCHANGED <<db, at, raised, now, commands>>

\* The worker died after the commit; the job is processed once more.
Redeliver(j) ==
  /\ pc[j] = "done" /\ faults < MaxFaults
  /\ faults' = faults + 1
  /\ pc' = [pc EXCEPT ![j] = "waiting"]
  /\ UNCHANGED <<db, tries, tx, at, raised, now, commands>>

-----------------------------------------------------------------------------
(* Commands of analysts.                                                   *)

Command(i) ==
  /\ db.inc[i].status # None /\ UNCHANGED <<jobVars, now, faults>>

\* Resolve is not counted: an incident is under investigation by a command.
Counted == commands < MaxCommands /\ commands' = commands + 1

AllowedTransitions ==
  [open |-> {"investigating", "closed"}, investigating |-> {"resolved", "open"},
   resolved |-> {"closed", "investigating"}, closed |-> {}]

\* transitionTimestamps: an incident closed while open was never resolved.
ToStatus(i, s) ==
  [Audited(db, i, "status", db.inc[i].status, s) EXCEPT
     !.inc[i].status = s,
     !.inc[i].resolvedAt = (s = "resolved" \/ (s = "closed" /\ @)),
     !.inc[i].closedAt = (s = "closed")]

TransitionStatus(i) ==
  /\ Command(i) /\ Counted
  /\ \E s \in AllowedTransitions[db.inc[i].status] : db' = ToStatus(i, s)

\* With a note or without.
Resolve(i) ==
  /\ Command(i) /\ UNCHANGED commands
  /\ db.inc[i].status = "investigating"
  /\ \E n \in {0, 1} : db' = [ToStatus(i, "resolved") EXCEPT !.journal[i].notes = @ + n]

\* An assignee that is there already is no change, and not audited.
Assign(i) ==
  /\ Command(i) /\ Counted
  /\ \E u \in User \cup {None} :
       /\ db.inc[i].assignee # u
       /\ db' = [Audited(db, i, "assignee", db.inc[i].assignee, u)
                   EXCEPT !.inc[i].assignee = u]

AddNote(i) ==
  /\ Command(i) /\ Counted
  /\ db' = [db EXCEPT !.journal[i].notes = @ + 1]

Tick ==
  /\ now < MaxTime
  /\ now' = now + 1
  /\ UNCHANGED <<db, jobVars, boundVars>>

AllDone == (\A j \in Job : pc[j] = "done") /\ now = MaxTime /\ UNCHANGED vars

Analyst == \E i \in Alert : TransitionStatus(i) \/ Resolve(i) \/ Assign(i) \/ AddNote(i)

Next ==
  \/ \E j \in Job : Begin(j) \/ Commit(j) \/ Retry(j) \/ Abort(j) \/ Redeliver(j)
  \/ Analyst \/ Tick \/ AllDone

Spec == Init /\ [][Next]_vars

\* Workers go on, a job that failed is handed out again, time passes.
FairSpec ==
  /\ Spec /\ WF_vars(Tick)
  /\ \A j \in Job : WF_tries(Ended(j)) /\ SF_pc(Taken(j))

-----------------------------------------------------------------------------
(* Properties.                                                             *)

Existing == {i \in Alert : db.inc[i].status # None}

\* The counters, the entities and the interval of an incident say what is
\* attached and linked, whichever transactions wrote them.
CountersAgree ==
  \A i \in Existing :
    LET times == {TimeOf[e] : e \in LinkedTo(db, i)}
    IN /\ db.inc[i].alerts = Cardinality(Attached(db, i))
       /\ db.inc[i].events = Cardinality(LinkedTo(db, i))
       /\ LinkedTo(db, i) = UNION {EventsOf[a] : a \in Attached(db, i)}
       /\ db.inc[i].entities = UNION {Entities[a] : a \in Attached(db, i)}
       /\ db.inc[i].first = Min(times) /\ db.inc[i].last = Max(times)

\* Clients are told of each alert that joined an incident exactly once, as the
\* creation or as an update, however often the job was processed.
OneNotificationPerAlert ==
  \A a \in Alert :
    {<<r[1], r[2]>> : r \in {r \in db.rows : r[3] = a /\ r[2] # "INCIDENT_STATUS_CHANGED"}} =
      IF db.in[a] = None THEN {}
      ELSE {<<db.in[a], IF db.in[a] = a THEN "INCIDENT_CREATED" ELSE "INCIDENT_UPDATED">>}

\* The audit log of an incident is a chain: each change starts from the state
\* the one before it left, and the last one left the present state.
Chained(s, first, last) ==
  /\ \A k \in 1..Len(s) : s[k][1] = IF k = 1 THEN first ELSE s[k-1][2]
  /\ last = IF s = <<>> THEN first ELSE s[Len(s)][2]
AuditChained ==
  \A i \in Existing :
    /\ Chained(db.journal[i].alerts, 0, db.inc[i].alerts)
    /\ Chained(db.journal[i].status, "open", db.inc[i].status)
    /\ Chained(db.journal[i].assignee, None, db.inc[i].assignee)

\* All that is written about an incident agrees, whatever ran beside it.
IncidentsAgree == CountersAgree /\ OneNotificationPerAlert /\ AuditChained

\* Whatever the interleaving, retries, crashes and redeliveries: as long as no
\* analyst took part, the incidents are those of the committed jobs processed
\* whole, one after the other, in some order.
Serializable ==
  commands = 0 =>
    \E order \in SetToSeqs(Correlated) :
      LET after[n \in 0..Len(order)] ==
            IF n = 0 THEN Empty
            ELSE Correlate(after[n-1], order[n], raised[order[n]], at[order[n]])
          d == after[Len(order)]
      IN <<db.inc, db.in, db.links, db.rows>> = <<d.inc, d.in, d.links, d.rows>>

\* There is a time when every alert with an entity has joined an incident.
EveryAlertAttached == <>(\A a \in Alert : Entities[a] # {} => db.in[a] # None)
=============================================================================
