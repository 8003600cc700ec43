---------------------------- MODULE AlertDetection ---------------------------
(***************************************************************************)
(* Rule detection under job retries.  A worker takes a batch, writes its   *)
(* events to MongoDB, evaluates a match rule and a count rule on them,     *)
(* inserts the alerts in PostgreSQL and correlates them into incidents.    *)
(* Whatever throws on the way ends the attempt, and a later attempt does   *)
(* everything again.  The count rule keeps its window and its cooldown     *)
(* lease in Redis, shared by all workers.                                  *)
(*                                                                         *)
(* One organization, one count rule and one entity (every rule and entity  *)
(* has Redis keys of its own).  Time is kept as ages and remaining times,  *)
(* so the clock needs no bound.  An alert is its rule and its matched      *)
(* events: its id is a hash of just these.                                 *)
(***************************************************************************)
EXTENDS Integers, FiniteSets, Sequences, Functions

CONSTANTS
  Size,         \* batch -> number of its events that the count rule matches
  MatchEvents,  \* the events the match rule matches
  Threshold,    \* rule.count.threshold
  Window,       \* rule.count.timeWindowSeconds, in ticks
  Cooldown,     \* rule.cooldownSeconds, in ticks; 0: no cooldown
  Workers,      \* jobs processed at the same time
  MaxFaults     \* bound: failed attempts that the job itself does not cause

Batch == DOMAIN Size
Event == UNION {{<<b, i>> : i \in 1..Size[b]} : b \in Batch}

ASSUME ConstantsAssumption ==
  /\ IsFiniteSet(Batch) /\ Size \in [Batch -> Nat]
  /\ MatchEvents \subseteq Event
  /\ Threshold \in Nat \ {0} /\ Window \in Nat \ {0} /\ Cooldown \in Nat
  /\ Workers \in Nat \ {0} /\ MaxFaults \in Nat

VARIABLES
  age,         \* event -> ticks since its score in the sorted set; Window: not in it
  lease,       \* the cooldown key: its owner and its remaining time
  pc,          \* batch -> next step of its job
  next,        \* batch -> the event the count evaluator is at
  candidate,   \* batch -> the snapshot that reached the threshold
  alerts,      \* batch -> alerts of this attempt, in order
  normalized,  \* events in MongoDB
  stored,      \* alerts in PostgreSQL
  linked,      \* alerts the correlation took over: they have an incident, or
               \* stand alone where no entity is known
  emitted,     \* history: batch -> alerts that some attempt emitted
  quiet,       \* history: ticks since a count alert was first emitted
  faults

redisVars == <<age, lease>>
jobVars == <<pc, next, candidate, alerts>>
dbVars == <<normalized, stored, linked>>
historyVars == <<emitted, quiet>>
vars == <<redisVars, jobVars, dbVars, historyVars, faults>>

Alert == [rule : {"match", "count"}, events : SUBSET Event]
MatchAlert(e) == [rule |-> "match", events |-> {e}]
CountAlert(S) == [rule |-> "count", events |-> S]

NoOwner == [rule |-> "none", events |-> {}]
EventsOf(b) == {e \in Event : e[1] = b}

Working == {"store", "match", "record", "acquire", "persist", "correlate"}

Init ==
  /\ age = [e \in Event |-> Window]
  /\ lease = [owner |-> NoOwner, left |-> 0]
  /\ pc = [b \in Batch |-> "waiting"]
  /\ next = [b \in Batch |-> 1]
  /\ candidate = [b \in Batch |-> {}]
  /\ alerts = [b \in Batch |-> <<>>]
  /\ normalized = {} /\ stored = {} /\ linked = {}
  /\ emitted = [b \in Batch |-> {}] /\ quiet = Cooldown
  /\ faults = 0

-----------------------------------------------------------------------------
(* An attempt.  Its local state ends with it.                              *)

EndAttempt(b, outcome) ==
  /\ pc' = [pc EXCEPT ![b] = outcome]
  /\ next' = [next EXCEPT ![b] = 1]
  /\ candidate' = [candidate EXCEPT ![b] = {}]
  /\ alerts' = [alerts EXCEPT ![b] = <<>>]

Begin(b) ==
  /\ pc[b] = "waiting"
  /\ Cardinality({c \in Batch : pc[c] \in Working}) < Workers
  /\ pc' = [pc EXCEPT ![b] = "store"]
  /\ UNCHANGED <<redisVars, next, candidate, alerts, dbVars, historyVars, faults>>

\* Mutant: events that were in MongoDB already are not evaluated again.
StoreEventsSkipsReplays(b) ==
  /\ pc[b] = "store"
  /\ normalized' = normalized \cup EventsOf(b)
  /\ pc' = [pc EXCEPT ![b] = IF EventsOf(b) \subseteq normalized
                             THEN "persist" ELSE "match"]
  /\ UNCHANGED <<redisVars, next, candidate, alerts, stored, linked, historyVars, faults>>

\* createManyIfAbsent: an equal event that is there already is a success.
StoreEvents(b) ==
  /\ pc[b] = "store"
  /\ normalized' = normalized \cup EventsOf(b)
  /\ pc' = [pc EXCEPT ![b] = "match"]
  /\ UNCHANGED <<redisVars, next, candidate, alerts, stored, linked, historyVars, faults>>

\* The match evaluator.  Its cooldown key holds the event id, so the lease is
\* free or owned by the same alert.
MatchRules(b) ==
  /\ pc[b] = "match"
  /\ \E list \in [1..Cardinality(EventsOf(b) \cap MatchEvents) -> EventsOf(b) \cap MatchEvents] :
       /\ \A i, j \in DOMAIN list : i < j => list[i][2] < list[j][2]
       /\ alerts' = [alerts EXCEPT ![b] = [i \in DOMAIN list |-> MatchAlert(list[i])]]
  /\ emitted' = [emitted EXCEPT ![b] = @ \cup {MatchAlert(e) : e \in EventsOf(b) \cap MatchEvents}]
  /\ pc' = [pc EXCEPT ![b] = "record"]
  /\ UNCHANGED <<redisVars, next, candidate, dbVars, quiet, faults>>

\* What the script of the count window returns: the expired members are
\* pruned, the event is added unless it is there.
Snapshot(e) == {d \in Event : age[d] < Window} \cup {e}

\* The count evaluator at its next event.  Only the exact threshold counts.
RecordMatch(b) ==
  /\ pc[b] = "record" /\ next[b] <= Size[b]
  /\ LET e == <<b, next[b]>> IN
       /\ age' = [age EXCEPT ![e] = IF @ < Window THEN @ ELSE 0]
       /\ IF Cardinality(Snapshot(e)) = Threshold
          THEN /\ candidate' = [candidate EXCEPT ![b] = Snapshot(e)]
               /\ pc' = [pc EXCEPT ![b] = "acquire"]
               /\ UNCHANGED next
          ELSE /\ next' = [next EXCEPT ![b] = @ + 1]
               /\ UNCHANGED <<candidate, pc>>
  /\ UNCHANGED <<lease, alerts, dbVars, historyVars, faults>>

\* Mutant: the owner is not compared; a lease of another alert stops nothing.
MayEmitAny(a) == TRUE

\* The cooldown script: the key is absent or the same alert owns it.
MayEmit(a) == lease.left = 0 \/ lease.owner = a

TryAcquire(b) ==
  /\ pc[b] = "acquire"
  /\ LET a == CountAlert(candidate[b]) IN
       IF Cooldown = 0 \/ MayEmit(a)
       THEN /\ alerts' = [alerts EXCEPT ![b] = Append(@, a)]
            /\ emitted' = [emitted EXCEPT ![b] = @ \cup {a}]
            /\ quiet' = IF \E c \in Batch : a \in emitted[c] THEN quiet ELSE 0
            /\ lease' = IF lease.left = 0 /\ Cooldown > 0
                        THEN [owner |-> a, left |-> Cooldown] ELSE lease
       ELSE UNCHANGED <<alerts, emitted, quiet, lease>>
  /\ next' = [next EXCEPT ![b] = @ + 1]
  /\ candidate' = [candidate EXCEPT ![b] = {}]
  /\ pc' = [pc EXCEPT ![b] = "record"]
  /\ UNCHANGED <<age, dbVars, faults>>

Evaluated(b) ==
  /\ pc[b] = "record" /\ next[b] > Size[b]
  /\ pc' = [pc EXCEPT ![b] = "persist"]
  /\ UNCHANGED <<redisVars, next, candidate, alerts, dbVars, historyVars, faults>>

\* One INSERT of all the alerts; a row that has the id of one stays as it is.
CreateManyIfAbsent(as) == stored \cup Range(as)

\* One call inserts the alerts of the attempt; the same id twice throws.
PersistAlerts(b) ==
  /\ pc[b] = "persist"
  /\ IF IsInjective(alerts[b])
     THEN /\ stored' = CreateManyIfAbsent(alerts[b])
          /\ pc' = [pc EXCEPT ![b] = "correlate"]
          /\ UNCHANGED <<next, candidate, alerts>>
     ELSE EndAttempt(b, "waiting") /\ UNCHANGED stored
  /\ UNCHANGED <<redisVars, normalized, linked, historyVars, faults>>

\* Every matched event has to be in the batch at hand.
Resolvable(b) == \A a \in Range(alerts[b]) : a.events \subseteq EventsOf(b)

Correlate(b) ==
  /\ pc[b] = "correlate"
  /\ IF Resolvable(b)
     THEN linked' = linked \cup Range(alerts[b]) /\ EndAttempt(b, "completed")
     ELSE UNCHANGED linked /\ EndAttempt(b, "waiting")
  /\ UNCHANGED <<redisVars, normalized, stored, historyVars, faults>>

-----------------------------------------------------------------------------
(* The environment.                                                        *)

\* MongoDB, Redis or PostgreSQL is unavailable, or the worker dies: BullMQ
\* hands the job out again.
Fail(b) ==
  /\ pc[b] \in Working /\ faults < MaxFaults
  /\ faults' = faults + 1
  /\ EndAttempt(b, "waiting")
  /\ UNCHANGED <<redisVars, dbVars, historyVars>>

Tick ==
  /\ age' = [e \in Event |-> IF age[e] < Window THEN age[e] + 1 ELSE Window]
  /\ lease' = IF lease.left <= 1 THEN [owner |-> NoOwner, left |-> 0]
              ELSE [lease EXCEPT !.left = @ - 1]
  /\ quiet' = IF quiet < Cooldown THEN quiet + 1 ELSE Cooldown
  /\ UNCHANGED <<jobVars, dbVars, emitted, faults>>

Attempt(b) ==
  \/ StoreEvents(b) \/ MatchRules(b) \/ RecordMatch(b) \/ TryAcquire(b)
  \/ Evaluated(b) \/ PersistAlerts(b) \/ Correlate(b)

Next == Tick \/ \E b \in Batch : Begin(b) \/ Attempt(b) \/ Fail(b)

Spec == Init /\ [][Next]_vars

\* Workers do not stop in the middle of an attempt, a failed job is handed
\* out again (by BullMQ, then by the intake cycle), time passes.
FairSpec ==
  /\ Spec /\ WF_vars(Tick)
  /\ \A b \in Batch : WF_vars(Attempt(b)) /\ SF_vars(Begin(b))

-----------------------------------------------------------------------------
(* Properties.                                                             *)

\* Two different count alerts of an entity are first emitted at least a
\* cooldown apart, whatever is retried and however many workers there are
\* (detection README: the lease admits its owner again and suppresses a
\* different alert).
CooldownHeld ==
  [][\A b \in Batch : \A a \in emitted'[b] :
       (a.rule = "count" /\ \A c \in Batch : a \notin emitted[c]) => quiet >= Cooldown]_vars

\* A completed job leaves no alert behind that one of its attempts emitted:
\* "a worker retry can finish alert persistence after an earlier partial
\* execution without losing or duplicating an alert".
NoAlertLostAlways ==
  \A b \in Batch : pc[b] = "completed" => emitted[b] \subseteq stored

\* A retry raises the alert again: for a match alert always, for a count alert
\* only when no attempt was cut short or refused, because the window moves on.
Reproducible(a, b) ==
  \/ a.rule = "match"
  \/ faults = 0 /\ \A c \in emitted[b] : c.events \subseteq EventsOf(b)

\* A completed job leaves no reproducible alert behind: what an attempt emitted
\* before it failed, at any step and with any other worker in between, is in
\* PostgreSQL when the job completes, and was correlated into an incident: what
\* a former attempt stored is handed to the correlation again.
NoAlertLost ==
  \A b \in Batch : pc[b] = "completed" =>
    \A a \in emitted[b] : Reproducible(a, b) => a \in stored /\ a \in linked
=============================================================================
