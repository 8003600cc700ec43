--------------------------- MODULE FeatureHistory ---------------------------
(***************************************************************************)
(* The features a processing job adds to its events: counts and ratios     *)
(* over windows of earlier events, which Redis keeps in sorted sets.  Each  *)
(* store is one script that Redis runs as a step of its own; the answer to  *)
(* an event is kept as a snapshot, so that a job that runs again gets what  *)
(* it got before.  A call that fails leaves the event its neutral values.   *)
(*                                                                         *)
(* Windows are counted in the times of the events, the life of a key in    *)
(* the time of the Redis clock `now'.                                      *)
(***************************************************************************)
EXTENDS Integers, Sequences, FiniteSets, FiniteSetsExt

CONSTANTS
  Worker,       \* processing workers, one job each
  Scenario,     \* what the Collector may have sent: event -> its fields
  Minute, TenMinutes, Hour, Day, Week,  \* the windows, in units of the model
  Instants,     \* bound: the instants the clock shows
  MaxFaults     \* bound: calls of Redis that fail and workers that die

\* A scenario names its events by numbers, which stand for their identifiers.
ASSUME FeatureAssumption ==
  /\ {Minute, TenMinutes, Hour, Day, Week} \subseteq Nat \ {0}
  /\ Minute <= Day /\ TenMinutes <= Hour
  /\ Instants \subseteq Int /\ \E n \in Instants : \A m \in Instants : n <= m
  /\ \A f \in Scenario : \A e \in DOMAIN f : f[e].time \in Int

Missing == "none"

\* The plugins, and their order.
Rank == [temporal |-> 1, authentication |-> 2, process |-> 3, network |-> 4]
Plugin == DOMAIN Rank

VARIABLES
  facts,     \* event -> [time, batch, src, dst, user, class, outcome, host, name, parent, port]
  now,       \* the clock of Redis
  history,   \* members of the sorted sets: pairs <<key, event>>, scored by event time
  touched,   \* key -> when its expiry was last set
  snapshots, \* <<plugin, event>> -> the answer that was cached
  running,   \* worker -> the job it runs
  enriched,  \* batch -> the features its first complete job gave its events
  log,       \* ghost: <<plugin, event, when>>, in the order the scripts counted them
  faults

featureVars == <<facts, now, history, touched, snapshots, running, enriched, log, faults>>

Event == DOMAIN facts
Batch == {facts[e].batch : e \in Event}
T(e) == facts[e].time
Free == [batch |-> Missing, todo |-> {}, got |-> <<>>]

\* The function f with the value v on S.
With(f, S, v) == [x \in S \cup DOMAIN f |-> IF x \in S THEN v ELSE f[x]]

-----------------------------------------------------------------------------
(* Sorted sets.                                                            *)

WindowOf(key) ==
  CASE key[1] \in {"destination-ips", "source-users"} -> TenMinutes
    [] key[1] \in {"user-events", "attempts", "failures"} -> Hour
    [] key[1] = "success-sources" -> Week
    [] OTHER -> Day

\* What a script finds: the members of the keys that have not expired.
Live == {m \in history : now < touched[m[1]] + WindowOf(m[1])}

Members(h, key) == {m[2] : m \in {n \in h : n[1] = key}}
Add(h, key, e) == h \cup {<<key, e>>}
Prune(h, key, e) == {m \in h : m[1] = key => T(m[2]) > T(e) - WindowOf(key)}
Slide(h, key, e) == Prune(Add(h, key, e), key, e)

\* Mutant: a window that includes the instant at which it opens.
WithinClosed(h, key, e, width) == {f \in Members(h, key) : T(f) \in T(e) - width..T(e)}

Within(h, key, e, width) == {f \in Members(h, key) : T(f) \in T(e) - width + 1..T(e)}

Count(h, key, e, width) == Cardinality(Within(h, key, e, width))

-----------------------------------------------------------------------------
(* The scripts: the sets after it, the keys whose life it renews, and the   *)
(* values it answers.  A ratio is the pair of its terms.                    *)

HasSource(e) == facts[e].src # Missing
HasUser(e) == facts[e].user # Missing

SourceKey(kind, e) == <<kind, facts[e].src>>
UserKey(kind, e) == <<kind, facts[e].user>>

SinceLast(h, e) ==
  LET earlier == {f \in Members(h, SourceKey("source-events", e)) : T(f) <= T(e)} IN
    IF HasSource(e) /\ earlier # {} THEN T(e) - Max({T(f) : f \in earlier}) ELSE -1

TemporalKeys(e) ==
  {SourceKey(kind, e) :
     kind \in IF HasSource(e)
              THEN {"source-events", "source-time"}
                   \cup (IF facts[e].dst # Missing THEN {"destination-ips"} ELSE {})
                   \cup (IF HasUser(e) THEN {"source-users"} ELSE {})
              ELSE {}}
  \cup (IF HasUser(e) THEN {UserKey("user-events", e)} ELSE {})

\* The statistics of the time of day are not a window: nothing leaves them.
TemporalScript(h, e) ==
  LET K(kind) == SourceKey(kind, e)
      keys == TemporalKeys(e)
      added == h \cup {<<k, e>> : k \in keys}
      after == {m \in added : m[1] \in keys /\ m[1][1] # "source-time"
                                => T(m[2]) > T(e) - WindowOf(m[1])}
      before == {f \in Members(h, K("source-events")) : T(f) \in T(e) - Day..T(e)}
      perMinute == IF HasSource(e) THEN Count(after, K("source-events"), e, Minute) ELSE 0
      distinct(kind, field) ==
        IF K(kind) \in keys
        THEN Cardinality({facts[f][field] : f \in Within(after, K(kind), e, TenMinutes)}) ELSE 1
  IN [sets |-> after, keys |-> keys,
      values |->
        [since |-> SinceLast(h, e),
         deviates_from |-> IF HasSource(e) /\ Cardinality(Members(h, K("source-time"))) >= 2
                           THEN Members(h, K("source-time")) ELSE {},
         per_minute |-> perMinute,
         per_hour |-> IF HasUser(e) THEN Count(after, UserKey("user-events", e), e, Hour) ELSE 0,
         destinations |-> distinct("destination-ips", "dst"),
         users |-> distinct("source-users", "user"),
         expected |-> IF HasSource(e) THEN Cardinality(before) ELSE 0]]

AuthenticationScript(h, e) ==
  LET attempts == UserKey("attempts", e)
      failed == UserKey("failures", e)
      sources == UserKey("success-sources", e)
      h1 == Slide(h, attempts, e)
      h2 == IF facts[e].outcome = "failure" THEN Slide(h1, failed, e) ELSE Prune(h1, failed, e)
      known == {facts[f].src : f \in Within(h2, sources, e, Week)}
      h3 == IF facts[e].outcome = "success" THEN Add(h2, sources, e) ELSE h2
  IN [sets |-> IF HasSource(e) THEN Prune(h3, sources, e) ELSE h2,
      keys |-> {attempts, failed} \cup (IF HasSource(e) THEN {sources} ELSE {}),
      values |-> [failed |-> Count(h2, failed, e, TenMinutes),
                  ratio |-> <<Count(h2, failed, e, Hour), Count(h2, attempts, e, Hour)>>,
                  new_source |-> HasSource(e) /\ facts[e].src \notin known]]

\* How rare the event is among those before it: 1 - named / all.
Rarity(h, all, named, e) ==
  LET total == Count(h, all, e, Day) IN
    IF total = 0 THEN <<1, 1>> ELSE <<total - Count(h, named, e, Day), total>>

ProcessScript(h, e) ==
  LET all == <<"all", facts[e].host>>
      named == <<"named", facts[e].host, facts[e].name>>
      pair == <<"pair", facts[e].host, facts[e].parent, facts[e].name>>
      keys == {all, named} \cup (IF facts[e].parent # Missing THEN {pair} ELSE {})
      pruned == {m \in h : m[1] \in keys => T(m[2]) > T(e) - Day}
  IN [sets |-> pruned \cup {<<k, e>> : k \in keys}, keys |-> keys,
      values |-> [rarity |-> Rarity(pruned, all, named, e),
                  anomaly |-> facts[e].parent # Missing /\ Within(pruned, pair, e, Day) = {}]]

NetworkScript(h, e) ==
  LET all == <<"ports", facts[e].src>>
      port == <<"port", facts[e].src, facts[e].port>>
      pruned == Prune(Prune(h, all, e), port, e)
  IN [sets |-> Add(Add(pruned, all, e), port, e), keys |-> {all, port},
      values |-> [rarity |-> Rarity(pruned, all, port, e)]]

Script(plugin, h, e) ==
  CASE plugin = "temporal" -> TemporalScript(h, e)
    [] plugin = "authentication" -> AuthenticationScript(h, e)
    [] plugin = "process" -> ProcessScript(h, e)
    [] plugin = "network" -> NetworkScript(h, e)

\* decodeSnapshot: a ratio outside 0 to 1 is refused.
RatioSound(values) ==
  LET Sound(r) == r[2] = 0 \/ r[1] \in 0..r[2] IN
    /\ "ratio" \in DOMAIN values => Sound(values.ratio)
    /\ "rarity" \in DOMAIN values => Sound(values.rarity)

\* The time since the last event is none, written -1 here, or no negative one.
SinceSound(values) == "since" \in DOMAIN values => values.since >= -1

Decodes(values) == RatioSound(values) /\ SinceSound(values)

-----------------------------------------------------------------------------
(* The job.                                                                *)

Authenticates(e) ==
  facts[e].class = 3002 /\ facts[e].outcome \in {"success", "failure"} /\ HasUser(e)
RunsProcess(e) == facts[e].class = 1007 /\ facts[e].name # Missing /\ facts[e].host # Missing
UsesPort(e) == facts[e].class = 4001 /\ HasSource(e) /\ facts[e].port # Missing

Applies(plugin, e) ==
  CASE plugin = "temporal" -> TRUE
    [] plugin = "authentication" -> Authenticates(e)
    [] plugin = "process" -> RunsProcess(e)
    [] plugin = "network" -> UsesPort(e)

Calls(b) == {c \in Plugin \X Event : facts[c[2]].batch = b /\ Applies(c[1], c[2])}

\* One plugin after another; each records the events of the batch in the order
\* of their times, those of an equal time in the order of their identifiers.
Precedes(c, d) ==
  \/ Rank[c[1]] < Rank[d[1]]
  \/ c[1] = d[1] /\ (T(c[2]) < T(d[2]) \/ (T(c[2]) = T(d[2]) /\ c[2] < d[2]))

IsNext(w, c) == c \in running[w].todo /\ \A d \in running[w].todo \ {c} : Precedes(c, d)

\* A batch is claimed until an extraction finishes.  A job that fails in a later
\* step extracts again: it finds a snapshot for every call that was counted and
\* counts the rest, as a job does that died after its last call.
Claim(w, b) ==
  /\ running[w] = Free
  /\ b \notin DOMAIN enriched
  /\ \A v \in Worker : running[v].batch # b
  /\ \A e \in Event : facts[e].batch = b => T(e) <= now
  /\ running' = [running EXCEPT ![w] = [batch |-> b, todo |-> Calls(b), got |-> <<>>]]
  /\ UNCHANGED <<facts, now, history, touched, snapshots, enriched, log, faults>>

\* Redis runs the script of call c, or finds its snapshot.  The scripts let a
\* snapshot expire after seven days; a job is not repeated so late, and here
\* snapshots stay.
Count1st(c) ==
  LET done == Script(c[1], Live, c[2]) IN
    /\ history' = done.sets
    /\ touched' = With(touched, done.keys, now)
    /\ snapshots' = With(snapshots, {c}, done.values)
    /\ log' = Append(log, <<c[1], c[2], now>>)

Evaluate(c) ==
  IF c \in DOMAIN snapshots
  THEN UNCHANGED <<history, touched, snapshots, log>>
  ELSE Count1st(c)

\* Mutant: the script does not look for its snapshot.
EvaluateAgain(c) == Count1st(c)

RunScript(c) == Evaluate(c)

Answered(w, c, values) ==
  running' = [running EXCEPT ![w] = [batch |-> @.batch, todo |-> @.todo \ {c},
                                     got |-> With(@.got, {c}, values)]]

\* The answer is merged into the features of the event, or refused.
Record(w) ==
  /\ \E c \in running[w].todo :
       /\ IsNext(w, c)
       /\ RunScript(c)
       /\ Answered(w, c, IF Decodes(snapshots'[c]) THEN snapshots'[c] ELSE [neutral |-> TRUE])
  /\ UNCHANGED <<facts, now, enriched, faults>>

\* The call fails before Redis runs the script, or its answer is lost.
RecordFails(w) ==
  /\ faults < MaxFaults
  /\ faults' = faults + 1
  /\ \E c \in running[w].todo :
       /\ IsNext(w, c)
       /\ UNCHANGED <<history, touched, snapshots, log>> \/ RunScript(c)
       /\ Answered(w, c, [neutral |-> TRUE])
  /\ UNCHANGED <<facts, now, enriched>>

Finish(w) ==
  /\ running[w] # Free /\ running[w].todo = {}
  /\ enriched' = With(enriched, {running[w].batch}, running[w].got)
  /\ running' = [running EXCEPT ![w] = Free]
  /\ UNCHANGED <<facts, now, history, touched, snapshots, log, faults>>

\* The queue gives the job to another worker.  (Before its first call it is as
\* if the job had not been claimed.)
Crash(w) ==
  /\ running[w].got # <<>> /\ faults < MaxFaults
  /\ faults' = faults + 1
  /\ running' = [running EXCEPT ![w] = Free]
  /\ UNCHANGED <<facts, now, history, touched, snapshots, enriched, log>>

\* Bound: the calls of a job that does not crash take less than a unit.
ClockAdvances ==
  /\ \A w \in Worker : running[w].got = <<>>
  /\ now' \in {n \in Instants : n > now}
  /\ UNCHANGED <<facts, history, touched, snapshots, running, enriched, log, faults>>

FeatureInit ==
  /\ facts \in Scenario
  /\ now = Min(Instants) /\ history = {} /\ touched = <<>> /\ snapshots = <<>>
  /\ running = [w \in Worker |-> Free]
  /\ enriched = <<>> /\ log = <<>> /\ faults = 0

Step(w) == Record(w) \/ Finish(w) \/ (\E b \in Batch : Claim(w, b))

FeatureNext ==
  \/ \E w \in Worker : Step(w) \/ RecordFails(w) \/ Crash(w)
  \/ ClockAdvances

FeatureSpec == FeatureInit /\ [][FeatureNext]_featureVars

-----------------------------------------------------------------------------
(* Properties.                                                             *)

\* Reference: the events that plugin p counted before e, and when.
Position(p, e) == CHOOSE i \in DOMAIN log : log[i][1] = p /\ log[i][2] = e
Before(p, e) == {i \in 1..Position(p, e) - 1 : log[i][1] = p}
EventsBefore(p, e) == {log[i][2] : i \in Before(p, e)}
Delay(i) == log[i][3] - T(log[i][2])

\* Events came in the order of their times, and none waited longer than those
\* before it.
InOrder(p, e) ==
  \A i \in Before(p, e) : T(log[i][2]) <= T(e) /\ Delay(Position(p, e)) <= Delay(i)

\* Of the events S counted before e: those of the window, and those that agree
\* with e in a field.
Recent(S, e, width) == {f \in S : T(f) > T(e) - width}
Sharing(field, e, S) == {f \in S : facts[f][field] = facts[e][field]}

TemporalExact(S, e, v) ==
  LET source(w) == Sharing("src", e, Recent(S, e, w) \cup {e})
      users == Sharing("user", e, Recent(S, e, Hour) \cup {e})
  IN /\ HasSource(e) => v.per_minute = Cardinality(source(Minute))
     /\ HasUser(e) => v.per_hour = Cardinality(users)
     /\ HasSource(e) /\ HasUser(e) =>
          v.users = Cardinality({facts[f].user : f \in source(TenMinutes)} \ {Missing})
     /\ HasSource(e) /\ facts[e].dst # Missing =>
          v.destinations = Cardinality({facts[f].dst : f \in source(TenMinutes)} \ {Missing})

AuthenticationExact(S, e, v) ==
  LET tries(w) == Sharing("user", e, Recent(S, e, w) \cup {e})
      fails(w) == {f \in tries(w) : facts[f].outcome = "failure"}
  IN /\ v.failed = Cardinality(fails(TenMinutes))
     /\ v.ratio = <<Cardinality(fails(Hour)), Cardinality(tries(Hour))>>
     /\ HasSource(e) =>
          v.new_source = ~\E f \in (tries(Week) \ fails(Week)) \ {e} : facts[f].src = facts[e].src

RarityExact(scope, field, S, e, v) ==
  LET all == Sharing(scope, e, Recent(S, e, Day)) IN
    v.rarity = IF all = {} THEN <<1, 1>>
               ELSE <<Cardinality(all) - Cardinality(Sharing(field, e, all)), Cardinality(all)>>

Exact(p, S, e, v) ==
  CASE p = "temporal" -> TemporalExact(S, e, v)
    [] p = "authentication" -> AuthenticationExact(S, e, v)
    [] p = "process" -> RarityExact("host", "name", S, e, v)
    [] p = "network" -> RarityExact("src", "port", S, e, v)

ExactAnswer(c) == Exact(c[1], EventsBefore(c[1], c[2]), c[2], snapshots[c])

\* The answer to an event is the count of the events recorded before it in its
\* window, when they came in order.
AnswersExact == \A c \in DOMAIN snapshots : InOrder(c[1], c[2]) => ExactAnswer(c)

\* The documented meaning of the rarity of a process, without that condition.
RarityAsDocumented ==
  \A c \in DOMAIN snapshots : c[1] = "process" => ExactAnswer(c)

\* What a job gives its events is the snapshot or the neutral values, and a
\* ratio in it is one, even when late events made the sets disagree.
FeaturesSound ==
  \A b \in DOMAIN enriched : \A c \in DOMAIN enriched[b] :
    "neutral" \in DOMAIN enriched[b][c]
    \/ (enriched[b][c] = snapshots[c] /\ RatioSound(enriched[b][c]))

\* However the batches are spread over the workers, whatever fails, is retried
\* or expires, the sorted sets hold what was counted: an answer in order is the
\* one its plugin is meant to give, and a job gives its events that or nothing.
HistoryExact == AnswersExact /\ FeaturesSound
=============================================================================
