----------------------------- MODULE AiScoring -----------------------------
(***************************************************************************)
(* The scoring of events by the AI engine: the client of the processing    *)
(* worker with its circuit breaker, the engine's answer to a batch, and    *)
(* the results the worker stores and hands to correlation.  A worker runs  *)
(* one job at a time, so the breaker has one caller.                       *)
(*                                                                         *)
(* The clock is only compared with the time at which the circuit opened:   *)
(* the model keeps what has passed since, up to the cooldown.              *)
(***************************************************************************)
EXTENDS Integers, Sequences, SequencesExt, FiniteSets, FiniteSetsExt

CONSTANTS
  Job,               \* the events a job may bring: sequences without repetition
  Version,           \* versions of the model
  Vector,            \* feature vectors an event may have, e.g. full and neutral
  Raw,               \* the model: version -> vector -> event -> raw score
  RawMin, RawMax,    \* the training range of raw scores
  Threshold,         \* from which score an event is anomalous, in thousandths
  BatchSize, FailureThreshold, Cooldown, SuccessThreshold

None == "none"

\* A batch with the same event twice was refused before it became a job.
ASSUME ScoringAssumption ==
  /\ \A events \in Job : events \in Seq(ToSet(events)) /\ IsInjective(events)
  /\ \A v \in Version, f \in Vector, events \in Job :
       \A e \in ToSet(events) : Raw[v][f][e] \in Int
  /\ RawMin \in Int /\ RawMax \in Int /\ RawMin < RawMax /\ Threshold \in 0..1000
  /\ {BatchSize, FailureThreshold, Cooldown, SuccessThreshold} \subseteq Nat \ {0}
  /\ None \notin Version

VARIABLES
  breaker,   \* [state, failures, successes, probe]
  passed,    \* time since the circuit opened, up to Cooldown
  engine,    \* [version, answers]: the model it has loaded, whether it answers in time
  job,       \* the job of the worker
  stored,    \* ai_results: set of [event, version, score]
  alerted,   \* AI alerts that correlation persisted: set of [event, version, score]
  refused,   \* ghost: the client has refused an answer of the engine
  credit     \* ghost: failed requests the engine may still get before it is left alone

vars == <<breaker, passed, engine, job, stored, alerted, refused, credit>>

Closed == [state |-> "closed", failures |-> 0, successes |-> 0, probe |-> FALSE]
Idle == [phase |-> "idle", events |-> <<>>, vector |-> None, rest |-> <<>>, got |-> {},
         fallback |-> FALSE]

-----------------------------------------------------------------------------
(* The engine.                                                             *)

\* ScoreNormalizer: the training range, clipped and turned round, in thousandths.
Clip(x) == Max({RawMin, Min({RawMax, x})})
AnomalyScore(v, f, e) == ((RawMax - Clip(Raw[v][f][e])) * 1000) \div (RawMax - RawMin)

\* The score that is reported is rounded, here to tenths.
Rounded(s) == ((s + 50) \div 100) * 100

Predict(v, f, e) ==
  [event |-> e, score |-> Rounded(AnomalyScore(v, f, e)),
   anomaly |-> AnomalyScore(v, f, e) >= Threshold]

\* Whether the events of a request pass the validation of the engine.  That an
\* identifier has at most 200 characters, and a feature the type of a number,
\* is left out: identifiers and features are abstract.
Valid(events) == events # <<>> /\ Len(events) <= 100 /\ IsInjective(events)

Flagged(predictions) == Cardinality({i \in DOMAIN predictions : predictions[i].anomaly})

\* Mutant: anomalies are counted by the score that is reported.
AnswerRecounted(v, f, events) ==
  LET predictions == [i \in DOMAIN events |-> Predict(v, f, events[i])] IN
    [model |-> v, predictions |-> predictions, processed |-> Len(predictions),
     anomalies |-> Cardinality({i \in DOMAIN predictions : predictions[i].score >= Threshold})]

Answer(v, f, events) ==
  LET predictions == [i \in DOMAIN events |-> Predict(v, f, events[i])] IN
    [model |-> v, predictions |-> predictions, processed |-> Len(predictions),
     anomalies |-> Flagged(predictions)]

\* The engine loads a model, starts without one, or stops answering in time.
EngineChanges ==
  /\ engine' \in [version : Version \cup {None}, answers : BOOLEAN] \ {engine}
  /\ UNCHANGED <<breaker, passed, job, stored, alerted, refused, credit>>

Responds == engine.answers /\ engine.version # None

-----------------------------------------------------------------------------
(* The circuit breaker.                                                    *)

\* refreshState
Refreshed ==
  IF breaker.state = "open" /\ passed >= Cooldown
  THEN [breaker EXCEPT !.state = "half-open", !.successes = 0, !.probe = FALSE]
  ELSE breaker

Open == [state |-> "open", failures |-> 0, successes |-> 0, probe |-> FALSE]

\* Mutant: a success leaves the probe taken.
AfterSuccessKeepingProbe(b) ==
  IF b.state # "half-open" THEN [b EXCEPT !.failures = 0]
  ELSE IF b.successes + 1 >= SuccessThreshold THEN Closed
  ELSE [b EXCEPT !.successes = @ + 1]

\* reportSuccess
AfterSuccess(b) ==
  IF b.state # "half-open" THEN [b EXCEPT !.failures = 0]
  ELSE IF b.successes + 1 >= SuccessThreshold THEN Closed
  ELSE [b EXCEPT !.successes = @ + 1, !.probe = FALSE]

\* Mutant: a failed probe is counted like any other failure.
AfterFailureCounted(b) ==
  IF b.failures + 1 >= FailureThreshold THEN Open
  ELSE [b EXCEPT !.failures = @ + 1, !.probe = FALSE]

\* reportFailure
AfterFailure(b) ==
  IF b.state = "half-open" \/ b.failures + 1 >= FailureThreshold THEN Open
  ELSE [b EXCEPT !.failures = @ + 1, !.probe = FALSE]

Tick ==
  /\ breaker.state = "open" /\ passed < Cooldown
  /\ passed' = passed + 1
  /\ credit' = IF passed + 1 = Cooldown THEN Min({FailureThreshold, credit + 1}) ELSE credit
  /\ UNCHANGED <<breaker, engine, job, stored, alerted, refused>>

-----------------------------------------------------------------------------
(* The worker.                                                             *)

Take(events, f) ==
  /\ job.phase = "idle"
  /\ job' = [Idle EXCEPT !.phase = "ready", !.events = events, !.vector = f, !.rest = events]
  /\ UNCHANGED <<breaker, passed, engine, stored, alerted, refused, credit>>

Chunk == SubSeq(job.rest, 1, Min({BatchSize, Len(job.rest)}))

\* The next chunk is sent, if the breaker lets it pass.
Acquire ==
  /\ job.phase = "ready" /\ job.rest # <<>>
  /\ LET pass == Refreshed.state = "closed" \/ (Refreshed.state = "half-open" /\ ~Refreshed.probe) IN
       /\ breaker' = IF pass /\ Refreshed.state = "half-open"
                     THEN [Refreshed EXCEPT !.probe = TRUE] ELSE Refreshed
       /\ job' = IF pass THEN [job EXCEPT !.phase = "sent"]
                 ELSE [job EXCEPT !.phase = "scored", !.fallback = TRUE]
  /\ UNCHANGED <<passed, engine, stored, alerted, refused, credit>>

\* parseDetectionResponse.  The confidence, the explanation and the processing
\* time of an answer are not modelled, nor are the checks of their ranges.
Accepts(response, events) ==
  /\ response.processed = Len(events) /\ Len(response.predictions) = Len(events)
  /\ {p.event : p \in ToSet(response.predictions)} = ToSet(events)
  /\ \A p \in ToSet(response.predictions) : p.score \in 0..1000
  /\ response.anomalies = Flagged(response.predictions)

ChunkScored(response) ==
  /\ breaker' = AfterSuccess(breaker)
  /\ credit' = FailureThreshold
  /\ job' = [job EXCEPT !.phase = "ready", !.rest = SubSeq(@, Len(Chunk) + 1, Len(@)),
                        !.got = @ \cup {[event |-> p.event, version |-> response.model,
                                         score |-> p.score, anomaly |-> p.anomaly]
                                        : p \in ToSet(response.predictions)}]
  /\ UNCHANGED passed

ChunkFailed ==
  /\ breaker' = AfterFailure(breaker)
  /\ credit' = credit - 1
  /\ passed' = IF AfterFailure(breaker).state = "open" THEN 0 ELSE passed
  /\ job' = [job EXCEPT !.phase = "scored", !.fallback = TRUE]

\* The request ends: with the answer of the engine, or refused or timed out.
Respond ==
  /\ job.phase = "sent"
  /\ LET response == Answer(engine.version, job.vector, Chunk)
         accepted == Accepts(response, Chunk)
     IN IF Responds /\ Valid(Chunk)
        THEN /\ refused' = (refused \/ ~accepted)
             /\ IF accepted THEN ChunkScored(response) ELSE ChunkFailed
        ELSE ChunkFailed /\ UNCHANGED refused
  /\ UNCHANGED <<engine, stored, alerted>>

\* createManyIfAbsent: one result for an event and a version of the model.
Same(r, s) == r.event = s.event /\ r.version = s.version

Absent(r) == \A s \in stored : ~Same(r, s)

Result(p) == [event |-> p.event, version |-> p.version, score |-> p.score]

Store ==
  /\ job.phase = "scored" \/ (job.phase = "ready" /\ job.rest = <<>>)
  /\ stored' = stored \cup {r \in {Result(p) : p \in job.got} : Absent(r)}
  /\ job' = [job EXCEPT !.phase = "stored"]
  /\ UNCHANGED <<breaker, passed, engine, alerted, refused, credit>>

\* The bulk write fails after some of its operations; the job will run again.
StoreFails ==
  /\ job.phase = "scored" \/ (job.phase = "ready" /\ job.rest = <<>>)
  /\ \E some \in SUBSET {r \in {Result(p) : p \in job.got} : Absent(r)} :
       stored' = stored \cup some
  /\ job' = Idle
  /\ UNCHANGED <<breaker, passed, engine, alerted, refused, credit>>

\* The anomalies go to correlation as the job computed them; an alert that
\* exists is not written again.
Correlate ==
  /\ job.phase = "stored"
  /\ alerted' = alerted \cup {Result(p) : p \in {q \in job.got : q.anomaly /\
                   \A a \in alerted : a.event # q.event \/ a.version # q.version}}
  /\ job' = Idle
  /\ UNCHANGED <<breaker, passed, engine, stored, refused, credit>>

\* The worker dies: the breaker is in its memory, the job is given out again.
WorkerCrashes ==
  /\ breaker' = Closed /\ passed' = 0 /\ credit' = FailureThreshold
  /\ job' = Idle
  /\ UNCHANGED <<engine, stored, alerted, refused>>

ScoringInit ==
  /\ breaker = Closed /\ passed = 0 /\ credit = FailureThreshold
  /\ engine \in [version : Version \cup {None}, answers : {TRUE}]
  /\ job = Idle /\ stored = {} /\ alerted = {} /\ refused = FALSE

Run ==
  \/ \E events \in Job, f \in Vector : Take(events, f)
  \/ Acquire \/ Respond \/ Store \/ Correlate

ScoringNext == Run \/ Tick \/ StoreFails \/ EngineChanges \/ WorkerCrashes

\* The worker goes on, jobs keep coming, and time passes.
ScoringFairness == WF_vars(Run) /\ WF_vars(Tick)

Spec == ScoringInit /\ [][ScoringNext]_vars /\ ScoringFairness

-----------------------------------------------------------------------------
(* Properties.                                                             *)

\* However jobs and failures come, an engine that does not answer gets
\* FailureThreshold requests and then one for each cooldown, and a worker's
\* breaker that waits for a probe has somebody who will report it.
EngineShielded ==
  /\ credit >= 0
  /\ breaker.probe => job.phase = "sent"

\* The engine never answers what the client refuses, although it rounds the
\* score it reports and not the one it decides on; a scored event has one result
\* of the model that scored it, whatever was retried; and an event without a
\* score is one for which the job fell back on its rules alone.
ScoresKept ==
  /\ ~refused
  /\ \A r, s \in stored : r.event = s.event /\ r.version = s.version => r = s
  /\ job.phase = "stored" =>
       /\ \A p \in job.got : \E s \in stored : s.event = p.event /\ s.version = p.version
       /\ job.fallback <=> {p.event : p \in job.got} # ToSet(job.events)

\* An engine that is back for good is used again, whatever the breaker has seen.
BreakerRecovers ==
  (<>[]Responds /\ <>[][~WorkerCrashes]_vars) => []<>(breaker.state = "closed")
=============================================================================
