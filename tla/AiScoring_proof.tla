---------------------------- MODULE AiScoring_proof ----------------------------
(***************************************************************************)
(* Proofs about scoring, for any jobs, models and limits, and about the    *)
(* features that are scored, for any events, windows and workers.  The two *)
(* share no state.                                                         *)
(***************************************************************************)
EXTENDS AiScoring, FeatureHistory, SequenceTheorems, FiniteSetTheorems, TLAPS

EventsGot == {p.event : p \in job.got}

\* The first k events of the job are scored, the others are still to be sent.
Progress(k) ==
  /\ Len(job.events) = k + Len(job.rest)
  /\ \A i \in 1..Len(job.rest) : job.rest[i] = job.events[k + i]
  /\ EventsGot = {job.events[i] : i \in 1..k}

JobTyped ==
  /\ job = [phase |-> job.phase, events |-> job.events, vector |-> job.vector, rest |-> job.rest,
            got |-> job.got, fallback |-> job.fallback]
  /\ job.phase \in {"idle", "ready", "sent", "scored", "stored"}
  /\ job.phase # "idle" => job.events \in Job /\ job.vector \in Vector
  /\ job.rest \in Seq(ToSet(job.events))

\* A job has one score of each event it has a score of.
JobScored ==
  /\ \A p, q \in job.got : p.event = q.event => p = q
  /\ job.phase \in {"ready", "sent"} => ~job.fallback /\ \E k \in Nat : Progress(k)
  /\ job.phase = "sent" => job.rest # <<>>
  /\ job.phase = "scored" => job.fallback /\ EventsGot # ToSet(job.events)

\* What the breaker still grants the engine: what its state says.
BreakerInv ==
  /\ breaker = [state |-> breaker.state, failures |-> breaker.failures,
                successes |-> breaker.successes, probe |-> breaker.probe]
  /\ breaker.state \in {"closed", "open", "half-open"} /\ breaker.failures \in Nat
  /\ passed \in 0..Cooldown /\ credit \in Nat
  /\ breaker.state = "closed" =>
       breaker.failures < FailureThreshold /\ credit + breaker.failures >= FailureThreshold
  /\ breaker.state = "open" /\ passed = Cooldown => credit > 0
  /\ breaker.state = "half-open" => credit > 0
  /\ job.phase = "sent" => breaker.state # "open"
  /\ breaker.probe => job.phase = "sent" /\ breaker.state = "half-open"
  /\ engine.version \in Version \cup {None}

ScoringInv == JobTyped /\ JobScored /\ BreakerInv /\ ScoresKept
-----------------------------------------------------------------------------
(* The engine's answer.                                                    *)

LEMMA Between == \A x \in Int : Clip(x) \in Int /\ RawMin <= Clip(x) /\ Clip(x) <= RawMax
<1> TAKE x \in Int
<1>0. RawMin \in Int /\ RawMax \in Int /\ RawMin < RawMax
  BY ScoringAssumption
<1> DEFINE low == IF RawMax <= x THEN RawMax ELSE x
           high == IF RawMin >= low THEN RawMin ELSE low
<1>1. Min({RawMax, x}) = low
  <2>1. low \in {RawMax, x} /\ \A y \in {RawMax, x} : low <= y
    BY <1>0
  <2>2. \A z \in {RawMax, x} : (\A y \in {RawMax, x} : z <= y) => z = low
    BY <1>0
  <2> QED  BY <2>1, <2>2 DEF Min
<1>2. low \in Int
  BY <1>0
<1> HIDE DEF low
<1>3. Max({RawMin, low}) = high
  <2>1. high \in {RawMin, low} /\ \A y \in {RawMin, low} : high >= y
    BY <1>0, <1>2
  <2>2. \A z \in {RawMin, low} : (\A y \in {RawMin, low} : z >= y) => z = high
    BY <1>0, <1>2
  <2> QED  BY <2>1, <2>2 DEF Max
<1>4. low <= RawMax
  BY <1>0 DEF low
<1> QED  BY <1>0, <1>1, <1>2, <1>3, <1>4 DEF Clip

LEMMA Quotient ==
  ASSUME NEW a \in Nat, NEW d \in Nat \ {0}, a <= d
  PROVE  (a * 1000) \div d \in 0..1000
<1> DEFINE q == (a * 1000) \div d
<1>1. q \in Int /\ q * d <= a * 1000 /\ a * 1000 < (q + 1) * d
  OBVIOUS
<1> HIDE DEF q
<1>2. q <= 1000
  <2> SUFFICES ASSUME q >= 1001 PROVE FALSE
    BY <1>1
  <2>1. q * d >= 1001 * d
    BY <1>1
  <2> QED  BY <1>1, <2>1
<1>3. q >= 0
  <2> SUFFICES ASSUME q + 1 <= 0 PROVE FALSE
    BY <1>1
  <2>1. (q + 1) * d <= 0
    BY <1>1
  <2> QED  BY <1>1, <2>1
<1> QED  BY <1>1, <1>2, <1>3 DEF q

Permille == 0..1000

LEMMA Thousandths ==
  ASSUME NEW v \in Version, NEW f \in Vector, NEW events \in Job, NEW e \in ToSet(events)
  PROVE  AnomalyScore(v, f, e) \in Permille /\ Predict(v, f, e).score \in Permille
<1> DEFINE c == Clip(Raw[v][f][e])
           s == AnomalyScore(v, f, e)
<1>1. c \in Int /\ RawMin <= c /\ c <= RawMax
  <2>1. Raw[v][f][e] \in Int
    BY ScoringAssumption
  <2> QED  BY <2>1, Between
<1> HIDE DEF c
<1> DEFINE a == RawMax - c
           d == RawMax - RawMin
<1>2. a \in Nat /\ d \in Nat \ {0} /\ a <= d
  BY <1>1, ScoringAssumption
<1>5. s = (a * 1000) \div d
  BY DEF AnomalyScore, c
<1> HIDE DEF a, d
<1>6. (a * 1000) \div d \in 0..1000
  BY <1>2, Quotient
<1>3. s \in 0..1000
  BY <1>5, <1>6
<1> HIDE DEF s
<1>4. Rounded(s) \in 0..1000
  BY <1>3 DEF Rounded
<1> QED  BY <1>3, <1>4 DEF Predict, s, Permille

LEMMA SequenceByElements ==
  ASSUME NEW S, NEW n \in Nat, NEW s, DOMAIN s = 1..n, s = [i \in 1..n |-> s[i]],
         \A i \in 1..n : s[i] \in S
  PROVE  s \in Seq(S) /\ Len(s) = n
<1>1. s \in [1..n -> S]
  BY ONLY s = [i \in 1..n |-> s[i]], \A i \in 1..n : s[i] \in S
<1>2. s \in Seq(S)
  BY ONLY <1>1, n \in Nat, SeqDef
<1> QED  BY <1>2

\* What the client demands of an answer is what the engine gives.
LEMMA AnswerAccepted ==
  ASSUME NEW v \in Version, NEW f \in Vector, NEW events \in Job, NEW chunk \in Seq(ToSet(events))
  PROVE  /\ Accepts(Answer(v, f, chunk), chunk)
         /\ Answer(v, f, chunk).model = v
         /\ ToSet(Answer(v, f, chunk).predictions) = {Predict(v, f, chunk[i]) : i \in 1..Len(chunk)}
<1> DEFINE n == Len(chunk)
           ps == [i \in DOMAIN chunk |-> Predict(v, f, chunk[i])]
<1>1. n \in Nat /\ DOMAIN chunk = 1..n /\ \A i \in 1..n : chunk[i] \in ToSet(events)
  OBVIOUS
<1>2. DOMAIN ps = 1..n /\ ps = [i \in 1..n |-> ps[i]] /\ \A i \in 1..n : ps[i] = Predict(v, f, chunk[i])
  BY <1>1
<1>3. /\ Answer(v, f, chunk).predictions = ps /\ Answer(v, f, chunk).model = v
      /\ Answer(v, f, chunk).processed = Len(ps) /\ Answer(v, f, chunk).anomalies = Flagged(ps)
  BY DEF Answer
<1> HIDE DEF ps, n
<1>4. Len(ps) = n
  <2>1. \A i \in 1..n : ps[i] \in {ps[j] : j \in 1..n}
    OBVIOUS
  <2> QED  BY ONLY <1>1, <1>2, <2>1, SequenceByElements
<1>5. ToSet(ps) = {Predict(v, f, chunk[i]) : i \in 1..n}
  BY <1>2 DEF ToSet
<1>6. \A i \in 1..n : Predict(v, f, chunk[i]).event = chunk[i] /\ Predict(v, f, chunk[i]).score \in Permille
  <2> TAKE i \in 1..n
  <2>1. chunk[i] \in ToSet(events)
    BY <1>1
  <2>2. Predict(v, f, chunk[i]).score \in Permille
    BY <2>1, Thousandths
  <2>3. Predict(v, f, chunk[i]).event = chunk[i]
    BY DEF Predict
  <2> QED  BY <2>2, <2>3, Zenon
<1>7. {p.event : p \in ToSet(ps)} = ToSet(chunk)
  <2>1. ToSet(chunk) = {chunk[i] : i \in 1..n}
    BY <1>1 DEF ToSet
  <2>2. \A x \in {p.event : p \in ToSet(ps)} : x \in ToSet(chunk)
    BY <1>5, <1>6, <2>1
  <2>3. \A x \in ToSet(chunk) : x \in {p.event : p \in ToSet(ps)}
    <3> TAKE x \in ToSet(chunk)
    <3>1. PICK i \in 1..n : x = chunk[i]
      BY <2>1
    <3>2. Predict(v, f, chunk[i]) \in ToSet(ps) /\ Predict(v, f, chunk[i]).event = x
      BY <1>5, <1>6, <3>1
    <3> QED  BY ONLY <3>2
  <2> QED  BY <2>2, <2>3
<1>8. \A p \in ToSet(ps) : p.score \in Permille
  <2> TAKE p \in ToSet(ps)
  <2>1. PICK i \in 1..n : p = Predict(v, f, chunk[i])
    BY <1>5
  <2> QED  BY <1>6, <2>1, Zenon
<1>9. Accepts(Answer(v, f, chunk), chunk)
  BY <1>3, <1>4, <1>7, <1>8 DEF Accepts, Permille, n
<1> QED  BY <1>3, <1>5, <1>9 DEF n
-----------------------------------------------------------------------------
(* The chunks of a job.                                                    *)

LEMMA ChunkFacts ==
  ASSUME NEW E, job.rest \in Seq(E), job.rest # <<>>
  PROVE  \E m \in 1..Len(job.rest) :
           /\ Chunk \in Seq(E) /\ Len(Chunk) = m /\ \A i \in 1..m : Chunk[i] = job.rest[i]
           /\ SubSeq(job.rest, m + 1, Len(job.rest)) \in Seq(E)
           /\ Len(SubSeq(job.rest, m + 1, Len(job.rest))) = Len(job.rest) - m
           /\ \A i \in 1..(Len(job.rest) - m) : SubSeq(job.rest, m + 1, Len(job.rest))[i] = job.rest[m + i]
<1> DEFINE rest == job.rest
           n == Len(rest)
           m == IF BatchSize <= n THEN BatchSize ELSE n
<1>1. n \in Nat \ {0} /\ BatchSize \in Nat \ {0} /\ rest \in Seq(E)
  BY ScoringAssumption
<1>2. Min({BatchSize, n}) = m
  <2> HIDE DEF n
  <2>1. m \in {BatchSize, n} /\ \A y \in {BatchSize, n} : m <= y
    BY <1>1
  <2>2. \A z \in {BatchSize, n} : (\A y \in {BatchSize, n} : z <= y) => z = m
    BY <1>1
  <2> QED  BY <2>1, <2>2 DEF Min
<1>3. m \in 1..n
  BY <1>1
<1>4. Chunk = SubSeq(rest, 1, m)
  BY <1>2 DEF Chunk
<1> HIDE DEF m
<1>5. /\ Chunk \in Seq(E) /\ Len(Chunk) = m /\ \A i \in 1..m : Chunk[i] = rest[i]
  BY <1>1, <1>3, <1>4
<1>6. /\ SubSeq(rest, m + 1, n) \in Seq(E) /\ Len(SubSeq(rest, m + 1, n)) = n - m
      /\ \A i \in 1..(n - m) : SubSeq(rest, m + 1, n)[i] = rest[m + i]
  BY <1>1, <1>3
<1> QED  BY <1>3, <1>5, <1>6
-----------------------------------------------------------------------------
(* The job.                                                                *)

LEMMA Initially == ScoringInit => ScoringInv
<1> SUFFICES ASSUME ScoringInit PROVE ScoringInv
  OBVIOUS
<1>1. JobTyped /\ JobScored
  BY DEF ScoringInit, JobTyped, JobScored, Idle
<1>2. BreakerInv
  BY ScoringAssumption DEF ScoringInit, BreakerInv, Closed, Idle
<1>3. ScoresKept
  BY DEF ScoringInit, ScoresKept, Idle
<1> QED  BY <1>1, <1>2, <1>3 DEF ScoringInv

LEMMA IdleOK ==
  ASSUME job' = Idle
  PROVE  JobTyped' /\ JobScored'
BY DEF JobTyped, JobScored, Idle

LEMMA TakeKeeps ==
  ASSUME ScoringInv, NEW events \in Job, NEW f \in Vector, Take(events, f)
  PROVE  JobTyped' /\ JobScored'
<1>1. /\ job'.phase = "ready" /\ job'.events = events /\ job'.vector = f /\ job'.rest = events
      /\ job'.got = {} /\ job'.fallback = FALSE
      /\ job' = [phase |-> job'.phase, events |-> job'.events, vector |-> job'.vector,
                 rest |-> job'.rest, got |-> job'.got, fallback |-> job'.fallback]
  BY DEF Take, Idle
<1>2. events \in Seq(ToSet(events))
  BY ScoringAssumption
<1>3. JobTyped'
  BY <1>1, <1>2 DEF JobTyped
<1>4. Progress(0)'
  BY <1>1, <1>2 DEF Progress, EventsGot
<1>5. JobScored'
  BY <1>1, <1>4 DEF JobScored
<1> QED  BY <1>3, <1>5

LEMMA RestUnscored ==
  ASSUME NEW k \in Nat, Progress(k), job.events \in Job, job.rest \in Seq(ToSet(job.events)),
         job.rest # <<>>
  PROVE  EventsGot # ToSet(job.events)
<1> DEFINE events == job.events
           e == events[k + 1]
<1>1. events \in Seq(ToSet(events)) /\ IsInjective(events) /\ DOMAIN events = 1..Len(events)
  BY ScoringAssumption
<1>2. Len(job.rest) \in Nat \ {0} /\ Len(events) = k + Len(job.rest)
  BY DEF Progress
<1>3. k + 1 \in 1..Len(events) /\ 1..k \subseteq 1..Len(events) /\ k + 1 \notin 1..k
  BY <1>2
<1>4. e \in ToSet(events)
  BY <1>1, <1>3 DEF ToSet
<1>5. \A i \in 1..k : events[i] # e
  BY <1>1, <1>3 DEF IsInjective
<1>6. EventsGot = {events[i] : i \in 1..k}
  BY DEF Progress
<1> HIDE DEF e, events
<1>7. e \notin EventsGot
  BY <1>5, <1>6
<1> QED  BY <1>4, <1>7 DEF events

LEMMA AcquireKeeps ==
  ASSUME ScoringInv, Acquire
  PROVE  JobTyped' /\ JobScored' /\ job'.phase # "stored"
<1>1. JobTyped /\ JobScored /\ job.phase = "ready" /\ job.rest # <<>>
  BY DEF ScoringInv, Acquire
<1>2. /\ job'.events = job.events /\ job'.vector = job.vector /\ job'.rest = job.rest /\ job'.got = job.got
      /\ \/ job'.phase = "sent" /\ job'.fallback = job.fallback
         \/ job'.phase = "scored" /\ job'.fallback = TRUE
      /\ job' = [phase |-> job'.phase, events |-> job'.events, vector |-> job'.vector,
                 rest |-> job'.rest, got |-> job'.got, fallback |-> job'.fallback]
  BY <1>1 DEF Acquire, JobTyped
<1>3. JobTyped'
  BY <1>1, <1>2 DEF JobTyped
<1>4. PICK k \in Nat : Progress(k)
  BY <1>1 DEF JobScored
<1>5. Progress(k)'
  <2>1. EventsGot' = EventsGot
    BY <1>2 DEF EventsGot
  <2> QED  BY <1>2, <1>4, <2>1 DEF Progress
<1>6. EventsGot # ToSet(job.events)
  BY <1>1, <1>4, RestUnscored DEF JobTyped
<1>7. EventsGot' # ToSet(job.events)'
  BY <1>2, <1>6 DEF EventsGot
<1>8. JobScored'
  BY <1>1, <1>2, <1>5, <1>7 DEF JobScored
<1> QED  BY <1>2, <1>3, <1>8

LEMMA FailureKeeps ==
  ASSUME ScoringInv, job.phase = "sent", ChunkFailed
  PROVE  JobTyped' /\ JobScored' /\ job'.phase # "stored"
<1>1. JobTyped /\ JobScored /\ job.rest # <<>>
  BY DEF ScoringInv, JobScored
<1>2. /\ job'.events = job.events /\ job'.vector = job.vector /\ job'.rest = job.rest /\ job'.got = job.got
      /\ job'.phase = "scored" /\ job'.fallback = TRUE
      /\ job' = [phase |-> job'.phase, events |-> job'.events, vector |-> job'.vector,
                 rest |-> job'.rest, got |-> job'.got, fallback |-> job'.fallback]
  BY <1>1 DEF ChunkFailed, JobTyped
<1>3. JobTyped'
  BY <1>1, <1>2 DEF JobTyped
<1>4. PICK k \in Nat : Progress(k)
  BY <1>1 DEF JobScored
<1>5. EventsGot # ToSet(job.events)
  BY <1>1, <1>4, RestUnscored DEF JobTyped
<1>6. EventsGot' # ToSet(job.events)'
  BY <1>2, <1>5 DEF EventsGot
<1>7. JobScored'
  BY <1>1, <1>2, <1>6 DEF JobScored
<1> QED  BY <1>2, <1>3, <1>7

\* The answer scores the next events of the job, and none that has a score.
LEMMA SuccessKeeps ==
  ASSUME ScoringInv, job.phase = "sent", engine.version # None,
         ChunkScored(Answer(engine.version, job.vector, Chunk))
  PROVE  JobTyped' /\ JobScored' /\ job'.phase # "stored"
<1> DEFINE events == job.events
           rest == job.rest
           v == engine.version
           f == job.vector
           New == {[event |-> p.event, version |-> Answer(v, f, Chunk).model,
                    score |-> p.score, anomaly |-> p.anomaly]
                   : p \in ToSet(Answer(v, f, Chunk).predictions)}
           Score(e) == [event |-> e, version |-> v, score |-> Predict(v, f, e).score,
                        anomaly |-> Predict(v, f, e).anomaly]
<1>1. JobTyped /\ JobScored /\ rest # <<>> /\ ~job.fallback /\ v \in Version /\ f \in Vector
      /\ events \in Job /\ rest \in Seq(ToSet(events))
  BY DEF ScoringInv, JobTyped, JobScored, BreakerInv
<1>2. PICK k \in Nat : Progress(k)
  BY <1>1 DEF JobScored
<1>3. PICK m \in 1..Len(rest) :
           /\ Chunk \in Seq(ToSet(events)) /\ Len(Chunk) = m /\ \A i \in 1..m : Chunk[i] = rest[i]
           /\ SubSeq(rest, m + 1, Len(rest)) \in Seq(ToSet(events))
           /\ Len(SubSeq(rest, m + 1, Len(rest))) = Len(rest) - m
           /\ \A i \in 1..(Len(rest) - m) : SubSeq(rest, m + 1, Len(rest))[i] = rest[m + i]
  BY <1>1, ChunkFacts
<1>4. /\ Answer(v, f, Chunk).model = v
      /\ ToSet(Answer(v, f, Chunk).predictions) = {Predict(v, f, Chunk[i]) : i \in 1..m}
  <2>1. Chunk \in Seq(ToSet(events)) /\ Len(Chunk) = m
    BY <1>3
  <2>2. v \in Version /\ f \in Vector /\ events \in Job
    BY <1>1
  <2> HIDE DEF v, f, events, rest
  <2>3. /\ Answer(v, f, Chunk).model = v
        /\ ToSet(Answer(v, f, Chunk).predictions) = {Predict(v, f, Chunk[i]) : i \in 1..Len(Chunk)}
    BY ONLY <2>1, <2>2, AnswerAccepted
  <2> QED  BY ONLY <2>1, <2>3
<1>5. /\ job'.events = events /\ job'.vector = f /\ job'.fallback = job.fallback
      /\ job'.phase = "ready" /\ job'.got = job.got \cup New
      /\ job'.rest = SubSeq(rest, m + 1, Len(rest))
      /\ job' = [phase |-> job'.phase, events |-> job'.events, vector |-> job'.vector,
                 rest |-> job'.rest, got |-> job'.got, fallback |-> job'.fallback]
  BY <1>1, <1>3 DEF ChunkScored, JobTyped
<1>6. JobTyped'
  BY <1>1, <1>3, <1>5 DEF JobTyped
<1>7. /\ events \in Seq(ToSet(events)) /\ IsInjective(events) /\ DOMAIN events = 1..Len(events)
      /\ Len(rest) \in Nat /\ Len(events) = k + Len(rest)
      /\ \A i \in 1..Len(rest) : rest[i] = events[k + i]
      /\ EventsGot = {events[i] : i \in 1..k}
  <2>1. events \in Seq(ToSet(events)) /\ IsInjective(events)
    BY <1>1, ScoringAssumption
  <2>2. DOMAIN events = 1..Len(events)
    BY <2>1
  <2>3. Len(rest) \in Nat
    BY <1>1
  <2> QED  BY <2>1, <2>2, <2>3, <1>2 DEF Progress
<1>8. \A i \in 1..m : Chunk[i] = events[k + i] /\ k + i \in 1..Len(events)
  <2> TAKE i \in 1..m
  <2>1. i \in 1..Len(rest) /\ m <= Len(rest) /\ i \in Nat \ {0}
    BY <1>3, <1>7
  <2>2. Chunk[i] = rest[i]
    BY <1>3
  <2>3. rest[i] = events[k + i] /\ k + i \in 1..Len(events)
    BY <1>7, <2>1
  <2> QED  BY <2>2, <2>3
<1>9. /\ \A x \in New : \E i \in 1..m : x = Score(Chunk[i])
      /\ \A i \in 1..m : Score(Chunk[i]) \in New
  <2>1. \A e : Predict(v, f, e).event = e
    BY DEF Predict
  <2> QED  BY <1>4, <2>1
<1>10. /\ \A x \in New : \E i \in 1..m : x = Score(events[k + i])
       /\ \A i \in 1..m : Score(events[k + i]) \in New
  <2> HIDE DEF Score, New, events, rest
  <2>1. \A i \in 1..m : Chunk[i] = events[k + i]
    BY <1>8
  <2> QED  BY ONLY <1>9, <2>1
<1>11. \A e : Score(e).event = e
  OBVIOUS
<1>12. \A x \in job.got : \E i \in 1..k : x.event = events[i]
  BY <1>7 DEF EventsGot
<1> HIDE DEF Score, New, events, rest
<1>13. \A p, q \in job'.got : p.event = q.event => p = q
  <2>1. \A p \in job.got, q \in New : p.event # q.event
    <3> TAKE p \in job.got, q \in New
    <3>1. PICK i \in 1..k : p.event = events[i]
      BY <1>12
    <3>2. PICK j \in 1..m : q = Score(events[k + j])
      BY <1>10
    <3>3. i # k + j /\ i \in DOMAIN events /\ k + j \in DOMAIN events
      BY <1>3, <1>7, <1>8
    <3> QED  BY <1>7, <1>11, <3>1, <3>2, <3>3 DEF IsInjective
  <2>2. \A p, q \in New : p.event = q.event => p = q
    <3>1. \A p \in New : p = Score(p.event)
      BY <1>10, <1>11
    <3> QED  BY <3>1
  <2>3. \A p, q \in job.got : p.event = q.event => p = q
    BY <1>1 DEF JobScored
  <2> QED  BY ONLY <1>5, <2>1, <2>2, <2>3
<1>14. EventsGot' = {events[i] : i \in 1..(k + m)}
  <2>1. EventsGot' = {p.event : p \in job'.got}
    BY DEF EventsGot
  <2>2. \A x \in EventsGot' : x \in {events[i] : i \in 1..(k + m)}
    <3> TAKE x \in EventsGot'
    <3>1. PICK p \in job.got \cup New : x = p.event
      BY <1>5, <2>1
    <3>2. CASE p \in job.got
      <4>1. PICK i \in 1..k : p.event = events[i]
        BY <1>12, <3>2
      <4>2. i \in 1..(k + m)
        BY <1>3
      <4> QED  BY <3>1, <4>1, <4>2
    <3>3. CASE p \in New
      <4>1. PICK i \in 1..m : p = Score(events[k + i])
        BY <1>10, <3>3
      <4>2. k + i \in 1..(k + m)
        BY <1>3
      <4> QED  BY <1>11, <3>1, <4>1, <4>2
    <3> QED  BY <3>1, <3>2, <3>3
  <2>3. \A i \in 1..(k + m) : events[i] \in EventsGot'
    <3> TAKE i \in 1..(k + m)
    <3>1. CASE i <= k
      <4>1. events[i] \in EventsGot
        BY <1>7, <3>1
      <4>2. PICK p \in job.got : p.event = events[i]
        BY <4>1 DEF EventsGot
      <4> QED  BY <1>5, <2>1, <4>2
    <3>2. CASE i > k
      <4> DEFINE j == i - k
      <4>1. j \in 1..m /\ i = k + j
        BY <1>3, <3>2
      <4>2. Score(events[i]) \in New /\ Score(events[i]).event = events[i]
        BY <1>10, <1>11, <4>1
      <4> QED  BY <1>5, <2>1, <4>2
    <3> QED  BY <3>1, <3>2
  <2> QED  BY <2>2, <2>3
<1>15. Progress(k + m)'
  <2>1. Len(job'.rest) = Len(rest) - m /\ m \in Nat
    BY <1>3, <1>5
  <2>2. \A i \in 1..Len(job'.rest) : job'.rest[i] = events[k + m + i]
    <3> TAKE i \in 1..Len(job'.rest)
    <3>1. m + i \in 1..Len(rest) /\ i \in 1..(Len(rest) - m) /\ k + (m + i) = k + m + i
      BY <1>7, <2>1
    <3>2. job'.rest[i] = rest[m + i]
      BY <1>3, <1>5, <3>1
    <3>3. rest[m + i] = events[k + (m + i)]
      BY <1>7, <3>1
    <3> QED  BY <3>1, <3>2, <3>3
  <2> QED  BY <1>5, <1>7, <1>14, <2>1, <2>2 DEF Progress
<1>16. JobScored'
  <2>1. k + m \in Nat
    BY <1>3
  <2> QED  BY <1>1, <1>5, <1>13, <1>15, <2>1 DEF JobScored
<1> QED  BY <1>5, <1>6, <1>16

LEMMA SameJobOK ==
  ASSUME ScoringInv, UNCHANGED job
  PROVE  JobTyped' /\ JobScored'
<1>1. JobTyped /\ JobScored
  BY DEF ScoringInv
<1>2. EventsGot' = EventsGot
  BY DEF EventsGot
<1>3. \A k \in Nat : Progress(k)' <=> Progress(k)
  BY <1>2 DEF Progress
<1> QED  BY <1>1, <1>2, <1>3 DEF JobTyped, JobScored
-----------------------------------------------------------------------------
(* The results.                                                            *)

NewResults == {r \in {Result(p) : p \in job.got} : Absent(r)}

LEMMA ResultsUnique ==
  ASSUME ScoringInv, NEW some \in SUBSET NewResults
  PROVE  \A r, s \in stored \cup some : r.event = s.event /\ r.version = s.version => r = s
<1>1. \A r, s \in stored : r.event = s.event /\ r.version = s.version => r = s
  BY DEF ScoringInv, ScoresKept
<1>2. \A r \in some, s \in stored : r.event # s.event \/ r.version # s.version
  BY DEF NewResults, Absent, Same
<1>3. \A r, s \in some : r.event = s.event => r = s
  <2> TAKE r, s \in some
  <2>1. PICK p \in job.got : r = Result(p)
    BY DEF NewResults
  <2>2. PICK q \in job.got : s = Result(q)
    BY DEF NewResults
  <2>3. r.event = p.event /\ s.event = q.event
    BY <2>1, <2>2 DEF Result
  <2>4. p.event = q.event => p = q
    BY DEF ScoringInv, JobScored
  <2> QED  BY <2>1, <2>2, <2>3, <2>4
<1> QED  BY ONLY <1>1, <1>2, <1>3

LEMMA StoreKeeps ==
  ASSUME ScoringInv, Store
  PROVE  JobTyped' /\ JobScored' /\ ScoresKept'
<1>1. JobTyped /\ JobScored /\ ~refused /\ refused' = refused
  BY DEF ScoringInv, ScoresKept, Store
<1>2. stored' = stored \cup NewResults
  BY DEF Store, NewResults
<1>3. /\ job'.events = job.events /\ job'.vector = job.vector /\ job'.rest = job.rest /\ job'.got = job.got
      /\ job'.phase = "stored" /\ job'.fallback = job.fallback /\ job.phase # "idle"
      /\ job' = [phase |-> job'.phase, events |-> job'.events, vector |-> job'.vector,
                 rest |-> job'.rest, got |-> job'.got, fallback |-> job'.fallback]
  BY <1>1 DEF Store, JobTyped
<1>4. JobTyped'
  BY <1>1, <1>3 DEF JobTyped
<1>5. JobScored'
  BY <1>1, <1>3 DEF JobScored
<1>6. \A r, s \in stored' : r.event = s.event /\ r.version = s.version => r = s
  BY <1>2, ResultsUnique
<1>7. \A p \in job'.got : \E s \in stored' : s.event = p.event /\ s.version = p.version
  <2> SUFFICES ASSUME NEW p \in job.got
               PROVE  \E s \in stored' : s.event = p.event /\ s.version = p.version
    BY <1>3
  <2>1. Result(p).event = p.event /\ Result(p).version = p.version
    BY DEF Result
  <2>2. CASE Absent(Result(p))
    BY <1>2, <2>1, <2>2 DEF NewResults
  <2>3. CASE ~Absent(Result(p))
    BY <1>2, <2>1, <2>3 DEF Absent, Same
  <2> QED  BY <2>2, <2>3
<1>8. job.fallback <=> EventsGot # ToSet(job.events)
  <2>1. CASE job.phase = "scored"
    BY <1>1, <2>1 DEF JobScored
  <2>2. CASE job.phase = "ready" /\ job.rest = <<>>
    <3>1. PICK k \in Nat : Progress(k)
      BY <1>1, <2>2 DEF JobScored
    <3>2. job.events \in Seq(ToSet(job.events)) /\ Len(job.events) = k
      BY <1>1, <2>2, <3>1, ScoringAssumption DEF JobTyped, Progress
    <3>3. EventsGot = ToSet(job.events)
      BY <3>1, <3>2, SMTT(30) DEF Progress, ToSet
    <3> QED  BY <1>1, <2>2, <3>3 DEF JobScored
  <2> QED  BY <2>1, <2>2 DEF Store
<1>9. job'.fallback <=> {p.event : p \in job'.got} # ToSet(job'.events)
  BY <1>3, <1>8 DEF EventsGot
<1> QED  BY <1>1, <1>3, <1>4, <1>5, <1>6, <1>7, <1>9 DEF ScoresKept
-----------------------------------------------------------------------------
(* The breaker.                                                            *)

\* The parts of the invariant that an action which leaves them alone keeps.
LEMMA SameBreakerOK ==
  ASSUME ScoringInv, UNCHANGED <<breaker, passed, engine, credit>>,
         job.phase # "sent", job'.phase # "sent"
  PROVE  BreakerInv'
BY DEF ScoringInv, BreakerInv

LEMMA SameScoresOK ==
  ASSUME ScoringInv, UNCHANGED stored, ~refused', job'.phase # "stored" \/ UNCHANGED job
  PROVE  ScoresKept'
<1>1. ScoresKept
  BY DEF ScoringInv
<1> QED  BY <1>1 DEF ScoresKept

LEMMA AcquireGuarded ==
  ASSUME ScoringInv, Acquire
  PROVE  BreakerInv'
<1>1. BreakerInv /\ job.phase = "ready" /\ ~breaker.probe
  BY DEF ScoringInv, BreakerInv, Acquire
<1>2. Refreshed.failures = breaker.failures /\ Refreshed.state \in {"closed", "open", "half-open"}
      /\ Refreshed = [state |-> Refreshed.state, failures |-> Refreshed.failures,
                      successes |-> Refreshed.successes, probe |-> Refreshed.probe]
      /\ ~Refreshed.probe
  BY <1>1 DEF Refreshed, BreakerInv
<1>3. /\ Refreshed.state = "closed" => breaker.state = "closed"
      /\ Refreshed.state = "open" => breaker.state = "open" /\ passed # Cooldown
      /\ Refreshed.state = "half-open" => credit > 0
  BY <1>1, ScoringAssumption DEF Refreshed, BreakerInv
<1>4. UNCHANGED <<passed, engine, credit>>
  BY DEF Acquire
<1>5. JobTyped
  BY DEF ScoringInv
<1>6. CASE Refreshed.state = "closed"
  <2>1. breaker' = Refreshed /\ job'.phase = "sent"
    BY <1>2, <1>5, <1>6 DEF Acquire, JobTyped
  <2> QED  BY <1>1, <1>2, <1>3, <1>4, <1>6, <2>1 DEF BreakerInv
<1>7. CASE Refreshed.state = "half-open"
  <2>1. breaker' = [Refreshed EXCEPT !.probe = TRUE] /\ job'.phase = "sent"
    BY <1>2, <1>5, <1>7 DEF Acquire, JobTyped
  <2> HIDE DEF Refreshed
  <2>2. breaker'.state = "half-open" /\ breaker'.failures = breaker.failures
        /\ breaker' = [state |-> breaker'.state, failures |-> breaker'.failures,
                       successes |-> breaker'.successes, probe |-> breaker'.probe]
    BY <1>2, <1>7, <2>1
  <2> QED  BY <1>1, <1>3, <1>4, <1>7, <2>1, <2>2 DEF BreakerInv
<1>8. CASE Refreshed.state = "open"
  <2>1. breaker' = Refreshed /\ job'.phase = "scored"
    BY <1>2, <1>5, <1>8 DEF Acquire, JobTyped
  <2> QED  BY <1>1, <1>2, <1>3, <1>4, <1>8, <2>1 DEF BreakerInv
<1> QED  BY <1>2, <1>6, <1>7, <1>8

\* A failure of a probe opens the circuit, so does the last of a row.
LEMMA FailureGuarded ==
  ASSUME ScoringInv, job.phase = "sent", ChunkFailed, UNCHANGED engine
  PROVE  BreakerInv'
<1>1. BreakerInv /\ breaker.state \in {"closed", "half-open"}
  BY DEF ScoringInv, BreakerInv
<1>2. {FailureThreshold, Cooldown} \subseteq Nat \ {0}
  BY ScoringAssumption
<1>3. job'.phase = "scored"
  BY DEF ChunkFailed, ScoringInv, JobTyped
<1>4. credit > 0 /\ credit' = credit - 1
  BY <1>1, <1>2 DEF BreakerInv, ChunkFailed
<1>5. CASE breaker.state = "half-open" \/ breaker.failures + 1 >= FailureThreshold
  <2>1. breaker' = Open /\ passed' = 0
    BY <1>5 DEF ChunkFailed, AfterFailure, Open
  <2> QED  BY <1>1, <1>2, <1>3, <1>4, <2>1 DEF BreakerInv, Open
<1>6. CASE ~(breaker.state = "half-open" \/ breaker.failures + 1 >= FailureThreshold)
  <2>1. breaker' = [breaker EXCEPT !.failures = @ + 1, !.probe = FALSE]
    BY <1>6 DEF ChunkFailed, AfterFailure
  <2>2. breaker.state = "closed" /\ breaker.failures \in Nat
        /\ credit + breaker.failures >= FailureThreshold
    BY <1>1, <1>6 DEF BreakerInv
  <2>3. breaker'.state = "closed" /\ breaker'.failures = breaker.failures + 1 /\ breaker'.probe = FALSE
        /\ breaker' = [state |-> breaker'.state, failures |-> breaker'.failures,
                       successes |-> breaker'.successes, probe |-> breaker'.probe]
    BY <1>1, <2>1, <2>2 DEF BreakerInv
  <2>4. passed' = passed
    BY <1>6, <2>1, <2>2, <2>3 DEF ChunkFailed
  <2>5. passed \in 0..Cooldown /\ credit \in Nat /\ engine'.version \in Version \cup {None}
    BY <1>1 DEF BreakerInv
  <2> QED  BY <1>2, <1>3, <1>4, <1>6, <2>2, <2>3, <2>4, <2>5 DEF BreakerInv
<1> QED  BY <1>5, <1>6

LEMMA SuccessGuarded ==
  ASSUME ScoringInv, job.phase = "sent", NEW response, ChunkScored(response), UNCHANGED engine
  PROVE  BreakerInv'
<1>1. BreakerInv /\ breaker.state \in {"closed", "half-open"}
  BY DEF ScoringInv, BreakerInv
<1>2. {FailureThreshold, Cooldown} \subseteq Nat \ {0}
  BY ScoringAssumption
<1>3. job'.phase = "ready" /\ credit' = FailureThreshold /\ passed' = passed
  BY DEF ChunkScored, ScoringInv, JobTyped
<1>4. CASE breaker.state = "closed"
  <2>1. breaker' = [breaker EXCEPT !.failures = 0] /\ ~breaker.probe
    BY <1>1, <1>4 DEF ChunkScored, AfterSuccess, BreakerInv
  <2>2. breaker'.state = "closed" /\ breaker'.failures = 0 /\ ~breaker'.probe
        /\ breaker' = [state |-> breaker'.state, failures |-> breaker'.failures,
                       successes |-> breaker'.successes, probe |-> breaker'.probe]
    BY <1>1, <1>4, <2>1 DEF BreakerInv
  <2> QED  BY <1>1, <1>2, <1>3, <2>2 DEF BreakerInv
<1>5. CASE breaker.state = "half-open" /\ breaker.successes + 1 >= SuccessThreshold
  <2>1. breaker' = Closed
    BY <1>5 DEF ChunkScored, AfterSuccess
  <2> QED  BY <1>1, <1>2, <1>3, <2>1 DEF BreakerInv, Closed
<1>6. CASE breaker.state = "half-open" /\ ~(breaker.successes + 1 >= SuccessThreshold)
  <2>1. breaker' = [breaker EXCEPT !.successes = @ + 1, !.probe = FALSE]
    BY <1>6 DEF ChunkScored, AfterSuccess
  <2>2. breaker'.state = "half-open" /\ breaker'.failures = breaker.failures /\ breaker'.probe = FALSE
        /\ breaker' = [state |-> breaker'.state, failures |-> breaker'.failures,
                       successes |-> breaker'.successes, probe |-> breaker'.probe]
    BY <1>1, <1>6, <2>1 DEF BreakerInv
  <2> QED  BY <1>1, <1>2, <1>3, <2>2 DEF BreakerInv
<1> QED  BY <1>1, <1>4, <1>5, <1>6

LEMMA TickGuarded ==
  ASSUME ScoringInv, Tick
  PROVE  BreakerInv'
<1>1. BreakerInv
  BY DEF ScoringInv
<1>2. {FailureThreshold, Cooldown} \subseteq Nat \ {0} /\ credit \in Nat /\ passed \in 0..Cooldown
  BY <1>1, ScoringAssumption DEF BreakerInv
<1> DEFINE least == IF FailureThreshold <= credit + 1 THEN FailureThreshold ELSE credit + 1
<1>3. Min({FailureThreshold, credit + 1}) = least
  <2>1. least \in {FailureThreshold, credit + 1} /\ \A y \in {FailureThreshold, credit + 1} : least <= y
    BY <1>2
  <2>2. \A z \in {FailureThreshold, credit + 1} :
          (\A y \in {FailureThreshold, credit + 1} : z <= y) => z = least
    BY <1>2
  <2> QED  BY <2>1, <2>2 DEF Min
<1>4. credit' \in Nat /\ (passed' = Cooldown => credit' > 0) /\ passed' \in 0..Cooldown
  BY <1>2, <1>3 DEF Tick
<1> QED  BY <1>1, <1>4 DEF Tick, BreakerInv

LEMMA RespondKeeps ==
  ASSUME ScoringInv, Respond
  PROVE  ScoringInv'
<1> DEFINE response == Answer(engine.version, job.vector, Chunk)
<1>1. /\ job.phase = "sent" /\ UNCHANGED <<engine, stored>> /\ ~refused
      /\ job.rest # <<>> /\ job.events \in Job /\ job.vector \in Vector
      /\ job.rest \in Seq(ToSet(job.events)) /\ engine.version \in Version \cup {None}
  BY DEF ScoringInv, ScoresKept, JobScored, JobTyped, BreakerInv, Respond
<1>2. CASE engine.version # None /\ Responds /\ Valid(Chunk)
  <2>1. Chunk \in Seq(ToSet(job.events))
    BY <1>1, ChunkFacts
  <2>2. Accepts(response, Chunk)
    BY <1>1, <1>2, <2>1, AnswerAccepted
  <2>3. ~refused' /\ ChunkScored(response)
    BY <1>1, <1>2, <2>2 DEF Respond
  <2>4. JobTyped' /\ JobScored' /\ job'.phase # "stored"
    BY <1>1, <1>2, <2>3, SuccessKeeps
  <2>5. BreakerInv'
    BY <1>1, <2>3, SuccessGuarded
  <2> QED  BY <1>1, <2>3, <2>4, <2>5, SameScoresOK DEF ScoringInv
<1>3. CASE ~(engine.version # None /\ Responds /\ Valid(Chunk))
  <2>1. ChunkFailed /\ ~refused'
    BY <1>1, <1>3 DEF Respond, Responds
  <2> QED  BY <1>1, <2>1, FailureKeeps, FailureGuarded, SameScoresOK DEF ScoringInv
<1> QED  BY <1>2, <1>3
-----------------------------------------------------------------------------
(* Every step keeps the invariant.                                         *)

LEMMA EveryStepKeeps ==
  ASSUME ScoringInv, [ScoringNext]_vars
  PROVE  ScoringInv'
<1>1. ~refused /\ BreakerInv /\ JobTyped
  BY DEF ScoringInv, ScoresKept
<1>2. ASSUME NEW events \in Job, NEW f \in Vector, Take(events, f) PROVE ScoringInv'
  <2>1. job'.phase = "ready" /\ job.phase = "idle"
    BY <1>2 DEF Take, Idle
  <2> QED  BY <1>1, <1>2, <2>1, TakeKeeps, SameBreakerOK, SameScoresOK DEF ScoringInv, Take
<1>3. ASSUME Acquire PROVE ScoringInv'
  BY <1>1, <1>3, AcquireKeeps, AcquireGuarded, SameScoresOK DEF ScoringInv, Acquire
<1>4. ASSUME Respond PROVE ScoringInv'
  BY <1>4, RespondKeeps
<1>5. ASSUME Store PROVE ScoringInv'
  <2>1. job.phase # "sent" /\ job'.phase = "stored"
    BY <1>1, <1>5 DEF Store, JobTyped
  <2> QED  BY <1>5, <2>1, StoreKeeps, SameBreakerOK DEF ScoringInv, Store
<1>6. ASSUME StoreFails PROVE ScoringInv'
  <2>1. job.phase # "sent" /\ job' = Idle /\ job'.phase = "idle" /\ ~refused'
    BY <1>1, <1>6 DEF StoreFails, Idle
  <2>2. PICK some \in SUBSET NewResults : stored' = stored \cup some
    BY <1>6 DEF StoreFails, NewResults
  <2>3. ScoresKept'
    BY <2>1, <2>2, ResultsUnique DEF ScoresKept
  <2> QED  BY <1>6, <2>1, <2>3, IdleOK, SameBreakerOK DEF ScoringInv, StoreFails
<1>7. ASSUME Correlate PROVE ScoringInv'
  <2>1. job.phase # "sent" /\ job' = Idle /\ job'.phase = "idle" /\ ~refused'
    BY <1>1, <1>7 DEF Correlate, Idle
  <2> QED  BY <1>7, <2>1, IdleOK, SameBreakerOK, SameScoresOK DEF ScoringInv, Correlate
<1>8. ASSUME WorkerCrashes PROVE ScoringInv'
  <2>1. job' = Idle /\ job'.phase = "idle" /\ ~refused'
    BY <1>1, <1>8 DEF WorkerCrashes, Idle
  <2>2. BreakerInv'
    BY <1>1, <1>8, <2>1, ScoringAssumption DEF WorkerCrashes, BreakerInv, Closed
  <2> QED  BY <1>8, <2>1, <2>2, IdleOK, SameScoresOK DEF ScoringInv, WorkerCrashes
<1>9. ASSUME EngineChanges PROVE ScoringInv'
  <2>1. BreakerInv'
    BY <1>1, <1>9 DEF EngineChanges, BreakerInv
  <2> QED  BY <1>1, <1>9, <2>1, SameJobOK, SameScoresOK DEF ScoringInv, EngineChanges
<1>10. ASSUME Tick PROVE ScoringInv'
  BY <1>1, <1>10, TickGuarded, SameJobOK, SameScoresOK DEF ScoringInv, Tick
<1>11. ASSUME UNCHANGED vars PROVE ScoringInv'
  <2>1. BreakerInv'
    BY <1>1, <1>11 DEF vars, BreakerInv
  <2> QED  BY <1>1, <1>11, <2>1, SameJobOK, SameScoresOK DEF ScoringInv, vars
<1> QED  BY <1>2, <1>3, <1>4, <1>5, <1>6, <1>7, <1>8, <1>9, <1>10, <1>11
         DEF ScoringNext, Run

\* However jobs, failures of the engine, failed writes and crashes interleave, the
\* worker's job, the breaker and the stored results stay in their relation.
THEOREM ScoringSound == Spec => []ScoringInv
<1>1. ScoringInv /\ [ScoringNext]_vars => ScoringInv'
  BY EveryStepKeeps
<1> QED  BY <1>1, Initially, PTL DEF Spec

\* The breaker of AiCircuitBreaker never grants an engine that does not answer more
\* requests than its thresholds say, and no probe is forgotten.
THEOREM EngineAlwaysShielded == Spec => []EngineShielded
<1>1. ScoringInv => EngineShielded
  BY DEF ScoringInv, BreakerInv, EngineShielded
<1> QED  BY <1>1, ScoringSound, PTL

\* What the client refuses the engine never answers, results are written once, and
\* the fallback is declared exactly where scores are missing.
THEOREM ScoresAlwaysKept == Spec => []ScoresKept
<1>1. ScoringInv => ScoresKept
  BY DEF ScoringInv
<1> QED  BY <1>1, ScoringSound, PTL

-----------------------------------------------------------------------------
(* The feature history.                                                    *)
-----------------------------------------------------------------------------
(* The keys of a plugin.                                                   *)

AuthenticationKeys(e) ==
  {UserKey("attempts", e)}
  \cup (IF facts[e].outcome = "failure" THEN {UserKey("failures", e)} ELSE {})
  \cup (IF facts[e].outcome = "success" /\ HasSource(e)
        THEN {UserKey("success-sources", e)} ELSE {})

ProcessKeys(e) ==
  {<<"all", facts[e].host>>, <<"named", facts[e].host, facts[e].name>>}
  \cup (IF facts[e].parent # Missing
        THEN {<<"pair", facts[e].host, facts[e].parent, facts[e].name>>} ELSE {})

NetworkKeys(e) == {<<"ports", facts[e].src>>, <<"port", facts[e].src, facts[e].port>>}

\* The sets a script adds its event to.
AddedKeys(p, e) ==
  CASE p = "temporal" -> TemporalKeys(e)
    [] p = "authentication" -> AuthenticationKeys(e)
    [] p = "process" -> ProcessKeys(e)
    [] p = "network" -> NetworkKeys(e)

Kinds(p) ==
  CASE p = "temporal" ->
         {"source-events", "source-time", "destination-ips", "source-users", "user-events"}
    [] p = "authentication" -> {"attempts", "failures", "success-sources"}
    [] p = "process" -> {"all", "named", "pair"}
    [] p = "network" -> {"ports", "port"}

LEMMA Plugins == Plugin = {"temporal", "authentication", "process", "network"}
BY DEF Plugin, Rank

LEMMA KeysOfKind ==
  ASSUME NEW p \in Plugin, NEW e
  PROVE  \A k \in AddedKeys(p, e) : k[1] \in Kinds(p)
<1>1. CASE p = "temporal"
  BY <1>1 DEF AddedKeys, Kinds, TemporalKeys, SourceKey, UserKey
<1>2. CASE p = "authentication"
  BY <1>2 DEF AddedKeys, Kinds, AuthenticationKeys, UserKey
<1>3. CASE p = "process"
  BY <1>3 DEF AddedKeys, Kinds, ProcessKeys
<1>4. CASE p = "network"
  BY <1>4 DEF AddedKeys, Kinds, NetworkKeys
<1> QED  BY <1>1, <1>2, <1>3, <1>4, Plugins

LEMMA KindsApart ==
  ASSUME NEW p \in Plugin, NEW q \in Plugin, NEW kind \in Kinds(p), kind \in Kinds(q)
  PROVE  p = q
BY Plugins DEF Kinds

LEMMA Windows ==
  \A k : /\ WindowOf(k) \in Nat \ {0}
         /\ k[1] \in {"destination-ips", "source-users"} => WindowOf(k) = TenMinutes
         /\ k[1] \in {"user-events", "attempts", "failures"} => WindowOf(k) = Hour
         /\ k[1] = "success-sources" => WindowOf(k) = Week
         /\ k[1] \in {"source-events", "all", "named", "pair", "ports", "port"} =>
              WindowOf(k) = Day
BY FeatureAssumption DEF WindowOf

-----------------------------------------------------------------------------
(* Sorted sets.                                                            *)

\* A set of pairs of a key and an event.
Paired(h) == \A m \in h : m = <<m[1], m[2]>> /\ m[2] \in Event

TimesTyped == now \in Int /\ \A e \in Event : T(e) \in Int

LEMMA MembersAre ==
  ASSUME NEW h, Paired(h), NEW k
  PROVE  \A f : f \in Members(h, k) <=> <<k, f>> \in h
<1> TAKE f
<1>1. ASSUME f \in Members(h, k)  PROVE <<k, f>> \in h
  <2>1. PICK m \in h : m[1] = k /\ f = m[2]
    BY <1>1 DEF Members
  <2> QED  BY <2>1 DEF Paired
<1>2. ASSUME <<k, f>> \in h  PROVE f \in Members(h, k)
  <2> DEFINE m == <<k, f>>
  <2>1. m \in {n \in h : n[1] = k} /\ m[2] = f
    BY <1>2
  <2> QED  BY <2>1 DEF Members
<1> QED  BY <1>1, <1>2

LEMMA WithinIs ==
  ASSUME NEW h, Paired(h), TimesTyped, NEW k, NEW e \in Event, NEW width \in Nat
  PROVE  \A f : f \in Within(h, k, e, width)
                  <=> <<k, f>> \in h /\ f \in Event /\ T(f) > T(e) - width /\ T(f) <= T(e)
<1> TAKE f
<1>1. f \in Members(h, k) <=> <<k, f>> \in h
  BY MembersAre
<1>2. <<k, f>> \in h => f \in Event
  BY DEF Paired
<1>3. f \in Event => (T(f) \in T(e) - width + 1..T(e) <=> T(f) > T(e) - width /\ T(f) <= T(e))
  BY DEF TimesTyped
<1> QED  BY <1>1, <1>2, <1>3 DEF Within

-----------------------------------------------------------------------------
(* What a script does to the sets.                                         *)

AddedBy(p, e) == {<<k, e>> : k \in AddedKeys(p, e)}

Moves(p, h, e, sets, keys) ==
  /\ sets \subseteq h \cup AddedBy(p, e)
  /\ \A m \in (h \cup AddedBy(p, e)) \ sets :
       m[1][1] \in Kinds(p) /\ T(m[2]) <= T(e) - WindowOf(m[1])
  /\ AddedKeys(p, e) \subseteq keys

LEMMA AddedFresh ==
  ASSUME TimesTyped, NEW p, NEW e \in Event
  PROVE  \A m \in AddedBy(p, e) :
           m[2] = e /\ m[1] \in AddedKeys(p, e) /\ ~(T(m[2]) <= T(e) - WindowOf(m[1]))
BY Windows DEF AddedBy, TimesTyped

LEMMA TemporalMoves ==
  ASSUME NEW h, Paired(h), TimesTyped, NEW e \in Event
  PROVE  LET s == TemporalScript(h, e) IN Moves("temporal", h, e, s.sets, s.keys)
<1> DEFINE added == h \cup {<<k, e>> : k \in TemporalKeys(e)}
           sets == {m \in added : m[1] \in TemporalKeys(e) /\ m[1][1] # "source-time"
                                => T(m[2]) > T(e) - WindowOf(m[1])}
<1>1. TemporalScript(h, e).sets = sets /\ TemporalScript(h, e).keys = TemporalKeys(e)
  BY DEF TemporalScript
<1>2. AddedKeys("temporal", e) = TemporalKeys(e) /\ AddedBy("temporal", e) = {<<k, e>> : k \in TemporalKeys(e)}
  BY DEF AddedKeys, AddedBy
<1>3. \A m \in added : m[2] \in Event
  BY DEF Paired
<1>4. \A k \in TemporalKeys(e) : k[1] \in Kinds("temporal")
  BY KeysOfKind, Plugins, <1>2
<1>5. \A m \in added \ sets : m[1][1] \in Kinds("temporal") /\ T(m[2]) <= T(e) - WindowOf(m[1])
  BY <1>3, <1>4, Windows DEF TimesTyped
<1> QED  BY <1>1, <1>2, <1>5 DEF Moves

LEMMA AuthenticationMoves ==
  ASSUME NEW h, Paired(h), TimesTyped, NEW e \in Event, Applies("authentication", e)
  PROVE  LET s == AuthenticationScript(h, e) IN Moves("authentication", h, e, s.sets, s.keys)
<1> DEFINE attempts == UserKey("attempts", e)
           failed == UserKey("failures", e)
           sources == UserKey("success-sources", e)
           h1 == Slide(h, attempts, e)
           h2 == IF facts[e].outcome = "failure" THEN Slide(h1, failed, e) ELSE Prune(h1, failed, e)
           h3 == IF facts[e].outcome = "success" THEN Add(h2, sources, e) ELSE h2
           sets == IF HasSource(e) THEN Prune(h3, sources, e) ELSE h2
           keys == {attempts, failed} \cup (IF HasSource(e) THEN {sources} ELSE {})
           mine(m) == m[1][1] \in Kinds("authentication") /\ T(m[2]) <= T(e) - WindowOf(m[1])
<1>1. AuthenticationScript(h, e).sets = sets /\ AuthenticationScript(h, e).keys = keys
  BY DEF AuthenticationScript
<1>2. AddedKeys("authentication", e) = AuthenticationKeys(e)
  BY DEF AddedKeys
<1>3. /\ attempts[1] = "attempts" /\ failed[1] = "failures" /\ sources[1] = "success-sources"
      /\ {"attempts", "failures", "success-sources"} = Kinds("authentication")
  BY DEF UserKey, Kinds
<1>4. \A m \in h \cup AddedBy("authentication", e) : m[2] \in Event
  BY AddedFresh DEF Paired
<1>5. /\ h1 \subseteq h \cup {<<attempts, e>>}
      /\ \A m \in (h \cup {<<attempts, e>>}) \ h1 : m[2] \in Event => mine(m)
  BY <1>3, Windows DEF Slide, Prune, Add, TimesTyped
<1>6. /\ h2 \subseteq h1 \cup (IF facts[e].outcome = "failure" THEN {<<failed, e>>} ELSE {})
      /\ \A m \in (h1 \cup (IF facts[e].outcome = "failure" THEN {<<failed, e>>} ELSE {})) \ h2 :
           m[2] \in Event => mine(m)
  BY <1>3, Windows DEF Slide, Prune, Add, TimesTyped
<1>7. /\ sets \subseteq h2 \cup (IF facts[e].outcome = "success" /\ HasSource(e)
                                  THEN {<<sources, e>>} ELSE {})
      /\ \A m \in (h2 \cup (IF facts[e].outcome = "success" /\ HasSource(e)
                                  THEN {<<sources, e>>} ELSE {})) \ sets :
           m[2] \in Event => mine(m)
  BY <1>3, Windows DEF Prune, Add, TimesTyped
<1>8. AddedBy("authentication", e) =
        {<<attempts, e>>}
        \cup (IF facts[e].outcome = "failure" THEN {<<failed, e>>} ELSE {})
        \cup (IF facts[e].outcome = "success" /\ HasSource(e) THEN {<<sources, e>>} ELSE {})
  BY <1>2 DEF AddedBy, AuthenticationKeys
<1> HIDE DEF attempts, failed, sources, h1, h2, h3, sets
<1>9. sets \subseteq h \cup AddedBy("authentication", e)
  BY <1>5, <1>6, <1>7, <1>8
<1>10. \A m \in (h \cup AddedBy("authentication", e)) \ sets : mine(m)
  BY <1>4, <1>5, <1>6, <1>7, <1>8
<1>11. AuthenticationKeys(e) \subseteq keys
  BY DEF AuthenticationKeys, attempts, failed, sources
<1> QED  BY <1>1, <1>2, <1>9, <1>10, <1>11 DEF Moves

LEMMA ProcessMoves ==
  ASSUME NEW h, Paired(h), TimesTyped, NEW e \in Event
  PROVE  LET s == ProcessScript(h, e) IN Moves("process", h, e, s.sets, s.keys)
<1> DEFINE pruned == {m \in h : m[1] \in ProcessKeys(e) => T(m[2]) > T(e) - Day}
<1>1. /\ ProcessScript(h, e).sets = pruned \cup {<<k, e>> : k \in ProcessKeys(e)}
      /\ ProcessScript(h, e).keys = ProcessKeys(e)
  BY DEF ProcessScript, ProcessKeys
<1>2. AddedKeys("process", e) = ProcessKeys(e) /\ AddedBy("process", e) = {<<k, e>> : k \in ProcessKeys(e)}
  BY DEF AddedKeys, AddedBy
<1>3. \A k \in ProcessKeys(e) : k[1] \in Kinds("process") /\ WindowOf(k) = Day
  BY Windows DEF ProcessKeys, Kinds
<1>4. \A m \in h \ pruned : m[1][1] \in Kinds("process") /\ T(m[2]) <= T(e) - WindowOf(m[1])
  BY <1>3, FeatureAssumption DEF TimesTyped, Paired
<1> QED  BY <1>1, <1>2, <1>4 DEF Moves

LEMMA NetworkMoves ==
  ASSUME NEW h, Paired(h), TimesTyped, NEW e \in Event
  PROVE  LET s == NetworkScript(h, e) IN Moves("network", h, e, s.sets, s.keys)
<1> DEFINE all == <<"ports", facts[e].src>>
           port == <<"port", facts[e].src, facts[e].port>>
           pruned == Prune(Prune(h, all, e), port, e)
<1>1. /\ NetworkScript(h, e).sets = pruned \cup {<<all, e>>, <<port, e>>}
      /\ NetworkScript(h, e).keys = {all, port}
  BY DEF NetworkScript, Add
<1>2. AddedKeys("network", e) = {all, port} /\ AddedBy("network", e) = {<<all, e>>, <<port, e>>}
  BY DEF AddedKeys, AddedBy, NetworkKeys
<1>3. \A m \in h \ pruned : m[1][1] \in Kinds("network") /\ T(m[2]) <= T(e) - WindowOf(m[1])
  BY Windows DEF Prune, TimesTyped, Paired, Kinds
<1>4. pruned \subseteq h
  BY DEF Prune
<1> QED  BY <1>1, <1>2, <1>3, <1>4 DEF Moves

LEMMA ScriptMoves ==
  ASSUME NEW h, Paired(h), TimesTyped, NEW p \in Plugin, NEW e \in Event, Applies(p, e)
  PROVE  Moves(p, h, e, Script(p, h, e).sets, Script(p, h, e).keys)
BY TemporalMoves, AuthenticationMoves, ProcessMoves, NetworkMoves, Plugins DEF Script

-----------------------------------------------------------------------------
(* The invariant.                                                          *)

CallOf(i) == <<log[i][1], log[i][2]>>

\* The log holds each counted call once, and the snapshots are its answers.
LogTyped ==
  /\ log \in Seq(Plugin \X Event \X Int)
  /\ \A i \in DOMAIN log : Applies(log[i][1], log[i][2]) /\ log[i][3] <= now
  /\ \A i, j \in DOMAIN log : CallOf(i) = CallOf(j) => i = j
  /\ DOMAIN snapshots = {CallOf(i) : i \in DOMAIN log}

\* What was counted may have been forgotten: its time has passed on the clock of
\* Redis, or in the times of the events its plugin has counted.
Forgotten(i, k) ==
  \/ now >= log[i][3] + WindowOf(k)
  \/ \E j \in DOMAIN log :
       log[j][1] = log[i][1] /\ T(log[j][2]) >= T(log[i][2]) + WindowOf(k)

\* The sorted sets hold what was counted and nothing else, but for what may have
\* been forgotten, and a key lives as long as what was last added to it.
HistoryKept ==
  /\ Paired(history)
  /\ \A m \in history : \E i \in DOMAIN log :
       m[2] = log[i][2] /\ m[1] \in AddedKeys(log[i][1], log[i][2])
  /\ \A k \in DOMAIN touched : touched[k] \in Int
  /\ \A i \in DOMAIN log : \A k \in AddedKeys(log[i][1], log[i][2]) :
       /\ k \in DOMAIN touched /\ touched[k] >= log[i][3]
       /\ <<k, log[i][2]>> \in history \/ Forgotten(i, k)

-----------------------------------------------------------------------------
(* What a window of a sorted set holds.                                    *)

Counted(p) == {log[i][2] : i \in {j \in DOMAIN log : log[j][1] = p}}

\* If event e were counted now, it would come in order.
ComesInOrder(p, e) ==
  \A i \in DOMAIN log : log[i][1] = p => T(log[i][2]) <= T(e) /\ now - T(e) <= Delay(i)

LEMMA CountedIs ==
  ASSUME LogTyped, NEW p
  PROVE  /\ Counted(p) \subseteq Event /\ IsFiniteSet(Counted(p))
         /\ \A f \in Counted(p) : Applies(p, f)
         /\ \A f \in Counted(p) : \E i \in DOMAIN log : log[i][1] = p /\ log[i][2] = f
<1>0. DOMAIN log = 1..Len(log) /\ Len(log) \in Nat
  BY DEF LogTyped
<1>1. \A f \in Counted(p) : \E i \in DOMAIN log : log[i][1] = p /\ log[i][2] = f
  BY DEF Counted
<1>2. \A i \in DOMAIN log : log[i][2] \in Event
  BY DEF LogTyped
<1> DEFINE S == {j \in DOMAIN log : log[j][1] = p}
<1>3. IsFiniteSet(S)
  <2>1. IsFiniteSet(1..Len(log))
    BY <1>0, FS_Interval
  <2>2. S \in SUBSET (1..Len(log))
    BY <1>0
  <2> HIDE DEF S
  <2> QED  BY <2>1, <2>2, FS_Subset
<1>4. IsFiniteSet({log[i][2] : i \in S})
  <2> DEFINE image == {log[i][2] : i \in S}
             f == [i \in S |-> log[i][2]]
  <2>1. f \in Surjection(S, image)
    BY DEF Surjection
  <2> HIDE DEF S, f, image
  <2>2. IsFiniteSet(image)
    BY <1>3, <2>1, FS_Surjection
  <2> QED  BY <2>2 DEF image
<1> QED  BY <1>1, <1>2, <1>4 DEF Counted, LogTyped

LEMMA LivePaired ==
  ASSUME HistoryKept
  PROVE  Paired(Live)
BY DEF HistoryKept, Paired, Live

\* In order, a window that a key keeps holds all that was counted in it.
LEMMA WindowHolds ==
  ASSUME LogTyped, HistoryKept, TimesTyped, NEW p \in Plugin, NEW e \in Event,
         ComesInOrder(p, e), NEW k, k[1] \in Kinds(p),
         NEW width \in Nat, width <= WindowOf(k)
  PROVE  \A f : f \in Within(Live, k, e, width)
                  <=> f \in Recent(Counted(p), e, width) /\ k \in AddedKeys(p, f)
<1> TAKE f
<1>0. f \in Within(Live, k, e, width)
        <=> <<k, f>> \in Live /\ f \in Event /\ T(f) > T(e) - width /\ T(f) <= T(e)
  BY WithinIs, LivePaired
<1>a. WindowOf(k) \in Nat /\ now \in Int /\ T(e) \in Int
  BY Windows DEF TimesTyped
<1>b. \A i \in DOMAIN log : log[i][1] \in Plugin /\ log[i][2] \in Event /\ log[i][3] \in Int
  BY DEF LogTyped
<1>1. ASSUME <<k, f>> \in Live, T(f) > T(e) - width
      PROVE  f \in Recent(Counted(p), e, width) /\ k \in AddedKeys(p, f)
  <2>1. <<k, f>> \in history
    BY <1>1 DEF Live
  <2>2. PICK i \in DOMAIN log : f = log[i][2] /\ k \in AddedKeys(log[i][1], log[i][2])
    BY <2>1 DEF HistoryKept
  <2>3. log[i][1] = p
    BY <2>2, <1>b, KeysOfKind, KindsApart
  <2> QED  BY <1>1, <2>2, <2>3 DEF Recent, Counted
<1>2. ASSUME f \in Recent(Counted(p), e, width), k \in AddedKeys(p, f)
      PROVE  <<k, f>> \in Live /\ f \in Event /\ T(f) > T(e) - width /\ T(f) <= T(e)
  <2>1. f \in Counted(p) /\ T(f) > T(e) - width
    BY <1>2 DEF Recent
  <2>2. PICK i \in DOMAIN log : log[i][1] = p /\ log[i][2] = f
    BY <2>1, CountedIs
  <2>3. f \in Event /\ T(f) \in Int /\ log[i][3] \in Int
    BY <2>2, <1>b DEF TimesTyped
  <2>4. T(f) <= T(e) /\ now - T(e) <= log[i][3] - T(f)
    BY <2>2 DEF ComesInOrder, Delay
  <2>5. k \in DOMAIN touched /\ touched[k] \in Int /\ touched[k] >= log[i][3]
    BY <2>2, <1>2 DEF HistoryKept
  <2>6. now < log[i][3] + WindowOf(k)
    BY <2>1, <2>3, <2>4, <1>a
  <2>7. ASSUME NEW j \in DOMAIN log, log[j][1] = p  PROVE ~(T(log[j][2]) >= T(f) + WindowOf(k))
    <3>1. T(log[j][2]) <= T(e) /\ T(log[j][2]) \in Int
      BY <2>7, <1>b DEF ComesInOrder, TimesTyped
    <3> QED  BY <3>1, <2>1, <2>3, <1>a
  <2>8. ~Forgotten(i, k)
    BY <2>2, <2>3, <2>6, <2>7, <1>a DEF Forgotten
  <2>9. <<k, f>> \in history
    BY <2>2, <2>8, <1>2 DEF HistoryKept
  <2>10. now < touched[k] + WindowOf(k)
    BY <2>5, <2>6, <2>3, <1>a
  <2> QED  BY <2>1, <2>3, <2>4, <2>9, <2>10 DEF Live
<1> QED  BY <1>0, <1>1, <1>2

-----------------------------------------------------------------------------
(* What a script answers.                                                  *)

LEMMA TemporalKeysMean ==
  \A f, x :
    /\ <<"source-events", x>> \in TemporalKeys(f) <=> HasSource(f) /\ facts[f].src = x
    /\ <<"destination-ips", x>> \in TemporalKeys(f)
         <=> HasSource(f) /\ facts[f].src = x /\ facts[f].dst # Missing
    /\ <<"source-users", x>> \in TemporalKeys(f)
         <=> HasSource(f) /\ facts[f].src = x /\ HasUser(f)
    /\ <<"user-events", x>> \in TemporalKeys(f) <=> HasUser(f) /\ facts[f].user = x
BY DEF TemporalKeys, SourceKey, UserKey

LEMMA TemporalCounts ==
  ASSUME LogTyped, HistoryKept, TimesTyped, NEW e \in Event, ComesInOrder("temporal", e)
  PROVE  TemporalExact(Counted("temporal"), e, TemporalScript(Live, e).values)
<1> DEFINE C == Counted("temporal")
           K(kind) == SourceKey(kind, e)
           keys == TemporalKeys(e)
           added == Live \cup {<<k, e>> : k \in keys}
           after == {m \in added : m[1] \in keys /\ m[1][1] # "source-time"
                                     => T(m[2]) > T(e) - WindowOf(m[1])}
           v == TemporalScript(Live, e).values
           distinct(kind, field) == {facts[f][field] : f \in Within(after, K(kind), e, TenMinutes)}
           source(w) == Sharing("src", e, Recent(C, e, w) \cup {e})
           users == Sharing("user", e, Recent(C, e, Hour) \cup {e})
<1>0. \A f : AddedKeys("temporal", f) = TemporalKeys(f)
  BY DEF AddedKeys
<1>1. ASSUME NEW k \in keys, k[1] # "source-time", NEW width \in Nat \ {0}, width <= WindowOf(k), NEW f
      PROVE  f \in Within(after, k, e, width)
               <=> f = e \/ (f \in Recent(C, e, width) /\ k \in TemporalKeys(f))
  <2>1. Paired(Live)
    BY LivePaired
  <2>2. Paired(after)
    BY <2>1 DEF Paired
  <2>3. f \in Within(after, k, e, width)
          <=> <<k, f>> \in after /\ f \in Event /\ T(f) > T(e) - width /\ T(f) <= T(e)
    BY <2>2, WithinIs
  <2>4. f \in Within(Live, k, e, width)
          <=> <<k, f>> \in Live /\ f \in Event /\ T(f) > T(e) - width /\ T(f) <= T(e)
    BY <2>1, WithinIs
  <2>5. f \in Within(Live, k, e, width) <=> f \in Recent(C, e, width) /\ k \in TemporalKeys(f)
    BY <1>0, <1>1, KeysOfKind, Plugins, WindowHolds
  <2>6. WindowOf(k) \in Nat /\ T(e) \in Int /\ (f \in Event => T(f) \in Int)
    BY Windows DEF TimesTyped
  <2>7. f \in Event /\ T(f) > T(e) - width => (<<k, f>> \in after <=> <<k, f>> \in Live \/ f = e)
    BY <1>1, <2>6
  <2> HIDE DEF after, C
  <2>8. f = e => f \in Within(after, k, e, width)
    BY <2>3, <2>6, <2>7, <1>1
  <2> QED  BY <2>3, <2>4, <2>5, <2>7, <2>8
<1>2. /\ v.per_minute = IF HasSource(e)
                        THEN Cardinality(Within(after, K("source-events"), e, Minute)) ELSE 0
      /\ v.per_hour = IF HasUser(e)
                      THEN Cardinality(Within(after, UserKey("user-events", e), e, Hour)) ELSE 0
      /\ v.destinations = IF K("destination-ips") \in keys
                          THEN Cardinality(distinct("destination-ips", "dst")) ELSE 1
      /\ v.users = IF K("source-users") \in keys
                   THEN Cardinality(distinct("source-users", "user")) ELSE 1
  BY DEF TemporalScript, Count
<1> HIDE DEF after, v, C
<1>3. {Minute, TenMinutes, Hour, Day} \subseteq Nat \ {0} /\ Minute <= Day
  BY FeatureAssumption
<1>4. ASSUME HasSource(e)
      PROVE  Within(after, K("source-events"), e, Minute) = source(Minute)
  <2>1. K("source-events") \in keys /\ WindowOf(K("source-events")) = Day
    BY <1>4, TemporalKeysMean, Windows DEF SourceKey
  <2>2. \A f : f \in Within(after, K("source-events"), e, Minute)
                 <=> f = e \/ (f \in Recent(C, e, Minute) /\ K("source-events") \in TemporalKeys(f))
    BY <1>1, <1>3, <2>1 DEF SourceKey
  <2>3. \A f : K("source-events") \in TemporalKeys(f) <=> facts[f].src = facts[e].src
    BY <1>4, TemporalKeysMean DEF SourceKey, HasSource
  <2> QED  BY <2>2, <2>3 DEF Sharing
<1>5. ASSUME HasUser(e)
      PROVE  Within(after, UserKey("user-events", e), e, Hour) = users
  <2> DEFINE k == UserKey("user-events", e)
  <2>1. k \in keys /\ WindowOf(k) = Hour
    BY <1>5, TemporalKeysMean, Windows DEF UserKey
  <2>2. \A f : f \in Within(after, k, e, Hour)
                 <=> f = e \/ (f \in Recent(C, e, Hour) /\ k \in TemporalKeys(f))
    BY <1>1, <1>3, <2>1 DEF UserKey
  <2>3. \A f : k \in TemporalKeys(f) <=> facts[f].user = facts[e].user
    BY <1>5, TemporalKeysMean DEF UserKey, HasUser
  <2> QED  BY <2>2, <2>3 DEF Sharing
<1>6. ASSUME HasSource(e), HasUser(e)
      PROVE  K("source-users") \in keys
             /\ distinct("source-users", "user") = {facts[f].user : f \in source(TenMinutes)} \ {Missing}
  <2> DEFINE k == K("source-users")
  <2>1. k \in keys /\ WindowOf(k) = TenMinutes
    BY <1>6, TemporalKeysMean, Windows DEF SourceKey
  <2>2. \A f : f \in Within(after, k, e, TenMinutes)
                 <=> f = e \/ (f \in Recent(C, e, TenMinutes) /\ k \in TemporalKeys(f))
    BY <1>1, <1>3, <2>1 DEF SourceKey
  <2>3. \A f : k \in TemporalKeys(f) <=> facts[f].src = facts[e].src /\ HasUser(f)
    BY <1>6, TemporalKeysMean DEF SourceKey, HasSource
  <2>4. \A f : f \in Within(after, k, e, TenMinutes) <=> f \in source(TenMinutes) /\ facts[f].user # Missing
    BY <1>6, <2>2, <2>3 DEF Sharing, HasUser
  <2> QED  BY <2>1, <2>4
<1>7. ASSUME HasSource(e), facts[e].dst # Missing
      PROVE  K("destination-ips") \in keys
             /\ distinct("destination-ips", "dst") = {facts[f].dst : f \in source(TenMinutes)} \ {Missing}
  <2> DEFINE k == K("destination-ips")
  <2>1. k \in keys /\ WindowOf(k) = TenMinutes
    BY <1>7, TemporalKeysMean, Windows DEF SourceKey
  <2>2. \A f : f \in Within(after, k, e, TenMinutes)
                 <=> f = e \/ (f \in Recent(C, e, TenMinutes) /\ k \in TemporalKeys(f))
    BY <1>1, <1>3, <2>1 DEF SourceKey
  <2>3. \A f : k \in TemporalKeys(f) <=> facts[f].src = facts[e].src /\ facts[f].dst # Missing
    BY <1>7, TemporalKeysMean DEF SourceKey, HasSource
  <2>4. \A f : f \in Within(after, k, e, TenMinutes) <=> f \in source(TenMinutes) /\ facts[f].dst # Missing
    BY <1>7, <2>2, <2>3 DEF Sharing
  <2> QED  BY <2>1, <2>4
<1> QED
  BY <1>2, <1>4, <1>5, <1>6, <1>7 DEF TemporalExact, v, C

LEMMA AuthenticationCounts ==
  ASSUME LogTyped, HistoryKept, TimesTyped, NEW e \in Event, Applies("authentication", e),
         ComesInOrder("authentication", e), <<"authentication", e>> \notin DOMAIN snapshots
  PROVE  AuthenticationExact(Counted("authentication"), e, AuthenticationScript(Live, e).values)
<1> DEFINE C == Counted("authentication")
           h == Live
           attempts == UserKey("attempts", e)
           failed == UserKey("failures", e)
           sources == UserKey("success-sources", e)
           h1 == Slide(h, attempts, e)
           h2 == IF facts[e].outcome = "failure" THEN Slide(h1, failed, e) ELSE Prune(h1, failed, e)
           known == {facts[f].src : f \in Within(h2, sources, e, Week)}
           v == AuthenticationScript(h, e).values
           tries(w) == Sharing("user", e, Recent(C, e, w) \cup {e})
           fails(w) == {f \in tries(w) : facts[f].outcome = "failure"}
<1>0. \A f : AddedKeys("authentication", f) = AuthenticationKeys(f)
  BY DEF AddedKeys
<1>a. /\ attempts[1] = "attempts" /\ failed[1] = "failures" /\ sources[1] = "success-sources"
      /\ {"attempts", "failures", "success-sources"} = Kinds("authentication")
      /\ WindowOf(attempts) = Hour /\ WindowOf(failed) = Hour /\ WindowOf(sources) = Week
      /\ attempts # failed /\ attempts # sources /\ failed # sources
  BY Windows DEF UserKey, Kinds
<1>b. {TenMinutes, Hour, Week} \subseteq Nat \ {0} /\ TenMinutes <= Hour
  BY FeatureAssumption
<1>c. /\ v.failed = Cardinality(Within(h2, failed, e, TenMinutes))
      /\ v.ratio = <<Cardinality(Within(h2, failed, e, Hour)), Cardinality(Within(h2, attempts, e, Hour))>>
      /\ v.new_source = (HasSource(e) /\ facts[e].src \notin known)
  BY DEF AuthenticationScript, Count
<1>d. HasUser(e) /\ facts[e].outcome \in {"success", "failure"}
  BY DEF Applies, Authenticates
<1>e. \A f \in C : HasUser(f) /\ facts[f].outcome \in {"success", "failure"}
  <2>1. \A f \in C : Applies("authentication", f)
    BY CountedIs
  <2> HIDE DEF C
  <2> QED  BY <2>1 DEF Applies, Authenticates
<1>f. e \notin C
  BY CountedIs DEF LogTyped, CallOf
<1>g. \A f : Applies("authentication", f) =>
        /\ attempts \in AuthenticationKeys(f) <=> facts[f].user = facts[e].user
        /\ failed \in AuthenticationKeys(f)
             <=> facts[f].user = facts[e].user /\ facts[f].outcome = "failure"
        /\ sources \in AuthenticationKeys(f)
             <=> facts[f].user = facts[e].user /\ facts[f].outcome = "success" /\ HasSource(f)
  BY DEF AuthenticationKeys, UserKey
<1>1. ASSUME NEW k \in {attempts, failed, sources}, NEW width \in Nat, width <= WindowOf(k), NEW f
      PROVE  f \in Within(h, k, e, width) <=> f \in Recent(C, e, width) /\ k \in AuthenticationKeys(f)
  BY <1>0, <1>1, <1>a, Plugins, WindowHolds
<1>2. Paired(h) /\ Paired(h1) /\ Paired(h2)
  <2>1. Paired(h)
    BY LivePaired
  <2> HIDE DEF h
  <2>2. Paired(h1)
    BY <2>1 DEF Paired, Slide, Prune, Add
  <2> HIDE DEF h1
  <2> QED  BY <2>1, <2>2 DEF Paired, Slide, Prune, Add
<1>3. ASSUME NEW f \in Event, NEW width \in Nat, T(f) > T(e) - width
      PROVE  /\ width <= Hour => (<<attempts, f>> \in h2 <=> <<attempts, f>> \in h \/ f = e)
             /\ width <= Hour => (<<failed, f>> \in h2
                  <=> <<failed, f>> \in h \/ (f = e /\ facts[e].outcome = "failure"))
             /\ <<sources, f>> \in h2 <=> <<sources, f>> \in h
  <2>1. T(f) \in Int /\ T(e) \in Int /\ T(e) > T(e) - Hour
    BY <1>b DEF TimesTyped
  <2>2. width <= Hour => T(f) > T(e) - Hour
    BY <1>3, <1>b, <2>1
  <2> HIDE DEF attempts, failed, sources, h
  <2>3. /\ width <= Hour => (<<attempts, f>> \in h1 <=> <<attempts, f>> \in h \/ f = e)
        /\ <<failed, f>> \in h1 <=> <<failed, f>> \in h
        /\ <<sources, f>> \in h1 <=> <<sources, f>> \in h
    BY <1>a, <2>1, <2>2 DEF Slide, Prune, Add
  <2> HIDE DEF h1
  <2> QED  BY <1>a, <2>1, <2>2, <2>3 DEF Slide, Prune, Add
<1>4. ASSUME NEW k \in {attempts, failed, sources}, NEW width \in Nat, NEW f
      PROVE  /\ f \in Within(h, k, e, width)
                  <=> <<k, f>> \in h /\ f \in Event /\ T(f) > T(e) - width /\ T(f) <= T(e)
             /\ f \in Within(h2, k, e, width)
                  <=> <<k, f>> \in h2 /\ f \in Event /\ T(f) > T(e) - width /\ T(f) <= T(e)
  BY <1>2, WithinIs
<1> HIDE DEF v, h, h1, h2, attempts, failed, sources, C
<1>5. \A f, w : f \in Recent(C, e, w) => f \in C /\ Applies("authentication", f)
  BY CountedIs DEF Recent, C
<1>6. \A w \in Nat : w # 0 => T(e) > T(e) - w /\ T(e) <= T(e)
  BY DEF TimesTyped
<1>7. ASSUME NEW w \in Nat \ {0}, w <= Hour
      PROVE  Within(h2, attempts, e, w) = tries(w) /\ Within(h2, failed, e, w) = fails(w)
  <2>1. ASSUME NEW f
        PROVE  f \in Within(h2, attempts, e, w)
                 <=> f = e \/ (f \in Recent(C, e, w) /\ facts[f].user = facts[e].user)
    <3>1. f \in Within(h, attempts, e, w)
            <=> f \in Recent(C, e, w) /\ attempts \in AuthenticationKeys(f)
      BY <1>1, <1>7, <1>a
    <3>2. f \in Recent(C, e, w) =>
            (attempts \in AuthenticationKeys(f) <=> facts[f].user = facts[e].user)
      BY <1>5, <1>g
    <3>3. f \in Event /\ T(f) > T(e) - w => (<<attempts, f>> \in h2 <=> <<attempts, f>> \in h \/ f = e)
      BY <1>3, <1>7
    <3> QED  BY <1>4, <1>6, <1>7, <3>1, <3>2, <3>3
  <2>2. ASSUME NEW f
        PROVE  f \in Within(h2, failed, e, w)
                 <=> (f = e /\ facts[e].outcome = "failure")
                     \/ (f \in Recent(C, e, w) /\ facts[f].user = facts[e].user /\ facts[f].outcome = "failure")
    <3>1. f \in Within(h, failed, e, w)
            <=> f \in Recent(C, e, w) /\ failed \in AuthenticationKeys(f)
      BY <1>1, <1>7, <1>a
    <3>2. f \in Recent(C, e, w) =>
            (failed \in AuthenticationKeys(f)
               <=> facts[f].user = facts[e].user /\ facts[f].outcome = "failure")
      BY <1>5, <1>g
    <3>3. f \in Event /\ T(f) > T(e) - w =>
            (<<failed, f>> \in h2 <=> <<failed, f>> \in h \/ (f = e /\ facts[e].outcome = "failure"))
      BY <1>3, <1>7
    <3> QED  BY <1>4, <1>6, <1>7, <3>1, <3>2, <3>3
  <2> QED  BY <2>1, <2>2 DEF Sharing
<1>8. ASSUME HasSource(e)
      PROVE  facts[e].src \notin known
               <=> ~\E f \in (tries(Week) \ fails(Week)) \ {e} : facts[f].src = facts[e].src
  <2>1. ASSUME NEW f
        PROVE  f \in Within(h2, sources, e, Week)
                 <=> f \in Recent(C, e, Week) /\ facts[f].user = facts[e].user
                     /\ facts[f].outcome = "success" /\ HasSource(f)
    <3>1. f \in Within(h, sources, e, Week)
            <=> f \in Recent(C, e, Week) /\ sources \in AuthenticationKeys(f)
      BY <1>1, <1>a, <1>b
    <3>2. f \in Recent(C, e, Week) =>
            (sources \in AuthenticationKeys(f)
               <=> facts[f].user = facts[e].user /\ facts[f].outcome = "success" /\ HasSource(f))
      BY <1>5, <1>g
    <3>3. f \in Event /\ T(f) > T(e) - Week => (<<sources, f>> \in h2 <=> <<sources, f>> \in h)
      BY <1>3, <1>b
    <3> QED  BY <1>4, <1>b, <3>1, <3>2, <3>3
  <2>2. \A f : f \in (tries(Week) \ fails(Week)) \ {e}
                 <=> f \in Recent(C, e, Week) /\ facts[f].user = facts[e].user
                     /\ facts[f].outcome # "failure"
    BY <1>5, <1>f DEF Sharing
  <2>3. \A f \in Recent(C, e, Week) : facts[f].outcome = "success" <=> facts[f].outcome # "failure"
    BY <1>5, <1>e
  <2>4. \A f : facts[f].src = facts[e].src => HasSource(f)
    BY <1>8 DEF HasSource
  <2> QED  BY <2>1, <2>2, <2>3, <2>4
<1>9. /\ v.failed = Cardinality(fails(TenMinutes))
      /\ v.ratio = <<Cardinality(fails(Hour)), Cardinality(tries(Hour))>>
  <2>1. TenMinutes \in Nat \ {0} /\ Hour \in Nat \ {0} /\ TenMinutes <= Hour /\ Hour <= Hour
    BY <1>b
  <2>2. Within(h2, failed, e, TenMinutes) = fails(TenMinutes)
    BY <1>7, <2>1
  <2>3. Within(h2, failed, e, Hour) = fails(Hour) /\ Within(h2, attempts, e, Hour) = tries(Hour)
    BY <1>7, <2>1
  <2> QED  BY <1>c, <2>2, <2>3
<1> QED
  BY <1>c, <1>8, <1>9 DEF AuthenticationExact, v, C, h

LEMMA RarityCounts ==
  ASSUME NEW S, NEW A, NEW h, NEW all, NEW named, NEW e, IsFiniteSet(S),
         Within(h, all, e, Day) = S, Within(h, named, e, Day) = A
  PROVE  Rarity(h, all, named, e) =
           IF S = {} THEN <<1, 1>> ELSE <<Cardinality(S) - Cardinality(A), Cardinality(S)>>
BY FS_EmptySet DEF Rarity, Count

LEMMA ProcessCounts ==
  ASSUME LogTyped, HistoryKept, TimesTyped, NEW e \in Event, Applies("process", e),
         ComesInOrder("process", e)
  PROVE  RarityExact("host", "name", Counted("process"), e, ProcessScript(Live, e).values)
<1> DEFINE C == Counted("process")
           all == <<"all", facts[e].host>>
           named == <<"named", facts[e].host, facts[e].name>>
           pruned == {m \in Live : m[1] \in ProcessKeys(e) => T(m[2]) > T(e) - Day}
           hosts == Sharing("host", e, Recent(C, e, Day))
<1>1. ProcessScript(Live, e).values.rarity = Rarity(pruned, all, named, e)
  BY DEF ProcessScript, ProcessKeys
<1>2. \A f : AddedKeys("process", f) = ProcessKeys(f)
  BY DEF AddedKeys
<1>3. \A f : /\ all \in ProcessKeys(f) <=> facts[f].host = facts[e].host
             /\ named \in ProcessKeys(f)
                  <=> facts[f].host = facts[e].host /\ facts[f].name = facts[e].name
  BY DEF ProcessKeys
<1>4. /\ Day \in Nat /\ WindowOf(all) = Day /\ WindowOf(named) = Day
      /\ all[1] \in Kinds("process") /\ named[1] \in Kinds("process")
  BY Windows, FeatureAssumption DEF Kinds
<1>5. Paired(Live) /\ Paired(pruned)
  BY LivePaired DEF Paired
<1>6. ASSUME NEW k \in {all, named}, NEW f
      PROVE  f \in Within(pruned, k, e, Day) <=> f \in Recent(C, e, Day) /\ k \in ProcessKeys(f)
  <2>1. f \in Within(Live, k, e, Day) <=> f \in Recent(C, e, Day) /\ k \in ProcessKeys(f)
    BY <1>2, <1>4, Plugins, WindowHolds
  <2>2. f \in Within(Live, k, e, Day)
          <=> <<k, f>> \in Live /\ f \in Event /\ T(f) > T(e) - Day /\ T(f) <= T(e)
    BY <1>4, <1>5, WithinIs
  <2>3. f \in Within(pruned, k, e, Day)
          <=> <<k, f>> \in pruned /\ f \in Event /\ T(f) > T(e) - Day /\ T(f) <= T(e)
    BY <1>4, <1>5, WithinIs
  <2>4. T(f) > T(e) - Day => (<<k, f>> \in pruned <=> <<k, f>> \in Live)
    OBVIOUS
  <2> QED  BY <2>1, <2>2, <2>3, <2>4
<1>7. IsFiniteSet(hosts)
  BY CountedIs, FS_Subset DEF Sharing, Recent
<1> HIDE DEF pruned, C
<1>8. Within(pruned, all, e, Day) = hosts /\ Within(pruned, named, e, Day) = Sharing("name", e, hosts)
  BY <1>3, <1>6 DEF Sharing
<1> HIDE DEF hosts
<1>9. Rarity(pruned, all, named, e) =
        IF hosts = {} THEN <<1, 1>>
        ELSE <<Cardinality(hosts) - Cardinality(Sharing("name", e, hosts)), Cardinality(hosts)>>
  BY <1>7, <1>8, RarityCounts
<1> QED  BY <1>1, <1>9 DEF RarityExact, hosts, C

LEMMA NetworkCounts ==
  ASSUME LogTyped, HistoryKept, TimesTyped, NEW e \in Event, Applies("network", e),
         ComesInOrder("network", e)
  PROVE  RarityExact("src", "port", Counted("network"), e, NetworkScript(Live, e).values)
<1> DEFINE C == Counted("network")
           all == <<"ports", facts[e].src>>
           port == <<"port", facts[e].src, facts[e].port>>
           pruned == Prune(Prune(Live, all, e), port, e)
           shared == Sharing("src", e, Recent(C, e, Day))
<1>1. NetworkScript(Live, e).values.rarity = Rarity(pruned, all, port, e)
  BY DEF NetworkScript
<1>2. \A f : AddedKeys("network", f) = NetworkKeys(f)
  BY DEF AddedKeys
<1>3. \A f : /\ all \in NetworkKeys(f) <=> facts[f].src = facts[e].src
             /\ port \in NetworkKeys(f)
                  <=> facts[f].src = facts[e].src /\ facts[f].port = facts[e].port
  BY DEF NetworkKeys
<1>4. /\ Day \in Nat /\ WindowOf(all) = Day /\ WindowOf(port) = Day
      /\ all[1] \in Kinds("network") /\ port[1] \in Kinds("network")
  BY Windows, FeatureAssumption DEF Kinds
<1>5. Paired(Live) /\ Paired(pruned)
  BY LivePaired DEF Paired, Prune
<1>6. ASSUME NEW k \in {all, port}, NEW f
      PROVE  f \in Within(pruned, k, e, Day) <=> f \in Recent(C, e, Day) /\ k \in NetworkKeys(f)
  <2>1. f \in Within(Live, k, e, Day) <=> f \in Recent(C, e, Day) /\ k \in NetworkKeys(f)
    BY <1>2, <1>4, Plugins, WindowHolds
  <2>2. f \in Within(Live, k, e, Day)
          <=> <<k, f>> \in Live /\ f \in Event /\ T(f) > T(e) - Day /\ T(f) <= T(e)
    BY <1>4, <1>5, WithinIs
  <2>3. f \in Within(pruned, k, e, Day)
          <=> <<k, f>> \in pruned /\ f \in Event /\ T(f) > T(e) - Day /\ T(f) <= T(e)
    BY <1>4, <1>5, WithinIs
  <2>4. T(f) > T(e) - Day => (<<k, f>> \in pruned <=> <<k, f>> \in Live)
    BY <1>4 DEF Prune
  <2> QED  BY <2>1, <2>2, <2>3, <2>4
<1>7. IsFiniteSet(shared)
  BY CountedIs, FS_Subset DEF Sharing, Recent
<1> HIDE DEF pruned, C
<1>8. Within(pruned, all, e, Day) = shared /\ Within(pruned, port, e, Day) = Sharing("port", e, shared)
  BY <1>3, <1>6 DEF Sharing
<1> HIDE DEF shared
<1>9. Rarity(pruned, all, port, e) =
        IF shared = {} THEN <<1, 1>>
        ELSE <<Cardinality(shared) - Cardinality(Sharing("port", e, shared)), Cardinality(shared)>>
  BY <1>7, <1>8, RarityCounts
<1> QED  BY <1>1, <1>9 DEF RarityExact, shared, C

LEMMA ScriptCounts ==
  ASSUME LogTyped, HistoryKept, TimesTyped, NEW p \in Plugin, NEW e \in Event, Applies(p, e),
         ComesInOrder(p, e), <<p, e>> \notin DOMAIN snapshots
  PROVE  Exact(p, Counted(p), e, Script(p, Live, e).values)
BY TemporalCounts, AuthenticationCounts, ProcessCounts, NetworkCounts, Plugins DEF Script, Exact

-----------------------------------------------------------------------------
(* The steps.                                                              *)

\* What a job has of a call, or gave an event for it, is neutral or its snapshot.
Given(got, answers) ==
  \A c \in DOMAIN got :
    "neutral" \in DOMAIN got[c]
    \/ (c \in DOMAIN answers /\ got[c] = answers[c] /\ RatioSound(got[c]))

JobsSound ==
  /\ running = [w \in Worker |-> [batch |-> running[w].batch, todo |-> running[w].todo,
                                  got |-> running[w].got]]
  /\ \A w \in Worker :
       /\ running[w].todo \subseteq {c \in Plugin \X Event : Applies(c[1], c[2])}
       /\ Given(running[w].got, snapshots)
  /\ \A b \in DOMAIN enriched : Given(enriched[b], snapshots)

FactsTyped == facts \in Scenario /\ now \in Int

FeatureInv == FactsTyped /\ LogTyped /\ HistoryKept /\ AnswersExact /\ JobsSound

LEMMA TypedTimes == FactsTyped => TimesTyped
BY FeatureAssumption DEF FactsTyped, TimesTyped, Event, T

LEMMA FeaturesInitially == FeatureInit => FeatureInv
<1> SUFFICES ASSUME FeatureInit  PROVE FeatureInv
  OBVIOUS
<1>1. Min(Instants) \in Int
  BY FeatureAssumption DEF Min
<1>2. FactsTyped
  BY <1>1 DEF FeatureInit, FactsTyped
<1>3. DOMAIN log = {} /\ DOMAIN snapshots = {} /\ DOMAIN touched = {} /\ DOMAIN enriched = {}
  BY DEF FeatureInit
<1>4. LogTyped
  BY <1>3 DEF LogTyped, FeatureInit
<1>5. HistoryKept
  BY <1>3 DEF HistoryKept, Paired, FeatureInit
<1>6. AnswersExact
  BY <1>3 DEF AnswersExact
<1>7. JobsSound
  BY <1>3 DEF JobsSound, FeatureInit, Free, Given
<1> QED  BY <1>2, <1>4, <1>5, <1>6, <1>7 DEF FeatureInv

\* What was received does not change.
LEMMA SameFacts ==
  ASSUME facts' = facts
  PROVE  /\ Event' = Event
         /\ \A e : T(e)' = T(e)
         /\ \A p, e : AddedKeys(p, e)' = AddedKeys(p, e)
         /\ \A p, e : Applies(p, e)' <=> Applies(p, e)
<1>1. Event' = Event /\ \A e : T(e)' = T(e)
  BY DEF Event, T
<1>2. ASSUME NEW p, NEW e  PROVE AddedKeys(p, e)' = AddedKeys(p, e)
  BY DEF AddedKeys, TemporalKeys, AuthenticationKeys, ProcessKeys, NetworkKeys, SourceKey, UserKey,
         HasSource, HasUser
<1>3. ASSUME NEW p, NEW e  PROVE Applies(p, e)' <=> Applies(p, e)
  BY DEF Applies, Authenticates, RunsProcess, UsesPort, HasSource, HasUser
<1> QED  BY <1>1, <1>2, <1>3

LEMMA ExactNext ==
  ASSUME facts' = facts, NEW c, NEW S, NEW v,
         EventsBefore(c[1], c[2])' = S, snapshots'[c] = v
  PROVE  ExactAnswer(c)' <=> Exact(c[1], S, c[2], v)
BY DEF ExactAnswer, Exact, TemporalExact, AuthenticationExact, RarityExact, Sharing, Recent,
       HasSource, HasUser, T

LEMMA OnePosition ==
  ASSUME NEW L, NEW i \in DOMAIN L,
         \A j \in DOMAIN L : L[j][1] = L[i][1] /\ L[j][2] = L[i][2] => j = i
  PROVE  (CHOOSE j \in DOMAIN L : L[j][1] = L[i][1] /\ L[j][2] = L[i][2]) = i
OBVIOUS

LEMMA CountKeeps ==
  ASSUME FeatureInv, facts' = facts, now' = now,
         NEW c \in Plugin \X Event, Applies(c[1], c[2]), c \notin DOMAIN snapshots, Count1st(c)
  PROVE  /\ LogTyped' /\ HistoryKept' /\ AnswersExact'
         /\ DOMAIN snapshots' = {c} \cup DOMAIN snapshots
         /\ \A d \in DOMAIN snapshots : snapshots'[d] = snapshots[d]
<1> DEFINE p == c[1]
           e == c[2]
           s == Script(p, Live, e)
           n == Len(log)
<1>1. p \in Plugin /\ e \in Event /\ c = <<p, e>> /\ Applies(p, e)
  OBVIOUS
<1>2. FactsTyped /\ LogTyped /\ HistoryKept /\ AnswersExact /\ TimesTyped
  BY TypedTimes DEF FeatureInv
<1>3. /\ history' = s.sets /\ touched' = With(touched, s.keys, now)
      /\ snapshots' = With(snapshots, {c}, s.values) /\ log' = Append(log, <<p, e, now>>)
  BY DEF Count1st
<1>4. Moves(p, Live, e, s.sets, s.keys)
  BY <1>1, <1>2, ScriptMoves, LivePaired
<1>5. ComesInOrder(p, e) => Exact(p, Counted(p), e, s.values)
  BY <1>1, <1>2, ScriptCounts
<1> HIDE DEF p, e, s
<1>6. /\ DOMAIN snapshots' = {c} \cup DOMAIN snapshots
      /\ snapshots'[c] = s.values
      /\ \A d \in DOMAIN snapshots : snapshots'[d] = snapshots[d]
  BY <1>3 DEF With
<1>7. /\ Event' = Event /\ \A f : T(f)' = T(f)
      /\ \A q, f : AddedKeys(q, f)' = AddedKeys(q, f)
      /\ \A q, f : Applies(q, f)' <=> Applies(q, f)
  BY SameFacts
<1>8. /\ n \in Nat /\ DOMAIN log = 1..n /\ DOMAIN log' = 1..n + 1
      /\ \A i \in 1..n : log'[i] = log[i]
      /\ log'[n + 1] = <<p, e, now>>
  BY <1>2, <1>3 DEF LogTyped
<1>8a. \A i \in DOMAIN log : i \in DOMAIN log' /\ log'[i] = log[i]
  BY <1>8
<1>8b. \A i \in DOMAIN log' : i \in DOMAIN log \/ i = n + 1
  BY <1>8
<1> HIDE DEF n
<1>9. \A i \in DOMAIN log : log[i][1] \in Plugin /\ log[i][2] \in Event /\ log[i][3] \in Int
  BY <1>2 DEF LogTyped
<1>10. /\ log'[n + 1][1] = p /\ log'[n + 1][2] = e /\ log'[n + 1][3] = now
       /\ n + 1 \in DOMAIN log'
  BY <1>8
<1>11. \A i, j \in DOMAIN log' : log'[i][1] = log'[j][1] /\ log'[i][2] = log'[j][2] => i = j
  <2>1. \A i \in DOMAIN log : ~(log[i][1] = p /\ log[i][2] = e)
    BY <1>1, <1>2 DEF LogTyped, CallOf
  <2>2. \A i, j \in DOMAIN log : log[i][1] = log[j][1] /\ log[i][2] = log[j][2] => i = j
    BY <1>2 DEF LogTyped, CallOf
  <2> QED  BY <2>1, <2>2, <1>8a, <1>8b, <1>10
<1>12. LogTyped'
  <2>1. <<p, e, now>> \in Plugin \X Event \X Int /\ log \in Seq(Plugin \X Event \X Int)
    BY <1>1, <1>2 DEF FactsTyped, LogTyped
  <2>2. log' \in Seq(Plugin \X Event \X Int)
    BY <2>1, <1>3
  <2>3. \A i \in DOMAIN log' : Applies(log'[i][1], log'[i][2]) /\ log'[i][3] <= now
    BY <1>1, <1>2, <1>8a, <1>8b, <1>10 DEF LogTyped, FactsTyped
  <2>4. \A i, j \in DOMAIN log' : CallOf(i)' = CallOf(j)' => i = j
    BY <1>11 DEF CallOf
  <2>5. {CallOf(i)' : i \in DOMAIN log'} = {c} \cup {CallOf(i) : i \in DOMAIN log}
    BY <1>1, <1>8a, <1>8b, <1>10 DEF CallOf
  <2>6. \A i \in DOMAIN log' : Applies(log[i][1], log[i][2])'
    BY <2>3, <1>7
  <2> QED  BY <2>2, <2>3, <2>4, <2>5, <2>6, <1>2, <1>6, <1>7 DEF LogTyped, Plugin, Rank
<1>13. HistoryKept'
  <2>1. \A m \in history' : m \in Live \/ m \in AddedBy(p, e)
    BY <1>3, <1>4 DEF Moves
  <2>2. \A m \in AddedBy(p, e) : \E k \in AddedKeys(p, e) : m = <<k, e>>
    BY DEF AddedBy
  <2>3. \A m \in Live : m \in history /\ now < touched[m[1]] + WindowOf(m[1])
    BY DEF Live
  <2>4. Paired(history)'
    <3>1. Paired(history)
      BY <1>2 DEF HistoryKept
    <3> QED  BY <3>1, <2>1, <2>2, <2>3, <1>1, <1>7 DEF Paired
  <2>5. ASSUME NEW m \in history'
        PROVE  \E i \in DOMAIN log' : m[2] = log'[i][2] /\ m[1] \in AddedKeys(log'[i][1], log'[i][2])
    <3>1. CASE m \in Live
      <4>1. PICK i \in DOMAIN log : m[2] = log[i][2] /\ m[1] \in AddedKeys(log[i][1], log[i][2])
        BY <3>1, <2>3, <1>2 DEF HistoryKept
      <4> QED  BY <4>1, <1>8a
    <3>2. CASE m \in AddedBy(p, e)
      BY <3>2, <2>2, <1>10
    <3> QED  BY <3>1, <3>2, <2>1
  <2>6. /\ \A k \in s.keys : k \in DOMAIN touched' /\ touched'[k] = now
        /\ \A k \in DOMAIN touched : k \in DOMAIN touched' /\ touched'[k] \in {now, touched[k]}
        /\ \A k \in DOMAIN touched' : k \in s.keys \/ k \in DOMAIN touched
    BY <1>3 DEF With
  <2>7. \A k \in DOMAIN touched' : touched'[k] \in Int
    BY <2>6, <1>2 DEF HistoryKept, FactsTyped
  <2>8. ASSUME NEW i \in DOMAIN log', NEW k \in AddedKeys(log'[i][1], log'[i][2])
        PROVE  /\ k \in DOMAIN touched' /\ touched'[k] >= log'[i][3]
               /\ <<k, log'[i][2]>> \in history' \/ Forgotten(i, k)'
    <3>1. CASE i = n + 1
      <4>1. k \in AddedKeys(p, e) /\ log'[i][3] = now /\ log'[i][2] = e
        BY <2>8, <3>1, <1>10
      <4>2. k \in s.keys
        BY <4>1, <1>4 DEF Moves
      <4>3. <<k, e>> \in AddedBy(p, e)
        BY <4>1 DEF AddedBy
      <4>4. <<k, e>> \in s.sets
        BY <4>3, <1>1, <1>2, <1>4, AddedFresh DEF Moves
      <4> QED  BY <4>1, <4>2, <4>4, <2>6, <1>2, <1>3 DEF FactsTyped
    <3>2. CASE i \in DOMAIN log
      <4>1. log'[i] = log[i] /\ k \in AddedKeys(log[i][1], log[i][2])
        BY <2>8, <3>2, <1>8a
      <4>2. /\ k \in DOMAIN touched /\ touched[k] \in Int /\ touched[k] >= log[i][3]
            /\ <<k, log[i][2]>> \in history \/ Forgotten(i, k)
        BY <4>1, <3>2, <1>2 DEF HistoryKept
      <4>3. log[i][3] \in Int /\ log[i][3] <= now /\ now \in Int /\ WindowOf(k) \in Nat
            /\ T(log[i][2]) \in Int /\ T(e) \in Int
        BY <3>2, <1>1, <1>2, <1>9, Windows DEF LogTyped, FactsTyped, TimesTyped
      <4>4. k \in DOMAIN touched' /\ touched'[k] >= log'[i][3]
        BY <4>1, <4>2, <4>3, <2>6
      <4>5. Forgotten(i, k) => Forgotten(i, k)'
        BY <3>2, <1>7, <1>8a DEF Forgotten, WindowOf
      <4>6. ASSUME <<k, log[i][2]>> \in history, <<k, log[i][2]>> \notin Live
            PROVE  Forgotten(i, k)
        <5>1. ~(now < touched[k] + WindowOf(k))
          BY <4>6 DEF Live
        <5> QED  BY <5>1, <4>2, <4>3 DEF Forgotten
      <4>7. ASSUME <<k, log[i][2]>> \in Live, <<k, log[i][2]>> \notin s.sets
            PROVE  Forgotten(i, k)'
        <5>1. k[1] \in Kinds(p) /\ T(log[i][2]) <= T(e) - WindowOf(k)
          BY <4>7, <1>4 DEF Moves
        <5>2. log[i][1] = p
          BY <5>1, <4>1, <3>2, <1>1, <1>9, KeysOfKind, KindsApart
        <5>3. T(e) >= T(log[i][2]) + WindowOf(k)
          BY <5>1, <4>3
        <5> QED  BY <5>2, <5>3, <4>1, <1>7, <1>10 DEF Forgotten, WindowOf
      <4> QED  BY <4>1, <4>2, <4>4, <4>5, <4>6, <4>7, <1>3
    <3> QED  BY <3>1, <3>2, <1>8b
  <2> QED  BY <2>4, <2>5, <2>7, <2>8, <1>7 DEF HistoryKept
<1>14. ASSUME NEW d \in DOMAIN snapshots', InOrder(d[1], d[2])'  PROVE ExactAnswer(d)'
  <2>1. PICK i \in DOMAIN log' : d = <<log'[i][1], log'[i][2]>>
    BY <1>12 DEF LogTyped, CallOf
  <2>2. Position(d[1], d[2])' = i
    <3>1. (CHOOSE j \in DOMAIN log' : log'[j][1] = log'[i][1] /\ log'[j][2] = log'[i][2]) = i
      BY <1>11, OnePosition
    <3> QED  BY <2>1, <3>1 DEF Position
  <2>3. CASE i = n + 1
    <3>1. d = c
      BY <2>1, <2>3, <1>1, <1>10
    <3>2. Before(p, e)' = {j \in DOMAIN log : log[j][1] = p}
      BY <2>2, <2>3, <3>1, <1>1, <1>8 DEF Before, n
    <3>3. EventsBefore(p, e)' = Counted(p)
      BY <3>2, <1>8a DEF EventsBefore, Counted
    <3>4. ComesInOrder(p, e)
      <4>1. \A j \in Before(p, e)' : T(log[j][2])' <= T(e)' /\ Delay(i)' <= Delay(j)'
        BY <1>14, <2>2, <3>1, <1>1 DEF InOrder
      <4> QED  BY <4>1, <3>2, <2>3, <1>7, <1>8a, <1>10 DEF ComesInOrder, Delay
    <3> QED  BY <3>1, <3>3, <3>4, <1>1, <1>5, <1>6, ExactNext
  <2>4. CASE i \in DOMAIN log
    <3>1. d = CallOf(i) /\ d \in DOMAIN snapshots
      BY <2>1, <2>4, <1>2, <1>8a DEF LogTyped, CallOf
    <3>2. Position(d[1], d[2]) = i
      <4>1. (CHOOSE j \in DOMAIN log : log[j][1] = log[i][1] /\ log[j][2] = log[i][2]) = i
        BY <2>4, <1>2, OnePosition DEF LogTyped, CallOf
      <4> QED  BY <3>1, <4>1 DEF Position, CallOf
    <3>3. Before(d[1], d[2])' = Before(d[1], d[2]) /\ \A j \in Before(d[1], d[2]) : j \in DOMAIN log
      <4>1. \A j \in 1..i - 1 : j \in DOMAIN log
        BY <2>4, <1>8
      <4> QED  BY <4>1, <2>2, <3>2, <1>8a DEF Before
    <3>4. EventsBefore(d[1], d[2])' = EventsBefore(d[1], d[2])
      BY <3>3, <1>8a DEF EventsBefore
    <3>5. InOrder(d[1], d[2])
      BY <1>14, <2>2, <2>4, <3>2, <3>3, <1>7, <1>8a DEF InOrder, Delay
    <3>6. ExactAnswer(d)
      BY <3>1, <3>5, <1>2 DEF AnswersExact
    <3> QED  BY <3>1, <3>4, <3>6, <1>6, ExactNext DEF ExactAnswer
  <2> QED  BY <2>3, <2>4, <1>8b
<1>15. AnswersExact'
  BY <1>14 DEF AnswersExact
<1> QED  BY <1>6, <1>12, <1>13, <1>15

\* A job that only moves from one step to the next gives nothing new.
LEMMA SameCountsOK ==
  ASSUME FeatureInv, UNCHANGED <<facts, now, history, touched, snapshots, log>>
  PROVE  /\ FactsTyped' /\ LogTyped' /\ HistoryKept' /\ AnswersExact'
         /\ \A got : Given(got, snapshots) => Given(got, snapshots')
<1>1. /\ Event' = Event /\ \A f : T(f)' = T(f)
      /\ \A q, f : AddedKeys(q, f)' = AddedKeys(q, f)
      /\ \A q, f : Applies(q, f)' <=> Applies(q, f)
  BY SameFacts
<1>2. FactsTyped'
  BY DEF FeatureInv, FactsTyped
<1>3. LogTyped'
  BY <1>1 DEF FeatureInv, LogTyped, CallOf, Plugin, Rank
<1>4. \A i, k : Forgotten(i, k)' <=> Forgotten(i, k)
  BY <1>1 DEF Forgotten, WindowOf
<1>5. HistoryKept'
  BY <1>1, <1>4 DEF FeatureInv, HistoryKept, Paired
<1>6. ASSUME NEW c \in DOMAIN snapshots', InOrder(c[1], c[2])'  PROVE ExactAnswer(c)'
  <2>1. Position(c[1], c[2])' = Position(c[1], c[2])
    BY DEF Position
  <2>2. Before(c[1], c[2])' = Before(c[1], c[2])
    BY <2>1 DEF Before
  <2>3. EventsBefore(c[1], c[2])' = EventsBefore(c[1], c[2])
    BY <2>2 DEF EventsBefore
  <2>4. InOrder(c[1], c[2])
    BY <1>1, <1>6, <2>1, <2>2 DEF InOrder, Delay
  <2>5. ExactAnswer(c)
    BY <1>6, <2>4 DEF FeatureInv, AnswersExact
  <2> QED  BY <2>3, <2>5, ExactNext DEF ExactAnswer
<1>7. AnswersExact'
  BY <1>6 DEF AnswersExact
<1>8. \A got : Given(got, snapshots) => Given(got, snapshots')
  BY DEF Given
<1> QED  BY <1>2, <1>3, <1>5, <1>7, <1>8

\* A call that is counted or finds its snapshot.
LEMMA ScriptKeeps ==
  ASSUME FeatureInv, UNCHANGED <<facts, now>>, NEW c \in Plugin \X Event, Applies(c[1], c[2]),
         RunScript(c)
  PROVE  /\ FactsTyped' /\ LogTyped' /\ HistoryKept' /\ AnswersExact'
         /\ \A got : Given(got, snapshots) => Given(got, snapshots')
         /\ c \in DOMAIN snapshots'
<1>1. CASE c \in DOMAIN snapshots
  BY <1>1, SameCountsOK DEF RunScript, Evaluate
<1>2. CASE c \notin DOMAIN snapshots
  <2>1. Count1st(c)
    BY <1>2 DEF RunScript, Evaluate
  <2>2. /\ LogTyped' /\ HistoryKept' /\ AnswersExact'
        /\ DOMAIN snapshots' = {c} \cup DOMAIN snapshots
        /\ \A d \in DOMAIN snapshots : snapshots'[d] = snapshots[d]
    BY <1>2, <2>1, CountKeeps
  <2>3. FactsTyped'
    BY DEF FeatureInv, FactsTyped
  <2>4. \A got : Given(got, snapshots) => Given(got, snapshots')
    BY <2>2 DEF Given
  <2> QED  BY <2>2, <2>3, <2>4
<1> QED  BY <1>1, <1>2

\* The job of w goes on, the others stay.
LEMMA JobsKeep ==
  ASSUME FeatureInv, facts' = facts,
         \A got : Given(got, snapshots) => Given(got, snapshots'),
         NEW w \in Worker, NEW batch, NEW todo, NEW got,
         running' = [running EXCEPT ![w] = [batch |-> batch, todo |-> todo, got |-> got]],
         todo \subseteq {c \in Plugin \X Event : Applies(c[1], c[2])}, Given(got, snapshots'),
         \A b \in DOMAIN enriched' : Given(enriched'[b], snapshots')
  PROVE  JobsSound'
<1> DEFINE next == [batch |-> batch, todo |-> todo, got |-> got]
           Calling == {c \in Plugin \X Event : Applies(c[1], c[2])}
<1>1. /\ running = [v \in Worker |-> [batch |-> running[v].batch, todo |-> running[v].todo,
                                      got |-> running[v].got]]
      /\ \A v \in Worker :
           /\ running[v].todo \subseteq Calling
           /\ Given(running[v].got, snapshots)
  BY DEF FeatureInv, JobsSound
<1>2. running' = [v \in Worker |-> IF v = w THEN next ELSE running[v]]
  BY <1>1
<1>3. \A v \in Worker : running[v] = [batch |-> running[v].batch, todo |-> running[v].todo,
                                      got |-> running[v].got]
  BY <1>1
<1>4. running' = [v \in Worker |-> [batch |-> running'[v].batch, todo |-> running'[v].todo,
                                    got |-> running'[v].got]]
  BY <1>2, <1>3
<1>5. Calling' = Calling
  BY SameFacts DEF Plugin, Rank
<1> HIDE DEF Calling
<1>6. ASSUME NEW v \in Worker
      PROVE  running'[v].todo \subseteq Calling /\ Given(running'[v].got, snapshots')
  <2>1. CASE v = w
    BY <1>2, <2>1 DEF Calling
  <2>2. CASE v # w
    <3>1. running'[v] = running[v]
      BY <1>2, <2>2
    <3> QED  BY <1>1, <3>1
  <2> QED  BY <2>1, <2>2
<1> QED  BY <1>4, <1>5, <1>6 DEF JobsSound, Calling

LEMMA FreedKeeps ==
  ASSUME FeatureInv, facts' = facts,
         \A got : Given(got, snapshots) => Given(got, snapshots'),
         NEW w \in Worker, running' = [running EXCEPT ![w] = Free],
         \A b \in DOMAIN enriched' : Given(enriched'[b], snapshots')
  PROVE  JobsSound'
<1>1. PICK todo, got : Free = [batch |-> Missing, todo |-> todo, got |-> got]
                     /\ todo = {} /\ got = <<>>
  BY DEF Free
<1>2. Given(got, snapshots')
  BY <1>1 DEF Given
<1>3. todo \subseteq {c \in Plugin \X Event : Applies(c[1], c[2])}
  BY <1>1
<1>4. running' = [running EXCEPT ![w] = [batch |-> Missing, todo |-> todo, got |-> got]]
  BY <1>1
<1> QED  BY <1>2, <1>3, <1>4, JobsKeep

LEMMA AnsweredKeeps ==
  ASSUME FeatureInv, UNCHANGED <<facts, enriched>>,
         \A got : Given(got, snapshots) => Given(got, snapshots'),
         NEW w \in Worker, NEW c \in running[w].todo, NEW values, Answered(w, c, values),
         "neutral" \in DOMAIN values
         \/ (c \in DOMAIN snapshots' /\ values = snapshots'[c] /\ RatioSound(values))
  PROVE  JobsSound'
<1> DEFINE old == running[w].got
           got == With(old, {c}, values)
<1>0. JobsSound
  BY DEF FeatureInv
<1>2. running' = [running EXCEPT ![w] = [batch |-> running[w].batch, todo |-> running[w].todo \ {c},
                                         got |-> got]]
  BY DEF Answered
<1>3. Given(old, snapshots')
  BY <1>0 DEF JobsSound
<1>4. running[w].todo \ {c} \subseteq {d \in Plugin \X Event : Applies(d[1], d[2])}
  BY <1>0 DEF JobsSound
<1>5. \A b \in DOMAIN enriched' : Given(enriched'[b], snapshots')
  BY <1>0 DEF JobsSound
<1> HIDE DEF old
<1>6. /\ DOMAIN got = {c} \cup DOMAIN old
      /\ got[c] = values
      /\ \A d \in DOMAIN old : d # c => got[d] = old[d]
  BY DEF With
<1> HIDE DEF got
<1>7. Given(got, snapshots')
  BY <1>3, <1>6 DEF Given
<1> QED  BY <1>2, <1>4, <1>5, <1>7, JobsKeep

LEMMA FeatureStepKeeps == FeatureInv /\ [FeatureNext]_featureVars => FeatureInv'
<1> SUFFICES ASSUME FeatureInv, [FeatureNext]_featureVars  PROVE FeatureInv'
  OBVIOUS
<1>0. /\ JobsSound
      /\ \A w \in Worker :
           /\ running[w].todo \subseteq {c \in Plugin \X Event : Applies(c[1], c[2])}
           /\ Given(running[w].got, snapshots)
      /\ \A b \in DOMAIN enriched : Given(enriched[b], snapshots)
      /\ Given(<<>>, snapshots)
  BY DEF FeatureInv, JobsSound, Given
<1>1. ASSUME NEW w \in Worker, Record(w)  PROVE FeatureInv'
  <2>1. PICK c \in running[w].todo :
          /\ RunScript(c)
          /\ Answered(w, c, IF Decodes(snapshots'[c]) THEN snapshots'[c] ELSE [neutral |-> TRUE])
    BY <1>1 DEF Record
  <2>2. UNCHANGED <<facts, now, enriched>>
    BY <1>1 DEF Record
  <2>3. /\ FactsTyped' /\ LogTyped' /\ HistoryKept' /\ AnswersExact'
        /\ \A got : Given(got, snapshots) => Given(got, snapshots')
        /\ c \in DOMAIN snapshots'
    BY <1>0, <2>1, <2>2, ScriptKeeps
  <2> DEFINE values == IF Decodes(snapshots'[c]) THEN snapshots'[c] ELSE [neutral |-> TRUE]
  <2>4. "neutral" \in DOMAIN values \/ (values = snapshots'[c] /\ RatioSound(values))
    BY DEF Decodes
  <2>5. JobsSound'
    BY <2>1, <2>2, <2>3, <2>4, AnsweredKeeps
  <2> QED  BY <2>3, <2>5 DEF FeatureInv
<1>2. ASSUME NEW w \in Worker, RecordFails(w)  PROVE FeatureInv'
  <2>1. PICK c \in running[w].todo :
          /\ UNCHANGED <<history, touched, snapshots, log>> \/ RunScript(c)
          /\ Answered(w, c, [neutral |-> TRUE])
    BY <1>2 DEF RecordFails
  <2>2. UNCHANGED <<facts, now, enriched>>
    BY <1>2 DEF RecordFails
  <2>3. /\ FactsTyped' /\ LogTyped' /\ HistoryKept' /\ AnswersExact'
        /\ \A got : Given(got, snapshots) => Given(got, snapshots')
    BY <1>0, <2>1, <2>2, ScriptKeeps, SameCountsOK
  <2>4. JobsSound'
    BY <2>1, <2>2, <2>3, AnsweredKeeps
  <2> QED  BY <2>3, <2>4 DEF FeatureInv
<1>3. ASSUME NEW w \in Worker, Finish(w)  PROVE FeatureInv'
  <2>1. /\ FactsTyped' /\ LogTyped' /\ HistoryKept' /\ AnswersExact'
        /\ \A got : Given(got, snapshots) => Given(got, snapshots')
    BY <1>3, SameCountsOK DEF Finish
  <2>2. \A b \in DOMAIN enriched' : Given(enriched'[b], snapshots')
    BY <1>0, <1>3, <2>1 DEF Finish, With
  <2>3. JobsSound'
    BY <1>3, <2>1, <2>2, FreedKeeps DEF Finish
  <2> QED  BY <2>1, <2>3 DEF FeatureInv
<1>4. ASSUME NEW w \in Worker, Crash(w)  PROVE FeatureInv'
  <2>1. /\ FactsTyped' /\ LogTyped' /\ HistoryKept' /\ AnswersExact'
        /\ \A got : Given(got, snapshots) => Given(got, snapshots')
    BY <1>4, SameCountsOK DEF Crash
  <2>2. \A b \in DOMAIN enriched' : Given(enriched'[b], snapshots')
    BY <1>0, <1>4, <2>1 DEF Crash
  <2>3. JobsSound'
    BY <1>4, <2>1, <2>2, FreedKeeps DEF Crash
  <2> QED  BY <2>1, <2>3 DEF FeatureInv
<1>5. ASSUME NEW w \in Worker, NEW b \in Batch, Claim(w, b)  PROVE FeatureInv'
  <2>1. /\ FactsTyped' /\ LogTyped' /\ HistoryKept' /\ AnswersExact'
        /\ \A got : Given(got, snapshots) => Given(got, snapshots')
    BY <1>5, SameCountsOK DEF Claim
  <2>2. Calls(b) \subseteq {c \in Plugin \X Event : Applies(c[1], c[2])}
    BY DEF Calls
  <2>3. JobsSound'
    BY <1>0, <1>5, <2>1, <2>2, JobsKeep DEF Claim
  <2> QED  BY <2>1, <2>3 DEF FeatureInv
<1>6. ASSUME ClockAdvances  PROVE FeatureInv'
  <2>1. /\ now' \in Int /\ now' > now /\ now \in Int
        /\ UNCHANGED <<facts, history, touched, snapshots, running, enriched, log>>
    BY <1>6, FeatureAssumption DEF ClockAdvances, FeatureInv, FactsTyped
  <2>2. /\ Event' = Event /\ \A f : T(f)' = T(f)
        /\ \A q, f : AddedKeys(q, f)' = AddedKeys(q, f)
        /\ \A q, f : Applies(q, f)' <=> Applies(q, f)
    BY <2>1, SameFacts
  <2>3. FactsTyped'
    BY <2>1 DEF FeatureInv, FactsTyped
  <2>4. LogTyped'
    <3>1. \A i \in DOMAIN log : log[i][3] \in Int
      BY DEF FeatureInv, LogTyped
    <3> QED  BY <2>1, <2>2, <3>1 DEF FeatureInv, LogTyped, CallOf, Plugin, Rank
  <2>5. \A i \in DOMAIN log : \A k : Forgotten(i, k) => Forgotten(i, k)'
    <3>1. \A i \in DOMAIN log : log[i][3] \in Int
      BY DEF FeatureInv, LogTyped
    <3> QED  BY <2>1, <2>2, <3>1, Windows DEF Forgotten, WindowOf
  <2>6. HistoryKept'
    BY <2>1, <2>2, <2>5 DEF FeatureInv, HistoryKept, Paired
  <2>7. AnswersExact'
    <3> SUFFICES ASSUME NEW c \in DOMAIN snapshots', InOrder(c[1], c[2])'  PROVE ExactAnswer(c)'
      BY DEF AnswersExact
    <3>1. Position(c[1], c[2])' = Position(c[1], c[2])
      BY <2>1 DEF Position
    <3>2. Before(c[1], c[2])' = Before(c[1], c[2])
      BY <2>1, <3>1 DEF Before
    <3>3. EventsBefore(c[1], c[2])' = EventsBefore(c[1], c[2])
      BY <2>1, <3>2 DEF EventsBefore
    <3>4. InOrder(c[1], c[2])
      BY <2>1, <2>2, <3>1, <3>2 DEF InOrder, Delay
    <3>5. ExactAnswer(c)
      BY <2>1, <3>4 DEF FeatureInv, AnswersExact
    <3> QED  BY <2>1, <3>3, <3>5, ExactNext DEF ExactAnswer
  <2>8. JobsSound'
    BY <1>0, <2>1, <2>2 DEF JobsSound, Plugin, Rank
  <2> QED  BY <2>3, <2>4, <2>6, <2>7, <2>8 DEF FeatureInv
<1>7. ASSUME UNCHANGED featureVars  PROVE FeatureInv'
  <2>1. UNCHANGED <<facts, now, history, touched, snapshots, running, enriched, log>>
    BY <1>7 DEF featureVars
  <2>2. /\ FactsTyped' /\ LogTyped' /\ HistoryKept' /\ AnswersExact'
    BY <2>1, SameCountsOK
  <2>3. \A q, f : Applies(q, f)' <=> Applies(q, f)
    BY <2>1, SameFacts
  <2>4. JobsSound'
    BY <1>0, <2>1, <2>3 DEF JobsSound, Plugin, Rank, Event
  <2> QED  BY <2>2, <2>4 DEF FeatureInv
<1> QED  BY <1>1, <1>2, <1>3, <1>4, <1>5, <1>6, <1>7 DEF FeatureNext, Step

\* FeatureInv is invariant: the sorted sets hold what was counted, each answer
\* in order is exact, and the jobs hold answers or neutral values.
THEOREM HistorySound == FeatureSpec => []FeatureInv
<1>1. FeatureInit => FeatureInv
  BY FeaturesInitially
<1>2. FeatureInv /\ [FeatureNext]_featureVars => FeatureInv'
  BY FeatureStepKeeps
<1> QED  BY <1>1, <1>2, PTL DEF FeatureSpec

\* HistoryExact: however workers interleave, fail and run jobs again, and
\* whatever expires, the features of events that came in order count what was
\* recorded before them in the window.
THEOREM HistoryAlwaysExact == FeatureSpec => []HistoryExact
<1>1. FeatureInv => HistoryExact
  BY DEF FeatureInv, JobsSound, HistoryExact, FeaturesSound, Given
<1> QED  BY <1>1, HistorySound, PTL
=============================================================================
