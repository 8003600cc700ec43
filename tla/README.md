# Trivikrama: models, checks and proofs

TLA+ models of Trivikrama: a Collector that turns log files into signed batches,
a backend that takes them in, detects, scores, correlates and notifies, and the
AI engine it asks. Each model is written from the source; paths below are relative
to `src/`.

- `tlc -config X.cfg MCModule.tla` checks one instance.
- `tlapm X_proof.tla` checks the proofs about `X`: `OutboxPublication`,
  `CollectorRuntime`, `CollectorIntake` (with `CollectorMessages` and `CollectorContract`),
  `AlertDetection` (with `UnifiedAlerts` and `RuleEvaluation`), `AiScoring` (with `FeatureHistory`),
  `AccessControl` and `MCOperations`; `PostgreSQL_proof.tla` those about
  `DatabaseLifecycle` and `IncidentCorrelation`.
- `PROJECT.json` lists the components, the runs, the source lines each definition
  stands for, the hazards with the properties that watch them, one mutation of the
  code per property that the run refutes, the findings and the theorems.

## 1. The system

```
source files --> Collector --(signed files in incoming/)--> backend intake --(BullMQ)--> worker
                    |                                                                   |
                    +--- heartbeat.json --> heartbeat monitor --> PostgreSQL      MongoDB, Redis,
                                                                                  PostgreSQL, AI engine
                                                                                        |
                               browsers <-- WebSocket gateway <-- Redis <-- notification outbox
```

The Collector and the backend share directories and a key, nothing else. Intake
cycles and workers share the directories and the queue. Workers share Redis,
MongoDB and PostgreSQL. Analysts and administrators change the same rows through the
API, and operators run migrations, seeds and maintenance beside all of it.

| Component | State it keeps | What makes it correct | What is hard | Modules |
|---|---|---|---|---|
| Collector durable publication (`collector/src/durability`) | sealed copies, recovery manifests, temporary names, final files, the checkpoint | a position is committed only after its records are visible; nothing is skipped; recovery refuses nothing | a failure or crash between any two file operations, a backend that claims in between | `OutboxPublication`, `DeliveryContract` |
| Collector runtime (`runtime`, `pipeline`) | inputs, queue, deferred event, batch, pending publication | source order, bounded memory, complete drain | a publication that fails anywhere in the loop; an event refused after it was queued | `CollectorRuntime` |
| Collector file reader (`ingress`) | offset and file identity | resume at the checkpoint or at the beginning | rotation, truncation, growth while it is down | `OutboxPublication`, `CollectorRuntime`, `CollectorContract` |
| Mapping, contract, signing (`ocsf`, `contract`, `security`) and the backend's verification | none between calls; the open batch | both sides agree on what is a valid document; its size is known before it is written | two programs in two languages | `CollectorContract`, `CollectorMessages` |
| Collector monitoring (`monitoring`), heartbeat consumer | sequence file, heartbeat file, `collector_status` | a number never names two contents; a silent Collector goes offline | crash between reservation and publication; clocks | `HeartbeatMonitor`, `CollectorMessages` |
| Backend intake and processing (`modules/ingestion`), requeue of quarantined files (`modules/collector-monitoring`) | `incoming/`, `processing/`, `processed/`, `quarantine/`; jobs; raw archive | a file ends where it belongs, and it ends somewhere | two processes, crashes, loss of the queue, a batch id used twice, a file put back under the id of a finished job | `CollectorIntake` |
| Rule detection (`modules/detection`) | windows and leases in Redis, alerts | every alert once, none lost, a cooldown apart | retries of half-done jobs over shared counters | `AlertDetection`, `RuleLanguage`, `RuleEvaluation` |
| Rule administration and reload | rules, audit, the worker's cache | workers use the rules that are stored | a load in pages while commands commit; lost signals | `RuleReload` |
| Feature extraction (`modules/feature-extraction`) | sorted sets and snapshots in Redis | a feature says what happened before the event, once | late events, repeated and failed calls, expiry | `FeatureHistory` |
| AI client and engine (`modules/analysis`, `ai-engine`) | circuit breaker, model, results | a failing engine is left alone and used again when it is back; results agree | probes, a model that changes between retries, rounding | `AiScoring` |
| Incident correlation and workflow (`modules/incidents`) | incidents, links, audit, outbox rows | counters agree with links; concurrent jobs as if one after the other | serialization failures, the cap, expiry, analysts | `IncidentCorrelation`, `UnifiedAlerts` |
| Incident notifications | rows with lease and attempts, a marker | published once, and settled | lease expiry, lost acknowledgements | `NotificationDispatch` |
| Realtime gateway | sockets, sessions | limits hold, an ended session leaves | awaited authentication, shutdown | `RealtimeGateway` |
| Authentication, users (`modules/auth`, `users`) | sessions, failures, users | one current token, lock after failures, unique accounts | every await is an interleaving | `AccessControl` |
| Database (`database`, `migrations`) | schema, partitions, seeds, collections | what a finished command promises holds; nothing is overwritten | commands that die half-way or run twice at once | `DatabaseLifecycle` |
| Assets, audit views, configuration, events, dashboard, health | rows | one statement each | little | none |

## 2. Modules

`X` is a component, `MCX` names the constants of its instance where its configuration cannot, `X_proof` holds its
theorems. `MCOperations` runs four components and `MCAnalysis` six that share no variable; a behaviour runs one of them, chosen at its start. Their product would
only repeat each of them, and a run of one would repeat the cost of starting a run.

**DeliveryContract**. What the Collector promises of each record (ARCH-01 sections 7,
8, 12.A): records of a file are handed over without gaps, a position is committed
only over records handed over, and positions only move forward.

**OutboxPublication**. `outbox_publisher.cpp`, `rejected_event_publisher.cpp`,
`checkpoint_store.cpp`, `durable_file.cpp`, the resume decision of `file_reader.cpp`
and the backend's claim. One action per file operation, so that `FailOperation` and
`Crash` happen between any two. `sealed`, `manifest`, `tmp`, `visible`, `claimed`,
`ckpt` are what is on disk; `work` and `pc` the publication in progress; `read` the
reader; `torn` an inode that is truncated at this moment although it has a final name.
`inc` numbers the contents of a source file, for the properties only: the code sees
`ident` (device and inode), which truncation in place does not change. `Spec` has
rotation, `TruncatingSpec` truncation in place as well. A record is its offset, a
batch an interval of records per source.

**CollectorRuntime**. `collector_runtime.cpp` with queue and assembler. The scheduler
is one thread; a step is one turn of one loop. An attempt to publish is one step that
may stop wherever OutboxPublication lets it: before sealing, after it, after the final
file, after the commit. A record's class is what becomes of it: an event, a refused
record, or an event that the assembler refuses later ("unrepresentable").

**CollectorContract**. What both programs think of a line and of a document. A line
is a record of the facts that some check asks for (its form, its lengths, its time,
its address, its nesting); `ReaderChecks`, `MapperChecks`, `TryAdd` on one side and
`ParsesJson`, `SchemaChecks`, `SemanticChecks`, `Verify` on the other keep the order
and the limits of the code. `size` is added up as the assembler does it; `EncodedSize`
is the size of the document. Hash and HMAC are ideal.

**CollectorMessages**. The two documents that carry no events, the heartbeat and the
rejection, from what they are about to the backend's verdict. `pending` is the rejection
that survives a crash in `pending/`, read back by the checks of `parse_rejected_event`;
`received` stands for all counters, which stop at the largest integer JSON can carry. A
document is a record of the fields whose form the two programs can differ on. `Configured`
is what a Collector may be called: `Loads` has the names and the secret of the configuration
file, what the environment overrides of them, and the order of the checks. A line is
its length: `Captured` cuts it, `ValidPayload` checks on both sides of the crash that
what is kept agrees with what was cut.

**CollectorIntake**. `run-collector-intake-cycle.service.ts`,
`collector-file-intake.service.ts`, `verify-and-queue-claimed-batch.service.ts`,
`bullmq-processing.queue.ts`, the worker and `process-collector-processing-job`.
`place` is the directory of a file, `job` and `step` queue and worker, `archive`,
`persisted`, `detected` what the databases hold. Cycle and worker interleave at every
rename and every write, either may die, one file may fail, Redis may come back empty.
An operator may put a quarantined file back (`Requeue`, the requeuer of collector
monitoring; its link and its unlink are one step, since no other program opens a name in
`quarantine/`), and may give a process a Collector's key (`AddKey`): `trust` says who has
it. Each claim renames a file; `claim` counts them, and a job remembers the name it was
made for.
BullMQ is external: it hands a job to one worker, counts attempts, keeps finished jobs.

**AlertDetection**. The engine, `count-rule-evaluator.ts`, the Redis stores, the alert
repository and the outcome of correlation, as one attempt of a job does them and a
later attempt does them again. Time is kept as ages and remaining times, which needs
no bound on a clock. An alert is its rule and its events: its id is a hash of these.

**RuleLanguage**. The condition parser as recursive descent over tokens, and the
evaluation of a condition over the selections that matched.

**RuleEvaluation**. The two compilers' checks, field access and comparisons by type, and
the evaluation of a history twice: as the worker does it (Redis window) and as the dry
run does it. What a condition means is a parameter, in `MCAnalysis` that of `RuleLanguage`.

**RuleReload**. A command is one serializable transaction; its signal is a step after
it, and each page of a load is one. The worker reads match rules, then count rules,
page by page, latest updated first, and swaps the cache at the end.

**FeatureHistory**. The four Lua scripts over sorted sets (external: Redis), the
snapshot that makes a repeated call answer as before, and the jobs that call them
plugin by plugin. A failed call leaves neutral features. Snapshots stay: in the code they
expire after seven days, later than a job is repeated. A job that fails after its extraction
extracts again; it finds what a job does that died after its last call, so `Crash` stands
for it.

**AiScoring**. `ai-circuit-breaker.ts`, the batching client, the engine's answer
(clipping, normalization, rounding after the decision), validation of the answer,
`ai_results` written if absent, and the hand-over to correlation. The confidence, the
explanation and the processing time of an answer, and the checks of their ranges
(`http-ai-client.ts:191`, `224`, `238`), are left out, as are the length of an identifier
and the types of features that the engine's schema asks for.

**UnifiedAlerts**. Everything between the engines and the transaction: merging,
deduplication, entities and their normalization, the form an alert is stored in and
read back, and the risk score. Functions of a batch that grows.

**IncidentCorrelation**. One action starts a transaction on a snapshot, one commits it
if PostgreSQL would (`ConflictFree`: rows touched are unchanged, and no dangerous
structure of reads and writes), `Retry` takes a new snapshot up to `MaxTries`.
`Correlate` is the whole of `correlateAlert` for each alert: expiry, candidates,
ranking, cap, attachment, links, counters, audit and notification. An alert is correlated
by its entities of the kinds in `Correlating` (`eligibleEntities`), an incident holds all
of them. The query locks 25 candidates at most, here it locks all: this matters only where
more than 25 open incidents share a primary entity, more than the instance has. Analysts' commands
are transactions of their own.

**NotificationDispatch**. Claim with `FOR UPDATE SKIP LOCKED` and a lease, publication
by a script that sets a marker, acknowledgement, failure, dead letter. Time is
abstract: a lease may be found expired, a retry due. An acknowledgement that fails may
have been committed (`AcknowledgeFails`).

**RealtimeGateway**. Upgrade, awaited authentication, admission, the periodic check
(read, then act), rotation and end of sessions, shutdown of gateway, then of HTTP. A read
of a session may fail, and a client may leave while its upgrade is authenticated. The hub
is its session side: the map from organizations to connections and the broadcast to an
organization (`tenant-connection-hub.ts`) are not modelled.

**HeartbeatMonitor**. The Collector reserves a number, then replaces the file; the
monitor reads it, compares with the row, writes, and marks silent Collectors offline.
Crashes of the Collector, a clock that is set back or runs ahead by one of `Skews`, a
reservation that fails with the number taken in memory. The monitor does not read a
heartbeat from further ahead than `MaxFutureSkew`.

**AccessControl**. Each request is a sequence of steps, one per awaited access to
PostgreSQL or Redis: login with rate limit, counters and lock; refresh, which reads the
session, the user and the maximal duration before it rotates the token;
logout; creation, role, password and deactivation of users. Permissions are read at
authorization.

**DatabaseLifecycle**. Migrations under knex's lock, seeds, MongoDB bootstrap,
partition maintenance and verification, each statement a step at which the command may
die; two operators; administrators who change what seeds wrote. Time counts weeks.

## 3. Runs

A bound is a constant whose comment says "bound", or a small set.

| Run | What it checks | Bounds, and why they are enough |
|---|---|---|
| `outbox` | `CheckpointCovered`, `NothingSkipped`, `RecoverySound` (no commit refused, no manifest without its batch, one publication sealed), `RefinesDelivery`, and in the end `EveryRecordDelivered` | 2 sources that share batches and the checkpoint, each with 2 contents; 1 failure or crash at any step; 3 batch identifiers, more than are used. The invariants hold for all bounds by proof (section 4). |
| `runtime` | `PipelineInOrder`, `CheckpointCovered`, `ShutdownSound`, `EveryReadRecordPublished` | 2 sources of up to 3 records of all three classes, batches and queue of 2: a deferred event, backpressure, a partial batch in front of a rejection; 1 failure. |
| `intake` | `FilesBelong`, `EveryFileSettles` | 3 files: two with one batch id and different contents, one whose Collector's key comes late; 2 claims of each, so that one is put back; 1 attempt, so that a fault exhausts a job, and 1 fault. |
| `detection` | `NoAlertLost`, `CooldownHeld` | batches of 1 and 2 events, a match and a count rule, threshold 2, cooldown 2, 2 workers, 1 failure at any step: the second crossing falls before, at and after the end of the lease. |
| `incidents` | `IncidentsAgree` (counters, chained audit log, one notification per alert), `Serializable`, `EveryAlertAttached` | 3 jobs with 5 alerts of overlapping entities, one of a kind that does not correlate, 2 at a time; cap 2, window 1 and age 2 over 2 ticks, so that cap and expiry are met; 2 tries, 1 fault, 1 analyst command, and the resolution of an incident it put under investigation. |
| `access` | `UniqueAccounts`, `SessionsSound`, `LocksInTime` | 2 requests at a time, 4 in all, 3 accounts of 2 organizations and one more; lock at 2 failures; a session ends at 3 of 4 ticks. |
| `database` | `SetupAccepted`, `PartitionsCover`, `NothingTakenAway` | 2 operators, 3 commands, 5 weeks of which 2 make a month: rerun after a death, two at once, a month's end, retention. |
| `operations` | `RulesAudited`, `LoadedAsStored`; `SentOnce`, `EveryNoticeSettles`; `HubExact`, `EndedSessionLeaves`; `NoCollision`, `HeartbeatsAdvance` | pages of one row with 3 rules and 2 changes; 2 dispatchers, 2 notices, 2 attempts, 3 faults; 2 sockets and 2 sessions with a limit of 1, reads that fail, clients that leave; 4 periods of the clock, a Collector one period behind, on time and two ahead, with one tolerated. |
| `analysis` | `HistoryExact`, `RuleMeans`, `DryRunAgrees`, `MergeSound`, `RiskGrows`, `ContractAgrees` (with the exact size), `MessagesAgree` | three scenarios of 4 or 5 events in 3 batches, in and out of order, over every window; all conditions of 5 words, all pairs of 9 values, histories of 4 events; 4 pieces of evidence of 12; 3 lines of 29, of which each differs from a plain one in what one check asks for; of messages lines of 0 to 11 bytes with a capture limit of 2 and a record limit of 10, so that lines at, below and above each limit occur, counters that are full at 11, 2 keys of which the backend knows one, and a clock of 2 instants, back and forth. |
| `scoring` | `ScoresKept`, `EngineShielded`, `BreakerRecovers` | jobs of up to 2 events in chunks of 1, two versions whose scores meet the threshold and the rounding, 2 failures open the circuit, 2 successes close it, cooldown 2. |
| `unrep_checkpoint` | finding 1 | as `runtime`, no failures |
| `worker_reload` | finding 2 | one rule change, no faults |

Deadlock is checked where the system cannot stop (`runtime`, `intake`, `detection`,
`incidents`, `scoring`). It is off in the others, where the identifiers, requests,
commands, rules or inputs of a bounded instance run out.

`RuleReload`'s property `LoadedAsStored` is conditional on a load that nothing
disturbed; the property without the condition does not hold (section 6).

### Fairness, and why the code justifies it

- `OutboxPublication`: weak fairness of the Collector's own steps, and of forming a
  publication when records wait. `main.cpp` calls `poll_once` in a loop, an operator or
  service manager restarts an exited Collector. Failures are bounded in number. Nothing
  is assumed of the writers of the source files or of the backend.
- `CollectorRuntime`: the loop goes on, an exited Collector is started again and not
  stopped before every first poll (strong fairness of `PollOnce`); a waiting record is
  read in the end and the dwell time of a partial batch runs out (strong fairness,
  because other steps disable and enable these).
- `CollectorIntake`: cycles are run again and again (a scheduled script), one worker
  process is up, BullMQ hands out what waits (strong fairness of `Take`: other jobs use
  the worker in between). Nobody has to put a file back or to bring a key.
- `AlertDetection`, `IncidentCorrelation`: a worker goes on inside an attempt, a waiting
  job is handed out (strong), time passes. In the latter a transaction is tried again
  as often as `MaxTries` says, then as a new attempt of its job.
- `NotificationDispatch`: dispatchers poll; a lease that nobody renews runs out, a retry
  becomes due. Faults, slow calls among them, are bounded: two dispatchers that are
  always slower than their leases take the row from each other for ever.
- `RealtimeGateway`: Node runs the continuation of an await, `setInterval` fires.
- `RuleReload`: API and worker processes go on with what they started.
- `AiScoring`: the worker goes on, jobs keep coming, time passes. `BreakerRecovers`
  assumes an engine that is back for good and a worker that no longer crashes.

The `HeartbeatsAdvance` property is an action property and needs no fairness;
`AccessControl`, `DatabaseLifecycle` and the six parts of `MCAnalysis` state safety only: their steps depend on users and operators who owe nothing.

## 4. Proofs

`OutboxPublication_proof` proves, for any set of sources, any bounds and any number of
failures and crashes (from `BoundsAssumption`: the bounds are natural numbers):

| Theorem | States |
|---|---|
| `TypeCorrect` | `Spec => []TypeOK` |
| `CheckpointNeverAhead` | `Spec => []CheckpointCovered` |
| `ReaderNeverSkips` | `Spec => []NothingSkipped` |
| `CommitsAccepted`, `ManifestsHaveBatches`, `OneSealed` | the three parts of `RecoverySound` |
| `RecoveryAlwaysSound` | `Spec => []RecoverySound` |
| `ImplementsDelivery` | `Spec => RefinesDelivery`, the whole of `DeliveryContract!Spec` |

None of these is inductive. `CheckpointCovered` alone says nothing about the
publication that is about to be committed; that no commit is refused depends on the
sealed copies of an earlier process. The inductive invariant `Inv` has these parts:

- `TypeOK` and `ControlInv`: which publication can be in progress in which phase.
- `DiskInv`: at most one sealed publication, it is the one in progress if there is one,
  and a manifest only with its batch.
- `IdentityInv`: without truncation in place the file identity names the content, which
  is what lets the checkpoint store and the reader compare positions.
- `OrderInv`: per source, the checkpoint, the interval of the current publication (the
  one in progress or sealed) and the reader's position follow each other, where all
  three are of the same content. This makes the checkpoint store accept each commit and
  gives a restart what it needs to resume.
- `DeliveryInv`: the records below the start of the current publication were handed
  over, and all of its records once a final file was seen or made.
- `GapInv`: what was delivered has no gaps.

There is one lemma per part with one step per action (`NextTypes`, `NextDisk`,
`NextIdentity`, `NextOrder`, `NextDelivery`, `NextGap`); `Invariance` puts them together
and the theorems follow. `ImplementsDelivery` maps each step to `Deliver` (the link),
`Commit` (the checkpoint) or a stutter.

`CollectorIntake_proof` proves, for any finite set of files, any batch ids and digests,
any classes of files, and any number of attempts, failures, crashes and losses of the
queue (from `ConstantsAssumption`: the constants have their types, at least one attempt,
and no digest is the value that stands for an empty archive):

| Theorem | States |
|---|---|
| `TypeCorrect` | `Spec => []TypeOK` |
| `ProcessedOnlyIngested`, `QuarantinesJustified`, `CompletionsMovedFile` | the three parts of `FilesBelong` |
| `EveryFileBelongs` | `Spec => []FilesBelong` |

A file is moved several steps after the reason to move it was established; in between
the cycle may rename files, the backend may die and the queue may be lost. The inductive
invariant adds what carries the reason along:

- `JobInv`: a job is of a file with its batch id and of a claim that was made, and the
  worker has one job at a time.
- `ScanInv`: the files a claim scan has yet to look at are still in `incoming/`, so that
  the cycle renames no file a worker may have moved.
- `ProgressInv`: what is archived, persisted and detected for the job's file when the
  worker reaches each step, and where the file is when it acknowledges.
- `ClaimInv`: a file that waits in `incoming/` has a claim left. `Gone` says that what was
  claimed for a job is no longer in `processing/`: the file is elsewhere, or is there under
  a later name after it was put back. It replaces "the file was moved", which requeueing
  makes untrue.

`IntakeSteps`, `EnqueueStep` and `WorkStep` show that the cycle, the queue and the worker
preserve it; `EndAttemptKeeps` covers every way an attempt fails.

Of `CollectorMessages` the same module proves, for any limits that `MessagesAssumption` admits (what is
captured and what surrounds it fit a record, a record's size is an integer JSON can carry:
64 KiB are 87 384 bytes of base64 in a record of at most 512 KiB), any keys and any lines:
`OwnDocumentsAlwaysPass` (`MessagesSpec => [](MessagesTypeOK /\ OwnDocumentsPass)`),
`HeartbeatsAlwaysAgree` (`MessagesSpec => []HeartbeatAgrees`), their conjunction `MessagesAlwaysAgree`
(`MessagesSpec => []MessagesAgree`), and `MessagesSound`, whose
`PendingIsOwn` says that what a restart finds in `pending/` was made by a Collector of
this configuration from one of the three sources of rejections. `OwnRejectionPasses` is
the lemma that each of them satisfies the writer's checks.

Of `CollectorContract` it proves, for any lines, limits, clock ranges, keys and base of
the count (from `ContractAssumption`: an empty batch fits the limit, the base is 2 at
least, sizes and nesting depths are natural numbers): `ContractAlwaysAgrees`
(`ContractSpec => []ContractAgrees`) and `ContractSound`, its strengthening `ContractInv`.
The Collector checks a line in three places, the backend the signed batch in a fourth
order; the invariant says what the first three leave behind:

- `BatchOpen`: the open batch consists of lines that passed all three (`Accepted`), and the
  size that is added up line by line is that of the document (`SizeExact`), so that it may be
  sealed at any time. `SizeOfMore` is the lemma: an event adds its own text and what the
  framing grows by, the digits of the count included.
- `DeferredFits`: an event that waits for the next batch fits an empty one.
- `SealedSound`, `VerdictSound`: what is sealed keeps the Collector's limits, and what was
  judged is such a document, whole or changed.

`OutcomeIs` says that a list of checks answers with the first that fails; `PassesBoth` and
`EventAgrees` compare the two lists: of an event the Collector accepts, the backend
refuses only what `WithinLimits` excludes. The digits of a number and the sum over a batch
are recursive functions; that they exist and what they bound (`Digits`, `SumSeqAppend`) is
proved from the least number, or the shortest batch, for which it would not be so.

`CollectorRuntime_proof` proves, for any number of sources, any capacities and batch
sizes and any number of failures and crashes (from `RuntimeAssumption`):

| Theorem | States |
|---|---|
| `TypeCorrect` | `Spec => []TypeOK` |
| `PipelineAlwaysInOrder` | `Spec => []PipelineInOrder` |
| `CheckpointAlwaysCovered` | `Spec => []CheckpointCovered` |
| `ShutdownAlwaysSound` | `Spec => []ShutdownSound` |

A record passes through five containers, and whether one of them is in order depends on
the others. The proof therefore speaks of the pipeline: all of them, one behind the
other. Most steps leave it as it is; a poll makes it longer, a publication takes its
front, a restart empties it, and a late refusal moves one record. `LoopInv` says of it
`Order` (sorted, without gaps from the checkpoint to the reader's position), of the
publication in progress `Publication`, of the place where the loop is `Control` and
`Draining` (what `drain_queue` was called for and what holds when it returns), and of
the checkpoint and an exit `Left`.

`AlertDetection_proof` proves, for any batches, rules, windows, cooldowns, workers and
failures (from `ConstantsAssumption`): `NoAlertEverLost` (`Spec => []NoAlertLost`),
`CooldownAlwaysHeld` (`Spec => CooldownHeld`) and `DetectionSound`, the invariant
`DetectInv` both rest on. That a completed job stored what its attempts emitted is true
for two reasons: a match alert is raised by every attempt (`MatchesKept`), and a count
alert of a job that nothing disturbed is raised by its only attempt (`FirstAttempt`: its
events enter the window in order, none was there before). `Leased` says that the lease
outlasts what is missing of the cooldown.

Of `UnifiedAlerts` the same module proves `MergeAlwaysSound`
(`AlertsSpec => []MergeSound`) and `RiskAlwaysGrows` (`AlertsSpec => RiskGrows`), for any
evidence in any order and number, any fields of events, weights and criticality of the
asset. `AlertsAssumption` says what the engines guarantee: an AI result names one event
(`normalizeAiAlert` lists `result.event_id` alone), and the identity of a rule alert, a
hash of its rule, state and events, determines these and is the identity of no AI alert.
The invariant `AlertsInv` is that the outcome is what the pipeline makes of the evidence so
far; the work is in what the pipeline computes of a sequence of any length:

- Sorting forgets the order and the repetitions of event ids and keeps their set
  (`SortedForgets`, `SortedKeeps`), so a deduplication key stands for a subject
  (`KeyIsSubject`), and two alerts of a subject are the same content exactly if they say
  the same (`SameIsSaying`).
- The deduplicator refuses exactly a contradiction (`CollisionIs`), else one alert is
  left for each subject (`Represents`, `RepresentsCount`); enrichment refuses exactly an
  unknown event (`PipelineIs`).
- An entity that is normalized again stays as it is (`NormalizedOnce`), so an alert that
  is stored and read back is the same (`StoredIs`). This is about values with one suffix,
  as the model has them; `a@localhost@localhost` is outside its data.
- The voice of a kind is the maximum over its alerts, which more alerts only raise
  (`VoicesGrow`, `StrongestIs`), and the score is a monotone function of the voices and
  the number of alerts (`RiskIs`, `RiskRises`, `SeverityRises`).

Of `RuleEvaluation` it proves `DryRunAlwaysAgrees` (`EvaluationSpec => []DryRunAgrees`), for
any rules, any meaning of their conditions, any candidates and any history that is no
longer than the limit, and the two other parts of `RuleMeans`: `ComparisonsAlwaysObey` and
`DocumentsLoadedOnce`. `EvaluationAssumption` says that values are typed and a window is a
number. The worker looks at every event, the dry run only at those of the class and
category of the rule (`ListedIs`); an event that is not listed does not match
(`MatchesMine`), and at one that is, the script, which removes up to the cutoff, and the
filter, which keeps what is later, keep the same (`SameStep`), as long as the windows hold
events of the range (`CountsWithin`). Along the history, counts exist and are determined
(`LiveCountsExist`, `DryCountsUnique`), so the alerts are the same (`SameAlerts`).

`AccessControl_proof` proves, for any number of requests at a time, any durations and
limits (from `LimitsAssumption`, which `config/env.ts` enforces):
`AccountsAlwaysUnique`, `SessionsAlwaysSound`, `LocksAlwaysInTime`, and `AccessSound`,
their strengthening `AccessInv`. `RequestsOK` says what each request remembers over its
awaits and how much of it is still true, `Issued` that an exchanged token is the current
one of no session, `Counted` that the counter of the row has the wrong passwords in a
row. The proof showed that the end of a session is the larger of its maximal duration
and the life of the first token: the configuration does not relate the two, and
`SessionsSound` says so.

`MCOperations_proof` proves about its four services, for any constants that
`LimitsAssumption` admits: `HeartbeatsNeverCollide` (`Spec => []NoCollision`) and
`RowsOnlyAdvance` (`Spec => HeartbeatsAdvance`) from `BeatInv`, in which every number
that was used anywhere is below the one reserved next and names one heartbeat;
`NotificationsSentOnce` (`Spec => []SentOnce`) from `DispatchInv`, in which the marker
accounts for what was sent, a claimed row keeps its count of attempts while it is owned,
and a batch has a row once; `HubAlwaysExact` (`Spec => []HubExact`), where `HubInv` adds
the types only.

Of rule administration and reload it proves `RulesAlwaysAudited`
(`Spec => []RulesAudited`) and `LoadsAsStored` (`Spec => []LoadedAsStored`), for any
processes, documents, number of rules and size of a page, from `RulesInv`.
`ImportsAssumption` says that an import file is a sequence of documents,
`LimitsAssumption` that there is an identifier and a name beside the markers of the
built-in rule. `RulesInv` has three parts:

- `TableInv`: rows are numbered without a gap, so that a new one has no audit entry yet,
  and every row occurs in the order of the query. `Allowed` is what a commit may do to a
  row; each command is shown to stay within it (`NewRowAllowed`, `ChangeAllowed`), and
  whatever stays within it keeps the table (`CommitKeepsTable`).
- `CommandsInv`: what is left of an import is still a sequence of documents.
- `LoadInv`: what was read or is in use is never newer than the table, and has its content
  if it has its version (`Known`); as long as nothing was committed since the load began,
  the pages read are the first rows of the query (`ReadInOrder`). The first is why a rule
  this worker cannot compile is in use only in an earlier version.

`RuleReload` writes the query (`Chosen`) and the replay of the audit trail (`Replay`) as
recursive functions. That such a function exists (`RecursionExists`), stays in its set
(`RecursionStays`) and is determined by its table (`RecursionUnique`) is proved from the
least number for which it would not be so.

`AiScoring_proof` proves, for any jobs, models, training ranges, thresholds and limits
(from `ScoringAssumption`): `EngineAlwaysShielded` (`Spec => []EngineShielded`),
`ScoresAlwaysKept` (`Spec => []ScoresKept`), and `ScoringSound`, their strengthening
`ScoringInv`. `AnswerAccepted` is the lemma that the engine's answer to any chunk passes
every check of the client: clipping, division and rounding stay within the range
(`Thousandths`), and the events of the answer are those of the request. `JobScored` says
that the first events of a job have one score each and the others are still to be sent
(`Progress`), which is why a fallback is declared exactly where a score is missing;
`BreakerInv` says what each state of the breaker still grants the engine.

Of `FeatureHistory` it proves, for any scenario of events and batches, any window lengths
(the two orders `FeatureAssumption` states: a minute is no longer than a day, ten minutes
no longer than an hour), any workers and any retries: `HistoryAlwaysExact` (`FeatureSpec =>
[]HistoryExact`) and `HistorySound`, its strengthening `FeatureInv`. Its log is the history
variable of the argument: each counted call once, with the clock it ran at.

- `HistoryKept`: a sorted set holds what was counted and nothing else, except what may have
  been forgotten: the time of its key has passed on the clock of Redis, or a later event of
  its plugin has pruned it (`Forgotten`). `KindsApart` is why no script prunes the key of
  another, `ScriptMoves` what each does to the sets.
- `WindowHolds`: if events came in the order of their times, none waiting longer than those
  before it, nothing in the window of an event can have been forgotten when it is
  counted. `TemporalCounts`, `AuthenticationCounts`, `ProcessCounts` and `NetworkCounts` turn this
  into the counts of the four plugins.
- `AnswersExact`: an answer that was exact stays so, since what is counted later lies behind
  it in the log (`CountKeeps`); `JobsSound`: what a job carries or has stored is such an
  answer, or the neutral one it may fall back to.

`PostgreSQL_proof` proves about `DatabaseLifecycle`, for any operators, collections,
horizons, retention periods and length of a month (from `DatabaseAssumption`: they are
natural numbers, a month has a week at least):

| Theorem | States |
|---|---|
| `DatabaseSound` | `DatabaseSpec => []DatabaseInv` |
| `PartitionsAlwaysCover` | `DatabaseSpec => []PartitionsCover` |
| `SetupAlwaysAccepted` | `DatabaseSpec => []SetupAccepted` |
| `NothingEverTakenAway` | `DatabaseSpec => NothingTakenAway` |

The three properties speak of commands that have succeeded; the invariant says what is
true of one that has not yet, and may die at each of its statements:

- `PartitionsInv`: what a run has planned is there or still in its hands (`Planned`), what
  retention has in its hands ended before today (`Retained`). A run that drops while
  another creates therefore cannot take what the other counts on. `WindowsCover` is the
  lemma about the calendar: the windows of a table leave no gap, for any length of a month.
- `SeedInv`: the advisory lock admits one seed at a time, nothing is inserted twice
  (`Agree`), and what its steps so far are about is there (`Seeded`).
- `BootstrapInv`: a collection that a bootstrap is past has its indexes, and one it is at has
  them or is about to get them, though another bootstrap works beside it.
- `FactsInv`: what a success promised is not undone by what runs or dies later.

About `IncidentCorrelation` it proves, for any jobs, batches of alerts, entities, windows,
caps and number of workers, and for any retries, failures, redeliveries and analysts:
`IncidentsAlwaysAgree` (`Spec => []IncidentsAgree`) and `IncidentsSound`, its strengthening
`IncidentInv`. `IncidentAssumption` says that there are finitely many jobs, an alert occurs
once in its batch, has finitely many entities, its primary entity among them, and one
event at least: a batch is an array, `deduplicate` leaves an alert once, and the merger
refuses an alert without events (`normalizeEventIds`). A database is `Consistent` if each of its incidents counts what is attached
and linked to it, its interval is that of its events, its journals are chains that end in
its present state, and each attached alert has its one notification.

- `CorrelateKeeps`: a batch takes a consistent database to a consistent one that
  `Continues` it: journals are extended, nothing is detached, no assignee is named. One
  lemma per step of `correlateAlert` (`ExpireKeeps`, `AttachKeeps`, `BestIsACandidate`).
- `MergeKeeps`: a commit puts the rows a transaction changed into a database that others
  have written to since its snapshot. If none of these rows has changed meanwhile
  (the part of `ConflictFree` that PostgreSQL checks row by row), the merge is consistent.
  The argument rests on the counters: an incident whose row is unchanged has the same
  counts, hence the same alerts and events (`SameSize`), so that nothing can have joined
  it beside the row; and `ChainJoin` appends to a journal only what the transaction added.
- `CommandKeeps`: a command of an analyst changes one row and its journal.
- `IncidentInv` says all this of `db` and of the snapshot and result of every running job,
  and that the committed database has only grown since each snapshot (`Grows`).

That dangerous structures of reads and writes are refused as well is not used: these
agreements need it no more than `Serializable` can do without it.

Where a property is about the first record, row or event for which something fails, the
proofs use a least element of a set of natural numbers; the induction theorems of the
library, which the provers cannot instantiate, are not needed.

Model-checked only:

- Everything under fairness: liveness and `ENABLED` are beyond the prover.
- Of `RuleMeans` the part about conditions: `RuleLanguage` uses RECURSIVE operators (a
  recursive-descent parser), which the prover does not take; what a parser computes for
  every input would need induction over data, which it cannot do either.
- `Serializable` asks for an order of the committed jobs, which it
  recomputes from the empty database. A proof would have to carry that order along
  as a history variable and show that moving a job over another leaves its whole result
  as it was, candidates and ranks included; this is an induction over the two batches.

## 5. What is not modelled

- Requests of one statement or one query without state in between: assets, audit
  views, configuration, events, dashboard, health, collector status, lists of
  incidents, rules and users. The audit rows that commands write are part of
  `RuleReload` and `IncidentCorrelation`.
- Training and explanation in the AI engine: numerical libraries. A trained model is a
  function from vectors to raw scores.
- Features computed of one event or one batch alone: arithmetic without state.
- Regular expressions of rules, SHA-256, HMAC, base64 and the fixed texts of the OCSF
  mapping: taken as ideal or left out.
- Arguments, the directories, limits and times of a configuration, process wiring, the system proof and other
  demonstration scripts, rollback of migrations, connection pools.
- Frames of the WebSocket protocol, but for pong and close.

## 6. Findings

Listed in `PROJECT.json`, each shown by its run:

1. **The checkpoint passes a rejected record** (`unrep_checkpoint`,
   `collector_runtime.cpp:239`). When the assembler refuses an event, `drain_queue` puts
   its rejection into `buffered_inputs_` and returns, but the callers flush and go on
   with later events of the same source; their commit passes the record whose rejection
   is not durable. A crash then loses the rejection; without one the rejection is a
   position regression that the checkpoint store refuses for good.
2. **A disabled rule stays in use** (`worker_reload`,
   `configured-collector-processing-worker.dependencies.ts:167`). The worker loads its
   rules once and constructs no subscriber; the documentation says rules are reloaded
   without a restart.

Shown by configurations beside the runs, each of which TLC refutes:

| Configuration (module) | Property refuted | What it shows |
|---|---|---|
| `TruncationCommit` (`MCOutboxPublication`) | `CommitNeverRefused` | after truncation in place positions regress and the commit is refused on every retry and restart |
| `TruncationResume` | `NothingSkipped` | a file truncated and grown past the checkpoint while the Collector is down is resumed in the middle of its new content |
| `ClaimedRewrite` | `ClaimedFilesIntact` | after a crash between link and unlink and a claim, the next attempt truncates the claimed file through the temporary name, then writes the same bytes |
| `DetectionLost` (`MCAlertDetection`) | `NoAlertLostAlways` | only the exact threshold raises a count alert; a retry finds its own later matches in the window |
| `Requeue` (`MCCollectorIntake`) | `RequeuedFileSettles` | the job of a file that a worker quarantined is kept; when an operator puts the file back, `enqueue` answers that the job exists, or retries it under the file's old name, and the file stays in `processing/` (`bullmq-processing.queue.ts:67`, against `collector-monitoring/ARCHITECTURE.md:40`) |
| `Rejections` (`MCAnalysis`) | `RejectionConforms` | no rejection satisfies the normative schema: `sha256` without its prefix, the adapter `file_drop`, a mapper's code under another stage (`collector_runtime.cpp:258`, `file_reader.cpp:176`, `common.schema.json:32`) |
| `IntakeAborted` (`MCCollectorIntake`) | `NoCycleAborted` | a worker's rename between `readdir` and `lstat` ends the whole cycle; the next one makes up for it |
| `LateRarity` (`MCAnalysis`) | `RarityAsDocumented` | late events make rarity wrong or negative; the snapshot is kept for seven days |
| `PublishedIsBelieved` (`MCAnalysis`) | `PublishedIsBelieved` | one line the Collector accepts makes the backend refuse the whole batch |

Seen in the code while modelling, without a configuration:

- A batch published twice: the job exists and nothing moves the second copy out of
  `processing/`; a second content under the id of a kept job is never compared. Nothing
  quarantines the file of a job out of attempts; the next cycle revives it.
- A count alert over two batches: its first event is not at hand, and correlation throws
  until the window is over. A retry at the threshold emits one alert at each event, and the
  repository refuses the call. `NoAlertLost` excepts both (`Reproducible`).
- A row marked offline for its age is set online by the same heartbeat file, then offline again.
- Lines that only the Collector accepts: a user name over 256 or a message over 4096
  characters, an endpoint over 253, an upstream id over 256, an instant before 1970, an
  offset such as `+25:00`, an address followed by a NUL. `ContractAgrees` names these
  as `WithinLimits` and shows there are no others among the checks of a line. Two records at
  one offset of a file rewritten in place get one event id.
- On a database migrated more than a week after 2026-07-26 the development seed finds no
  partition for its rows and is rolled back (`development-demo.seed.ts:486`).
- An upgrade that authenticates while the gateway closes is admitted afterwards
  (`node-websocket-gateway.ts:50`).
- A retry of scoring under another version of the model: the stored results and the alerts
  are of different versions.
- Password failures are counted and the lock set in two updates; the lock is at most
  late. A refresh rotates `jwt_id`, so the next check closes the session's sockets.
- INCR and EXPIRE of the rate limit are two commands.
- A reload signal during a load joins that load, which may have read older rows; a rule
  that changes type or page between two queries is skipped or repeated.
- An alert on an event older than the oldest partition of `incident_events`, or after a
  gap in maintenance, cannot be correlated: there is no default partition.
- An invalid index left by `CREATE INDEX CONCURRENTLY IF NOT EXISTS` is accepted by its
  name; knex's lock stays after a crash.
- The risk score is not monotone where a first alert of a kind replaces the neutral
  value. `10.0.0.5` as a host becomes `10`; normalizing again changes an entity further.
- The dry run counts by event time and ignores cooldowns, the worker counts by its clock.
- More than one job at a time in a worker would let a late report free the half-open
  probe of the circuit breaker; the configuration has one.
- Status changes by analysts enqueue no notification, contrary to
  `docs/backend-detection.md:1102`.
- Heartbeats are stale after 90 s, ARCH-01:242 says 60 s.
- The list of users combines search terms and organization with OR
  (`postgres-user.repository.ts:131`).

## 7. Plan

Done: the modules above, in the order publication, runtime, intake, detection;
correlation, notifications, heartbeats, gateway; sessions, rules, database; features,
rules' language, scoring, alerts, contract; heartbeats' and rejections' documents, requeue.
What is left, in this order:

1. Composition of `AlertDetection` and `IncidentCorrelation` over one queue.
2. The crash of a request between two calls in `AccessControl`.
3. The organization side of the hub in `RealtimeGateway`.
