--------------------------- MODULE CollectorIntake ---------------------------
(***************************************************************************)
(* The backend's side of the handoff directory.  An intake cycle recovers  *)
(* what processing/ holds, claims what incoming/ holds, verifies each file *)
(* and queues one BullMQ job per batch id.  Workers run the jobs: archive, *)
(* persist, detect and correlate, then move the file to processed/ or to   *)
(* quarantine/.  Intake and worker are two processes that share only the   *)
(* directories and the queue, and either may die between two steps.        *)
(*                                                                         *)
(* An operator may give a Collector's key to either process, and may put a *)
(* quarantined file back into incoming/ (collector-monitoring).            *)
(*                                                                         *)
(* One cycle runs at a time.  Renames are atomic; each claim of a file     *)
(* gives it a new name, which its job carries and it keeps until then.     *)
(* What happens inside detection is in AlertDetection.                     *)
(***************************************************************************)
EXTENDS Integers, FiniteSets

CONSTANTS
  File,         \* files a Collector may publish
  Id,           \* batch ids
  BatchOf,      \* file -> the batch id in its name and in its document
  DigestOf,     \* file -> canonical digest of its content
  Class,        \* file -> "valid", "invalid", "unsized", "eventCollision" or "untrusted"
  MaxAttempts,  \* attempts of a job
  MaxClaims,    \* bound: claims of a file, one more than it is put back
  MaxFaults     \* bound: failures, crashes and losses of the queue

Nothing == "nothing"

ASSUME ConstantsAssumption ==
  /\ BatchOf \in [File -> Id] /\ IsFiniteSet(File)
  /\ DOMAIN DigestOf = File
  /\ \A f \in File : DigestOf[f] # Nothing
  /\ \A f \in File : Class[f] \in {"valid", "invalid", "unsized", "eventCollision", "untrusted"}
  /\ {MaxAttempts, MaxClaims} \subseteq Nat \ {0} /\ MaxFaults \in Nat

VARIABLES
  place,      \* file -> the directory it is in
  claim,      \* file -> how often it was claimed, its name since the last time
  trust,      \* processes that know the key of the untrusted files
  cycle,      \* "idle", "recover", "claim" or "verify"
  todo,       \* directory entries the cycle has not looked at yet
  held,       \* files the cycle will verify
  aborted,    \* history: a cycle ended by throwing
  job,        \* batch id -> its BullMQ job
  step,       \* batch id -> the step of the worker that has the job
  archive,    \* batch id -> digest in the raw event archive
  persisted,  \* files whose events are in MongoDB
  detected,   \* files whose alerts are stored and correlated
  faults

intakeVars == <<cycle, todo, held, aborted>>
workerVars == <<job, step>>
dbVars == <<archive, persisted, detected>>
vars == <<place, claim, trust, intakeVars, workerVars, dbVars, faults>>

NoJob == [state |-> "none"]
In(d) == {f \in File : place[f] = d}

Init ==
  /\ place = [f \in File |-> "outbox"] /\ claim = [f \in File |-> 0] /\ trust = {}
  /\ cycle = "idle" /\ todo = {} /\ held = {} /\ aborted = FALSE
  /\ job = [i \in Id |-> NoJob] /\ step = [i \in Id |-> "none"]
  /\ archive = [i \in Id |-> Nothing] /\ persisted = {} /\ detected = {}
  /\ faults = 0

\* A Collector publishes a file, or the same batch once more.
Publish(f) ==
  /\ place[f] = "outbox"
  /\ \A g \in In("incoming") : BatchOf[g] # BatchOf[f]
  /\ place' = [place EXCEPT ![f] = "incoming"]
  /\ UNCHANGED <<claim, trust, intakeVars, workerVars, dbVars, faults>>

\* FilesystemQuarantineFileRequeuer: the link in incoming/ is made unless
\* there is one of that name, then the name in quarantine/ is removed.
Requeue(f) ==
  /\ place[f] = "quarantine" /\ claim[f] < MaxClaims
  /\ \A g \in In("incoming") : BatchOf[g] # BatchOf[f]
  /\ place' = [place EXCEPT ![f] = "incoming"]
  /\ UNCHANGED <<claim, trust, intakeVars, workerVars, dbVars, faults>>

\* A process is started again with a configuration that has the key.
AddKey(process) ==
  /\ trust' = trust \cup {process}
  /\ UNCHANGED <<place, claim, intakeVars, workerVars, dbVars, faults>>

Verifies(process, f) ==
  Class[f] \in {"valid", "eventCollision"} \/ (Class[f] = "untrusted" /\ process \in trust)

-----------------------------------------------------------------------------
(* The intake cycle.                                                       *)

Scan(next, directory) ==
  /\ cycle' = next
  /\ todo' = In(directory)

StartCycle ==
  /\ cycle = "idle"
  /\ Scan("recover", "processing")
  /\ held' = {}
  /\ UNCHANGED <<claim, trust, place, aborted, workerVars, dbVars, faults>>

\* Empty and oversized files are quarantined, the others verified later.
Admit(f) ==
  IF Class[f] = "unsized"
  THEN place' = [place EXCEPT ![f] = "quarantine"] /\ UNCHANGED held
  ELSE place' = [place EXCEPT ![f] = "processing"] /\ held' = held \cup {f}

\* lstat of an entry that a worker moved since the directory was read throws
\* and takes the whole cycle down.
RecoverFile(f) ==
  /\ cycle = "recover" /\ f \in todo
  /\ IF place[f] = "processing"
     THEN todo' = todo \ {f} /\ Admit(f) /\ UNCHANGED <<cycle, aborted>>
     ELSE /\ cycle' = "idle" /\ todo' = {} /\ held' = {} /\ aborted' = TRUE
          /\ UNCHANGED place
  /\ UNCHANGED <<claim, trust, workerVars, dbVars, faults>>

RecoverEnd ==
  /\ cycle = "recover" /\ todo = {}
  /\ Scan("claim", "incoming")
  /\ UNCHANGED <<claim, trust, place, held, aborted, workerVars, dbVars, faults>>

ClaimFile(f) ==
  /\ cycle = "claim" /\ f \in todo
  /\ todo' = todo \ {f}
  /\ Admit(f)
  /\ claim' = [claim EXCEPT ![f] = @ + 1]
  /\ UNCHANGED <<trust, cycle, aborted, workerVars, dbVars, faults>>

ClaimEnd ==
  /\ cycle = "claim" /\ todo = {}
  /\ cycle' = "verify"
  /\ UNCHANGED <<claim, trust, place, todo, held, aborted, workerVars, dbVars, faults>>

NewJob(f) == [state |-> "waiting", file |-> f, claim |-> claim[f], attempts |-> 0]

\* Mutant: a failed job counts as a job that exists.
EnqueueOnce(f) ==
  job' = IF job[BatchOf[f]] = NoJob
         THEN [job EXCEPT ![BatchOf[f]] = NewJob(f)]
         ELSE job

\* The job id is the batch id: a failed job runs again, any other job
\* already exists, whatever file and whatever claim of it the job is for.
Enqueue(f) ==
  LET i == BatchOf[f] IN
    job' = CASE job[i] = NoJob -> [job EXCEPT ![i] = NewJob(f)]
             [] job[i].state = "failed" -> [job EXCEPT ![i].state = "waiting"]
             [] OTHER -> job

\* The file is still, or ended in processed/, under the name of a claim.
Readable(f, c) == place[f] \in {"processing", "processed"} /\ claim[f] = c

\* verify-and-queue.  A file that is gone by now is a retryable failure.
VerifyFile(f) ==
  /\ cycle = "verify" /\ f \in held
  /\ held' = held \ {f}
  /\ IF Readable(f, claim[f]) /\ Verifies("cycle", f)
     THEN Enqueue(f) /\ UNCHANGED place
     ELSE /\ place' = IF place[f] = "processing"
                      THEN [place EXCEPT ![f] = "quarantine"] ELSE place
          /\ UNCHANGED job
  /\ UNCHANGED <<claim, trust, cycle, todo, aborted, step, dbVars, faults>>

CycleEnd ==
  /\ cycle = "verify" /\ held = {}
  /\ cycle' = "idle"
  /\ UNCHANGED <<claim, trust, place, todo, held, aborted, workerVars, dbVars, faults>>

\* Redis or the file system is unavailable for one file: reported, and left
\* to the next cycle.
VerifyFails(f) ==
  /\ cycle = "verify" /\ f \in held /\ faults < MaxFaults
  /\ faults' = faults + 1
  /\ held' = held \ {f}
  /\ UNCHANGED <<claim, trust, place, cycle, todo, aborted, workerVars, dbVars>>

IntakeCrash ==
  /\ cycle # "idle" /\ faults < MaxFaults
  /\ faults' = faults + 1
  /\ cycle' = "idle" /\ todo' = {} /\ held' = {}
  /\ UNCHANGED <<claim, trust, place, aborted, workerVars, dbVars>>

-----------------------------------------------------------------------------
(* The processing worker.                                                  *)

Goto(i, s) == step' = [step EXCEPT ![i] = s]

\* One job at a time.
Take(i) ==
  /\ job[i].state = "waiting"
  /\ \A k \in Id : job[k].state # "active"
  /\ job' = [job EXCEPT ![i].state = "active"]
  /\ Goto(i, "read")
  /\ UNCHANGED <<claim, trust, place, intakeVars, dbVars, faults>>

\* The attempt throws: BullMQ waits and tries again until the attempts are
\* used up.
EndAttempt(i) ==
  /\ job' = [job EXCEPT ![i].attempts = IF @ < MaxAttempts THEN @ + 1 ELSE @,
                        ![i].state = IF job[i].attempts + 1 < MaxAttempts
                                     THEN "waiting" ELSE "failed"]
  /\ Goto(i, "none")

ReadBatch(i) ==
  /\ step[i] = "read"
  /\ IF Readable(job[i].file, job[i].claim)
     THEN /\ Goto(i, IF Verifies("worker", job[i].file) THEN "archive" ELSE "quarantine")
          /\ UNCHANGED job
     ELSE EndAttempt(i)
  /\ UNCHANGED <<claim, trust, place, intakeVars, dbVars, faults>>

\* Mutant: a batch id found in the archive is taken for the same batch.
ArchiveBatchAnyDigest(i) ==
  /\ step[i] = "archive"
  /\ archive' = [archive EXCEPT ![i] = IF @ = Nothing THEN DigestOf[job[i].file] ELSE @]
  /\ Goto(i, "persist")
  /\ UNCHANGED <<claim, trust, place, intakeVars, job, persisted, detected, faults>>

\* createIfAbsent: the unique index on the batch id keeps the first archive.
CreateIfAbsent(i, digest) == IF archive[i] = Nothing THEN digest ELSE archive[i]

ArchiveBatch(i) ==
  /\ step[i] = "archive"
  /\ LET d == DigestOf[job[i].file] IN
       /\ archive' = [archive EXCEPT ![i] = CreateIfAbsent(i, d)]
       /\ Goto(i, IF archive[i] \in {Nothing, d} THEN "persist" ELSE "quarantine")
  /\ UNCHANGED <<claim, trust, place, intakeVars, job, persisted, detected, faults>>

\* Equal events that are there already are replays; a different event under
\* the same id quarantines the batch.  Those before it stay inserted.
PersistEvents(i) ==
  /\ step[i] = "persist"
  /\ IF Class[job[i].file] = "eventCollision"
     THEN Goto(i, "quarantine") /\ UNCHANGED persisted
     ELSE Goto(i, "detect") /\ persisted' = persisted \cup {job[i].file}
  /\ UNCHANGED <<claim, trust, place, intakeVars, job, archive, detected, faults>>

Detect(i) ==
  /\ step[i] = "detect"
  /\ detected' = detected \cup {job[i].file}
  /\ Goto(i, "complete")
  /\ UNCHANGED <<claim, trust, place, intakeVars, job, archive, persisted, faults>>

\* completeProcessingJob; a file that is in processed/ already is done.
MoveToProcessed(i) ==
  /\ step[i] = "complete"
  /\ IF Readable(job[i].file, job[i].claim)
     THEN place' = [place EXCEPT ![job[i].file] = "processed"] /\ Goto(i, "ack") /\ UNCHANGED job
     ELSE EndAttempt(i) /\ UNCHANGED place
  /\ UNCHANGED <<claim, trust, intakeVars, dbVars, faults>>

\* quarantineProcessingJob; there is no such second chance here.
MoveToQuarantine(i) ==
  /\ step[i] = "quarantine"
  /\ IF place[job[i].file] = "processing" /\ claim[job[i].file] = job[i].claim
     THEN place' = [place EXCEPT ![job[i].file] = "quarantine"] /\ Goto(i, "ack") /\ UNCHANGED job
     ELSE EndAttempt(i) /\ UNCHANGED place
  /\ UNCHANGED <<claim, trust, intakeVars, dbVars, faults>>

\* BullMQ records the completion.
Acknowledge(i) ==
  /\ step[i] = "ack"
  /\ job' = [job EXCEPT ![i].state = "completed"]
  /\ Goto(i, "none")
  /\ UNCHANGED <<claim, trust, place, intakeVars, dbVars, faults>>

\* A database, Redis or the file system fails, or the worker dies and its job
\* stalls.
JobFails(i) ==
  /\ job[i].state = "active" /\ faults < MaxFaults
  /\ faults' = faults + 1
  /\ EndAttempt(i)
  /\ UNCHANGED <<claim, trust, place, intakeVars, dbVars>>

\* Redis comes back without the jobs (and the workers' locks).
LoseQueue ==
  /\ faults < MaxFaults
  /\ faults' = faults + 1
  /\ job' = [i \in Id |-> NoJob] /\ step' = [i \in Id |-> "none"]
  /\ UNCHANGED <<claim, trust, place, intakeVars, dbVars>>

Work(i) ==
  \/ Take(i) \/ ReadBatch(i) \/ ArchiveBatch(i) \/ PersistEvents(i) \/ Detect(i)
  \/ MoveToProcessed(i) \/ MoveToQuarantine(i) \/ Acknowledge(i)

Cycle ==
  \/ StartCycle \/ RecoverEnd \/ ClaimEnd \/ CycleEnd
  \/ \E f \in File : RecoverFile(f) \/ ClaimFile(f) \/ VerifyFile(f)

Next ==
  \/ Cycle \/ IntakeCrash \/ LoseQueue
  \/ \E f \in File : Publish(f) \/ Requeue(f) \/ VerifyFails(f)
  \/ \E process \in {"cycle", "worker"} : AddKey(process)
  \/ \E i \in Id : Work(i) \/ JobFails(i)

Spec == Init /\ [][Next]_vars

\* Cycles are run again and again, a worker process is up, and BullMQ hands out
\* waiting jobs first in, first out.
FairSpec ==
  /\ Spec /\ WF_vars(Cycle)
  /\ \A i \in Id : WF_vars(Work(i)) /\ SF_vars(Take(i))

-----------------------------------------------------------------------------
(* Properties.                                                             *)

Directories == {"outbox", "incoming", "processing", "processed", "quarantine"}
Steps == {"none", "read", "archive", "persist", "detect", "complete", "quarantine", "ack"}
Job == {NoJob} \cup [state : {"waiting", "active", "failed", "completed"},
                     file : File, claim : 0..MaxClaims, attempts : 0..MaxAttempts]

\* Besides the types: a worker holds exactly the active jobs, and at most
\* one; the cycle holds files only while it runs.
TypeOK ==
  /\ place \in [File -> Directories] /\ claim \in [File -> 0..MaxClaims]
  /\ trust \subseteq {"cycle", "worker"}
  /\ cycle \in {"idle", "recover", "claim", "verify"}
  /\ todo \subseteq File /\ held \subseteq File /\ aborted \in BOOLEAN
  /\ (cycle = "idle") => todo = {} /\ held = {}
  /\ job \in [Id -> Job] /\ step \in [Id -> Steps]
  /\ \A i \in Id : job[i].state = "active" <=> step[i] # "none"
  /\ Cardinality({i \in Id : step[i] # "none"}) <= 1
  /\ archive \in [Id -> {DigestOf[f] : f \in File} \cup {Nothing}]
  /\ persisted \subseteq File /\ detected \subseteq File
  /\ faults \in 0..MaxFaults

\* A file reaches processed/ only after its batch is archived under its own
\* digest, its events persisted and its alerts correlated (ARCH-01 section
\* 12, ingestion success), whatever crashed, was retried or was lost on the
\* way.
ProcessedIsIngested ==
  \A f \in In("processed") :
    /\ archive[BatchOf[f]] = DigestOf[f]
    /\ f \in persisted /\ f \in detected

\* A valid batch is quarantined only when its batch id was archived with
\* another digest, never because of a retry.
QuarantineJustified ==
  \A f \in In("quarantine") :
    Class[f] = "valid" => archive[BatchOf[f]] \notin {Nothing, DigestOf[f]}

\* A completed job has moved its file out of processing/, where an operator
\* may bring it only to be claimed once more.
CompletedJobMovedFile ==
  \A i \in Id : job[i].state = "completed" =>
    place[job[i].file] # "processing" \/ claim[job[i].file] > job[i].claim

\* Every file is where it belongs, and the queue does not say otherwise.
FilesBelong == ProcessedIsIngested /\ QuarantineJustified /\ CompletedJobMovedFile

Settled(f) == place[f] \in {"processed", "quarantine"}

OwnId(f) == \A g \in File \ {f} : BatchOf[g] # BatchOf[f]

\* Every published file with a batch id of its own is processed or quarantined
\* in the end, with any bounded number of failures, crashes and losses of the
\* queue; so is one that is put back into incoming/ before there was a job.
EveryFileSettles ==
  \A f \in File : OwnId(f) =>
    ((place[f] = "incoming" /\ job[BatchOf[f]] = NoJob) ~> Settled(f))

\* "The regular ingestion cycle subsequently claims, authenticates, validates,
\* and queues the batch again": so is a file that is put back at any time.
RequeuedFileSettles == \A f \in File : OwnId(f) => ((place[f] = "incoming") ~> Settled(f))

\* "A transient failure for one file does not prevent other files from being
\* processed": no cycle is given up.
NoCycleAborted == ~aborted
=============================================================================
