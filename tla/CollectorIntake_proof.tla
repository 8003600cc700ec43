------------------------ MODULE CollectorIntake_proof -----------------------
(***************************************************************************)
(* Proofs about CollectorIntake for any files, batch ids, digests and      *)
(* bounds: whatever crashes, is retried or is lost on the way, a file is   *)
(* moved to processed/ or quarantine/ only for the reason that justifies   *)
(* it, and a job is acknowledged only after its file was moved.  And about *)
(* what intake reads, the documents of CollectorMessages and the batches   *)
(* of CollectorContract: for any lines, limits and keys both programs agree*)
(* on them.                                                                *)
(***************************************************************************)
EXTENDS
  CollectorIntake, CollectorContract,
  FiniteSetTheorems, SequenceTheorems, WellFoundedInduction, TLAPS

\* A job is of a file with its batch id and of a claim that was made; the
\* worker has one job at a time.
JobInv ==
  /\ \A i \in Id : job[i] # NoJob =>
       BatchOf[job[i].file] = i /\ job[i].claim <= claim[job[i].file]
  /\ \A i, k \in Id : step[i] # "none" /\ step[k] # "none" => i = k

\* Only the cycle moves files out of incoming/, and it looks at each entry of
\* a scan before it goes on.
ScanInv ==
  /\ cycle = "claim" => todo \subseteq In("incoming")
  /\ cycle = "verify" => todo = {}

\* A file that waits to be claimed may be claimed.
ClaimInv == \A f \in File : place[f] \in {"outbox", "incoming"} => claim[f] < MaxClaims

\* What was claimed for a job is no longer in processing/.
Gone(i) == place[job[i].file] # "processing" \/ claim[job[i].file] > job[i].claim

\* What the worker has done for the file of its job when it reaches a step.
ProgressInv ==
  \A i \in Id :
    LET f == job[i].file IN
      /\ step[i] \in {"persist", "detect", "complete"} => archive[i] = DigestOf[f]
      /\ step[i] \in {"detect", "complete"} => f \in persisted
      /\ step[i] = "complete" => f \in detected
      /\ step[i] = "quarantine" =>
           Class[f] # "valid" \/ archive[i] \notin {Nothing, DigestOf[f]}
      /\ step[i] = "ack" => Gone(i)

\* The types without the count of workers, which JobInv implies.
Typed ==
  /\ place \in [File -> Directories] /\ claim \in [File -> 0..MaxClaims]
  /\ trust \subseteq {"cycle", "worker"}
  /\ cycle \in {"idle", "recover", "claim", "verify"}
  /\ todo \subseteq File /\ held \subseteq File /\ aborted \in BOOLEAN
  /\ (cycle = "idle") => todo = {} /\ held = {}
  /\ job \in [Id -> Job] /\ step \in [Id -> Steps]
  /\ \A i \in Id : job[i].state = "active" <=> step[i] # "none"
  /\ archive \in [Id -> {DigestOf[f] : f \in File} \cup {Nothing}]
  /\ persisted \subseteq File /\ detected \subseteq File
  /\ faults \in 0..MaxFaults

\* The inductive invariant.
Inv ==
  /\ Typed /\ JobInv /\ ScanInv /\ ClaimInv /\ ProgressInv
  /\ ProcessedIsIngested /\ QuarantineJustified /\ CompletedJobMovedFile

-----------------------------------------------------------------------------
(* Types and jobs.                                                         *)

\* A job that exists has all its fields, and is not the absent job.
LEMMA JobFields ==
  ASSUME NEW j \in Job
  PROVE  /\ j = NoJob <=> j.state = "none"
         /\ j # NoJob => /\ j.file \in File /\ j.claim \in 0..MaxClaims
                         /\ j.attempts \in 0..MaxAttempts
                         /\ j = [state |-> j.state, file |-> j.file, claim |-> j.claim,
                                 attempts |-> j.attempts]
  BY DEF Job, NoJob

\* Changing the state of a job keeps its file, its claim and its attempts.
LEMMA SetState ==
  ASSUME NEW j \in Job, j # NoJob, NEW st
  PROVE  [j EXCEPT !.state = st] =
           [state |-> st, file |-> j.file, claim |-> j.claim, attempts |-> j.attempts]
  BY JobFields DEF Job

\* The initial state.
LEMMA InitInv == Init => Inv
<1> SUFFICES ASSUME Init PROVE Inv
  OBVIOUS
<1> USE ConstantsAssumption DEF Init
<1>1. Typed
  <2>1. job \in [Id -> Job] /\ \A i \in Id : job[i].state = "none"
    BY DEF Job, NoJob
  <2>2. archive \in [Id -> {DigestOf[f] : f \in File} \cup {Nothing}]
    OBVIOUS
  <2>3. /\ place \in [File -> Directories] /\ claim \in [File -> 0..MaxClaims]
        /\ trust = {} /\ step \in [Id -> Steps]
        /\ \A i \in Id : step[i] = "none"
    BY DEF Directories, Steps
  <2>4. faults \in 0..MaxFaults
    OBVIOUS
  <2>5. todo \subseteq File /\ held \subseteq File /\ persisted \subseteq File /\ detected \subseteq File
    OBVIOUS
  <2> QED
    BY <2>1, <2>2, <2>3, <2>4, <2>5, Zenon DEF Typed
<1>2. JobInv /\ ScanInv /\ ClaimInv /\ ProgressInv
  BY DEF JobInv, ScanInv, ClaimInv, ProgressInv
<1>3. ProcessedIsIngested /\ QuarantineJustified /\ CompletedJobMovedFile
  BY DEF ProcessedIsIngested, QuarantineJustified, CompletedJobMovedFile, In, NoJob
<1> QED
  BY <1>1, <1>2, <1>3 DEF Inv

\* Steps of the intake cycle, the Collector and the environment that leave
\* jobs, workers and databases alone.
LEMMA IntakeSteps ==
  ASSUME Inv,
         \/ StartCycle \/ RecoverEnd \/ ClaimEnd \/ CycleEnd \/ IntakeCrash
         \/ \E f \in File :
              Publish(f) \/ Requeue(f) \/ RecoverFile(f) \/ ClaimFile(f) \/ VerifyFails(f)
         \/ \E process \in {"cycle", "worker"} : AddKey(process)
  PROVE  Inv'
<1> USE ConstantsAssumption DEF Inv, Typed, workerVars, dbVars, intakeVars, In, Directories
<1>1. UNCHANGED <<job, step, archive, persisted, detected>>
  BY DEF StartCycle, RecoverEnd, ClaimEnd, CycleEnd, IntakeCrash, Publish, Requeue, AddKey,
         RecoverFile, ClaimFile, VerifyFails
<1> DEFINE Moved ==
      \A f \in File :
        \/ place'[f] = place[f] /\ claim'[f] = claim[f]
        \/ /\ place[f] = "outbox" \/ (place[f] = "quarantine" /\ claim[f] < MaxClaims)
           /\ place'[f] = "incoming" /\ claim'[f] = claim[f]
        \/ /\ \/ place[f] = "incoming" /\ claim'[f] = claim[f] + 1
              \/ place[f] = "processing" /\ claim'[f] = claim[f]
           /\ \/ place'[f] = "processing"
              \/ place'[f] = "quarantine" /\ Class[f] = "unsized"
<1>2. place' \in [File -> Directories] /\ claim' \in [File -> 0..MaxClaims] /\ Moved
  <2>1. ASSUME NEW f \in File, place[f] \in {"incoming", "processing"}, Admit(f)
        PROVE  /\ place' \in [File -> Directories]
               /\ \A g \in File \ {f} : place'[g] = place[g]
               /\ \/ place'[f] = "processing"
                  \/ place'[f] = "quarantine" /\ Class[f] = "unsized"
    BY <2>1 DEF Admit
  <2>2. ASSUME NEW f \in File, RecoverFile(f)
        PROVE  place' \in [File -> Directories] /\ UNCHANGED claim /\ Moved
    BY <2>1, <2>2 DEF RecoverFile
  <2>3. ASSUME NEW f \in File, ClaimFile(f)
        PROVE  place' \in [File -> Directories] /\ claim' \in [File -> 0..MaxClaims] /\ Moved
    <3>1. place[f] = "incoming" /\ Admit(f) /\ claim' = [claim EXCEPT ![f] = @ + 1]
      BY <2>3 DEF ClaimFile, ScanInv
    <3>2. claim[f] + 1 \in 0..MaxClaims
      BY <3>1 DEF ClaimInv
    <3> QED
      BY <2>1, <3>1, <3>2
  <2>4. ASSUME NEW f \in File, Publish(f) \/ Requeue(f)
        PROVE  place' \in [File -> Directories] /\ UNCHANGED claim /\ Moved
    BY <2>4 DEF Publish, Requeue
  <2>5. CASE UNCHANGED <<place, claim>>
    BY <2>5
  <2> QED
    BY <2>2, <2>3, <2>4, <2>5
    DEF StartCycle, RecoverEnd, ClaimEnd, CycleEnd, IntakeCrash, VerifyFails, AddKey
<1>3. Typed' /\ ScanInv'
  <2>1. ASSUME NEW f \in File, RecoverFile(f) PROVE Typed' /\ ScanInv'
    <3>1. CASE place[f] = "processing"
      BY <1>1, <1>2, <2>1, <3>1 DEF RecoverFile, Admit, ScanInv
    <3>2. CASE place[f] # "processing"
      BY <1>1, <1>2, <2>1, <3>2 DEF RecoverFile, ScanInv
    <3> QED
      BY <3>1, <3>2
  <2>2. ASSUME NEW f \in File, ClaimFile(f) PROVE Typed' /\ ScanInv'
    BY <1>1, <1>2, <2>2 DEF ClaimFile, Admit, ScanInv
  <2>3. ASSUME NEW f \in File, Publish(f) PROVE Typed' /\ ScanInv'
    BY <1>1, <1>2, <2>3 DEF Publish, ScanInv
  <2>4. ASSUME NEW f \in File, VerifyFails(f) PROVE Typed' /\ ScanInv'
    BY <1>1, <1>2, <2>4 DEF VerifyFails, ScanInv
  <2>5. ASSUME NEW f \in File, Requeue(f) PROVE Typed' /\ ScanInv'
    BY <1>1, <1>2, <2>5 DEF Requeue, ScanInv
  <2>6. ASSUME NEW process \in {"cycle", "worker"}, AddKey(process) PROVE Typed' /\ ScanInv'
    BY <1>1, <1>2, <2>6 DEF AddKey, ScanInv
  <2>7. CASE StartCycle \/ RecoverEnd
    BY <1>1, <1>2, <2>7, ZenonT(30) DEF StartCycle, Scan, RecoverEnd, ScanInv
  <2>8. CASE ClaimEnd
    BY <1>1, <1>2, <2>8 DEF ClaimEnd, ScanInv
  <2>9. CASE CycleEnd
    BY <1>1, <1>2, <2>9 DEF CycleEnd, ScanInv
  <2>10. CASE IntakeCrash
    BY <1>1, <1>2, <2>10 DEF IntakeCrash, ScanInv
  <2> QED
    BY <2>1, <2>2, <2>3, <2>4, <2>5, <2>6, <2>7, <2>8, <2>9, <2>10
<1>4. JobInv' /\ ClaimInv'
  <2>1. \A f \in File : claim[f] <= claim'[f]
    BY <1>2
  <2>2. ClaimInv'
    BY <1>2 DEF ClaimInv
  <2> QED
    BY <1>1, <1>2, <2>1, <2>2, JobFields DEF JobInv, NoJob
<1>5. \A i \in Id : job[i] # NoJob /\ Gone(i) => Gone(i)'
  BY <1>1, <1>2, JobFields DEF Gone, JobInv
<1>6. ProgressInv'
  <2>1. \A i \in Id : step[i] # "none" => job[i] # NoJob /\ job[i].file \in File
    BY JobFields DEF NoJob
  <2> QED
    BY <1>1, <1>2, <1>5, <2>1 DEF ProgressInv
<1>7. ProcessedIsIngested' /\ QuarantineJustified'
  BY <1>1, <1>2 DEF ProcessedIsIngested, QuarantineJustified
<1>8. CompletedJobMovedFile'
  BY <1>1, <1>5, JobFields DEF CompletedJobMovedFile, Gone, NoJob
<1> QED
  BY <1>3, <1>4, <1>6, <1>7, <1>8

-----------------------------------------------------------------------------
(* Steps of the queue and the worker.                                      *)

\* A job put into the queue, or back into it, is waiting and of its batch id.
LEMMA EnqueueStep ==
  ASSUME Inv, NEW f \in File, VerifyFile(f)
  PROVE  Inv'
<1> USE ConstantsAssumption DEF Inv, Typed, dbVars, In, Directories
<1>1. /\ UNCHANGED <<claim, trust, step, archive, persisted, detected>>
      /\ place' \in [File -> Directories]
      /\ \A g \in File :
           \/ place'[g] = place[g]
           \/ place[g] = "processing" /\ place'[g] = "quarantine" /\ Class[g] # "valid"
  BY DEF VerifyFile, Readable, Verifies
<1>2. /\ job' \in [Id -> Job]
      /\ \A i \in Id :
           \/ job'[i] = job[i]
           \/ /\ step[i] = "none"
              /\ job'[i].state = "waiting" /\ job'[i] # NoJob
              /\ BatchOf[job'[i].file] = i /\ job'[i].claim <= claim[job'[i].file]
  <2>1. CASE UNCHANGED job
    BY <2>1
  <2>2. CASE Enqueue(f)
    <3> DEFINE i == BatchOf[f]
    <3>1. i \in Id /\ job[i] \in Job
      OBVIOUS
    <3>2. CASE job[i] = NoJob
      <4>1. NewJob(f) \in Job /\ NewJob(f) # NoJob
        BY DEF NewJob, Job, NoJob
      <4>2. job' = [job EXCEPT ![i] = NewJob(f)]
        BY <2>2, <3>1, <3>2 DEF Enqueue, NoJob
      <4>3. NewJob(f).state = "waiting" /\ NewJob(f).file = f /\ NewJob(f).claim = claim[f]
        BY DEF NewJob
      <4>4. step[i] = "none" /\ claim[f] <= claim[f]
        BY <3>1, <3>2 DEF NoJob
      <4> QED
        BY <3>1, <4>1, <4>2, <4>3, <4>4
    <3>3. CASE job[i] # NoJob /\ job[i].state = "failed"
      <4>1. job' = [job EXCEPT ![i].state = "waiting"]
        BY <2>2, <3>1, <3>3 DEF Enqueue, NoJob
      <4>2. job'[i] = [state |-> "waiting", file |-> job[i].file, claim |-> job[i].claim,
                       attempts |-> job[i].attempts]
        BY <3>1, <3>3, <4>1, JobFields DEF Job
      <4> QED
        BY <3>1, <3>3, <4>1, <4>2, JobFields DEF Job, NoJob, JobInv
    <3>4. CASE job[i] # NoJob /\ job[i].state # "failed"
      BY <2>2, <3>1, <3>4 DEF Enqueue, NoJob
    <3> QED
      BY <3>2, <3>3, <3>4
  <2> QED
    BY <2>1, <2>2 DEF VerifyFile
<1>3. Typed' /\ ScanInv' /\ ClaimInv'
  BY <1>1, <1>2 DEF VerifyFile, ScanInv, ClaimInv
<1>4. JobInv' /\ ProgressInv'
  BY <1>1, <1>2, JobFields DEF JobInv, ProgressInv, Gone, NoJob
<1>5. ProcessedIsIngested' /\ QuarantineJustified' /\ CompletedJobMovedFile'
  BY <1>1, <1>2, JobFields
  DEF ProcessedIsIngested, QuarantineJustified, CompletedJobMovedFile, NoJob
<1> QED
  BY <1>3, <1>4, <1>5

\* The end of an attempt leaves the other jobs alone and the file with the job.
LEMMA EndAttemptJob ==
  ASSUME Inv, NEW i \in Id, step[i] # "none", EndAttempt(i)
  PROVE  /\ job' \in [Id -> Job] /\ step' \in [Id -> Steps]
         /\ step'[i] = "none"
         /\ job'[i].state \in {"waiting", "failed"} /\ job'[i] # NoJob
         /\ job'[i].file = job[i].file /\ job'[i].claim = job[i].claim
         /\ \A k \in Id \ {i} : job'[k] = job[k] /\ step'[k] = step[k]
<1> USE ConstantsAssumption DEF Inv, Typed
<1>1. job[i] \in Job /\ job[i] # NoJob /\ job[i].state = "active"
  BY JobFields DEF NoJob
<1> DEFINE n == IF job[i].attempts < MaxAttempts THEN job[i].attempts + 1 ELSE job[i].attempts
           st == IF job[i].attempts + 1 < MaxAttempts THEN "waiting" ELSE "failed"
<1>2. n \in 0..MaxAttempts
  BY <1>1, JobFields
<1>3. job' = [job EXCEPT ![i] = [state |-> st, file |-> job[i].file, claim |-> job[i].claim, attempts |-> n]]
  BY <1>1, JobFields DEF EndAttempt, Job
<1> DEFINE r == [state |-> st, file |-> job[i].file, claim |-> job[i].claim, attempts |-> n]
<1>4. /\ r \in Job /\ r.state \in {"waiting", "failed"} /\ r.file = job[i].file
      /\ r.claim = job[i].claim
  BY <1>1, <1>2, JobFields DEF Job
<1>5. r # NoJob
  BY <1>4 DEF NoJob
<1>6. step' = [step EXCEPT ![i] = "none"]
  BY DEF EndAttempt, Goto
<1>7. job' = [job EXCEPT ![i] = r]
  BY <1>3
<1> HIDE DEF r, st, n
<1>8. job' \in [Id -> Job] /\ job'[i] = r /\ \A k \in Id \ {i} : job'[k] = job[k]
  BY <1>4, <1>7
<1>9. /\ step' \in [Id -> Steps] /\ step'[i] = "none"
      /\ \A k \in Id \ {i} : step'[k] = step[k]
  BY <1>6 DEF Steps
<1> QED
  BY <1>4, <1>5, <1>8, <1>9

\* A failed attempt leaves everything as the invariant describes it.
LEMMA EndAttemptKeeps ==
  ASSUME Inv, NEW i \in Id, step[i] # "none", EndAttempt(i),
         UNCHANGED <<place, claim, trust, intakeVars, dbVars>>, faults' \in 0..MaxFaults
  PROVE  Inv'
<1> USE DEF Inv, Typed, dbVars, intakeVars, In
<1>1. Typed' /\ ScanInv' /\ ClaimInv'
  BY EndAttemptJob DEF ScanInv, ClaimInv
<1>2. JobInv'
  BY EndAttemptJob, JobFields DEF JobInv, NoJob
<1>4. ProgressInv'
  BY EndAttemptJob DEF ProgressInv, Gone
<1>3. ProcessedIsIngested' /\ QuarantineJustified' /\ CompletedJobMovedFile'
  BY EndAttemptJob DEF ProcessedIsIngested, QuarantineJustified, CompletedJobMovedFile
<1> QED
  BY <1>1, <1>2, <1>3, <1>4

\* A worker that goes on to its next step keeps its job.
LEMMA GotoKeeps ==
  ASSUME Inv, NEW i \in Id, step[i] # "none", NEW s \in Steps \ {"none"}, Goto(i, s),
         UNCHANGED <<claim, trust, job, intakeVars, faults>>,
         place' \in [File -> Directories],
         \A g \in File : place'[g] # place[g] => /\ place[g] \notin {"outbox", "incoming"}
                                                /\ place'[g] \notin {"outbox", "incoming"},
         archive' \in [Id -> {DigestOf[f] : f \in File} \cup {Nothing}],
         persisted' \subseteq File, detected' \subseteq File
  PROVE  Typed' /\ JobInv' /\ ScanInv' /\ ClaimInv'
<1> USE DEF Inv, Typed, intakeVars
<1>1. /\ step' \in [Id -> Steps]
      /\ \A k \in Id : step'[k] # "none" <=> step[k] # "none"
  BY DEF Goto
<1>2. Typed'
  BY <1>1
<1>3. JobInv' /\ ScanInv' /\ ClaimInv'
  BY <1>1 DEF JobInv, ScanInv, ClaimInv, In
<1> QED
  BY <1>2, <1>3

\* Every step of the worker.
LEMMA WorkStep ==
  ASSUME Inv, NEW i \in Id, Work(i)
  PROVE  Inv'
<1> USE ConstantsAssumption DEF Inv, Typed, dbVars, intakeVars, In
<1> DEFINE f == job[i].file
<1>0. step[i] # "none" => /\ f \in File /\ BatchOf[f] = i /\ job[i] # NoJob
                          /\ \A k \in Id \ {i} : step[k] = "none"
  BY JobFields DEF JobInv, NoJob
<1>1. CASE Take(i)
  <2>1. job[i] \in Job /\ job[i] # NoJob /\ job[i].state = "waiting"
    BY <1>1 DEF Take, NoJob
  <2> DEFINE r == [state |-> "active", file |-> f, claim |-> job[i].claim,
                attempts |-> job[i].attempts]
  <2>2. r \in Job /\ r # NoJob /\ r.state = "active" /\ r.file = f /\ r.claim = job[i].claim
    BY <2>1, JobFields DEF Job, NoJob
  <2>3. job' = [job EXCEPT ![i] = r]
    <3>1. [job[i] EXCEPT !.state = "active"] = r
      BY <2>1, SetState
    <3> QED
      BY <1>1, <3>1 DEF Take
  <2> HIDE DEF r
  <2>4. /\ job' \in [Id -> Job] /\ job'[i] = r
        /\ \A k \in Id \ {i} : job'[k] = job[k] /\ step'[k] = step[k] /\ step[k] = "none"
        /\ step' \in [Id -> Steps] /\ step'[i] = "read"
    BY <1>1, <2>2, <2>3 DEF Take, Goto, Steps
  <2>5. Typed' /\ ScanInv' /\ ClaimInv'
    BY <1>1, <2>2, <2>4 DEF Take, ScanInv, ClaimInv
  <2>6. JobInv'
    BY <1>1, <2>1, <2>2, <2>4 DEF Take, JobInv
  <2>7. ProgressInv'
    BY <2>4 DEF ProgressInv
  <2>8. ProcessedIsIngested' /\ QuarantineJustified' /\ CompletedJobMovedFile'
    BY <1>1, <2>2, <2>4 DEF Take, ProcessedIsIngested, QuarantineJustified, CompletedJobMovedFile
  <2> QED
    BY <2>5, <2>6, <2>7, <2>8
<1>2. CASE ReadBatch(i)
  <2>1. ASSUME NEW s \in {"archive", "quarantine"}, Goto(i, s), UNCHANGED job,
               s = "quarantine" => Class[f] # "valid"
        PROVE  Inv'
    <3>1. Typed' /\ JobInv' /\ ScanInv' /\ ClaimInv'
      BY <1>2, <2>1, GotoKeeps DEF ReadBatch, Steps
    <3>2. ProgressInv'
      BY <1>0, <1>2, <2>1 DEF ReadBatch, Goto, ProgressInv
    <3> QED
      BY <1>2, <2>1, <3>1, <3>2
      DEF ReadBatch, ProcessedIsIngested, QuarantineJustified, CompletedJobMovedFile
  <2>2. CASE EndAttempt(i)
    BY <1>2, <2>2, EndAttemptKeeps DEF ReadBatch
  <2> QED
    BY <1>2, <2>1, <2>2 DEF ReadBatch, Verifies
<1>3. CASE ArchiveBatch(i)
  <2>1. /\ archive' \in [Id -> {DigestOf[g] : g \in File} \cup {Nothing}]
        /\ archive'[i] = IF archive[i] = Nothing THEN DigestOf[f] ELSE archive[i]
        /\ \A k \in Id \ {i} : archive'[k] = archive[k]
    BY <1>0, <1>3 DEF ArchiveBatch, CreateIfAbsent
  <2>2. Typed' /\ JobInv' /\ ScanInv' /\ ClaimInv'
    BY <1>3, <2>1, GotoKeeps DEF ArchiveBatch, Steps
  <2>3. ProgressInv'
    BY <1>0, <1>3, <2>1 DEF ArchiveBatch, Goto, ProgressInv
  <2>4. ProcessedIsIngested' /\ QuarantineJustified' /\ CompletedJobMovedFile'
    BY <1>0, <1>3, <2>1
    DEF ArchiveBatch, ProcessedIsIngested, QuarantineJustified, CompletedJobMovedFile
  <2> QED
    BY <2>2, <2>3, <2>4
<1>4. CASE PersistEvents(i)
  <2>1. Typed' /\ JobInv' /\ ScanInv' /\ ClaimInv'
    BY <1>0, <1>4, GotoKeeps DEF PersistEvents, Steps
  <2>2. ProgressInv'
    BY <1>0, <1>4 DEF PersistEvents, Goto, ProgressInv
  <2>3. ProcessedIsIngested' /\ QuarantineJustified' /\ CompletedJobMovedFile'
    BY <1>4 DEF PersistEvents, ProcessedIsIngested, QuarantineJustified, CompletedJobMovedFile
  <2> QED
    BY <2>1, <2>2, <2>3
<1>5. CASE Detect(i)
  <2>1. Typed' /\ JobInv' /\ ScanInv' /\ ClaimInv'
    BY <1>0, <1>5, GotoKeeps DEF Detect, Steps
  <2>2. ProgressInv'
    BY <1>0, <1>5 DEF Detect, Goto, ProgressInv
  <2>3. ProcessedIsIngested' /\ QuarantineJustified' /\ CompletedJobMovedFile'
    BY <1>5 DEF Detect, ProcessedIsIngested, QuarantineJustified, CompletedJobMovedFile
  <2> QED
    BY <2>1, <2>2, <2>3
<1>6. CASE MoveToProcessed(i)
  <2>1. CASE Readable(f, job[i].claim)
    <3>1. /\ place' = [place EXCEPT ![f] = "processed"] /\ Goto(i, "ack")
          /\ place[f] \in {"processing", "processed"}
      BY <1>6, <2>1 DEF MoveToProcessed, Readable
    <3>2. /\ place' \in [File -> Directories] /\ place'[f] = "processed"
          /\ \A g \in File \ {f} : place'[g] = place[g]
      BY <1>0, <1>6, <3>1 DEF MoveToProcessed, Directories
    <3>3. Typed' /\ JobInv' /\ ScanInv' /\ ClaimInv'
      BY <1>0, <1>6, <2>1, <3>1, <3>2, GotoKeeps DEF MoveToProcessed, Steps
    <3>4. ProgressInv'
      BY <1>0, <1>6, <2>1, <3>1, <3>2 DEF MoveToProcessed, Goto, ProgressInv, Gone
    <3>5. ProcessedIsIngested'
      BY <1>0, <1>6, <3>2 DEF MoveToProcessed, ProgressInv, ProcessedIsIngested
    <3>6. QuarantineJustified' /\ CompletedJobMovedFile'
      BY <1>0, <1>6, <2>1, <3>2, JobFields
      DEF MoveToProcessed, QuarantineJustified, CompletedJobMovedFile, NoJob
    <3> QED
      BY <3>3, <3>4, <3>5, <3>6
  <2> QED
    BY <1>6, <2>1, EndAttemptKeeps DEF MoveToProcessed
<1>7. CASE MoveToQuarantine(i)
  <2>1. CASE place[f] = "processing" /\ claim[f] = job[i].claim
    <3>1. place' = [place EXCEPT ![f] = "quarantine"] /\ Goto(i, "ack")
      BY <1>7, <2>1 DEF MoveToQuarantine
    <3>2. /\ place' \in [File -> Directories] /\ place'[f] = "quarantine"
          /\ \A g \in File \ {f} : place'[g] = place[g]
      BY <1>0, <1>7, <3>1 DEF MoveToQuarantine, Directories
    <3>3. Typed' /\ JobInv' /\ ScanInv' /\ ClaimInv'
      BY <1>0, <1>7, <2>1, <3>1, <3>2, GotoKeeps DEF MoveToQuarantine, Steps
    <3>4. ProgressInv'
      BY <1>0, <1>7, <2>1, <3>1, <3>2 DEF MoveToQuarantine, Goto, ProgressInv, Gone
    <3>5. QuarantineJustified'
      BY <1>0, <1>7, <3>2 DEF MoveToQuarantine, ProgressInv, QuarantineJustified
    <3>6. ProcessedIsIngested' /\ CompletedJobMovedFile'
      BY <1>0, <1>7, <2>1, <3>2, JobFields
      DEF MoveToQuarantine, ProcessedIsIngested, CompletedJobMovedFile, NoJob
    <3> QED
      BY <3>3, <3>4, <3>5, <3>6
  <2> QED
    BY <1>7, <2>1, EndAttemptKeeps DEF MoveToQuarantine
<1>8. CASE Acknowledge(i)
  <2>1. job[i] \in Job /\ job[i] # NoJob
    BY <1>0, <1>8 DEF Acknowledge
  <2> DEFINE r == [state |-> "completed", file |-> f, claim |-> job[i].claim,
                attempts |-> job[i].attempts]
  <2>2. r \in Job /\ r # NoJob /\ r.state = "completed" /\ r.file = f /\ r.claim = job[i].claim
    BY <2>1, JobFields DEF Job, NoJob
  <2>3. job' = [job EXCEPT ![i] = r]
    <3>1. [job[i] EXCEPT !.state = "completed"] = r
      BY <2>1, SetState
    <3> QED
      BY <1>8, <3>1 DEF Acknowledge
  <2> HIDE DEF r
  <2>4. /\ job' \in [Id -> Job] /\ job'[i] = r
        /\ \A k \in Id \ {i} : job'[k] = job[k] /\ step'[k] = "none"
        /\ step' \in [Id -> Steps] /\ step'[i] = "none"
    BY <1>0, <1>8, <2>2, <2>3 DEF Acknowledge, Goto, Steps
  <2>5. Typed' /\ ScanInv' /\ ClaimInv'
    BY <1>0, <1>8, <2>2, <2>4 DEF Acknowledge, ScanInv, ClaimInv
  <2>6. JobInv' /\ ProgressInv'
    BY <1>0, <1>8, <2>2, <2>4 DEF Acknowledge, JobInv, ProgressInv
  <2>7. ProcessedIsIngested' /\ QuarantineJustified' /\ CompletedJobMovedFile'
    BY <1>0, <1>8, <2>2, <2>4
    DEF Acknowledge, ProgressInv, Gone, ProcessedIsIngested, QuarantineJustified, CompletedJobMovedFile
  <2> QED
    BY <2>5, <2>6, <2>7
<1> QED
  BY <1>1, <1>2, <1>3, <1>4, <1>5, <1>6, <1>7, <1>8 DEF Work

-----------------------------------------------------------------------------
(* The theorems.                                                           *)

\* Every step keeps the inductive invariant.
LEMMA NextInv == Inv /\ [Next]_vars => Inv'
<1> SUFFICES ASSUME Inv, [Next]_vars PROVE Inv'
  OBVIOUS
<1>1. ASSUME NEW i \in Id, JobFails(i) PROVE Inv'
  <2>1. faults' \in 0..MaxFaults /\ step[i] # "none"
    BY <1>1, ConstantsAssumption DEF JobFails, Inv, Typed
  <2> QED
    BY <1>1, <2>1, EndAttemptKeeps DEF JobFails
<1>2. CASE LoseQueue
  <2>1. Typed'
    <3>1. job' \in [Id -> Job] /\ step' \in [Id -> Steps]
          /\ \A i \in Id : job'[i].state = "none" /\ step'[i] = "none"
      BY <1>2 DEF LoseQueue, Job, NoJob, Steps
    <3>2. faults' \in 0..MaxFaults
      BY <1>2, ConstantsAssumption DEF LoseQueue, Inv, Typed
    <3> QED
      BY <1>2, <3>1, <3>2 DEF LoseQueue, Inv, Typed, intakeVars, dbVars
  <2>2. JobInv' /\ ScanInv' /\ ClaimInv' /\ ProgressInv'
    BY <1>2 DEF LoseQueue, Inv, JobInv, ScanInv, ClaimInv, ProgressInv, intakeVars, In
  <2>3. ProcessedIsIngested' /\ QuarantineJustified' /\ CompletedJobMovedFile'
    BY <1>2
    DEF LoseQueue, Inv, ProcessedIsIngested, QuarantineJustified, CompletedJobMovedFile,
        In, NoJob, dbVars
  <2> QED
    BY <2>1, <2>2, <2>3 DEF Inv
<1>3. CASE UNCHANGED vars
  BY <1>3
  DEF vars, intakeVars, workerVars, dbVars, Inv, Typed, JobInv, ScanInv, ClaimInv, ProgressInv, Gone,
      ProcessedIsIngested, QuarantineJustified, CompletedJobMovedFile, In
<1> QED
  BY <1>1, <1>2, <1>3, IntakeSteps, EnqueueStep, WorkStep DEF Next, Cycle

\* The inductive invariant holds in every reachable state.
THEOREM Invariance == Spec => []Inv
  BY InitInv, NextInv, PTL DEF Spec

\* Every variable stays in its type; at most one job is being worked on, by
\* the worker that marked it active.
THEOREM TypeCorrect == Spec => []TypeOK
<1>1. Inv => TypeOK
  <2> SUFFICES ASSUME Inv PROVE Cardinality({i \in Id : step[i] # "none"}) <= 1
    BY DEF Inv, Typed, TypeOK
  <2> DEFINE S == {i \in Id : step[i] # "none"}
  <2>1. CASE S = {}
    BY <2>1, FS_EmptySet
  <2>2. CASE S # {}
    <3>1. PICK i \in S : TRUE
      BY <2>2
    <3>2. S = {i}
      BY <3>1 DEF Inv, JobInv
    <3> QED
      BY <3>2, FS_Singleton
  <2> QED
    BY <2>1, <2>2
<1> QED
  BY <1>1, Invariance, PTL

\* Whatever crashes, is retried or is lost: a file in processed/ was archived
\* under its own digest, its events persisted and its alerts correlated.
THEOREM ProcessedOnlyIngested == Spec => []ProcessedIsIngested
<1>1. Inv => ProcessedIsIngested
  BY DEF Inv
<1> QED
  BY <1>1, Invariance, PTL

\* A valid batch is in quarantine/ only because its batch id was archived with
\* another digest.
THEOREM QuarantinesJustified == Spec => []QuarantineJustified
<1>1. Inv => QuarantineJustified
  BY DEF Inv
<1> QED
  BY <1>1, Invariance, PTL

\* The queue records a completion only after the file left processing/.
THEOREM CompletionsMovedFile == Spec => []CompletedJobMovedFile
<1>1. Inv => CompletedJobMovedFile
  BY DEF Inv
<1> QED
  BY <1>1, Invariance, PTL

\* Every file is where it belongs, whatever happened on the way.
THEOREM EveryFileBelongs == Spec => []FilesBelong
<1>1. ProcessedIsIngested /\ QuarantineJustified /\ CompletedJobMovedFile => FilesBelong
  BY DEF FilesBelong
<1> QED
  BY <1>1, ProcessedOnlyIngested, QuarantinesJustified, CompletionsMovedFile, PTL
-----------------------------------------------------------------------------
(* The documents beside the batches.                                       *)

\* What a Collector of the configured name rejects, it writes, and reads again.
LEMMA OwnRejectionPasses ==
  ASSUME NEW n \in Bytes,
         NEW input \in Inputs(n),
         identity.collector \in Identifier
  PROVE  WritesRejection(Rejection(input)) /\ ReadsRejection(Rejection(input))
<1>1. \E adapter \in {"file", "file_drop"}, c \in Codes : input = InputRejection(adapter, c, n)
  BY DEF Inputs, RejectedByReader, RejectedByMapper, RejectedByRuntime, Codes, ReaderCodes, MapperCodes
<1>2. PICK adapter \in {"file", "file_drop"}, c \in Codes : input = InputRejection(adapter, c, n)
  BY <1>1
<1>3. n \in Nat /\ n <= MaxSafe /\ {MaxCapture, Overhead, MaxRecord, MaxSafe} \subseteq Nat
  BY MessagesAssumption
<1>4. /\ Captured(n) \in Nat /\ Captured(n) <= MaxCapture
      /\ IF n > Captured(n) THEN n > MaxCapture /\ Captured(n) = MaxCapture
         ELSE Captured(n) = n
  BY <1>3 DEF Captured
<1>5. ValidPayload(input) /\ input.span >= 0
  <2>1. /\ input.digest = "hex" /\ input.length = n /\ input.captured = Captured(n)
        /\ input.span = n + 1 /\ input.truncated = (n > Captured(n))
    BY <1>2 DEF InputRejection
  <2>2. CASE n > Captured(n)
    <3>1. input.truncated = TRUE
      BY <2>1, <2>2
    <3> QED
      BY <2>1, <2>2, <3>1, <1>3, <1>4 DEF ValidPayload
  <2>3. CASE ~(n > Captured(n))
    <3>1. input.truncated = FALSE
      <4>1. (n > Captured(n)) = FALSE
        BY <2>3, <1>3, <1>4
      <4> QED
        BY <2>1, <4>1, Zenon
    <3> QED
      BY <2>1, <2>3, <3>1, <1>3, <1>4 DEF ValidPayload
  <2> QED
    BY <2>2, <2>3
<1>6. input.captured + Overhead <= MaxRecord /\ input.code \in Codes
  BY <1>2, <1>3, <1>4, MessagesAssumption DEF InputRejection
<1> QED
  BY <1>5, <1>6 DEF WritesRejection, ReadsRejection, ParsesCause, Rejection, Stages

\* The inductive invariant: what lies in pending/ was made under this name.
PendingIsOwn ==
  \A d \in ToSet(pending) : \E n \in Bytes : \E input \in Inputs(n) : d = Rejection(input)

MessagesInv ==
  MessagesTypeOK /\ pending \in Seq(ToSet(pending)) /\ OwnDocumentsPass /\ HeartbeatAgrees /\ PendingIsOwn

\* The backend reads a rejection, or a heartbeat of this process.
LEMMA ReadAgrees ==
  ASSUME MessagesTypeOK, NEW d, Read(d),
         \/ \E input : d = Rejection(input)
         \/ \E status \in Status : d = Heartbeat(status)
  PROVE  HeartbeatAgrees' /\ Len(reply') = 1
<1>1. PICK intact \in BOOLEAN :
        reply' = <<[doc |-> [d EXCEPT !.intact = intact],
                      says |-> Believes([d EXCEPT !.intact = intact])]>>
  BY DEF Read
<1> DEFINE doc == [d EXCEPT !.intact = intact]
<1>2. ToSet(reply') = {[doc |-> doc, says |-> Believes(doc)]} /\ Len(reply') = 1
  BY <1>1 DEF ToSet
<1>3. SUFFICES doc.type = "heartbeat" =>
                 (Believes(doc) <=> /\ doc.intact /\ doc.key \in Trusted
                                    /\ doc.collector = "name" /\ doc.started <= doc.at)
  <2>1. SUFFICES ASSUME NEW v \in ToSet(reply'), v.doc.type = "heartbeat"
                 PROVE  v.says <=> /\ v.doc.intact /\ v.doc.key \in Trusted
                                   /\ v.doc.collector = "name" /\ v.doc.started <= v.doc.at
    BY <1>2 DEF HeartbeatAgrees
  <2>2. v.doc = doc /\ v.says = Believes(doc)
    BY <1>2
  <2> QED
    BY <1>3, <2>1, <2>2, Zenon
<1>4. CASE \E input : d = Rejection(input)
  <2>1. doc.type = "rejected_event"
    BY <1>4 DEF Rejection
  <2> QED
    BY <2>1
<1>5. CASE \E status \in Status : d = Heartbeat(status)
  <2>1. PICK status \in Status : d = Heartbeat(status)
    BY <1>5
  <2> QED
    BY <2>1, MessagesAssumption
    DEF Believes, Heartbeat, HeartbeatSchema, HeartbeatMakesSense, MessagesTypeOK
<1> QED
  BY <1>4, <1>5

LEMMA NothingReadAgrees ==
  ASSUME reply' = None
  PROVE  HeartbeatAgrees' /\ Len(reply') = 0
BY DEF HeartbeatAgrees, ToSet, None

\* A rejection that lies in pending/ is one of these documents, and is read.
LEMMA PendingIsRead ==
  ASSUME MessagesInv, pending # None
  PROVE  /\ \E input : pending[1] = Rejection(input)
         /\ ReadsRejection(pending[1])
<1>1. pending[1] \in ToSet(pending)
  BY DEF MessagesInv, ToSet, None
<1>2. PICK n \in Bytes : \E input \in Inputs(n) : pending[1] = Rejection(input)
  BY <1>1 DEF MessagesInv, PendingIsOwn
<1> QED
  BY <1>2, OwnRejectionPasses DEF MessagesInv, MessagesTypeOK

\* A configuration that loads names the Collector and its source properly.
LEMMA ConfiguredIsValid ==
  ASSUME NEW i \in Configured
  PROVE  i \in [collector : Identifier, source : Identifier, key : Key]
<1>1. PICK s \in ConfigurationFile \X Environment :
        /\ Loads(s[1], s[2])
        /\ i = [collector |-> ApplyEnvironment(s[1], s[2]).collector,
               source |-> ApplyEnvironment(s[1], s[2]).source,
               key |-> ApplyEnvironment(s[1], s[2]).key]
  BY DEF Configured
<1> DEFINE c == ApplyEnvironment(s[1], s[2])
<1>2. c.collector \in Identifier /\ c.source \in Identifier
  BY <1>1 DEF Loads, ValidConfiguration
<1>3. s[1].key \in Key
  <2>1. s[1].key \in Key \cup {Unset}
    BY <1>1 DEF ConfigurationFile
  <2> QED
    BY <1>1, <2>1 DEF Loads, Parses
<1>4. c.key = s[1].key
  <2>1. s[1] \in [collector : Written, source : Written, key : Key \cup {Unset}, secret : SecretFile]
    BY <1>1 DEF ConfigurationFile
  <2> QED
    BY <2>1 DEF ApplyEnvironment
<1> QED
  BY <1>1, <1>2, <1>3, <1>4

LEMMA InitMessages ==
  ASSUME MessagesInit
  PROVE  MessagesInv
<1>1. ToSet(pending) = {} /\ ToSet(reply) = {} /\ Len(pending) = 0 /\ Len(reply) = 0
  BY DEF MessagesInit, ToSet, None
<1>2. MessagesTypeOK /\ pending \in Seq(ToSet(pending))
  <2>1. pending \in Seq(ToSet(pending))
    BY <1>1 DEF MessagesInit, None
  <2>2. 0 \in 0..MaxClock /\ 0 \in 0..MaxSafe
    BY MessagesAssumption
  <2>3. Len(pending) <= 1 /\ Len(reply) <= 1 /\ refused \in BOOLEAN
    <3>1. Len(pending) <= 1 /\ Len(reply) <= 1
      BY <1>1
    <3>2. refused \in BOOLEAN
      BY DEF MessagesInit
    <3> QED
      BY <3>1, <3>2
  <2>4. clock \in 0..MaxClock /\ started \in 0..MaxClock /\ received \in 0..MaxSafe
    BY <2>2 DEF MessagesInit
  <2>5. identity \in [collector : Identifier, source : Identifier, key : Key]
    BY ConfiguredIsValid DEF MessagesInit
  <2> QED
    BY <2>1, <2>3, <2>4, <2>5 DEF MessagesInit, MessagesTypeOK
<1> QED
  BY <1>1, <1>2 DEF MessagesInit, MessagesInv, OwnDocumentsPass, HeartbeatAgrees, PendingIsOwn

LEMMA NextMessages ==
  ASSUME MessagesInv, [MessagesNext]_messageVars
  PROVE  MessagesInv'
<1> USE DEF MessagesInv
<1>1. CASE UNCHANGED messageVars
  BY <1>1 DEF messageVars, MessagesTypeOK, OwnDocumentsPass, HeartbeatAgrees, PendingIsOwn, Inputs,
              Rejection, ToSet
<1>2. ASSUME NEW n \in Bytes, Receive(n)
      PROVE  MessagesInv'
  <2>1. received' \in 0..MaxSafe
    BY <1>2, MessagesAssumption DEF Receive, Saturate, MessagesTypeOK
  <2> QED
    BY <1>2, <2>1, NothingReadAgrees
    DEF Receive, MessagesTypeOK, OwnDocumentsPass, PendingIsOwn, Rejection, ToSet
<1>3. CASE Clock
  BY <1>3, NothingReadAgrees
  DEF Clock, MessagesTypeOK, OwnDocumentsPass, PendingIsOwn, Rejection, ToSet
<1>4. ASSUME NEW status \in Status, Beat(status)
      PROVE  MessagesInv'
  <2>1. WritesHeartbeat(Heartbeat(status))
    BY MessagesAssumption DEF WritesHeartbeat, ValidMetrics, Heartbeat, MessagesTypeOK
  <2>2. Read(Heartbeat(status)) /\ UNCHANGED <<identity, clock, started, received, pending, refused>>
    BY <1>4, <2>1 DEF Beat
  <2>3. HeartbeatAgrees' /\ Len(reply') = 1
    BY <2>2, ReadAgrees
  <2>4. PendingIsOwn' /\ pending' \in Seq(ToSet(pending'))
    BY <2>2 DEF PendingIsOwn, Rejection
  <2> QED
    BY <2>2, <2>3, <2>4 DEF MessagesTypeOK, OwnDocumentsPass
<1>5. ASSUME NEW n \in Bytes, Reject(n)
      PROVE  MessagesInv'
  <2>1. PICK input \in Inputs(n) :
          IF WritesRejection(Rejection(input))
          THEN pending' = <<Rejection(input)>> /\ UNCHANGED refused
          ELSE refused' = TRUE /\ UNCHANGED pending
    BY <1>5 DEF Reject
  <2>2. WritesRejection(Rejection(input))
    BY OwnRejectionPasses DEF MessagesTypeOK
  <2>3. /\ pending' = <<Rejection(input)>> /\ reply' = None
        /\ UNCHANGED <<identity, clock, started, received, refused>>
    BY <1>5, <2>1, <2>2 DEF Reject
  <2>4. Rejection(input)' = Rejection(input)
    BY <2>3 DEF Rejection
  <2>5. ToSet(pending') = {Rejection(input)} /\ Len(pending') = 1 /\ pending' \in Seq(ToSet(pending'))
    BY <2>3 DEF ToSet
  <2>6. PendingIsOwn'
    BY <2>3, <2>5 DEF PendingIsOwn, Rejection
  <2> QED
    BY <2>3, <2>5, <2>6, NothingReadAgrees DEF MessagesTypeOK, OwnDocumentsPass
<1>6. CASE Store
  <2>1. Read(pending[1]) /\ HeartbeatAgrees' /\ Len(reply') = 1
    BY <1>6, PendingIsRead, ReadAgrees DEF Store
  <2> QED
    BY <1>6, <2>1 DEF Store, MessagesTypeOK, OwnDocumentsPass, PendingIsOwn, ToSet, None
<1>7. CASE Restart
  <2>1. CASE pending = None
    BY <1>7, <2>1, NothingReadAgrees, MessagesAssumption
    DEF Restart, Recover, MessagesTypeOK, OwnDocumentsPass, PendingIsOwn, ToSet, None
  <2>2. CASE pending # None
    <3>1. /\ Read(pending[1]) /\ pending' = None /\ UNCHANGED <<identity, clock, refused>>
          /\ started' = clock /\ received' = 0
      BY <1>7, <2>2, PendingIsRead DEF Restart, Recover
    <3>2. HeartbeatAgrees' /\ Len(reply') = 1
      BY <2>2, <3>1, PendingIsRead, ReadAgrees
    <3> QED
      BY <3>1, <3>2, MessagesAssumption DEF MessagesTypeOK, OwnDocumentsPass, PendingIsOwn, ToSet, None
  <2> QED
    BY <2>1, <2>2
<1> QED
  BY <1>1, <1>2, <1>3, <1>4, <1>5, <1>6, <1>7 DEF MessagesNext

\* The messages are sound: the invariant that carries the other two theorems.
THEOREM MessagesSound == MessagesSpec => []MessagesInv
BY InitMessages, NextMessages, PTL DEF MessagesSpec

\* No document of the Collector's own fails its own checks (serialization.cpp
\* to_json_document, parse_rejected_event), for every line and every restart.
THEOREM OwnDocumentsAlwaysPass == MessagesSpec => [](MessagesTypeOK /\ OwnDocumentsPass)
<1>1. MessagesInv => MessagesTypeOK /\ OwnDocumentsPass
  BY DEF MessagesInv
<1> QED
  BY <1>1, MessagesSound, PTL

\* The backend (collector-message.semantic.validator.ts) believes exactly the
\* heartbeats that the Collector could mean.
THEOREM HeartbeatsAlwaysAgree == MessagesSpec => []HeartbeatAgrees
<1>1. MessagesInv => HeartbeatAgrees
  BY DEF MessagesInv
<1> QED
  BY <1>1, MessagesSound, PTL

\* Both, as the run checks them.
THEOREM MessagesAlwaysAgree == MessagesSpec => []MessagesAgree
BY OwnDocumentsAlwaysPass, HeartbeatsAlwaysAgree, PTL DEF MessagesAgree

-----------------------------------------------------------------------------
(* The contract for batches.                                               *)

\* What a line has become that the reader, the mapper and the validation of
\* the Collector let through.
Accepted ==
  {e \in {MapEvent(r, n) : r \in Line, n \in 0..MaxLines} :
     Outcome(ReaderChecks(e.raw) \o MapperChecks(e.raw)) = "ok" /\ ValidEvent(e)}

\* A batch that may be sealed.
Publishable(events) ==
  /\ events \in Seq(Accepted) /\ Len(events) \in 1..MaxEvents
  /\ EncodedSize(events) <= MaxBatch

ContractTyped == key \in Key /\ read \in 0..MaxLines /\ offset \in 0..read

\* The open batch has the size that is added up, and may be sealed at any time.
BatchOpen == batch \in Seq(Accepted) /\ SizeExact

\* An event that waits goes into a batch of its own.
DeferredFits ==
  \/ deferred = None
  \/ /\ deferred = <<deferred[1]>> /\ deferred[1] \in Accepted
     /\ Contribution(deferred[1]) <= MaxBatch - EmptySize

\* What is published is a batch of this Collector, and what the backend has
\* judged is one as it was written or with a byte changed.
SealedSound ==
  \/ sealed = None
  \/ sealed = <<Document(sealed[1].events)>> /\ Publishable(sealed[1].events)

VerdictSound ==
  \A v \in ToSet(verdict) :
    /\ v.doc.intact \in BOOLEAN /\ Publishable(v.doc.events)
    /\ v.doc = [Document(v.doc.events) EXCEPT !.intact = v.doc.intact]
    /\ v.says = Verify(v.doc)

ContractInv ==
  ContractTyped /\ BatchOpen /\ DeferredFits /\ SealedSound /\ VerdictSound

-----------------------------------------------------------------------------
(* Sizes.                                                                  *)

\* A set of numbers has a least one.
LEMMA NatOrder == IsWellFoundedOn({ss \in Nat \X Nat : ss[1] < ss[2]}, Nat)
  BY NatLessThanWellFounded DEF OpToRel

LEMMA LeastNumber ==
  ASSUME NEW T, T \subseteq Nat, T # {}
  PROVE  \E x \in T : \A y \in T : x <= y
<1> DEFINE R == {ss \in Nat \X Nat : ss[1] < ss[2]}
<1>1. \E x \in T : \A y \in T : <<y, x>> \notin R
  <2>1. IsWellFoundedOn(R, Nat)
    BY NatOrder
  <2> HIDE DEF R
  <2> QED  BY <2>1, WFMin
<1>2. \A x, y \in Nat : <<y, x>> \in R <=> y < x
  OBVIOUS
<1> HIDE DEF R
<1>3. PICK x \in T : \A y \in T : <<y, x>> \notin R
  BY <1>1
<1>4. \A y \in T : x \in Nat /\ y \in Nat /\ ~(y < x)
  BY <1>2, <1>3
<1> QED  BY <1>4


\* A number that is not a digit becomes smaller when its last digit is dropped.
LEMMA QuotientIsLess ==
  ASSUME NEW k \in Nat, k >= Radix
  PROVE  k \div Radix \in Nat /\ k \div Radix < k
<1>1. Radix \in Nat /\ Radix >= 2 /\ k > 0
  BY ContractAssumption
<1> DEFINE q == k \div Radix
           m == k % Radix
<1>2. q \in Int /\ m \in 0..(Radix - 1) /\ k = Radix * q + m
  BY <1>1
<1> HIDE DEF q, m
<1>3. q >= 0
  BY <1>1, <1>2
<1>4. CASE q >= k
  <2>1. Radix * q >= 2 * q
    BY <1>1, <1>2, <1>3
  <2> QED
    BY <1>1, <1>2, <1>4, <2>1
<1> QED
  BY <1>2, <1>3, <1>4 DEF q

\* The digits of the numbers up to n.
Counts(g, n) ==
  g = [k \in 0..n |-> IF k < Radix THEN 1 ELSE 1 + g[k \div Radix]]

LEMMA CountsTyped ==
  ASSUME NEW n \in Nat, NEW g, Counts(g, n)
  PROVE  \A k \in 0..n : g[k] \in Nat
<1> DEFINE T == {k \in 0..n : g[k] \notin Nat}
<1>1. SUFFICES ASSUME T # {} PROVE FALSE
  OBVIOUS
<1>2. PICK m \in T : \A k \in T : m <= k
  <2>1. T \subseteq Nat
    OBVIOUS
  <2> HIDE DEF T
  <2> QED  BY <1>1, <2>1, LeastNumber
<1>3. m \in 0..n /\ g[m] = (IF m < Radix THEN 1 ELSE 1 + g[m \div Radix])
  BY DEF Counts
<1>4. m >= Radix /\ m \in Nat
  BY <1>2, <1>3, ContractAssumption
<1>5. m \div Radix \in Nat /\ m \div Radix < m
  BY <1>4, QuotientIsLess
<1>6. m \div Radix \in 0..n /\ m \div Radix \notin T
  BY <1>2, <1>3, <1>4, <1>5
<1> QED
  BY <1>2, <1>3, <1>4, <1>6, ContractAssumption

\* Every table of digits can be made longer: there is one for any number.
LEMMA DigitsExist ==
  ASSUME NEW n \in Nat
  PROVE  \E g : Counts(g, n)
<1> DEFINE T == {m \in Nat : ~ \E g : Counts(g, m)}
<1>1. SUFFICES ASSUME T # {} PROVE FALSE
  OBVIOUS
<1>2. PICK m \in T : \A k \in T : m <= k
  <2>1. T \subseteq Nat
    OBVIOUS
  <2> HIDE DEF T
  <2> QED  BY <1>1, <2>1, LeastNumber
<1>3. m \in Nat /\ ~ \E g : Counts(g, m)
  OBVIOUS
<1>4. Radix \in Nat /\ Radix >= 2
  BY ContractAssumption
<1>5. CASE m = 0
  <2>1. Counts([k \in 0..0 |-> 1], 0)
    BY <1>4 DEF Counts
  <2> QED
    BY <1>3, <1>5, <2>1
<1>6. CASE m # 0
  <2>1. m - 1 \in Nat /\ m - 1 \notin T
    BY <1>2, <1>3, <1>6
  <2>2. PICK g : Counts(g, m - 1)
    BY <2>1
  <2> DEFINE v == IF m < Radix THEN 1 ELSE 1 + g[m \div Radix]
             h == [k \in 0..m |-> IF k = m THEN v ELSE g[k]]
  <2>3. \A k \in 0..m : k >= Radix => k \div Radix \in 0..(m - 1)
    <3>1. SUFFICES ASSUME NEW k \in 0..m, k >= Radix PROVE k \div Radix \in 0..(m - 1)
      OBVIOUS
    <3>2. k \div Radix \in Nat /\ k \div Radix < k
      BY <1>3, <3>1, QuotientIsLess
    <3> QED
      BY <1>3, <3>1, <3>2
  <2> HIDE DEF v
  <2>6. \A k \in 0..m : h[k] = IF k < Radix THEN 1 ELSE 1 + h[k \div Radix]
    <3>1. SUFFICES ASSUME NEW k \in 0..m
                   PROVE  h[k] = IF k < Radix THEN 1 ELSE 1 + h[k \div Radix]
      OBVIOUS
    <3>2. k >= Radix => h[k \div Radix] = g[k \div Radix]
      BY <1>3, <2>3
    <3>3. CASE k = m
      BY <1>3, <1>4, <3>2, <3>3 DEF v
    <3>4. CASE k # m
      <4>1. k \in 0..(m - 1) /\ h[k] = g[k]
        BY <1>3, <3>4
      <4>2. g[k] = IF k < Radix THEN 1 ELSE 1 + g[k \div Radix]
        BY <2>2, <4>1 DEF Counts
      <4> QED
        BY <1>3, <1>4, <3>2, <4>1, <4>2
    <3> QED
      BY <3>3, <3>4
  <2>7. Counts(h, m)
    BY <2>6 DEF Counts
  <2> QED
    BY <1>3, <2>7
<1> QED
  BY <1>5, <1>6

\* A number has digits, and one that is less than the radix has one.
LEMMA Digits ==
  ASSUME NEW n \in Nat
  PROVE  DecimalDigits(n) \in Nat /\ (n < Radix => DecimalDigits(n) = 1)
<1> DEFINE D == CHOOSE g : g = [k \in 0..n |-> IF k < Radix THEN 1 ELSE 1 + g[k \div Radix]]
<1>1. DecimalDigits(n) = D[n]
  BY DEF DecimalDigits
<1>2. D = [k \in 0..n |-> IF k < Radix THEN 1 ELSE 1 + D[k \div Radix]]
  <2>1. \E g : g = [k \in 0..n |-> IF k < Radix THEN 1 ELSE 1 + g[k \div Radix]]
    BY DigitsExist DEF Counts
  <2> QED
    BY <2>1
<1> HIDE DEF D
<1>3. D[n] \in Nat
  BY <1>2, CountsTyped DEF Counts
<1>4. n < Radix => D[n] = 1
  BY <1>2
<1> QED
  BY <1>1, <1>3, <1>4

\* The sums of the first elements of s.
Sums(g, s) == g = [n \in 0..Len(s) |-> IF n = 0 THEN 0 ELSE g[n - 1] + s[n]]

\* Every sequence of numbers has them.
LEMMA SumsExist ==
  ASSUME NEW s \in Seq(Int)
  PROVE  \E g : Sums(g, s)
<1> DEFINE Rest(g, m) == g = [n \in 0..m |-> IF n = 0 THEN 0 ELSE g[n - 1] + s[n]]
           T == {m \in 0..Len(s) : ~ \E g : Rest(g, m)}
<1>1. SUFFICES ASSUME T # {} PROVE FALSE
  <2>1. Len(s) \in 0..Len(s)
    OBVIOUS
  <2> QED
    BY <2>1 DEF Sums
<1>2. PICK m \in T : \A k \in T : m <= k
  <2>1. T \subseteq Nat
    OBVIOUS
  <2> HIDE DEF T
  <2> QED  BY <1>1, <2>1, LeastNumber
<1>3. m \in 0..Len(s) /\ ~ \E g : Rest(g, m)
  OBVIOUS
<1>4. CASE m = 0
  <2>1. Rest([n \in 0..0 |-> 0], 0)
    OBVIOUS
  <2> QED
    BY <1>3, <1>4, <2>1
<1>5. CASE m # 0
  <2>1. m - 1 \in 0..Len(s) /\ m - 1 \notin T
    BY <1>2, <1>3, <1>5, SMTT(30)
  <2>2. PICK g : Rest(g, m - 1)
    BY <2>1
  <2> DEFINE h == [n \in 0..m |-> IF n = m THEN g[m - 1] + s[m] ELSE g[n]]
  <2>3. \A n \in 0..m : h[n] = IF n = 0 THEN 0 ELSE h[n - 1] + s[n]
    <3>1. SUFFICES ASSUME NEW n \in 0..m
                   PROVE  h[n] = IF n = 0 THEN 0 ELSE h[n - 1] + s[n]
      OBVIOUS
    <3>2. n # 0 => h[n - 1] = g[n - 1]
      BY <1>3
    <3>3. CASE n = m
      BY <1>5, <3>2, <3>3
    <3>4. CASE n # m
      <4>1. n \in 0..(m - 1) /\ h[n] = g[n]
        BY <1>3, <3>4
      <4>2. g[n] = IF n = 0 THEN 0 ELSE g[n - 1] + s[n]
        BY <2>2, <4>1
      <4> QED
        BY <3>2, <4>1, <4>2
    <3> QED
      BY <3>3, <3>4
  <2>4. Rest(h, m)
    BY <2>3
  <2> QED
    BY <1>3, <2>4
<1> QED
  BY <1>4, <1>5

\* Sums of numbers are numbers, and two tables that begin alike sum alike.
LEMMA SumsTyped ==
  ASSUME NEW s \in Seq(Int), NEW g, Sums(g, s)
  PROVE  \A n \in 0..Len(s) : g[n] \in Int
<1> DEFINE T == {k \in 0..Len(s) : g[k] \notin Int}
<1>1. SUFFICES ASSUME T # {} PROVE FALSE
  OBVIOUS
<1>2. PICK m \in T : \A k \in T : m <= k
  <2>1. T \subseteq Nat
    OBVIOUS
  <2> HIDE DEF T
  <2> QED  BY <1>1, <2>1, LeastNumber
<1>3. m \in 0..Len(s) /\ g[m] = (IF m = 0 THEN 0 ELSE g[m - 1] + s[m])
  BY DEF Sums
<1>4. m # 0 /\ m - 1 \in 0..Len(s) /\ m - 1 \notin T
  BY <1>2, <1>3
<1>5. g[m - 1] \in Int /\ s[m] \in Int
  BY <1>3, <1>4
<1> QED
  BY <1>2, <1>3, <1>4, <1>5

LEMMA SumsAlike ==
  ASSUME NEW s \in Seq(Int), NEW t \in Seq(Int), Len(s) <= Len(t), \A n \in 1..Len(s) : s[n] = t[n],
         NEW g, Sums(g, s), NEW h, Sums(h, t)
  PROVE  \A n \in 0..Len(s) : g[n] = h[n]
<1> DEFINE T == {k \in 0..Len(s) : g[k] # h[k]}
<1>1. SUFFICES ASSUME T # {} PROVE FALSE
  OBVIOUS
<1>2. PICK m \in T : \A k \in T : m <= k
  <2>1. T \subseteq Nat
    OBVIOUS
  <2> HIDE DEF T
  <2> QED  BY <1>1, <2>1, LeastNumber
<1>3. /\ m \in 0..Len(s) /\ m \in 0..Len(t)
      /\ g[m] = (IF m = 0 THEN 0 ELSE g[m - 1] + s[m])
      /\ h[m] = (IF m = 0 THEN 0 ELSE h[m - 1] + t[m])
  <2>1. m \in 0..Len(s) /\ m \in 0..Len(t)
    OBVIOUS
  <2> HIDE DEF T
  <2>2. g[m] = (IF m = 0 THEN 0 ELSE g[m - 1] + s[m])
    BY <2>1 DEF Sums
  <2>3. h[m] = (IF m = 0 THEN 0 ELSE h[m - 1] + t[m])
    BY <2>1 DEF Sums
  <2> QED
    BY <2>1, <2>2, <2>3
<1>4. m # 0 /\ m - 1 \in 0..Len(s) /\ m - 1 \notin T
  BY <1>2, <1>3
<1>5. g[m - 1] = h[m - 1] /\ s[m] = t[m]
  BY <1>3, <1>4
<1> QED
  BY <1>2, <1>3, <1>4, <1>5

\* SumSeq is the last of the sums.
LEMMA SumSeqIs ==
  ASSUME NEW s \in Seq(Int)
  PROVE  /\ SumSeq(s) \in Int
         /\ \E g : Sums(g, s) /\ SumSeq(s) = g[Len(s)]
<1> DEFINE D == CHOOSE g : g = [n \in 0..Len(s) |-> IF n = 0 THEN 0 ELSE g[n - 1] + s[n]]
<1>1. SumSeq(s) = D[Len(s)]
  BY DEF SumSeq
<1>2. Sums(D, s)
  <2>1. \E g : g = [n \in 0..Len(s) |-> IF n = 0 THEN 0 ELSE g[n - 1] + s[n]]
    BY SumsExist DEF Sums
  <2> QED
    BY <2>1 DEF Sums
<1> HIDE DEF D
<1>3. Len(s) \in 0..Len(s)
  OBVIOUS
<1> QED
  BY <1>1, <1>2, <1>3, SumsTyped

\* The sum of nothing, and of one element more.
LEMMA SumSeqAppend ==
  /\ SumSeq(<<>>) = 0
  /\ \A s \in Seq(Int), x \in Int : SumSeq(Append(s, x)) = SumSeq(s) + x
<1>1. SumSeq(<<>>) = 0
  <2>1. PICK g : Sums(g, <<>>) /\ SumSeq(<<>>) = g[0]
    <3>1. <<>> \in Seq(Int) /\ Len(<<>>) = 0
      OBVIOUS
    <3> QED
      BY <3>1, SumSeqIs
  <2> QED
    BY <2>1 DEF Sums
<1>2. ASSUME NEW s \in Seq(Int), NEW x \in Int
      PROVE  SumSeq(Append(s, x)) = SumSeq(s) + x
  <2> DEFINE t == Append(s, x)
  <2>1. /\ t \in Seq(Int) /\ Len(t) = Len(s) + 1 /\ t[Len(t)] = x
        /\ \A n \in 1..Len(s) : s[n] = t[n]
    OBVIOUS
  <2> HIDE DEF t
  <2>2. PICK g : Sums(g, s) /\ SumSeq(s) = g[Len(s)]
    BY SumSeqIs
  <2>3. PICK h : Sums(h, t) /\ SumSeq(t) = h[Len(t)]
    BY <2>1, SumSeqIs
  <2>4. g[Len(s)] = h[Len(s)]
    <3>1. \A n \in 0..Len(s) : g[n] = h[n]
      BY <2>1, <2>2, <2>3, SumsAlike, SMTT(30)
    <3> QED
      BY <3>1
  <2>5. h[Len(t)] = h[Len(t) - 1] + t[Len(t)]
    BY <2>1, <2>3 DEF Sums
  <2> QED
    BY <2>1, <2>2, <2>3, <2>4, <2>5 DEF t
<1> QED
  BY <1>1, <1>2

-----------------------------------------------------------------------------
(* Checks.                                                                 *)

\* A check is a condition and what is said when it holds; no check of a line
\* asks for a flush.
LineReason ==
  {"missing_required_field", "invalid_field_type", "record_too_large", "invalid_utf8",
   "invalid_json", "unsupported_event_type", "invalid_ip_address", "invalid_timestamp"}
Reason ==
  LineReason \cup {"ocsf_validation_failed", "flush_required"}
  \cup {"too_large", "json", "untrusted", "hmac", "schema", "duplicate", "semantics"}
  \cup {"identity", "ip", "raw", "timestamp", "mapping"}
LineCheck == BOOLEAN \X LineReason
Check == BOOLEAN \X Reason
Passes(checks) == \A i \in DOMAIN checks : ~checks[i][1]

\* A list of checks is one.
LEMMA ChecksAre ==
  ASSUME NEW C
  PROVE
  /\ \A a, b \in C : <<a, b>> \in Seq(C)
  /\ \A a, b, c \in C : <<a, b, c>> \in Seq(C)
  /\ \A a, b, c, d \in C : <<a, b, c, d>> \in Seq(C)
  /\ \A a, b, c, d, e, f, g \in C : <<a, b, c, d, e, f, g>> \in Seq(C)
  /\ \A a, b, c, d, e, f, g, h \in C : <<a, b, c, d, e, f, g, h>> \in Seq(C)
OBVIOUS

\* The first check that fails decides: there is none, or one before which all pass.
LEMMA OutcomeIs ==
  ASSUME NEW checks \in Seq(Check)
  PROVE  \/ Passes(checks) /\ Outcome(checks) = "ok"
         \/ \E i \in DOMAIN checks :
              /\ checks[i][1] /\ Outcome(checks) = checks[i][2] /\ checks[i][2] # "ok"
              /\ \A j \in DOMAIN checks : j < i => ~checks[j][1]
<1> DEFINE failing == {i \in DOMAIN checks : checks[i][1]}
<1>1. CASE failing = {}
  BY <1>1 DEF Outcome, Passes
<1>2. CASE failing # {}
  <2>1. failing \subseteq Nat
    OBVIOUS
  <2>2. \E x \in failing : \A y \in failing : x <= y
    <3> HIDE DEF failing
    <3> QED
      BY <1>2, <2>1, LeastNumber
  <2> DEFINE m == Min(failing)
  <2>3. m \in failing /\ \A y \in failing : m <= y
    BY <2>2 DEF Min
  <2>4. Outcome(checks) = checks[m][2]
    BY <1>2 DEF Outcome
  <2> HIDE DEF m
  <2>5. checks[m] \in Check
    BY <2>3
  <2>6. checks[m][2] # "ok"
    BY <2>5 DEF Check, Reason, LineReason
  <2>7. \A j \in DOMAIN checks : j < m => ~checks[j][1]
    BY <2>1, <2>3
  <2> QED
    BY <2>3, <2>4, <2>6, <2>7
<1> QED
  BY <1>1, <1>2

LEMMA OutcomeOk ==
  ASSUME NEW checks \in Seq(Check)
  PROVE  Outcome(checks) = "ok" <=> Passes(checks)
BY OutcomeIs DEF Passes

\* Two lists of checks pass if both do.
LEMMA PassesBoth ==
  ASSUME NEW C, NEW a \in Seq(C), NEW b \in Seq(C)
  PROVE  a \o b \in Seq(C) /\ (Passes(a \o b) <=> Passes(a) /\ Passes(b))
<1> DEFINE c == a \o b
<1>1. /\ c \in Seq(C) /\ Len(c) = Len(a) + Len(b)
      /\ \A i \in 1..Len(a) : c[i] = a[i]
      /\ \A i \in 1..Len(b) : c[Len(a) + i] = b[i]
      /\ DOMAIN c = 1..(Len(a) + Len(b)) /\ DOMAIN a = 1..Len(a) /\ DOMAIN b = 1..Len(b)
      /\ Len(a) \in Nat /\ Len(b) \in Nat
  OBVIOUS
<1> HIDE DEF c
<1>2. ASSUME Passes(c)
      PROVE  Passes(a) /\ Passes(b)
  <2>1. \A i \in 1..Len(a) : i \in DOMAIN c
    BY <1>1
  <2>2. \A i \in 1..Len(b) : Len(a) + i \in DOMAIN c
    BY <1>1
  <2> QED
    BY <1>1, <1>2, <2>1, <2>2 DEF Passes
<1>3. ASSUME Passes(a), Passes(b)
      PROVE  Passes(c)
  <2>1. SUFFICES ASSUME NEW i \in DOMAIN c PROVE ~c[i][1]
    BY DEF Passes
  <2>2. CASE i \in 1..Len(a)
    BY <1>1, <1>3, <2>2 DEF Passes
  <2>3. CASE i \notin 1..Len(a)
    <3>1. i - Len(a) \in 1..Len(b) /\ i = Len(a) + (i - Len(a))
      BY <1>1, <2>3
    <3> QED
      BY <1>1, <1>3, <3>1 DEF Passes
  <2> QED
    BY <2>2, <2>3
<1> QED
  BY <1>1, <1>2, <1>3 DEF c

LEMMA OutcomeLine ==
  ASSUME NEW checks \in Seq(LineCheck)
  PROVE  /\ Outcome(checks) = "ok" <=> Passes(checks)
         /\ Outcome(checks) # "flush_required"
<1>1. checks \in Seq(Check)
  BY DEF LineCheck, Check, Reason
<1>2. \A i \in DOMAIN checks : checks[i][2] \in LineReason
  <2>1. \A i \in DOMAIN checks : checks[i] \in LineCheck
    OBVIOUS
  <2> QED
    BY <2>1 DEF LineCheck
<1>3. Outcome(checks) # "flush_required"
  BY <1>1, <1>2, OutcomeIs DEF LineReason
<1> QED
  BY <1>1, <1>3, OutcomeOk

LEMMA RequiredPasses ==
  ASSUME NEW r, NEW name
  PROVE  /\ Required(r, name) \in Seq(LineCheck)
         /\ Passes(Required(r, name)) <=> r[name] \notin {Absent, 0, NotText}
<1> DEFINE c == <<<<r[name] = Absent \/ r[name] = 0, "missing_required_field">>,
                  <<r[name] = NotText, "invalid_field_type">>>>
<1>1. c \in Seq(LineCheck)
  <2>1. /\ <<(r[name] = Absent \/ r[name] = 0), "missing_required_field">> \in LineCheck
        /\ <<(r[name] = NotText), "invalid_field_type">> \in LineCheck
    BY DEF LineCheck, LineReason
  <2> QED
    BY <2>1, ChecksAre
<1>2. Passes(c) <=> ~c[1][1] /\ ~c[2][1]
  <2>1. DOMAIN c = {1, 2}
    OBVIOUS
  <2> HIDE DEF c
  <2> QED
    BY <2>1 DEF Passes
<1> QED
  BY <1>1, <1>2 DEF Required

\* What the Collector has found of a line it publishes.
LineSound(r) ==
  /\ r.bytes <= MaxRecord /\ r.form = "object" /\ r.depth <= MaxNesting
  /\ \A name \in {"event_id", "endpoint_id", "event_type", "timestamp", "username", "source_ip"} :
       r[name] \notin {Absent, 0, NotText}
  /\ r.kind \in {"login_success", "login_failed"}
  /\ ValidIp(r.ip) /\ ReadsTime(r.time)

LEMMA AcceptedLine ==
  ASSUME NEW r \in Line
  PROVE  /\ Outcome(ReaderChecks(r) \o MapperChecks(r)) # "flush_required"
         /\ Outcome(ReaderChecks(r) \o MapperChecks(r)) = "ok" => LineSound(r)
<1> DEFINE A == <<<<r.bytes > MaxRecord, "record_too_large">>,
                  <<~ValidUtf8(r), "invalid_utf8">>,
                  <<~StrictJson(r), "invalid_json">>,
                  <<r.form = "array", "invalid_field_type">>>>
           B == <<<<r.kind \notin {"login_success", "login_failed"}, "unsupported_event_type">>,
                  <<~ValidIp(r.ip), "invalid_ip_address">>,
                  <<~ReadsTime(r.time), "invalid_timestamp">>>>
           Q(name) == Required(r, name)
<1>1. A \in Seq(LineCheck) /\ B \in Seq(LineCheck)
  <2>1. /\ <<r.bytes > MaxRecord, "record_too_large">> \in LineCheck
        /\ <<~ValidUtf8(r), "invalid_utf8">> \in LineCheck
        /\ <<~StrictJson(r), "invalid_json">> \in LineCheck
        /\ <<r.form = "array", "invalid_field_type">> \in LineCheck
    <3>1. <<r.bytes > MaxRecord, "record_too_large">> \in LineCheck
      <4>1. (r.bytes > MaxRecord) \in BOOLEAN
        BY ContractAssumption, MessagesAssumption
      <4> DEFINE p == r.bytes > MaxRecord
      <4>2. p \in BOOLEAN
        BY <4>1
      <4> HIDE DEF p
      <4>3. <<p, "record_too_large">> \in LineCheck
        BY <4>2 DEF LineCheck, LineReason
      <4> QED
        BY <4>3 DEF p
    <3>2. <<~ValidUtf8(r), "invalid_utf8">> \in LineCheck
      BY DEF LineCheck, LineReason
    <3>3. <<~StrictJson(r), "invalid_json">> \in LineCheck
      BY DEF LineCheck, LineReason
    <3>4. <<r.form = "array", "invalid_field_type">> \in LineCheck
      BY DEF LineCheck, LineReason
    <3> QED
      BY <3>1, <3>2, <3>3, <3>4
  <2>2. /\ <<r.kind \notin {"login_success", "login_failed"}, "unsupported_event_type">> \in LineCheck
        /\ <<~ValidIp(r.ip), "invalid_ip_address">> \in LineCheck
        /\ <<~ReadsTime(r.time), "invalid_timestamp">> \in LineCheck
    BY DEF LineCheck, LineReason
  <2> QED
    BY <2>1, <2>2, ChecksAre
<1>2. Passes(A) => ~A[1][1] /\ ~A[3][1] /\ ~A[4][1]
  <2>1. {1, 3, 4} \subseteq DOMAIN A
    OBVIOUS
  <2> HIDE DEF A
  <2> QED
    BY <2>1 DEF Passes
<1>3. Passes(B) => ~B[1][1] /\ ~B[2][1] /\ ~B[3][1]
  <2>1. {1, 2, 3} \subseteq DOMAIN B
    OBVIOUS
  <2> HIDE DEF B
  <2> QED
    BY <2>1 DEF Passes
<1>4. ReaderChecks(r) = A \o Q("event_id") \o Q("endpoint_id") \o Q("event_type") \o Q("timestamp")
  BY DEF ReaderChecks
<1>5. MapperChecks(r) = Q("event_type") \o Q("username") \o Q("source_ip") \o B
  BY DEF MapperChecks
<1>6. ~(r.bytes > MaxRecord) /\ StrictJson(r) /\ r.form # "array" <=> ~A[1][1] /\ ~A[3][1] /\ ~A[4][1]
  OBVIOUS
<1>7. r.kind \in {"login_success", "login_failed"} /\ ValidIp(r.ip) /\ ReadsTime(r.time)
      <=> ~B[1][1] /\ ~B[2][1] /\ ~B[3][1]
  OBVIOUS
<1> HIDE DEF A, B, Q
<1>8. \A name : Q(name) \in Seq(LineCheck) /\ (Passes(Q(name)) <=> r[name] \notin {Absent, 0, NotText})
  BY RequiredPasses DEF Q
<1>9. /\ ReaderChecks(r) \in Seq(LineCheck)
      /\ Passes(ReaderChecks(r)) => /\ Passes(A) /\ Passes(Q("event_id")) /\ Passes(Q("endpoint_id"))
                                    /\ Passes(Q("event_type")) /\ Passes(Q("timestamp"))
  <2> DEFINE a1 == A \o Q("event_id")
             a2 == a1 \o Q("endpoint_id")
             a3 == a2 \o Q("event_type")
             a4 == a3 \o Q("timestamp")
  <2>1. a1 \in Seq(LineCheck) /\ (Passes(a1) <=> Passes(A) /\ Passes(Q("event_id")))
    BY <1>1, <1>8, PassesBoth
  <2> HIDE DEF a1
  <2>2. a2 \in Seq(LineCheck) /\ (Passes(a2) <=> Passes(a1) /\ Passes(Q("endpoint_id")))
    BY <1>8, <2>1, PassesBoth
  <2> HIDE DEF a2
  <2>3. a3 \in Seq(LineCheck) /\ (Passes(a3) <=> Passes(a2) /\ Passes(Q("event_type")))
    BY <1>8, <2>2, PassesBoth
  <2> HIDE DEF a3
  <2>4. a4 \in Seq(LineCheck) /\ (Passes(a4) <=> Passes(a3) /\ Passes(Q("timestamp")))
    BY <1>8, <2>3, PassesBoth
  <2>5. ReaderChecks(r) = a4
    BY <1>4 DEF a1, a2, a3
  <2> HIDE DEF a4
  <2> QED
    BY <2>1, <2>2, <2>3, <2>4, <2>5
<1>10. /\ MapperChecks(r) \in Seq(LineCheck)
       /\ Passes(MapperChecks(r)) => /\ Passes(B) /\ Passes(Q("username")) /\ Passes(Q("source_ip"))
  <2> DEFINE a1 == Q("event_type") \o Q("username")
             a2 == a1 \o Q("source_ip")
             a3 == a2 \o B
  <2>1. a1 \in Seq(LineCheck) /\ (Passes(a1) <=> Passes(Q("event_type")) /\ Passes(Q("username")))
    BY <1>8, PassesBoth
  <2> HIDE DEF a1
  <2>2. a2 \in Seq(LineCheck) /\ (Passes(a2) <=> Passes(a1) /\ Passes(Q("source_ip")))
    BY <1>8, <2>1, PassesBoth
  <2> HIDE DEF a2
  <2>3. a3 \in Seq(LineCheck) /\ (Passes(a3) <=> Passes(a2) /\ Passes(B))
    BY <1>1, <2>2, PassesBoth
  <2>4. MapperChecks(r) = a3
    BY <1>5 DEF a1, a2
  <2> HIDE DEF a3
  <2> QED
    BY <2>1, <2>2, <2>3, <2>4
<1>11. /\ Outcome(ReaderChecks(r) \o MapperChecks(r)) # "flush_required"
       /\ Outcome(ReaderChecks(r) \o MapperChecks(r)) = "ok" =>
            Passes(ReaderChecks(r)) /\ Passes(MapperChecks(r))
  <2> DEFINE c == ReaderChecks(r) \o MapperChecks(r)
  <2>1. c \in Seq(LineCheck) /\ (Passes(c) <=> Passes(ReaderChecks(r)) /\ Passes(MapperChecks(r)))
    BY <1>9, <1>10, PassesBoth
  <2> HIDE DEF c
  <2>2. Outcome(c) # "flush_required" /\ (Outcome(c) = "ok" <=> Passes(c))
    BY <2>1, OutcomeLine
  <2> QED
    BY <2>1, <2>2 DEF c
<1>12. ASSUME Outcome(ReaderChecks(r) \o MapperChecks(r)) = "ok"
       PROVE  LineSound(r)
  <2>1. Passes(ReaderChecks(r)) /\ Passes(MapperChecks(r))
    BY <1>11, <1>12
  <2>2. \A name \in {"event_id", "endpoint_id", "event_type", "timestamp", "username", "source_ip"} :
          r[name] \notin {Absent, 0, NotText}
    BY <1>8, <1>9, <1>10, <2>1
  <2>3. /\ ~(r.bytes > MaxRecord) /\ StrictJson(r) /\ r.form # "array"
        /\ r.kind \in {"login_success", "login_failed"} /\ ValidIp(r.ip) /\ ReadsTime(r.time)
    BY <1>2, <1>3, <1>6, <1>7, <1>9, <1>10, <2>1
  <2>4. {r.bytes, r.depth, MaxRecord} \subseteq Int
    BY ContractAssumption, MessagesAssumption
  <2>5. r.form = "object" /\ r.depth <= MaxNesting
    BY <2>3 DEF StrictJson, ScanPasses
  <2>6. r.bytes <= MaxRecord
    BY <2>3, <2>4
  <2> QED
    BY <2>2, <2>3, <2>5, <2>6 DEF LineSound
<1>13. Outcome(ReaderChecks(r) \o MapperChecks(r)) # "flush_required"
  BY <1>11
<1> QED
  BY <1>12, <1>13

\* Two lists that give the same outcome for every event.
LEMMA EventsPassAll ==
  ASSUME NEW events, NEW c, DOMAIN c = DOMAIN events
  PROVE  EventsPass(c) <=> \A i \in DOMAIN events : Outcome(c[i]) = "ok"
BY DEF EventsPass

-----------------------------------------------------------------------------
(* Accepted events.                                                        *)

LEMMA AcceptedEvent ==
  ASSUME NEW e \in Accepted
  PROVE  /\ e.raw \in Line /\ e.start \in 0..MaxLines /\ e = MapEvent(e.raw, e.start)
         /\ LineSound(e.raw) /\ ValidEvent(e)
<1>1. PICK r \in Line, n \in 0..MaxLines : e = MapEvent(r, n)
  BY DEF Accepted
<1>2. e.raw = r /\ e.start = n
  BY <1>1 DEF MapEvent
<1>3. Outcome(ReaderChecks(e.raw) \o MapperChecks(e.raw)) = "ok" /\ ValidEvent(e)
  BY DEF Accepted
<1> QED
  BY <1>1, <1>2, <1>3, AcceptedLine

\* Sizes are numbers; what an event adds is what it contributes and what the
\* framing grows by.
LEMMA SizeOfMore ==
  /\ \A e \in Accepted : Contribution(e) \in Nat
  /\ EmptySize \in Nat /\ EmptySize <= MaxBatch
  /\ EncodedSize(<<>>) = EmptySize
  /\ \A events \in Seq(Accepted) :
       /\ EncodedSize(events) \in Int
       /\ \A e \in Accepted :
            EncodedSize(Append(events, e)) =
              EncodedSize(events) + Contribution(e) + FramingGrowth(Len(events))
<1>1. ASSUME NEW e \in Accepted
      PROVE  Contribution(e) \in Nat
  BY AcceptedEvent, ContractAssumption DEF Contribution
<1>2. Envelope \in Nat /\ MaxBatch \in Nat /\ Envelope < MaxBatch /\ Radix \in Nat /\ Radix >= 2
  BY ContractAssumption
<1>3. EmptySize \in Nat /\ EmptySize <= MaxBatch
  <2>1. DecimalDigits(0) = 1
    BY <1>2, Digits
  <2> QED
    BY <1>2, <2>1 DEF EmptySize
<1>4. EncodedSize(<<>>) = EmptySize
  <2>1. [i \in DOMAIN <<>> |-> Contribution(<<>>[i])] = <<>>
    OBVIOUS
  <2>2. SumSeq(<<>>) = 0 /\ Len(<<>>) = 0 /\ DecimalDigits(0) \in Nat
    BY SumSeqAppend, Digits
  <2> QED
    BY <1>2, <2>1, <2>2 DEF EncodedSize, EmptySize
<1>5. ASSUME NEW events \in Seq(Accepted)
      PROVE  /\ EncodedSize(events) \in Int
             /\ \A e \in Accepted :
                  EncodedSize(Append(events, e)) =
                    EncodedSize(events) + Contribution(e) + FramingGrowth(Len(events))
  <2> DEFINE sizes == [i \in DOMAIN events |-> Contribution(events[i])]
             n == Len(events)
  <2>1. n \in Nat /\ DOMAIN events = 1..n /\ (events = <<>> <=> n = 0)
    OBVIOUS
  <2>2. sizes \in Seq(Int) /\ Len(sizes) = n
    <3>1. \A i \in 1..n : sizes[i] \in Int
      BY <1>1
    <3> QED
      BY <2>1, <3>1
  <2>3. SumSeq(sizes) \in Int
    BY <2>2, SumSeqIs
  <2>4. DecimalDigits(n) \in Nat /\ DecimalDigits(n + 1) \in Nat
    BY <2>1, Digits
  <2>5. EncodedSize(events) = Envelope + DecimalDigits(n) + SumSeq(sizes) + (IF n = 0 THEN 0 ELSE n - 1)
    BY <2>1 DEF EncodedSize
  <2> HIDE DEF sizes, n
  <2>6. EncodedSize(events) \in Int
    BY <1>2, <2>1, <2>3, <2>4, <2>5
  <2>7. ASSUME NEW e \in Accepted
        PROVE  EncodedSize(Append(events, e)) =
                 EncodedSize(events) + Contribution(e) + FramingGrowth(Len(events))
    <3> DEFINE more == Append(events, e)
    <3>1. /\ DOMAIN more = 1..(n + 1) /\ Len(more) = n + 1 /\ more # <<>>
          /\ more[n + 1] = e /\ \A i \in 1..n : more[i] = events[i]
      BY <2>1 DEF n
    <3> HIDE DEF more
    <3>2. [i \in DOMAIN more |-> Contribution(more[i])] = Append(sizes, Contribution(e))
      <4> DEFINE a == [i \in DOMAIN more |-> Contribution(more[i])]
                 b == Append(sizes, Contribution(e))
      <4>1. /\ DOMAIN b = 1..(n + 1) /\ b[n + 1] = Contribution(e)
            /\ \A i \in 1..n : b[i] = sizes[i]
            /\ b = [i \in 1..(n + 1) |-> b[i]]
        <5>1. Contribution(e) \in Int
          BY <1>1
        <5> DEFINE x == Contribution(e)
        <5> HIDE DEF x
        <5>2. x \in Int
          BY <5>1 DEF x
        <5>3. /\ Append(sizes, x) \in Seq(Int) /\ Len(Append(sizes, x)) = n + 1
              /\ Append(sizes, x)[n + 1] = x /\ \A i \in 1..n : Append(sizes, x)[i] = sizes[i]
          BY <2>2, <5>2, AppendProperties
        <5>4. b = Append(sizes, x)
          BY DEF x
        <5> HIDE DEF b
        <5>5. b \in Seq(Int) /\ Len(b) = n + 1 /\ b[n + 1] = x /\ \A i \in 1..n : b[i] = sizes[i]
          BY <5>3, <5>4
        <5>6. DOMAIN b = 1..(n + 1) /\ b = [i \in DOMAIN b |-> b[i]]
          BY <5>5
        <5> QED
          BY <5>5, <5>6 DEF x
      <4>2. \A i \in 1..n : sizes[i] = Contribution(events[i])
        BY <2>1 DEF sizes, n
      <4>3. \A i \in 1..(n + 1) : a[i] = b[i]
        <5>1. SUFFICES ASSUME NEW i \in 1..(n + 1) PROVE a[i] = b[i]
          OBVIOUS
        <5>2. CASE i = n + 1
          BY <3>1, <4>1, <5>2
        <5>3. CASE i # n + 1
          <6>1. i \in 1..n
            BY <2>1, <5>3
          <6> QED
            BY <3>1, <4>1, <4>2, <6>1
        <5> QED
          BY <5>2, <5>3
      <4>4. a = [i \in 1..(n + 1) |-> a[i]]
        BY <3>1
      <4> HIDE DEF a, b
      <4>5. a = b
        BY <4>1, <4>3, <4>4
      <4> QED
        BY <4>5 DEF a, b
    <3>3. SumSeq(Append(sizes, Contribution(e))) = SumSeq(sizes) + Contribution(e)
      BY <1>1, <2>2, SumSeqAppend
    <3>4. EncodedSize(more) = Envelope + DecimalDigits(n + 1) + (SumSeq(sizes) + Contribution(e)) + n
      <4>1. EncodedSize(more) = Envelope + DecimalDigits(Len(more))
              + SumSeq([i \in DOMAIN more |-> Contribution(more[i])])
              + (IF more = <<>> THEN 0 ELSE Len(more) - 1)
        BY DEF EncodedSize
      <4>2. Len(more) - 1 = n
        BY <2>1, <3>1
      <4> QED
        BY <3>1, <3>2, <3>3, <4>1, <4>2
    <3>5. FramingGrowth(n) = (IF n = 0 THEN 0 ELSE 1) + DecimalDigits(n + 1) - DecimalDigits(n)
      BY DEF FramingGrowth
    <3>6. Contribution(e) \in Int
      BY <1>1
    <3>7. EncodedSize(more) = EncodedSize(events) + Contribution(e) + FramingGrowth(n)
      BY <1>2, <2>1, <2>3, <2>4, <2>5, <3>4, <3>5, <3>6, SMTT(30)
    <3> QED
      BY <3>7 DEF more, n
  <2> QED
    BY <2>6, <2>7
<1> QED
  BY <1>1, <1>3, <1>4, <1>5

\* What the backend asks beyond what the Collector did are the named limits.
LEMMA EventAgrees ==
  ASSUME NEW e \in Accepted
  PROVE  Outcome(SchemaChecks(e)) = "ok" /\ Outcome(SemanticChecks(e)) = "ok" <=> WithinLimits(e.raw)
<1> DEFINE r == e.raw
           A == SchemaChecks(e)
           B == SemanticChecks(e)
<1>1. /\ r \in Line /\ e = MapEvent(r, e.start) /\ LineSound(r) /\ ValidEvent(e)
  BY AcceptedEvent
<1>2. /\ e.id = <<"source", e.start>> /\ e.endpoint = r.endpoint_id /\ e.upstream = r.event_id
      /\ e.name = r.username /\ e.message = r.username + Prefix /\ e.ip = r.ip /\ e.kind = r.kind
      /\ e.time = r.time.at
  BY <1>1 DEF MapEvent
<1>3. /\ {r.event_id, r.endpoint_id, r.event_type, r.timestamp, r.username, r.source_ip} \subseteq Nat \ {0}
      /\ {r.time.at, r.time.offset, MaxName, MaxHost, MaxMessage} \subseteq Int
  <2>1. \A x \in {-2, -1} \cup Nat : x \notin {Absent, 0, NotText} => x \in Nat \ {0}
    BY DEF Absent, NotText
  <2> QED
    BY <1>1, <2>1, ContractAssumption DEF LineSound
<1>4. A \in Seq(Check) /\ B \in Seq(Check)
  <2>1. <<e.upstream \notin 1..MaxName \/ e.endpoint \notin 1..MaxHost, "schema">> \in Check
    BY <1>2, <1>3 DEF Check, Reason
  <2>2. <<~TimestampForm(e.utc), "schema">> \in Check
    BY <1>2, <1>3 DEF Check, Reason
  <2>3. <<e.time < 0, "schema">> \in Check
    <3> DEFINE p == e.time < 0
    <3>1. p \in BOOLEAN
      BY <1>2, <1>3
    <3> HIDE DEF p
    <3>2. <<p, "schema">> \in Check
      BY <3>1 DEF Check, Reason
    <3> QED
      BY <3>2 DEF p
  <2>4. <<e.message \notin 1..MaxMessage \/ e.name \notin 1..MaxName, "schema">> \in Check
    BY <1>2, <1>3 DEF Check, Reason
  <2>5. <<e.id # <<"source", e.start>>, "identity">> \in Check
    BY <1>2, <1>3 DEF Check, Reason
  <2>6. <<~IsIp(e.ip), "ip">> \in Check
    BY <1>2, <1>3 DEF Check, Reason
  <2>7. <<~ParsesJson(e.raw) \/ e.raw.form # "object", "raw">> \in Check
    BY <1>2, <1>3 DEF Check, Reason
  <2>8. <<\E f \in {"endpoint_id", "timestamp", "event_type", "username", "source_ip"} : e.raw[f] < 1, "raw">> \in Check
    BY <1>2, <1>3 DEF Check, Reason
  <2>9. <<~ParsesDate(e.raw.time), "timestamp">> \in Check
    BY <1>2, <1>3 DEF Check, Reason
  <2>10. <<e.endpoint # e.raw.endpoint_id \/ e.name # e.raw.username \/ e.ip # e.raw.ip
           \/ e.time # e.raw.time.at, "mapping">> \in Check
    BY <1>2, <1>3 DEF Check, Reason
  <2>11. <<e.kind \notin {"login_success", "login_failed"} \/ e.kind # e.raw.kind, "mapping">> \in Check
    BY <1>2, <1>3 DEF Check, Reason
  <2>12. A \in Seq(Check)
    BY <2>1, <2>2, <2>3, <2>4, ChecksAre DEF SchemaChecks
  <2>13. B \in Seq(Check)
    BY <2>5, <2>6, <2>7, <2>8, <2>9, <2>10, <2>11, ChecksAre DEF SemanticChecks
  <2> QED
    BY <2>12, <2>13
<1>5. Passes(A) <=> /\ e.upstream \in 1..MaxName /\ e.endpoint \in 1..MaxHost
                    /\ TimestampForm(e.utc) /\ ~(e.time < 0)
                    /\ e.message \in 1..MaxMessage /\ e.name \in 1..MaxName
  <2>1. DOMAIN A = {1, 2, 3, 4}
    BY DEF SchemaChecks
  <2>2. /\ A[1][1] = (e.upstream \notin 1..MaxName \/ e.endpoint \notin 1..MaxHost)
        /\ A[2][1] = ~TimestampForm(e.utc) /\ A[3][1] = (e.time < 0)
        /\ A[4][1] = (e.message \notin 1..MaxMessage \/ e.name \notin 1..MaxName)
    BY DEF SchemaChecks
  <2> HIDE DEF A
  <2>3. Passes(A) <=> ~A[1][1] /\ ~A[2][1] /\ ~A[3][1] /\ ~A[4][1]
    BY <2>1 DEF Passes
  <2> QED
    BY <2>2, <2>3
<1>6. Passes(B) <=>
        /\ e.id = <<"source", e.start>> /\ IsIp(e.ip)
        /\ ParsesJson(e.raw) /\ e.raw.form = "object"
        /\ ~\E f \in {"endpoint_id", "timestamp", "event_type", "username", "source_ip"} : e.raw[f] < 1
        /\ ParsesDate(e.raw.time)
        /\ e.endpoint = e.raw.endpoint_id /\ e.name = e.raw.username /\ e.ip = e.raw.ip
        /\ e.time = e.raw.time.at
        /\ e.kind \in {"login_success", "login_failed"} /\ e.kind = e.raw.kind
  <2>1. DOMAIN B = {1, 2, 3, 4, 5, 6, 7}
    BY DEF SemanticChecks
  <2>2. /\ B[1][1] = (e.id # <<"source", e.start>>)
        /\ B[2][1] = ~IsIp(e.ip)
        /\ B[3][1] = (~ParsesJson(e.raw) \/ e.raw.form # "object")
        /\ B[4][1] = (\E f \in {"endpoint_id", "timestamp", "event_type", "username", "source_ip"} :
                        e.raw[f] < 1)
        /\ B[5][1] = ~ParsesDate(e.raw.time)
        /\ B[6][1] = (e.endpoint # e.raw.endpoint_id \/ e.name # e.raw.username \/ e.ip # e.raw.ip
                      \/ e.time # e.raw.time.at)
        /\ B[7][1] = (e.kind \notin {"login_success", "login_failed"} \/ e.kind # e.raw.kind)
    BY DEF SemanticChecks
  <2> HIDE DEF B
  <2>3. Passes(B) <=> /\ ~B[1][1] /\ ~B[2][1] /\ ~B[3][1] /\ ~B[4][1]
                      /\ ~B[5][1] /\ ~B[6][1] /\ ~B[7][1]
    BY <2>1 DEF Passes
  <2> QED
    BY <2>2, <2>3
<1>7. TimestampForm(e.utc)
  BY <1>1 DEF ValidEvent, IsRfc3339, TimestampForm
<1>8. ParsesJson(r) /\ r.form = "object"
  BY <1>1 DEF LineSound, ParsesJson, DecodesText, ParsesObject, ParsesString, ParsesNumber
<1>9. ~\E f \in {"endpoint_id", "timestamp", "event_type", "username", "source_ip"} : r[f] < 1
  BY <1>3
<1>10. ParsesDate(r.time) <=> r.time.offset <= 23
  BY <1>1 DEF LineSound, ReadsTime, ParsesDate
<1>11. Passes(A) <=> /\ r.event_id <= MaxName /\ r.endpoint_id <= MaxHost /\ r.time.at >= 0
                     /\ r.username <= MaxName /\ r.username + Prefix <= MaxMessage
  BY <1>2, <1>3, <1>5, <1>7 DEF Prefix
<1>12. Passes(B) <=> r.ip = "address" /\ r.time.offset <= 23
  BY <1>1, <1>2, <1>6, <1>8, <1>9, <1>10 DEF LineSound, IsIp
<1>13. (Outcome(A) = "ok" <=> Passes(A)) /\ (Outcome(B) = "ok" <=> Passes(B))
  BY <1>4, OutcomeOk
<1> QED
  BY <1>11, <1>12, <1>13 DEF WithinLimits

\* The identities of a batch differ if the places do.
LEMMA DistinctPlaces ==
  ASSUME NEW events \in Seq(Accepted)
  PROVE  DistinctIds(events) <=>
           \A i \in DOMAIN events : \A j \in 1..(i - 1) : events[i].start # events[j].start
<1> DEFINE n == Len(events)
           S == 1..n
           T == {e.id : e \in ToSet(events)}
           f == [i \in S |-> events[i].id]
<1>1. n \in Nat /\ DOMAIN events = S
  OBVIOUS
<1>2. \A i \in S : events[i].id = <<"source", events[i].start>>
  <2>1. SUFFICES ASSUME NEW i \in S PROVE events[i].id = <<"source", events[i].start>>
    OBVIOUS
  <2>2. events[i] \in Accepted
    BY <1>1
  <2> QED
    BY <2>2, AcceptedEvent DEF MapEvent
<1>3. f \in Surjection(S, T)
  <2>1. T = {events[i].id : i \in S}
    BY <1>1 DEF ToSet
  <2> QED
    BY <2>1 DEF Surjection
<1>4. IsFiniteSet(S) /\ Cardinality(S) = n
  <2> HIDE DEF n
  <2> QED
    BY <1>1, FS_Interval
<1>5. Cardinality(T) = n <=> f \in Injection(S, T)
  <2> HIDE DEF S, T, f, n
  <2> QED
    BY <1>3, <1>4, FS_Surjection
<1>6. f \in Injection(S, T) <=> \A i, j \in S : events[i].start = events[j].start => i = j
  <2>1. f \in [S -> T]
    BY <1>3 DEF Surjection
  <2>2. \A i, j \in S : f[i] = f[j] <=> events[i].start = events[j].start
    BY <1>2, SMTT(30)
  <2> HIDE DEF f, T, S
  <2>3. f \in Injection(S, T) <=> \A i, j \in S : f[i] = f[j] => i = j
    BY <2>1 DEF Injection, IsInjective
  <2> QED
    BY <2>2, <2>3
<1>7. (\A i, j \in S : events[i].start = events[j].start => i = j) <=>
      \A i \in S : \A j \in 1..(i - 1) : events[i].start # events[j].start
  <2>1. ASSUME \A i, j \in S : events[i].start = events[j].start => i = j, NEW i \in S, NEW j \in 1..(i - 1)
        PROVE  events[i].start # events[j].start
    <3>1. j \in S /\ i # j
      BY <1>1
    <3> QED
      BY <2>1, <3>1
  <2>2. ASSUME \A i \in S : \A j \in 1..(i - 1) : events[i].start # events[j].start,
               NEW i \in S, NEW j \in S, events[i].start = events[j].start
        PROVE  i = j
    <3>1. i \in 1..(j - 1) \/ j \in 1..(i - 1) \/ i = j
      BY <1>1
    <3> QED
      BY <2>2, <3>1
  <2> QED
    BY <2>1, <2>2
<1> QED
  BY <1>1, <1>5, <1>6, <1>7 DEF DistinctIds

-----------------------------------------------------------------------------
(* The backend's verdict.                                                  *)

\* What the backend says of a batch that the Collector could seal.
LEMMA VerifyAgrees ==
  ASSUME NEW doc, doc.intact \in BOOLEAN, Publishable(doc.events),
         doc = [Document(doc.events) EXCEPT !.intact = doc.intact]
  PROVE  Verify(doc) = "ok" <=>
           /\ doc.intact /\ doc.key \in Trusted
           /\ \A i \in DOMAIN doc.events :
                /\ WithinLimits(doc.events[i].raw)
                /\ \A j \in 1..(i - 1) : doc.events[i].start # doc.events[j].start
<1> DEFINE events == doc.events
           A == [i \in DOMAIN doc.events |-> SchemaChecks(doc.events[i])]
           B == [i \in DOMAIN doc.events |-> SemanticChecks(doc.events[i])]
           c == <<<<EncodedSize(doc.events) > MaxBatch, "too_large">>,
                  <<\E e \in ToSet(doc.events) : ~ParsesTree(e), "json">>,
                  <<~Known(doc), "untrusted">>,
                  <<~Authentic(doc), "hmac">>,
                  <<Len(doc.events) \notin 1..MaxEvents, "schema">>,
                  <<~EventsPass(A), "schema">>,
                  <<~DistinctIds(doc.events), "duplicate">>,
                  <<~EventsPass(B), "semantics">>>>
<1>1. /\ events \in Seq(Accepted) /\ Len(events) \in 1..MaxEvents
      /\ EncodedSize(events) \in Int /\ MaxBatch \in Int /\ EncodedSize(events) <= MaxBatch
  <2>1. events \in Seq(Accepted) /\ Len(events) \in 1..MaxEvents /\ EncodedSize(events) <= MaxBatch
    BY Zenon DEF Publishable
  <2>2. EncodedSize(events) \in Int
    BY <2>1, SizeOfMore, Zenon
  <2>3. MaxBatch \in Int
    BY ContractAssumption
  <2> QED  BY <2>1, <2>2, <2>3
<1>2. c \in Seq(Check)
  <2>1. <<EncodedSize(doc.events) > MaxBatch, "too_large">> \in Check
    <3> DEFINE p == EncodedSize(doc.events) > MaxBatch
    <3>1. p \in BOOLEAN
      BY <1>1
    <3> HIDE DEF p
    <3>2. <<p, "too_large">> \in Check
      BY <3>1 DEF Check, Reason
    <3> QED
      BY <3>2 DEF p
  <2>2. <<\E e \in ToSet(doc.events) : ~ParsesTree(e), "json">> \in Check
    BY DEF Check, Reason
  <2>3. <<~Known(doc), "untrusted">> \in Check
    BY DEF Check, Reason
  <2>4. <<~Authentic(doc), "hmac">> \in Check
    BY DEF Check, Reason
  <2>5. <<Len(doc.events) \notin 1..MaxEvents, "schema">> \in Check
    BY DEF Check, Reason
  <2>6. <<~EventsPass([i \in DOMAIN doc.events |-> SchemaChecks(doc.events[i])]), "schema">> \in Check
    BY DEF Check, Reason
  <2>7. <<~DistinctIds(doc.events), "duplicate">> \in Check
    BY DEF Check, Reason
  <2>8. <<~EventsPass([i \in DOMAIN doc.events |-> SemanticChecks(doc.events[i])]), "semantics">> \in Check
    BY DEF Check, Reason
  <2> QED
    BY <2>1, <2>2, <2>3, <2>4, <2>5, <2>6, <2>7, <2>8, ChecksAre
<1>3. Verify(doc) = Outcome(c)
  BY DEF Verify
<1>4. Outcome(c) = "ok" <=>
        /\ ~(EncodedSize(events) > MaxBatch) /\ ~\E e \in ToSet(events) : ~ParsesTree(e)
        /\ Known(doc) /\ Authentic(doc) /\ Len(events) \in 1..MaxEvents
        /\ EventsPass(A) /\ DistinctIds(events) /\ EventsPass(B)
  <2>1. DOMAIN c = {1, 2, 3, 4, 5, 6, 7, 8}
    OBVIOUS
  <2>2. /\ c[1][1] = (EncodedSize(events) > MaxBatch)
        /\ c[2][1] = (\E e \in ToSet(events) : ~ParsesTree(e))
        /\ c[3][1] = ~Known(doc) /\ c[4][1] = ~Authentic(doc)
        /\ c[5][1] = (Len(events) \notin 1..MaxEvents)
        /\ c[6][1] = ~EventsPass(A) /\ c[7][1] = ~DistinctIds(events) /\ c[8][1] = ~EventsPass(B)
    OBVIOUS
  <2> HIDE DEF c, A, B, events
  <2>3. Passes(c) <=> /\ ~c[1][1] /\ ~c[2][1] /\ ~c[3][1] /\ ~c[4][1]
                      /\ ~c[5][1] /\ ~c[6][1] /\ ~c[7][1] /\ ~c[8][1]
    BY <2>1 DEF Passes
  <2>4. Outcome(c) = "ok" <=> Passes(c)
    BY <1>2, OutcomeOk
  <2> QED
    BY <2>2, <2>3, <2>4
<1>5. ~\E e \in ToSet(events) : ~ParsesTree(e)
  <2>1. \A e \in Accepted : ParsesTree(e)
    BY AcceptedEvent DEF ValidEvent, TreeFits, ParsesTree
  <2>2. ToSet(events) \subseteq Accepted
    BY <1>1 DEF ToSet
  <2> QED
    BY <2>1, <2>2
<1>6. Authentic(doc) <=> doc.intact
  <2>1. doc.key = key /\ doc.signature = <<key, Canonical(events)>>
    BY DEF Document
  <2>2. Recanonical(events) = Canonical(events)
    BY DEF Recanonical, Canonical, AppendNumber
  <2> QED
    BY <2>1, <2>2 DEF Authentic
<1>7. EventsPass(A) /\ EventsPass(B) <=> \A i \in DOMAIN events : WithinLimits(events[i].raw)
  <2>1. EventsPass(A) <=> \A i \in DOMAIN events : Outcome(SchemaChecks(events[i])) = "ok"
    BY EventsPassAll
  <2>2. EventsPass(B) <=> \A i \in DOMAIN events : Outcome(SemanticChecks(events[i])) = "ok"
    BY EventsPassAll
  <2>3. \A i \in DOMAIN events : events[i] \in Accepted
    BY <1>1
  <2> HIDE DEF A, B, events
  <2> QED
    BY <2>1, <2>2, <2>3, EventAgrees
<1>8. DistinctIds(events) <=>
        \A i \in DOMAIN events : \A j \in 1..(i - 1) : events[i].start # events[j].start
  BY <1>1, DistinctPlaces
<1>9. ~(EncodedSize(events) > MaxBatch)
  BY <1>1
<1> HIDE DEF A, B, c
<1> QED
  BY <1>1, <1>3, <1>4, <1>5, <1>6, <1>7, <1>8, <1>9 DEF Known

\* Which verdicts are sound, agree.
LEMMA SoundVerdictsAgree ==
  ASSUME VerdictSound
  PROVE  VerdictsAgree
<1>1. SUFFICES ASSUME NEW v \in ToSet(verdict)
               PROVE  v.says = "ok" <=>
                        /\ v.doc.intact /\ v.doc.key \in Trusted
                        /\ \A i \in DOMAIN v.doc.events :
                             /\ WithinLimits(v.doc.events[i].raw)
                             /\ \A j \in 1..(i - 1) : v.doc.events[i].start # v.doc.events[j].start
  BY DEF VerdictsAgree
<1> DEFINE doc == v.doc
<1>2. /\ doc.intact \in BOOLEAN /\ Publishable(doc.events)
      /\ doc = [Document(doc.events) EXCEPT !.intact = doc.intact]
  BY DEF VerdictSound
<1>3. v.says = Verify(doc)
  BY DEF VerdictSound
<1> HIDE DEF doc
<1>4. Verify(doc) = "ok" <=>
        /\ doc.intact /\ doc.key \in Trusted
        /\ \A i \in DOMAIN doc.events :
             /\ WithinLimits(doc.events[i].raw)
             /\ \A j \in 1..(i - 1) : doc.events[i].start # doc.events[j].start
  BY <1>2, VerifyAgrees
<1> QED
  BY <1>3, <1>4 DEF doc

-----------------------------------------------------------------------------
(* The steps.                                                              *)

\* What try_add says of an event of a line that passed the reader and the mapper.
LEMMA TryAddSays ==
  ASSUME BatchOpen, NEW r \in Line, NEW n \in 0..MaxLines,
         Outcome(ReaderChecks(r) \o MapperChecks(r)) = "ok"
  PROVE  LET e == MapEvent(r, n) IN
           /\ TryAdd(e) = "ok" =>
                /\ e \in Accepted /\ Len(batch) < MaxEvents
                /\ size + Contribution(e) + FramingGrowth(Len(batch)) <= MaxBatch
           /\ TryAdd(e) = "flush_required" =>
                e \in Accepted /\ Contribution(e) <= MaxBatch - EmptySize
<1> DEFINE e == MapEvent(r, n)
           c == <<<<~ValidEvent(e), "ocsf_validation_failed">>,
                  <<Contribution(e) > MaxBatch - EmptySize, "record_too_large">>,
                  <<Len(batch) >= MaxEvents, "flush_required">>,
                  <<FramingGrowth(Len(batch)) + Contribution(e) > MaxBatch - size, "flush_required">>>>
<1>1. e.raw = r
  BY DEF MapEvent
<1>2. ValidEvent(e) => e \in Accepted
  BY <1>1 DEF Accepted
<1>3. Contribution(e) \in Nat
  BY <1>1, ContractAssumption DEF Contribution
<1>4. /\ EmptySize \in Nat /\ MaxBatch \in Nat /\ size \in Int
      /\ Len(batch) \in Nat /\ MaxEvents \in Nat /\ FramingGrowth(Len(batch)) \in Int
  <2>1. Len(batch) \in Nat /\ Len(batch) + 1 \in Nat
    BY DEF BatchOpen
  <2>2. FramingGrowth(Len(batch)) \in Int
    <3>1. DecimalDigits(Len(batch)) \in Nat /\ DecimalDigits(Len(batch) + 1) \in Nat
      BY <2>1, Digits
    <3> QED
      BY <3>1 DEF FramingGrowth
  <2> QED
    BY <2>1, <2>2, SizeOfMore, ContractAssumption DEF BatchOpen, SizeExact
<1>5. c \in Seq(Check)
  <2> DEFINE p == Contribution(e) > MaxBatch - EmptySize
             q == Len(batch) >= MaxEvents
             u == FramingGrowth(Len(batch)) + Contribution(e) > MaxBatch - size
  <2>1. p \in BOOLEAN /\ q \in BOOLEAN /\ u \in BOOLEAN
    BY <1>3, <1>4
  <2> HIDE DEF p, q, u
  <2>2. /\ <<~ValidEvent(e), "ocsf_validation_failed">> \in Check
        /\ <<p, "record_too_large">> \in Check
        /\ <<q, "flush_required">> \in Check /\ <<u, "flush_required">> \in Check
    BY <2>1 DEF Check, Reason, LineReason
  <2> QED
    BY <2>2, ChecksAre DEF p, q, u
<1>6. TryAdd(e) = Outcome(c)
  BY DEF TryAdd
<1>7. /\ DOMAIN c = {1, 2, 3, 4}
      /\ c[1][1] = ~ValidEvent(e) /\ c[2][1] = (Contribution(e) > MaxBatch - EmptySize)
      /\ c[3][1] = (Len(batch) >= MaxEvents)
      /\ c[4][1] = (FramingGrowth(Len(batch)) + Contribution(e) > MaxBatch - size)
      /\ c[1][2] = "ocsf_validation_failed" /\ c[2][2] = "record_too_large"
  OBVIOUS
<1> HIDE DEF c, e
<1>8. Outcome(c) = "ok" => ~c[1][1] /\ ~c[2][1] /\ ~c[3][1] /\ ~c[4][1]
  BY <1>5, <1>7, OutcomeOk DEF Passes
<1>9. Outcome(c) = "flush_required" => ~c[1][1] /\ ~c[2][1]
  <2>1. SUFFICES ASSUME Outcome(c) = "flush_required"
                 PROVE  ~c[1][1] /\ ~c[2][1]
    OBVIOUS
  <2>2. PICK i \in DOMAIN c : /\ Outcome(c) = c[i][2]
                              /\ \A j \in DOMAIN c : j < i => ~c[j][1]
    BY <1>5, <2>1, OutcomeIs
  <2>3. i \in {3, 4}
    BY <1>7, <2>1, <2>2
  <2>4. 1 \in DOMAIN c /\ 2 \in DOMAIN c /\ 1 < i /\ 2 < i
    BY <1>7, <2>3
  <2> QED
    BY <2>2, <2>4
<1>10. ASSUME TryAdd(e) = "ok"
       PROVE  /\ e \in Accepted /\ Len(batch) < MaxEvents
              /\ size + Contribution(e) + FramingGrowth(Len(batch)) <= MaxBatch
  <2>1. ~c[1][1] /\ ~c[2][1] /\ ~c[3][1] /\ ~c[4][1]
    BY <1>6, <1>8, <1>10
  <2>2. ValidEvent(e) /\ ~(Len(batch) >= MaxEvents)
        /\ ~(FramingGrowth(Len(batch)) + Contribution(e) > MaxBatch - size)
    BY <1>7, <2>1
  <2> QED
    BY <1>2, <1>3, <1>4, <2>2
<1>11. ASSUME TryAdd(e) = "flush_required"
       PROVE  e \in Accepted /\ Contribution(e) <= MaxBatch - EmptySize
  <2>1. ~c[1][1] /\ ~c[2][1]
    BY <1>6, <1>9, <1>11
  <2>2. ValidEvent(e) /\ ~(Contribution(e) > MaxBatch - EmptySize)
    BY <1>7, <2>1
  <2> QED
    BY <1>2, <1>3, <1>4, <2>2
<1> QED
  BY <1>10, <1>11 DEF e

\* An event for which there is room leaves the batch open.
LEMMA AddedKeeps ==
  ASSUME BatchOpen, NEW e \in Accepted, Len(batch) < MaxEvents,
         size + Contribution(e) + FramingGrowth(Len(batch)) <= MaxBatch,
         Added(e)
  PROVE  BatchOpen'
<1>1. /\ batch' = Append(batch, e)
      /\ size' = size + Contribution(e) + FramingGrowth(Len(batch))
  BY DEF Added
<1>2. batch' \in Seq(Accepted) /\ Len(batch') = Len(batch) + 1 /\ Len(batch) \in Nat
  BY <1>1 DEF BatchOpen
<1>3. EncodedSize(batch') = size'
  BY <1>1, SizeOfMore DEF BatchOpen, SizeExact
<1>4. size' <= MaxBatch
  BY <1>1
<1>5. Len(batch') <= MaxEvents
  BY <1>2, ContractAssumption
<1> QED
  BY <1>2, <1>3, <1>4, <1>5 DEF BatchOpen, SizeExact

\* An empty batch is open.
LEMMA EmptyIsOpen ==
  /\ batch = <<>> /\ size = EmptySize => BatchOpen
  /\ batch' = <<>> /\ size' = EmptySize => BatchOpen'
<1>1. <<>> \in Seq(Accepted) /\ Len(<<>>) <= MaxEvents
  BY ContractAssumption
<1>2. EmptySize = EncodedSize(<<>>) /\ EmptySize <= MaxBatch
  BY SizeOfMore
<1> QED
  BY <1>1, <1>2 DEF BatchOpen, SizeExact

\* A batch that is not empty may be sealed.
LEMMA FlushedKeeps ==
  ASSUME BatchOpen, batch # <<>>, Flushed, key' = key
  PROVE  BatchOpen' /\ SealedSound' /\ VerdictSound'
<1>1. /\ sealed' = <<Document(batch)>> /\ verdict' = None
      /\ batch' = <<>> /\ size' = EmptySize
  BY DEF Flushed
<1>2. Publishable(batch)
  <2>1. Len(batch) \in Nat /\ Len(batch) # 0
    BY DEF BatchOpen
  <2> QED
    BY <2>1, ContractAssumption DEF BatchOpen, SizeExact, Publishable
<1>3. sealed'[1].events = batch /\ Document(sealed'[1].events) = Document(batch)
  BY <1>1 DEF Document
<1>4. SealedSound'
  BY <1>1, <1>2, <1>3 DEF SealedSound, Document
<1>5. BatchOpen'
  BY <1>1, EmptyIsOpen
<1>6. VerdictSound'
  BY <1>1 DEF VerdictSound, ToSet, None
<1> QED
  BY <1>4, <1>5, <1>6

\* What is not touched stays sound.
LEMMA SealedKeeps ==
  ASSUME SealedSound, UNCHANGED <<key, sealed>>
  PROVE  SealedSound'
BY DEF SealedSound, Document

LEMMA VerdictKeeps ==
  ASSUME VerdictSound, UNCHANGED <<key, verdict>>
  PROVE  VerdictSound'
BY DEF VerdictSound, Document

LEMMA ContractInitial == ContractInit => ContractInv
<1>1. SUFFICES ASSUME ContractInit PROVE ContractInv
  OBVIOUS
<1>2. BatchOpen
  BY <1>1, EmptyIsOpen DEF ContractInit
<1>3. ContractTyped
  BY <1>1, ContractAssumption DEF ContractInit, ContractTyped
<1>4. DeferredFits /\ SealedSound
  BY <1>1 DEF ContractInit, DeferredFits, SealedSound
<1>5. VerdictSound
  BY <1>1 DEF ContractInit, VerdictSound, ToSet, None
<1> QED
  BY <1>2, <1>3, <1>4, <1>5 DEF ContractInv

\* Each step keeps the invariant.
LEMMA TakeLineKeeps ==
  ASSUME ContractInv, NEW r \in Line, TakeLine(r)
  PROVE  ContractInv'
<1> DEFINE e == MapEvent(r, offset)
           reason == Outcome(ReaderChecks(r) \o MapperChecks(r))
           added == IF reason = "ok" THEN TryAdd(e) ELSE reason
<1>1. /\ read < MaxLines /\ deferred = None /\ sealed = None
      /\ read' = read + 1 /\ offset' = offset + 1 /\ key' = key
  BY DEF TakeLine
<1>2. /\ key \in Key /\ read \in 0..MaxLines /\ offset \in 0..read /\ MaxLines \in Nat
      /\ BatchOpen /\ VerdictSound
  BY ContractAssumption DEF ContractInv, ContractTyped
<1>3. ContractTyped'
  BY <1>1, <1>2 DEF ContractTyped
<1>4. /\ added = "ok" => Added(e) /\ UNCHANGED <<deferred, sealed, verdict>>
      /\ added = "flush_required" => deferred' = <<e>> /\ UNCHANGED <<batch, size, sealed, verdict>>
      /\ added # "ok" /\ added # "flush_required" =>
           IF batch = <<>> THEN UNCHANGED <<batch, size, deferred, sealed, verdict>>
           ELSE Flushed /\ UNCHANGED deferred
  BY DEF TakeLine
<1>5. reason # "flush_required"
  BY AcceptedLine
<1>6. offset \in 0..MaxLines
  BY <1>2
<1>7. /\ added = "ok" =>
           /\ e \in Accepted /\ Len(batch) < MaxEvents
           /\ size + Contribution(e) + FramingGrowth(Len(batch)) <= MaxBatch
      /\ added = "flush_required" => e \in Accepted /\ Contribution(e) <= MaxBatch - EmptySize
  BY <1>2, <1>5, <1>6, TryAddSays
<1> HIDE DEF e, added, reason
<1>8. CASE added = "ok"
  <2>1. BatchOpen'
    BY <1>2, <1>4, <1>7, <1>8, AddedKeeps
  <2>2. VerdictSound' /\ SealedSound'
    BY <1>1, <1>2, <1>4, <1>8, VerdictKeeps, SealedKeeps DEF SealedSound
  <2>3. DeferredFits'
    BY <1>1, <1>4, <1>8 DEF DeferredFits
  <2> QED
    BY <1>3, <2>1, <2>2, <2>3 DEF ContractInv
<1>9. CASE added = "flush_required"
  <2>1. BatchOpen'
    BY <1>2, <1>4, <1>9 DEF BatchOpen, SizeExact
  <2>2. VerdictSound' /\ SealedSound'
    BY <1>1, <1>2, <1>4, <1>9, VerdictKeeps, SealedKeeps DEF SealedSound
  <2>3. DeferredFits'
    BY <1>4, <1>7, <1>9 DEF DeferredFits
  <2> QED
    BY <1>3, <2>1, <2>2, <2>3 DEF ContractInv
<1>10. CASE added # "ok" /\ added # "flush_required" /\ batch = <<>>
  <2>1. BatchOpen'
    BY <1>2, <1>4, <1>10 DEF BatchOpen, SizeExact
  <2>2. VerdictSound' /\ SealedSound'
    BY <1>1, <1>2, <1>4, <1>10, VerdictKeeps, SealedKeeps DEF SealedSound
  <2>3. DeferredFits'
    BY <1>1, <1>4, <1>10 DEF DeferredFits
  <2> QED
    BY <1>3, <2>1, <2>2, <2>3 DEF ContractInv
<1>11. CASE added # "ok" /\ added # "flush_required" /\ batch # <<>>
  <2>1. BatchOpen' /\ SealedSound' /\ VerdictSound'
    BY <1>1, <1>2, <1>4, <1>11, FlushedKeeps
  <2>2. DeferredFits'
    BY <1>1, <1>4, <1>11 DEF DeferredFits
  <2> QED
    BY <1>3, <2>1, <2>2 DEF ContractInv
<1> QED
  BY <1>8, <1>9, <1>10, <1>11

LEMMA AddDeferredKeeps ==
  ASSUME ContractInv, AddDeferred
  PROVE  ContractInv'
<1>1. /\ deferred # None /\ batch = <<>> /\ Added(deferred[1]) /\ deferred' = None
      /\ UNCHANGED <<key, offset, read, sealed, verdict>>
  BY DEF AddDeferred
<1>2. deferred[1] \in Accepted /\ Contribution(deferred[1]) <= MaxBatch - EmptySize
  BY <1>1 DEF ContractInv, DeferredFits
<1>3. /\ size = EmptySize /\ Len(batch) = 0 /\ EmptySize \in Nat
      /\ Contribution(deferred[1]) \in Nat /\ MaxBatch \in Nat /\ MaxEvents \in Nat \ {0}
  BY <1>1, <1>2, SizeOfMore, ContractAssumption DEF ContractInv, BatchOpen, SizeExact
<1>4. FramingGrowth(0) = 0
  <2>1. DecimalDigits(0) = 1 /\ DecimalDigits(0 + 1) = 1
    <3>1. Radix \in Nat /\ 1 < Radix /\ 0 < Radix /\ 0 + 1 = 1
      BY ContractAssumption
    <3> QED
      BY <3>1, Digits
  <2> QED
    BY <2>1 DEF FramingGrowth
<1>5. BatchOpen'
  BY <1>1, <1>2, <1>3, <1>4, AddedKeeps DEF ContractInv
<1>6. VerdictSound' /\ SealedSound'
  BY <1>1, VerdictKeeps, SealedKeeps DEF ContractInv
<1>7. DeferredFits' /\ ContractTyped'
  BY <1>1 DEF ContractInv, DeferredFits, ContractTyped
<1> QED
  BY <1>5, <1>6, <1>7 DEF ContractInv

LEMMA DeliverKeeps ==
  ASSUME ContractInv, Deliver
  PROVE  ContractInv'
<1>1. /\ sealed # None /\ sealed' = None
      /\ UNCHANGED <<key, offset, read, batch, size, deferred>>
  BY DEF Deliver
<1>2. PICK intact \in BOOLEAN :
        verdict' = <<[doc |-> [sealed[1] EXCEPT !.intact = intact],
                      says |-> Verify([sealed[1] EXCEPT !.intact = intact])]>>
  BY DEF Deliver
<1> DEFINE events == sealed[1].events
           doc == [sealed[1] EXCEPT !.intact = intact]
<1>3. sealed[1] = Document(events) /\ Publishable(events)
  BY <1>1 DEF ContractInv, SealedSound
<1>4. doc = [Document(events) EXCEPT !.intact = intact]
  BY <1>3
<1>5. doc.events = events /\ doc.intact = intact
  BY <1>4 DEF Document
<1> HIDE DEF doc, events
<1>6. VerdictSound'
  <2>1. SUFFICES ASSUME NEW v \in ToSet(verdict')
                 PROVE  /\ v.doc.intact \in BOOLEAN /\ Publishable(v.doc.events)
                        /\ v.doc = [Document(v.doc.events) EXCEPT !.intact = v.doc.intact]
                        /\ v.says = Verify(v.doc)
    BY <1>1 DEF VerdictSound, Document
  <2>2. v = [doc |-> doc, says |-> Verify(doc)]
    BY <1>2 DEF ToSet, doc
  <2>3. v.doc = doc /\ v.says = Verify(doc)
    BY <2>2
  <2> QED
    BY <1>3, <1>4, <1>5, <2>3
<1>7. ContractTyped' /\ BatchOpen' /\ DeferredFits' /\ SealedSound'
  BY <1>1 DEF ContractInv, ContractTyped, BatchOpen, SizeExact, DeferredFits, SealedSound
<1> QED
  BY <1>6, <1>7 DEF ContractInv

LEMMA ContractStep ==
  ASSUME ContractInv, [ContractNext]_contractVars
  PROVE  ContractInv'
<1>1. CASE Flush
  <2>1. batch # <<>> /\ Flushed /\ UNCHANGED <<key, offset, read, deferred>>
    BY <1>1 DEF Flush
  <2>2. BatchOpen' /\ SealedSound' /\ VerdictSound'
    BY <2>1, FlushedKeeps DEF ContractInv
  <2>3. DeferredFits' /\ ContractTyped'
    BY <2>1 DEF ContractInv, DeferredFits, ContractTyped
  <2> QED
    BY <2>2, <2>3 DEF ContractInv
<1>2. CASE Rewritten
  <2>1. offset' = 0 /\ UNCHANGED <<key, read, batch, size, deferred, sealed, verdict>>
    BY <1>2 DEF Rewritten
  <2>2. SealedSound' /\ VerdictSound'
    BY <2>1, SealedKeeps, VerdictKeeps DEF ContractInv
  <2>3. BatchOpen' /\ DeferredFits' /\ ContractTyped'
    BY <2>1 DEF ContractInv, BatchOpen, SizeExact, DeferredFits, ContractTyped
  <2> QED
    BY <2>2, <2>3 DEF ContractInv
<1>3. CASE UNCHANGED contractVars
  <2>1. UNCHANGED <<key, offset, read, batch, size, deferred, sealed, verdict>>
    BY <1>3 DEF contractVars
  <2>2. SealedSound' /\ VerdictSound'
    BY <2>1, SealedKeeps, VerdictKeeps DEF ContractInv
  <2>3. BatchOpen' /\ DeferredFits' /\ ContractTyped'
    BY <2>1 DEF ContractInv, BatchOpen, SizeExact, DeferredFits, ContractTyped
  <2> QED
    BY <2>2, <2>3 DEF ContractInv
<1> QED
  BY <1>1, <1>2, <1>3, TakeLineKeeps, AddDeferredKeeps, DeliverKeeps DEF ContractNext

\* The invariant of the contract: every batch that is open, waits to be read or
\* was judged is made of lines that passed every check of the Collector, and has
\* the size that was added up.
THEOREM ContractSound == ContractSpec => []ContractInv
BY ContractInitial, ContractStep, PTL DEF ContractSpec

\* The backend (verify-collector-message.service.ts) believes a batch exactly if
\* it comes as it was signed with a key it knows and keeps the limits that only
\* the backend has, and BatchAssembler::try_add counts the size that
\* serialization.cpp writes: for any lines, limits, keys and number base.
THEOREM ContractAlwaysAgrees == ContractSpec => []ContractAgrees
<1>1. ContractInv => ContractAgrees
  BY SoundVerdictsAgree DEF ContractInv, ContractAgrees, BatchOpen
<1> QED
  BY <1>1, ContractSound, PTL
=============================================================================
