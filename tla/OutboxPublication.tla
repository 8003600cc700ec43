-------------------------- MODULE OutboxPublication -------------------------
(***************************************************************************)
(* The durable half of the Collector: OutboxPublisher,                     *)
(* RejectedEventPublisher and CheckpointStore, one file operation per      *)
(* step, with a failing operation or a crash between any two, the restart  *)
(* that recovers from what is on disk, and the backend that claims what    *)
(* became visible in the meantime.                                         *)
(*                                                                         *)
(* A publication is a signed batch or a signed rejection.  Both are        *)
(* written to a private directory first (outbox/ or pending/), then linked *)
(* into a final directory (incoming/ or records/), then the checkpoint is  *)
(* committed, then the private copy is removed.  A batch also has a        *)
(* recovery manifest next to its private copy.                             *)
(*                                                                         *)
(* A record of a source is known by its offset, counted in records.  The   *)
(* content of a source file from its creation (or truncation) on is an     *)
(* incarnation; the code sees only the file identity (device and inode),   *)
(* which a rotation changes and a truncation in place keeps.  The fields   *)
(* `inc' below are there to state properties; no guard reads them.         *)
(***************************************************************************)
EXTENDS Integers, FiniteSets

CONSTANTS
  Source,        \* the enabled file_drop sources
  MaxLen,        \* bound: records in one incarnation of a file
  MaxInc,        \* bound: incarnations of a file
  MaxId,         \* bound: publication identifiers drawn
  MaxFaults,     \* bound: failed file operations and crashes
  OutboxLimit    \* outbox.maximum_batches

ASSUME BoundsAssumption ==
  /\ MaxLen \in Nat /\ MaxInc \in Nat \ {0} /\ MaxId \in Nat
  /\ MaxFaults \in Nat /\ OutboxLimit \in Nat \ {0}

VARIABLES
  inc, ident, len,  \* source -> incarnation, file identity, number of records
  phase,            \* "down", "recovering" (start) or "running"
  read,             \* source -> offset the reader reached in this incarnation
  work,             \* the publication in progress: pending_batch_/_rejection_
  pc,               \* its next file operation
  nextId,           \* identifiers drawn so far
  sealed,           \* private copies in outbox/ and pending/
  manifest,         \* recovery manifests in outbox/
  tmp,              \* id -> the temporary file next to its final path
  visible,          \* final files in incoming/ and records/
  claimed,          \* batches whose file the backend moved to processing/
  torn,             \* ids whose already visible inode is truncated right now
  ckpt,             \* source -> committed position
  delivered,        \* records that became visible, ever
  copies,           \* number of times a final file was made visible
  faults            \* failures and crashes so far

sourceVars == <<inc, ident, len>>
diskVars == <<sealed, manifest, tmp, visible, claimed, torn, ckpt>>
historyVars == <<delivered, copies>>
vars == <<sourceVars, phase, read, work, pc, nextId, diskVars, historyVars, faults>>

Id == 1..MaxId
Record == Source \X (1..MaxInc) \X (1..MaxLen)
Kind == {"batch", "rejection"}

Publication ==
  [id : Id, kind : Kind, ident : [Source -> 1..MaxInc], inc : [Source -> 1..MaxInc],
   from : [Source -> 0..MaxLen], to : [Source -> 0..MaxLen]]

NoWork == [id |-> 0]

\* Where a publication has records of source s.
Touches(b, s) == b.from[s] < b.to[s]

RecordsOf(b) ==
  {r \in Record : /\ r[2] = b.inc[r[1]]
                  /\ b.from[r[1]] < r[3] /\ r[3] <= b.to[r[1]]}

Position == [ident : 0..MaxInc, inc : 0..MaxInc, end : 0..MaxLen]

Steps == {"idle", "seal", "manifest", "inspect", "open", "write", "link",
          "unlink", "commit", "rmManifest", "rmSealed", "done"}

TypeOK ==
  /\ inc \in [Source -> 1..MaxInc] /\ ident \in [Source -> 1..MaxInc]
  /\ len \in [Source -> 0..MaxLen]
  /\ phase \in {"down", "recovering", "running"}
  /\ read \in [Source -> 0..MaxLen]
  /\ work \in Publication \cup {NoWork}
  /\ pc \in Steps
  /\ nextId \in 0..MaxId
  /\ sealed \subseteq Publication /\ manifest \subseteq Publication
  /\ tmp \in [Id -> {"none", "torn", "full", "linked"}]
  /\ visible \subseteq Publication /\ claimed \subseteq Publication
  /\ torn \subseteq Id
  /\ ckpt \in [Source -> Position]
  /\ delivered \subseteq Record
  /\ copies \in Nat /\ faults \in 0..MaxFaults

Init ==
  /\ inc = [s \in Source |-> 1] /\ ident = [s \in Source |-> 1]
  /\ len = [s \in Source |-> 0]
  /\ phase = "down" /\ read = [s \in Source |-> 0]
  /\ work = NoWork /\ pc = "idle" /\ nextId = 0
  /\ sealed = {} /\ manifest = {} /\ tmp = [i \in Id |-> "none"]
  /\ visible = {} /\ claimed = {} /\ torn = {}
  /\ ckpt = [s \in Source |-> [ident |-> 0, inc |-> 0, end |-> 0]]
  /\ delivered = {} /\ copies = 0 /\ faults = 0

-----------------------------------------------------------------------------
(* The writers of the source files.                                        *)

Append(s) ==
  /\ len[s] < MaxLen
  /\ len' = [len EXCEPT ![s] = @ + 1]
  /\ UNCHANGED <<inc, ident, phase, read, work, pc, nextId, diskVars, historyVars, faults>>

\* A new content replaces the old one; the reader starts it from its first
\* byte at the next poll.
Replace(s, newIdent) ==
  /\ inc[s] < MaxInc
  /\ inc' = [inc EXCEPT ![s] = @ + 1]
  /\ ident' = [ident EXCEPT ![s] = newIdent]
  /\ len' = [len EXCEPT ![s] = 0]
  /\ read' = [read EXCEPT ![s] = 0]
  /\ UNCHANGED <<phase, work, pc, nextId, diskVars, historyVars, faults>>

Rotate(s) == Replace(s, inc[s] + 1)
TruncateInPlace(s) == Replace(s, ident[s])

-----------------------------------------------------------------------------
(* The runtime above the publishers: at most one publication is in flight, *)
(* it covers the next records of the sources, and it is kept and retried   *)
(* until it succeeds.                                                      *)

Form(kind, to) ==
  LET b == [id |-> nextId + 1, kind |-> kind, ident |-> ident, inc |-> inc,
            from |-> read, to |-> to]
  IN /\ phase = "running" /\ work = NoWork /\ nextId < MaxId
     /\ nextId' = nextId + 1
     /\ work' = b
     /\ read' = to
     /\ UNCHANGED <<sourceVars, phase, pc, diskVars, historyVars, faults>>

FormBatch ==
  \E to \in [Source -> 0..MaxLen] :
    /\ \A s \in Source : read[s] <= to[s] /\ to[s] <= len[s]
    /\ to # read
    /\ Form("batch", to)

FormRejection ==
  \E s \in Source : read[s] < len[s] /\ Form("rejection", [read EXCEPT ![s] = @ + 1])

\* inspect_usage: the batches that wait in the outbox; their bytes are left out.
HasRoom == Cardinality({b \in sealed : b.kind = "batch"}) < OutboxLimit

\* publish_signed, both publishers: continue from the sealed copy if there is
\* one, otherwise seal unless the outbox is full.
PublishSigned ==
  /\ phase = "running" /\ work # NoWork /\ pc = "idle"
  /\ \/ work \in sealed \/ work.kind = "rejection"
     \/ HasRoom
  /\ pc' = IF work \notin sealed THEN "seal"
           ELSE IF work.kind = "batch" THEN "manifest" ELSE "inspect"
  /\ UNCHANGED <<sourceVars, phase, read, work, nextId, diskVars, historyVars, faults>>

-----------------------------------------------------------------------------
(* The file operations.  Each is durable when it returns (fsync of the     *)
(* file and of its directory).                                             *)

diskOp == UNCHANGED <<sourceVars, phase, read, work, nextId, faults>>

Seal ==
  /\ pc = "seal"
  /\ sealed' = sealed \cup {work}
  /\ pc' = IF work.kind = "batch" THEN "manifest" ELSE "inspect"
  /\ UNCHANGED <<manifest, tmp, visible, claimed, torn, ckpt, historyVars>>
  /\ diskOp

EnsureManifest ==
  /\ pc = "manifest"
  /\ manifest' = manifest \cup {work}
  /\ pc' = "inspect"
  /\ UNCHANGED <<sealed, tmp, visible, claimed, torn, ckpt, historyVars>>
  /\ diskOp

\* Mutant: a leftover temporary file is taken for the final one.
InspectFinalByTemporary ==
  /\ pc = "inspect"
  /\ pc' = IF work \in visible \/ tmp[work.id] # "none" THEN "commit" ELSE "open"
  /\ UNCHANGED <<diskVars, historyVars>>
  /\ diskOp

\* An equal final file means an earlier attempt got this far.
InspectFinal ==
  /\ pc = "inspect"
  /\ pc' = IF work \in visible THEN "commit" ELSE "open"
  /\ UNCHANGED <<diskVars, historyVars>>
  /\ diskOp

\* open(O_TRUNC) of the temporary path.  If an earlier attempt linked the
\* temporary to the final name and never unlinked it, the two names are one
\* inode, and the backend may hold it by now.
OpenTemporary ==
  /\ pc = "open"
  /\ IF tmp[work.id] = "linked"
     THEN /\ torn' = torn \cup {work.id}
          /\ UNCHANGED tmp
     ELSE /\ tmp' = [tmp EXCEPT ![work.id] = "torn"]
          /\ UNCHANGED torn
  /\ pc' = "write"
  /\ UNCHANGED <<sealed, manifest, visible, claimed, ckpt, historyVars>>
  /\ diskOp

WriteTemporary ==
  /\ pc = "write"
  /\ IF tmp[work.id] = "linked"
     THEN /\ torn' = torn \ {work.id}
          /\ UNCHANGED tmp
     ELSE /\ tmp' = [tmp EXCEPT ![work.id] = "full"]
          /\ UNCHANGED torn
  /\ pc' = "link"
  /\ UNCHANGED <<sealed, manifest, visible, claimed, ckpt, historyVars>>
  /\ diskOp

\* link(2): the publication becomes visible.
LinkFinal ==
  /\ pc = "link"
  /\ visible' = visible \cup {work}
  /\ delivered' = delivered \cup RecordsOf(work)
  /\ copies' = copies + 1
  /\ tmp' = [tmp EXCEPT ![work.id] = "linked"]
  /\ pc' = "unlink"
  /\ UNCHANGED <<sealed, manifest, claimed, torn, ckpt>>
  /\ diskOp

UnlinkTemporary ==
  /\ pc = "unlink"
  /\ tmp' = [tmp EXCEPT ![work.id] = "none"]
  /\ pc' = "commit"
  /\ UNCHANGED <<sealed, manifest, visible, claimed, torn, ckpt, historyVars>>
  /\ diskOp

Regresses(previous, next) ==
  previous.ident = next.ident /\ next.end < previous.end

PositionFor(b, s) == [ident |-> b.ident[s], inc |-> b.inc[s], end |-> b.to[s]]

Accepted(b) ==
  \A s \in Source : Touches(b, s) => ~Regresses(ckpt[s], PositionFor(b, s))

\* Mutant: a failed publication is forgotten instead of kept for the retry.
ThrowForgets ==
  /\ pc' = "idle" /\ work' = NoWork
  /\ phase' = IF phase = "recovering" THEN "down" ELSE phase
  /\ UNCHANGED <<sourceVars, read, nextId, diskVars, historyVars>>

\* An exception: the runtime keeps the publication for the next poll; start
\* lets it escape and the process exits.
Throw ==
  /\ pc' = "idle"
  /\ IF phase = "recovering"
     THEN phase' = "down" /\ work' = NoWork
     ELSE UNCHANGED <<phase, work>>
  /\ UNCHANGED <<sourceVars, read, nextId, diskVars, historyVars>>

\* Mutant: the new checkpoint holds the sources of this batch only.
CommitCheckpointForgetsOthers ==
  /\ pc = "commit"
  /\ IF Accepted(work)
     THEN /\ ckpt' = [s \in Source |->
                        IF Touches(work, s) THEN PositionFor(work, s)
                        ELSE [ident |-> 0, inc |-> 0, end |-> 0]]
          /\ pc' = IF work.kind = "batch" THEN "rmManifest" ELSE "rmSealed"
          /\ UNCHANGED <<sealed, manifest, tmp, visible, claimed, torn, historyVars>>
          /\ diskOp
     ELSE Throw /\ UNCHANGED faults

CommitCheckpoint ==
  /\ pc = "commit"
  /\ IF Accepted(work)
     THEN /\ ckpt' = [s \in Source |->
                        IF Touches(work, s) THEN PositionFor(work, s) ELSE ckpt[s]]
          /\ pc' = IF work.kind = "batch" THEN "rmManifest" ELSE "rmSealed"
          /\ UNCHANGED <<sealed, manifest, tmp, visible, claimed, torn, historyVars>>
          /\ diskOp
     ELSE Throw /\ UNCHANGED faults

RemoveManifest ==
  /\ pc = "rmManifest"
  /\ manifest' = manifest \ {work}
  /\ pc' = "rmSealed"
  /\ UNCHANGED <<sealed, tmp, visible, claimed, torn, ckpt, historyVars>>
  /\ diskOp

RemoveSealed ==
  /\ pc = "rmSealed"
  /\ sealed' = sealed \ {work}
  /\ pc' = "done"
  /\ UNCHANGED <<manifest, tmp, visible, claimed, torn, ckpt, historyVars>>
  /\ diskOp

\* The publisher returned its receipt.
Finish ==
  /\ pc = "done"
  /\ pc' = "idle" /\ work' = NoWork
  /\ UNCHANGED <<sourceVars, phase, read, nextId, diskVars, historyVars, faults>>

FileOperation ==
  \/ Seal \/ EnsureManifest \/ InspectFinal \/ OpenTemporary \/ WriteTemporary
  \/ LinkFinal \/ UnlinkTemporary \/ CommitCheckpoint \/ RemoveManifest
  \/ RemoveSealed \/ Finish

-----------------------------------------------------------------------------
(* Failures, crashes, restart.                                             *)

\* The operation at pc throws before its effect; the throw after the effect
\* (a directory fsync fails) is the same throw at the next pc.
FailOperation ==
  /\ pc # "idle" /\ faults < MaxFaults
  /\ faults' = faults + 1
  /\ Throw

Crash ==
  /\ phase # "down" /\ faults < MaxFaults
  /\ faults' = faults + 1
  /\ phase' = "down" /\ work' = NoWork /\ pc' = "idle"
  /\ UNCHANGED <<sourceVars, read, nextId, diskVars, historyVars>>

Restart ==
  /\ phase = "down"
  /\ phase' = "recovering"
  /\ UNCHANGED <<sourceVars, read, work, pc, nextId, diskVars, historyVars, faults>>

\* OutboxPublisher::recover publishes its batches by creation, then
\* RejectedEventPublisher::recover its rejections.
RecoversBefore(a, b) ==
  \/ a.kind = "batch" /\ b.kind = "rejection"
  \/ a.kind = b.kind /\ a.id <= b.id

RecoverNext ==
  /\ phase = "recovering" /\ pc = "idle"
  /\ \E b \in sealed :
       /\ \A c \in sealed : RecoversBefore(b, c)
       /\ work' = b
       /\ pc' = IF b.kind = "batch" THEN "manifest" ELSE "inspect"
  /\ UNCHANGED <<sourceVars, phase, read, nextId, diskVars, historyVars, faults>>

\* Mutant: the reader resumes without comparing the file identity.
ResumeOffsetAnyFile(s) == IF ckpt[s].end <= len[s] THEN ckpt[s].end ELSE 0

\* Where a reader starts: at the checkpoint if it names this file and lies
\* inside it, else at the beginning (start_position: oldest).
ResumeOffset(s) ==
  IF ckpt[s].ident = ident[s] /\ ckpt[s].end <= len[s] THEN ckpt[s].end ELSE 0

\* A manifest without its batch makes start throw.
RecoverDone ==
  /\ phase = "recovering" /\ pc = "idle" /\ sealed = {}
  /\ phase' = IF manifest = {} THEN "running" ELSE "down"
  /\ read' = [s \in Source |-> ResumeOffset(s)]
  /\ UNCHANGED <<sourceVars, work, pc, nextId, diskVars, historyVars, faults>>

-----------------------------------------------------------------------------
(* The backend claims a visible batch by renaming its file.                *)

Claim ==
  \E b \in visible :
    /\ b.kind = "batch"
    /\ visible' = visible \ {b}
    /\ claimed' = claimed \cup {b}
    /\ UNCHANGED <<sourceVars, phase, read, work, pc, nextId, sealed, manifest,
                   tmp, torn, ckpt, historyVars, faults>>

Collector ==
  PublishSigned \/ FileOperation \/ Restart \/ RecoverNext \/ RecoverDone

Next ==
  \/ \E s \in Source : Append(s) \/ Rotate(s)
  \/ FormBatch \/ FormRejection
  \/ Collector
  \/ FailOperation \/ Crash
  \/ Claim

Spec == Init /\ [][Next]_vars

\* The poll loop runs and an operator restarts an exited Collector; file
\* operations fail a bounded number of times.  Nothing is assumed of the
\* writers or of the backend.
Fairness == WF_vars(Collector) /\ WF_vars(FormBatch \/ FormRejection)

FairSpec == Spec /\ Fairness

\* The same program over files that may also be truncated in place.
TruncatingSpec ==
  Init /\ [][Next \/ \E s \in Source : TruncateInPlace(s)]_vars

-----------------------------------------------------------------------------
(* Properties.                                                             *)

\* The committed position never runs ahead of what is visible: every record
\* up to it was handed over (the comment in publish_sealed: "input positions
\* do not advance until the complete signed file is fsynced and atomically
\* visible"), whatever operation failed and wherever the process died.
CheckpointCovered ==
  \A s \in Source : \A k \in 1..ckpt[s].end : <<s, ckpt[s].inc, k>> \in delivered

\* The reader of a running Collector is never past a record that is neither
\* handed over nor part of the publication in progress: a restart resumes
\* without skipping (resume_position, initialize_or_refresh_file).
NothingSkipped ==
  phase = "running" =>
    \A s \in Source : \A k \in 1..read[s] :
      \/ <<s, inc[s], k>> \in delivered
      \/ work # NoWork /\ <<s, inc[s], k>> \in RecordsOf(work)

\* CheckpointStore::commit never meets its "file offset regression" error, so
\* neither the poll loop nor a restart can get stuck on it.
CommitNeverRefused == pc = "commit" => Accepted(work)

\* recover() never meets a manifest without its batch, whichever of the
\* cleanup steps was the last one done ("Manifest-first cleanup makes every
\* crash state recoverable").
NoOrphanManifest == manifest \subseteq sealed

\* At most one publication is sealed and not cleaned up, so recovery never has
\* to choose an order and the outbox never fills by the Collector alone.
AtMostOneSealed == Cardinality(sealed) <= 1

\* Whatever prefix of the steps of a publication is on disk, in whatever order
\* failures, crashes and rotations came: a start finds one thing to recover,
\* finds it whole, and is not refused the commit it owes.
RecoverySound == CommitNeverRefused /\ NoOrphanManifest /\ AtMostOneSealed

\* A file the backend has claimed keeps its bytes.
ClaimedFilesIntact == \A b \in claimed : b.id \notin torn

\* The promise of DeliveryContract, with the file identities forgotten.
Delivery ==
  INSTANCE DeliveryContract
  WITH committed <- [s \in Source |-> [inc |-> ckpt[s].inc, end |-> ckpt[s].end]]

\* Every step of the publishers delivers records without gaps or commits a
\* covered position forward, or changes neither.
RefinesDelivery == Delivery!Spec

\* Every complete line of a file is handed over, or the file is replaced
\* first: failures only delay it.
EveryRecordDelivered ==
  \A r \in Record :
    (inc[r[1]] = r[2] /\ r[3] <= len[r[1]]) ~> (r \in delivered \/ inc[r[1]] # r[2] \/ nextId = MaxId)

=============================================================================
