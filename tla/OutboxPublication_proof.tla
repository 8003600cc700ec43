----------------------- MODULE OutboxPublication_proof ----------------------
(***************************************************************************)
(* Proofs about OutboxPublication for any set of sources and any bounds:   *)
(* no publisher step, failure or crash lets the checkpoint run ahead of    *)
(* what is visible, skip a record, or get stuck, and the whole implements  *)
(* DeliveryContract.                                                       *)
(***************************************************************************)
EXTENDS OutboxPublication, FiniteSetTheorems, TLAPS

Emitted(b) == RecordsOf(b) \subseteq delivered

\* Every record of source s up to offset n of incarnation i was handed over.
Prefix(s, i, n) == \A k \in 1..n : <<s, i, k>> \in delivered

\* The publications that can still reach the commit.
Current == sealed \cup ({work} \ {NoWork})

\* The process: what is in progress when.
ControlInv ==
  /\ pc # "idle" => work # NoWork /\ phase # "down"
  /\ phase = "down" => work = NoWork
  /\ phase = "recovering" /\ pc = "idle" => work = NoWork
  /\ pc = "seal" => phase = "running"

\* The private directories: one publication at a time, a manifest only with
\* its batch.
DiskInv ==
  /\ \A b, c \in Current : b = c
  /\ phase = "running" /\ work = NoWork => sealed = {}
  /\ pc \notin {"idle", "seal", "done"} => work \in sealed
  /\ pc = "done" => sealed = {}
  /\ manifest \subseteq sealed
  /\ \A b \in manifest : b.kind = "batch"
  /\ pc = "rmSealed" => work \notin manifest
  /\ pc = "manifest" => work.kind = "batch"

\* Without truncation the file identity tells the incarnations apart.
IdentityInv ==
  \A s \in Source :
    /\ ident[s] = inc[s]
    /\ ckpt[s].ident = ckpt[s].inc
    /\ \A b \in Current : b.ident[s] = b.inc[s]

\* The steps after the final file was seen or made.
Shown == {"unlink", "commit", "rmManifest", "rmSealed", "done"}

\* What was handed over.
DeliveryInv ==
  /\ pc \in Shown => Emitted(work)
  /\ \A b \in visible : Emitted(b)
  /\ \A b \in Current : \A s \in Source : Prefix(s, b.inc[s], b.from[s])
  /\ \A s \in Source : Prefix(s, ckpt[s].inc, ckpt[s].end)
  /\ NothingSkipped

\* How the checkpoint, the publication in progress and the reader are ordered.
Ordered(s) ==
  /\ phase = "running" => read[s] <= len[s]
  /\ ckpt[s].inc <= inc[s]
  /\ ckpt[s].inc = inc[s] =>
       ckpt[s].end <= len[s] /\ (phase = "running" => ckpt[s].end <= read[s])
  /\ \A b \in Current :
       /\ b.inc[s] <= inc[s]
       /\ b.from[s] <= b.to[s]
       /\ b.inc[s] = inc[s] =>
            b.to[s] <= len[s] /\ (phase = "running" => b.to[s] <= read[s])
       /\ Touches(b, s) =>
            \/ ckpt[s].inc < b.inc[s]
            \/ ckpt[s].inc = b.inc[s] /\ ckpt[s].end <= b.to[s]

OrderInv == \A s \in Source : Ordered(s)

GapInv == Delivery!GapFree(delivered)

\* The inductive invariant.
Inv ==
  /\ TypeOK /\ ControlInv /\ DiskInv /\ IdentityInv /\ OrderInv /\ DeliveryInv
  /\ GapInv

-----------------------------------------------------------------------------
(* Types, and what is in progress when.                                    *)

\* An idle publisher holds no publication.
LEMMA NoWorkIsNoPublication == NoWork \notin Publication
  BY DEF NoWork, Publication, Id

\* The initial state is typed and idle.
LEMMA InitTypes == Init => TypeOK /\ ControlInv
  BY BoundsAssumption, NoWorkIsNoPublication
  DEF Init, TypeOK, ControlInv, Publication, Position, Steps

\* Every step keeps the types and the discipline of the program counter.
LEMMA NextTypes == TypeOK /\ ControlInv /\ [Next]_vars => TypeOK' /\ ControlInv'
<1> SUFFICES ASSUME TypeOK, ControlInv, [Next]_vars
             PROVE  TypeOK' /\ ControlInv'
  OBVIOUS
<1> USE BoundsAssumption, NoWorkIsNoPublication
<1>1. ASSUME NEW s \in Source, Append(s) PROVE TypeOK' /\ ControlInv'
  BY <1>1 DEF Append, TypeOK, ControlInv, diskVars, historyVars
<1>2. ASSUME NEW s \in Source, Rotate(s) PROVE TypeOK' /\ ControlInv'
  BY <1>2 DEF Rotate, Replace, TypeOK, ControlInv, diskVars, historyVars
<1>3. ASSUME NEW kind \in Kind, NEW to \in [Source -> 0..MaxLen], Form(kind, to)
      PROVE  TypeOK' /\ ControlInv'
  <2>1. work' \in Publication /\ work' # NoWork
    BY <1>3, SMTT(30) DEF Form, TypeOK, Publication, Id, sourceVars
  <2> QED
    BY <1>3, <2>1 DEF Form, TypeOK, ControlInv, sourceVars, diskVars, historyVars
<1>4. CASE FormBatch
  BY <1>3, <1>4 DEF FormBatch, Kind
<1>5. CASE FormRejection
  <2>1. PICK s \in Source : read[s] < len[s] /\ Form("rejection", [read EXCEPT ![s] = @ + 1])
    BY <1>5 DEF FormRejection
  <2>2. [read EXCEPT ![s] = @ + 1] \in [Source -> 0..MaxLen]
    BY <2>1 DEF TypeOK
  <2> QED
    BY <1>3, <2>1, <2>2 DEF Kind
<1>6. CASE PublishSigned
  BY <1>6 DEF PublishSigned, TypeOK, ControlInv, Steps, sourceVars, diskVars, historyVars
<1> USE DEF sourceVars, diskVars, historyVars, diskOp
<1>7. CASE Seal
  BY <1>7 DEF Seal, TypeOK, ControlInv, Steps
<1>8. CASE EnsureManifest
  BY <1>8 DEF EnsureManifest, TypeOK, ControlInv, Steps
<1>9. CASE InspectFinal
  BY <1>9 DEF InspectFinal, TypeOK, ControlInv, Steps
<1>10. CASE OpenTemporary
  BY <1>10 DEF OpenTemporary, TypeOK, ControlInv, Steps, Publication
<1>11. CASE WriteTemporary
  BY <1>11 DEF WriteTemporary, TypeOK, ControlInv, Steps, Publication
<1>12. CASE LinkFinal
  <2>1. RecordsOf(work) \subseteq Record
    BY DEF RecordsOf
  <2>2. work \in Publication
    BY <1>12 DEF LinkFinal, TypeOK, ControlInv
  <2>3. visible' \subseteq Publication /\ delivered' \subseteq Record
    BY <1>12, <2>1, <2>2 DEF LinkFinal, TypeOK
  <2>4. tmp' \in [Id -> {"none", "torn", "full", "linked"}]
    BY <1>12, <2>2 DEF LinkFinal, TypeOK, Publication
  <2> QED
    BY <1>12, <2>2, <2>3, <2>4 DEF LinkFinal, TypeOK, ControlInv, Steps
<1>13. CASE UnlinkTemporary
  BY <1>13 DEF UnlinkTemporary, TypeOK, ControlInv, Steps
<1>14. CASE CommitCheckpoint
  <2>1. CASE Accepted(work)
    <3>1. work \in Publication
      BY <1>14 DEF CommitCheckpoint, TypeOK, ControlInv
    <3>2. \A s \in Source : PositionFor(work, s) \in Position
      BY <3>1 DEF PositionFor, Position, Publication
    <3>3. ckpt' \in [Source -> Position]
      BY <1>14, <2>1, <3>2 DEF CommitCheckpoint, TypeOK
    <3> QED
      BY <1>14, <2>1, <3>3 DEF CommitCheckpoint, TypeOK, ControlInv, Steps
  <2>2. CASE ~Accepted(work)
    BY <1>14, <2>2 DEF CommitCheckpoint, Throw, TypeOK, ControlInv, Steps
  <2> QED BY <2>1, <2>2
<1>15. CASE RemoveManifest
  BY <1>15 DEF RemoveManifest, TypeOK, ControlInv, Steps
<1>16. CASE RemoveSealed
  BY <1>16 DEF RemoveSealed, TypeOK, ControlInv, Steps
<1>17. CASE Finish
  BY <1>17 DEF Finish, TypeOK, ControlInv, Steps
<1>18. CASE FailOperation
  BY <1>18 DEF FailOperation, Throw, TypeOK, ControlInv, Steps
<1>19. CASE Crash
  BY <1>19 DEF Crash, TypeOK, ControlInv, Steps
<1>20. CASE Restart
  BY <1>20 DEF Restart, TypeOK, ControlInv, Steps
<1>21. CASE RecoverNext
  BY <1>21 DEF RecoverNext, TypeOK, ControlInv, Steps
<1>22. CASE RecoverDone
  <2>1. \A s \in Source : ResumeOffset(s) \in 0..MaxLen
    BY DEF ResumeOffset, TypeOK, Position
  <2> QED
    BY <1>22, <2>1 DEF RecoverDone, TypeOK, ControlInv, Steps
<1>23. CASE Claim
  BY <1>23 DEF Claim, TypeOK, ControlInv
<1>24. CASE UNCHANGED vars
  BY <1>24 DEF vars, TypeOK, ControlInv
<1> QED
  BY <1>1, <1>2, <1>4, <1>5, <1>6, <1>7, <1>8, <1>9, <1>10, <1>11, <1>12, <1>13,
     <1>14, <1>15, <1>16, <1>17, <1>18, <1>19, <1>20, <1>21, <1>22, <1>23, <1>24
  DEF Next, Collector, FileOperation

\* Every variable stays in its type: the bounds and the shape of what the
\* publishers keep in memory and on disk.
THEOREM TypeCorrect == Spec => []TypeOK
<1>1. Init => TypeOK /\ ControlInv
  BY InitTypes
<1>2. TypeOK /\ ControlInv /\ [Next]_vars => (TypeOK /\ ControlInv)'
  BY NextTypes
<1> QED
  BY <1>1, <1>2, PTL DEF Spec

-----------------------------------------------------------------------------
(* The private directories.                                                *)

\* The private directories start empty.
LEMMA InitDisk == Init => DiskInv
  BY DEF Init, DiskInv, Current

\* Every file operation, failure, crash and recovery step leaves the private
\* directories as DiskInv describes them.
LEMMA NextDisk ==
  ASSUME TypeOK, ControlInv, DiskInv, [Next]_vars
  PROVE  DiskInv'
<1> USE NoWorkIsNoPublication DEF sourceVars, diskVars, historyVars, diskOp, Current
<1>1. ASSUME UNCHANGED <<phase, work, pc, sealed, manifest>> PROVE DiskInv'
  BY <1>1 DEF DiskInv
<1>2. ASSUME NEW s \in Source, Append(s) \/ Rotate(s) PROVE DiskInv'
  BY <1>1, <1>2 DEF Append, Rotate, Replace
<1>3. ASSUME NEW kind, NEW to, Form(kind, to) PROVE DiskInv'
  <2>1. sealed = {} /\ manifest = {} /\ pc = "idle"
    BY <1>3 DEF Form, DiskInv, ControlInv
  <2> QED
    BY <1>3, <2>1 DEF Form, DiskInv
<1>4. CASE FormBatch
  BY <1>3, <1>4 DEF FormBatch
<1>5. CASE FormRejection
  BY <1>3, <1>5 DEF FormRejection
<1>6. CASE PublishSigned
  BY <1>6 DEF PublishSigned, DiskInv
<1>7. CASE Seal
  <2>1. work # NoWork
    BY <1>7 DEF Seal, ControlInv
  <2>2. Current' = Current
    BY <1>7, <2>1 DEF Seal
  <2> QED
    BY <1>7, <2>1, <2>2 DEF Seal, DiskInv
<1>8. CASE EnsureManifest
  BY <1>8 DEF EnsureManifest, DiskInv
<1>9. CASE InspectFinal \/ OpenTemporary \/ WriteTemporary \/ LinkFinal \/ UnlinkTemporary
  BY <1>9 DEF InspectFinal, OpenTemporary, WriteTemporary, LinkFinal, UnlinkTemporary, DiskInv
<1>10. ASSUME Throw PROVE DiskInv'
  BY <1>10 DEF Throw, DiskInv
<1>11. CASE CommitCheckpoint
  <2>1. CASE Accepted(work)
    BY <1>11, <2>1 DEF CommitCheckpoint, DiskInv
  <2>2. CASE ~Accepted(work)
    BY <1>10, <1>11, <2>2 DEF CommitCheckpoint
  <2> QED BY <2>1, <2>2
<1>12. CASE RemoveManifest
  BY <1>12 DEF RemoveManifest, DiskInv
<1>13. CASE RemoveSealed
  <2>1. sealed = {work} /\ work # NoWork
    BY <1>13 DEF RemoveSealed, DiskInv, ControlInv
  <2>2. sealed' = {} /\ manifest' = {}
    BY <1>13, <2>1 DEF RemoveSealed, DiskInv
  <2> QED
    BY <1>13, <2>1, <2>2 DEF RemoveSealed, DiskInv
<1>14. CASE Finish
  BY <1>14 DEF Finish, DiskInv
<1>15. CASE FailOperation
  BY <1>10, <1>15 DEF FailOperation
<1>16. CASE Crash
  BY <1>16 DEF Crash, DiskInv
<1>17. CASE Restart
  BY <1>17 DEF Restart, DiskInv, ControlInv
<1>18. CASE RecoverNext
  BY <1>18 DEF RecoverNext, DiskInv, ControlInv
<1>19. CASE RecoverDone
  BY <1>19 DEF RecoverDone, DiskInv, ControlInv
<1>20. CASE Claim
  BY <1>1, <1>20 DEF Claim
<1>21. CASE UNCHANGED vars
  BY <1>1, <1>21 DEF vars
<1> QED
  BY <1>2, <1>4, <1>5, <1>6, <1>7, <1>8, <1>9, <1>11, <1>12, <1>13, <1>14, <1>15,
     <1>16, <1>17, <1>18, <1>19, <1>20, <1>21
  DEF Next, Collector, FileOperation

-----------------------------------------------------------------------------
(* Most steps move a publication along without changing what its records   *)
(* are, what was handed over or what is committed.                         *)

Quiet ==
  /\ UNCHANGED <<inc, ident, len, ckpt, delivered>>
  /\ visible' \subseteq visible
  /\ Current' \subseteq Current
  /\ phase' = "running" => phase = "running" /\ UNCHANGED <<read, work>>
  /\ pc' \in Shown => work' = work /\ (pc \in Shown \/ work \in visible)

\* The steps, as the proofs about the records see them.
LEMMA StepCases ==
  ASSUME TypeOK, ControlInv, DiskInv, [Next]_vars
  PROVE  \/ Quiet
         \/ \E s \in Source : Append(s) \/ Rotate(s)
         \/ FormBatch \/ FormRejection
         \/ LinkFinal
         \/ CommitCheckpoint /\ Accepted(work)
         \/ Finish
         \/ RecoverDone
<1> USE DEF sourceVars, diskVars, historyVars, diskOp, Current, Shown
<1>1. CASE PublishSigned
  BY <1>1 DEF PublishSigned, Quiet
<1>2. CASE Seal
  BY <1>2 DEF Seal, Quiet, ControlInv
<1>3. CASE EnsureManifest \/ InspectFinal \/ OpenTemporary \/ WriteTemporary
  BY <1>3 DEF EnsureManifest, InspectFinal, OpenTemporary, WriteTemporary, Quiet
<1>4. CASE UnlinkTemporary \/ RemoveManifest \/ RemoveSealed
  BY <1>4 DEF UnlinkTemporary, RemoveManifest, RemoveSealed, Quiet
<1>5. CASE Throw
  BY <1>5 DEF Throw, Quiet
<1>6. CASE FailOperation
  BY <1>5, <1>6 DEF FailOperation
<1>7. CASE CommitCheckpoint /\ ~Accepted(work)
  BY <1>5, <1>7 DEF CommitCheckpoint
<1>8. CASE Crash \/ Restart
  BY <1>8 DEF Crash, Restart, Quiet
<1>9. CASE RecoverNext
  BY <1>9 DEF RecoverNext, Quiet
<1>10. CASE Claim
  BY <1>10 DEF Claim, Quiet
<1>11. CASE UNCHANGED vars
  BY <1>11 DEF vars, Quiet
<1> QED
  BY <1>1, <1>2, <1>3, <1>4, <1>6, <1>7, <1>8, <1>9, <1>10, <1>11
  DEF Next, Collector, FileOperation

\* A new publication starts where the reader is and ends within the file.
LEMMA FormStep ==
  ASSUME TypeOK, ControlInv, DiskInv, OrderInv, FormBatch \/ FormRejection
  PROVE  /\ UNCHANGED <<inc, ident, len, ckpt, delivered, visible, phase, pc>>
         /\ phase = "running" /\ pc = "idle" /\ work = NoWork
         /\ work' \in Publication /\ Current' = {work'}
         /\ work'.inc = inc /\ work'.ident = ident
         /\ work'.from = read /\ work'.to = read'
         /\ \A s \in Source : read[s] <= read'[s] /\ read'[s] <= len[s]
<1>1. PICK kind \in Kind, to \in [Source -> 0..MaxLen] :
        Form(kind, to) /\ \A s \in Source : read[s] <= to[s] /\ to[s] <= len[s]
  <2>1. CASE FormBatch
    BY <2>1 DEF FormBatch, Kind
  <2>2. CASE FormRejection
    <3>1. PICK s \in Source :
            read[s] < len[s] /\ Form("rejection", [read EXCEPT ![s] = @ + 1])
      BY <2>2 DEF FormRejection
    <3>2. phase = "running"
      BY <3>1 DEF Form
    <3>3. [read EXCEPT ![s] = @ + 1] \in [Source -> 0..MaxLen]
      BY <3>1, BoundsAssumption DEF TypeOK
    <3>4. \A u \in Source : /\ read[u] <= [read EXCEPT ![s] = @ + 1][u]
                            /\ [read EXCEPT ![s] = @ + 1][u] <= len[u]
      BY <3>1, <3>2 DEF TypeOK, OrderInv, Ordered
    <3> QED
      BY <3>1, <3>3, <3>4 DEF Kind
  <2> QED BY <2>1, <2>2
<1>2. sealed = {} /\ pc = "idle" /\ work = NoWork /\ phase = "running"
  BY <1>1 DEF Form, DiskInv, ControlInv
<1>3. work' \in Publication
  BY <1>1, BoundsAssumption DEF Form, TypeOK, Publication, Id, sourceVars
<1> QED
  BY <1>1, <1>2, <1>3, NoWorkIsNoPublication
  DEF Form, Current, sourceVars, diskVars, historyVars

-----------------------------------------------------------------------------
(* File identities and the order of positions.                             *)

\* What is sealed or in progress is a publication.
LEMMA CurrentArePublications ==
  ASSUME TypeOK PROVE Current \subseteq Publication
  BY DEF TypeOK, Current

\* The identities and the order of positions hold at the start.
LEMMA InitIdentityOrder == Init => IdentityInv /\ OrderInv
  BY BoundsAssumption DEF Init, IdentityInv, OrderInv, Ordered, Current

\* Every step of Spec, rotation included, keeps identities and contents together.
LEMMA NextIdentity ==
  ASSUME TypeOK, ControlInv, DiskInv, IdentityInv, OrderInv, [Next]_vars
  PROVE  IdentityInv'
<1>1. CASE Quiet
  BY <1>1 DEF Quiet, IdentityInv
<1>2. ASSUME NEW s \in Source, Append(s) PROVE IdentityInv'
  BY <1>2 DEF Append, IdentityInv, Current, diskVars
<1>3. ASSUME NEW s \in Source, Rotate(s) PROVE IdentityInv'
  BY <1>3 DEF Rotate, Replace, IdentityInv, Current, diskVars, TypeOK
<1>4. CASE FormBatch \/ FormRejection
  BY <1>4, FormStep DEF IdentityInv
<1>5. CASE LinkFinal
  BY <1>5 DEF LinkFinal, diskOp, sourceVars, IdentityInv, Current
<1>6. CASE CommitCheckpoint /\ Accepted(work)
  <2>1. work \in Current
    BY <1>6 DEF CommitCheckpoint, ControlInv, Current
  <2> QED
    BY <1>6, <2>1 DEF CommitCheckpoint, diskOp, sourceVars, IdentityInv, Current, PositionFor
<1>7. CASE Finish
  BY <1>7 DEF Finish, sourceVars, diskVars, IdentityInv, Current
<1>8. CASE RecoverDone
  BY <1>8 DEF RecoverDone, sourceVars, diskVars, IdentityInv, Current
<1> QED
  BY <1>1, <1>2, <1>3, <1>4, <1>5, <1>6, <1>7, <1>8, StepCases

\* Every step keeps the checkpoint, the publication and the reader in order.
LEMMA NextOrder ==
  ASSUME TypeOK, ControlInv, DiskInv, IdentityInv, OrderInv, [Next]_vars
  PROVE  OrderInv'
<1> USE CurrentArePublications
<1>1. CASE Quiet
  BY <1>1 DEF Quiet, OrderInv, Ordered, Touches
<1>2. ASSUME NEW s \in Source, Append(s) PROVE OrderInv'
  BY <1>2 DEF Append, OrderInv, Ordered, Touches, Current, diskVars, TypeOK, Publication, Position
<1>3. ASSUME NEW s \in Source, Rotate(s) PROVE OrderInv'
  BY <1>3
  DEF Rotate, Replace, OrderInv, Ordered, Touches, Current, diskVars, TypeOK, Publication, Position
<1>4. ASSUME FormBatch \/ FormRejection, NEW s \in Source PROVE Ordered(s)'
  <2>1. read[s] <= read'[s] /\ read'[s] <= len[s] /\ read' \in [Source -> 0..MaxLen]
    BY <1>4, FormStep DEF Publication
  <2>2. /\ UNCHANGED <<inc, len, ckpt, phase>> /\ phase = "running"
        /\ Current' = {work'} /\ work'.inc = inc
        /\ work'.from = read /\ work'.to = read'
    BY <1>4, FormStep
  <2>3. Ordered(s)
    BY DEF OrderInv
  <2>4. read[s] \in Nat /\ read'[s] \in Nat /\ len[s] \in Nat /\ inc[s] \in Nat
        /\ ckpt[s].end \in Nat /\ ckpt[s].inc \in Nat
    BY <2>1, BoundsAssumption DEF TypeOK, Position
  <2> QED
    BY <2>1, <2>2, <2>3, <2>4 DEF Ordered, Touches
<1>5. CASE LinkFinal
  BY <1>5 DEF LinkFinal, diskOp, sourceVars, OrderInv, Ordered, Touches, Current
<1>6. ASSUME CommitCheckpoint /\ Accepted(work), NEW s \in Source PROVE Ordered(s)'
  <2>1. work \in Current
    BY <1>6 DEF CommitCheckpoint, ControlInv, Current
  <2>2. Current' = Current /\ UNCHANGED <<inc, len, read, phase, work>>
    BY <1>6 DEF CommitCheckpoint, diskOp, sourceVars, Current
  <2>3. \A b \in Current : b = work
    BY <2>1 DEF DiskInv
  <2>4. /\ ~Touches(work, s) => ckpt'[s] = ckpt[s]
        /\ Touches(work, s) => ckpt'[s].inc = work.inc[s] /\ ckpt'[s].end = work.to[s]
    BY <1>6 DEF CommitCheckpoint, PositionFor
  <2>5. Ordered(s)
    BY DEF OrderInv
  <2>6. /\ work.to[s] \in Nat /\ work.from[s] \in Nat /\ work.inc[s] \in Nat
        /\ inc[s] \in Nat /\ len[s] \in Nat /\ read[s] \in Nat
    BY <2>1, BoundsAssumption DEF TypeOK, Publication
  <2>7. CASE Touches(work, s)
    BY <2>1, <2>2, <2>3, <2>4, <2>5, <2>6, <2>7 DEF Ordered, Touches
  <2>8. CASE ~Touches(work, s)
    BY <2>1, <2>2, <2>3, <2>4, <2>5, <2>6, <2>8 DEF Ordered, Touches
  <2> QED BY <2>7, <2>8
<1>7. CASE Finish
  BY <1>7 DEF Finish, sourceVars, diskVars, OrderInv, Ordered, Touches, Current
<1>8. ASSUME RecoverDone, NEW s \in Source PROVE Ordered(s)'
  <2>1. /\ UNCHANGED <<inc, len, ckpt>> /\ Current' = {}
        /\ read' = [t \in Source |-> ResumeOffset(t)]
    BY <1>8 DEF RecoverDone, sourceVars, diskVars, Current, ControlInv
  <2>2. Ordered(s) /\ ident[s] = inc[s] /\ ckpt[s].ident = ckpt[s].inc
    BY DEF OrderInv, IdentityInv
  <2>3. len[s] \in Nat /\ ckpt[s].end \in Nat
    BY DEF TypeOK, Position
  <2>4. /\ ResumeOffset(s) <= len[s]
        /\ ckpt[s].inc = inc[s] => ResumeOffset(s) = ckpt[s].end
    BY <2>2, <2>3 DEF ResumeOffset, Ordered
  <2> QED
    BY <2>1, <2>2, <2>3, <2>4 DEF Ordered
<1> QED
  BY <1>1, <1>2, <1>3, <1>4, <1>5, <1>6, <1>7, <1>8, StepCases DEF OrderInv

-----------------------------------------------------------------------------
(* What was handed over.                                                   *)

\* What it is for a record to be in a publication.
LEMMA RecordsOfMember ==
  ASSUME NEW b \in Publication, NEW s \in Source, NEW k \in 1..MaxLen
  PROVE  <<s, b.inc[s], k>> \in RecordsOf(b) <=> b.from[s] < k /\ k <= b.to[s]
<1>1. b.inc[s] \in 1..MaxInc
  BY DEF Publication
<1> QED
  BY <1>1 DEF RecordsOf, Record

\* Nothing is promised before the first publication.
LEMMA InitDelivery == Init => DeliveryInv
  BY BoundsAssumption
  DEF Init, DeliveryInv, Shown, Current, Prefix, NothingSkipped

\* After a final file exists, the whole publication prefix is handed over.
LEMMA EmittedPrefix ==
  ASSUME TypeOK, NEW b \in Publication, NEW s \in Source,
         Emitted(b), Prefix(s, b.inc[s], b.from[s])
  PROVE  Prefix(s, b.inc[s], b.to[s])
<1> SUFFICES ASSUME NEW k \in 1..b.to[s] PROVE <<s, b.inc[s], k>> \in delivered
  BY DEF Prefix
<1>1. b.from[s] \in 0..MaxLen /\ b.to[s] \in 0..MaxLen
  BY DEF Publication
<1>2. CASE k <= b.from[s]
  BY <1>1, <1>2 DEF Prefix
<1>3. CASE b.from[s] < k
  BY <1>1, <1>3, BoundsAssumption, RecordsOfMember DEF Emitted
<1> QED
  BY <1>1, <1>2, <1>3

\* Every step keeps what was handed over below the reader and the checkpoint.
LEMMA NextDelivery ==
  ASSUME TypeOK, ControlInv, DiskInv, IdentityInv, OrderInv, DeliveryInv, [Next]_vars
  PROVE  DeliveryInv'
<1> USE CurrentArePublications DEF Emitted, Prefix
<1>1. CASE Quiet
  <2>1. (pc \in Shown => Emitted(work))'
    BY <1>1 DEF Quiet, DeliveryInv
  <2>2. NothingSkipped'
    BY <1>1 DEF Quiet, DeliveryInv, NothingSkipped
  <2> QED
    BY <1>1, <2>1, <2>2 DEF Quiet, DeliveryInv
<1>2. ASSUME NEW s \in Source, Append(s) PROVE DeliveryInv'
  BY <1>2 DEF Append, DeliveryInv, NothingSkipped, Current, diskVars, historyVars
<1>3. ASSUME NEW s \in Source, Rotate(s) PROVE DeliveryInv'
  <2>1. UNCHANGED <<phase, work, pc, sealed, visible, ckpt, delivered>>
    BY <1>3 DEF Rotate, Replace, diskVars, historyVars
  <2>2. read'[s] = 0 /\ \A u \in Source : u # s => read'[u] = read[u] /\ inc'[u] = inc[u]
    BY <1>3 DEF Rotate, Replace, TypeOK
  <2>3. NothingSkipped'
    BY <2>1, <2>2 DEF DeliveryInv, NothingSkipped
  <2> QED
    BY <2>1, <2>3 DEF DeliveryInv, Current
<1>4. CASE FormBatch \/ FormRejection
  <2>1. /\ UNCHANGED <<inc, ckpt, delivered, visible, pc>>
        /\ phase = "running" /\ pc = "idle" /\ work = NoWork
        /\ work' \in Publication /\ Current' = {work'}
        /\ work'.inc = inc /\ work'.from = read /\ work'.to = read'
        /\ \A s \in Source : read[s] <= read'[s]
    BY <1>4, FormStep
  <2>2. \A s \in Source : Prefix(s, inc[s], read[s])
    BY <2>1 DEF DeliveryInv, NothingSkipped
  <2>3. ASSUME NEW s \in Source, NEW k \in 1..read'[s]
        PROVE  \/ <<s, inc[s], k>> \in delivered
               \/ <<s, inc[s], k>> \in RecordsOf(work')
    <3>1. read[s] \in 0..MaxLen /\ read'[s] \in 0..MaxLen
      BY <2>1 DEF TypeOK, Publication
    <3>2. CASE k <= read[s]
      BY <2>2, <3>1, <3>2
    <3>3. CASE read[s] < k
      BY <2>1, <3>1, <3>3, BoundsAssumption, RecordsOfMember
    <3> QED BY <3>1, <3>2, <3>3
  <2>4. NothingSkipped'
    BY <2>1, <2>3, NoWorkIsNoPublication DEF NothingSkipped
  <2> QED
    BY <2>1, <2>2, <2>4 DEF DeliveryInv, Shown
<1>5. CASE LinkFinal
  <2>1. /\ delivered' = delivered \cup RecordsOf(work)
        /\ visible' = visible \cup {work}
        /\ UNCHANGED <<inc, phase, read, work, sealed, ckpt>>
    BY <1>5 DEF LinkFinal, diskOp, sourceVars
  <2>2. NothingSkipped'
    BY <2>1 DEF DeliveryInv, NothingSkipped
  <2> QED
    BY <2>1, <2>2 DEF DeliveryInv, Current
<1>6. CASE CommitCheckpoint /\ Accepted(work)
  <2>1. /\ UNCHANGED <<inc, phase, read, work, sealed, visible, delivered>>
        /\ pc = "commit"
    BY <1>6 DEF CommitCheckpoint, diskOp, sourceVars, historyVars
  <2>2. work \in Publication /\ work \in Current /\ Emitted(work)
    BY <2>1 DEF ControlInv, Current, DeliveryInv, Shown
  <2>3. ASSUME NEW s \in Source PROVE Prefix(s, ckpt'[s].inc, ckpt'[s].end)
    <3>1. CASE Touches(work, s)
      <4>1. ckpt'[s].inc = work.inc[s] /\ ckpt'[s].end = work.to[s]
        BY <1>6, <3>1 DEF CommitCheckpoint, PositionFor
      <4>2. Prefix(s, work.inc[s], work.to[s])
        BY <2>2, EmittedPrefix DEF DeliveryInv
      <4> QED BY <4>1, <4>2
    <3>2. CASE ~Touches(work, s)
      BY <1>6, <3>2 DEF CommitCheckpoint, DeliveryInv
    <3> QED BY <3>1, <3>2
  <2>4. NothingSkipped'
    BY <2>1 DEF DeliveryInv, NothingSkipped
  <2> QED
    BY <2>1, <2>2, <2>3, <2>4 DEF DeliveryInv, Current
<1>7. CASE Finish
  <2>1. /\ UNCHANGED <<inc, phase, read, sealed, visible, ckpt, delivered>>
        /\ work' = NoWork /\ pc = "done" /\ pc' = "idle"
    BY <1>7 DEF Finish, sourceVars, diskVars, historyVars
  <2>2. Emitted(work)
    BY <2>1 DEF DeliveryInv, Shown
  <2>3. NothingSkipped'
    BY <2>1, <2>2 DEF DeliveryInv, NothingSkipped
  <2> QED
    BY <2>1, <2>3 DEF DeliveryInv, Current, Shown
<1>8. CASE RecoverDone
  <2>1. /\ UNCHANGED <<inc, work, pc, sealed, visible, ckpt, delivered>>
        /\ read' = [s \in Source |-> ResumeOffset(s)]
        /\ pc = "idle"
    BY <1>8 DEF RecoverDone, sourceVars, diskVars, historyVars
  <2>2. ASSUME NEW s \in Source PROVE Prefix(s, inc[s], ResumeOffset(s))
    BY DEF ResumeOffset, IdentityInv, DeliveryInv
  <2>3. NothingSkipped'
    BY <2>1, <2>2 DEF NothingSkipped
  <2> QED
    BY <2>1, <2>3 DEF DeliveryInv, Current, Shown
<1> QED
  BY <1>1, <1>2, <1>3, <1>4, <1>5, <1>6, <1>7, <1>8, StepCases

\* No step hands over a record before an earlier one of its file.
LEMMA NextGap ==
  ASSUME TypeOK, ControlInv, DiskInv, OrderInv, DeliveryInv, GapInv, [Next]_vars
  PROVE  GapInv'
<1>1. CASE UNCHANGED delivered
  BY <1>1 DEF GapInv, Delivery!GapFree
<1>2. CASE LinkFinal
  <2>1. delivered' = delivered \cup RecordsOf(work)
    BY <1>2 DEF LinkFinal
  <2>2. work \in Publication /\ work \in Current
    BY <1>2 DEF LinkFinal, ControlInv, TypeOK, Current
  <2>3. ASSUME NEW r \in delivered', NEW k \in 1..r[3]
        PROVE  <<r[1], r[2], k>> \in delivered'
    <3>1. CASE r \in delivered
      BY <2>1, <3>1 DEF GapInv, Delivery!GapFree
    <3>2. CASE r \in RecordsOf(work)
      <4>1. /\ r[1] \in Source /\ r[3] \in 1..MaxLen /\ r[2] = work.inc[r[1]]
            /\ work.from[r[1]] < r[3] /\ r[3] <= work.to[r[1]]
        BY <3>2 DEF RecordsOf, Record
      <4>2. Prefix(r[1], work.inc[r[1]], work.from[r[1]])
        BY <2>2, <4>1 DEF DeliveryInv
      <4>3. work.from[r[1]] \in 0..MaxLen /\ work.to[r[1]] \in 0..MaxLen
        BY <2>2, <4>1 DEF Publication
      <4>4. CASE k <= work.from[r[1]]
        BY <2>1, <4>1, <4>2, <4>3, <4>4 DEF Prefix
      <4>5. CASE work.from[r[1]] < k
        <5>1. k \in 1..MaxLen /\ k <= work.to[r[1]]
          BY <4>1, <4>3, BoundsAssumption
        <5> QED
          BY <2>1, <2>2, <4>1, <4>5, <5>1, RecordsOfMember
      <4> QED BY <4>1, <4>3, <4>4, <4>5
    <3> QED BY <2>1, <3>1, <3>2
  <2> QED
    BY <2>3 DEF GapInv, Delivery!GapFree
<1>3. ASSUME NEW s \in Source, Append(s) \/ Rotate(s) PROVE UNCHANGED delivered
  BY <1>3 DEF Append, Rotate, Replace, historyVars
<1>4. CASE Quiet
  BY <1>1, <1>4 DEF Quiet
<1>5. CASE FormBatch \/ FormRejection
  BY <1>1, <1>5, FormStep
<1>6. CASE (CommitCheckpoint /\ Accepted(work)) \/ Finish \/ RecoverDone
  BY <1>1, <1>6 DEF CommitCheckpoint, Finish, RecoverDone, historyVars
<1> QED
  BY <1>1, <1>2, <1>3, <1>4, <1>5, <1>6, StepCases

-----------------------------------------------------------------------------
(* The inductive invariant, and what follows from it.                      *)

\* The inductive invariant holds in every reachable state.
THEOREM Invariance == Spec => []Inv
<1>1. Init => Inv
  <2>1. Init => GapInv
    BY DEF Init, GapInv, Delivery!GapFree
  <2> QED
    BY <2>1, InitTypes, InitDisk, InitIdentityOrder, InitDelivery DEF Inv
<1>2. Inv /\ [Next]_vars => Inv'
  BY NextTypes, NextDisk, NextIdentity, NextOrder, NextDelivery, NextGap DEF Inv
<1> QED
  BY <1>1, <1>2, PTL DEF Spec

\* The checkpoint never runs ahead of what is visible in incoming/ or
\* records/: input positions advance only over records handed over.
THEOREM CheckpointNeverAhead == Spec => []CheckpointCovered
<1>1. Inv => CheckpointCovered
  BY DEF Inv, DeliveryInv, Prefix, CheckpointCovered
<1> QED
  BY <1>1, Invariance, PTL

\* A reader resumes without skipping a record, after any failure or crash.
THEOREM ReaderNeverSkips == Spec => []NothingSkipped
<1>1. Inv => NothingSkipped
  BY DEF Inv, DeliveryInv
<1> QED
  BY <1>1, Invariance, PTL

\* The checkpoint store never refuses a commit as an offset regression.
THEOREM CommitsAccepted == Spec => []CommitNeverRefused
<1>1. Inv => CommitNeverRefused
  <2> SUFFICES ASSUME Inv, pc = "commit", NEW s \in Source, Touches(work, s)
               PROVE  ~Regresses(ckpt[s], PositionFor(work, s))
    BY DEF CommitNeverRefused, Accepted
  <2>1. work \in Publication /\ work \in Current
    BY DEF Inv, ControlInv, TypeOK, Current
  <2>2. ckpt[s].ident = ckpt[s].inc /\ work.ident[s] = work.inc[s]
    BY <2>1 DEF Inv, IdentityInv
  <2>3. \/ ckpt[s].inc < work.inc[s]
        \/ ckpt[s].inc = work.inc[s] /\ ckpt[s].end <= work.to[s]
    BY <2>1 DEF Inv, OrderInv, Ordered
  <2>4. /\ ckpt[s].inc \in Nat /\ ckpt[s].end \in Nat
        /\ work.inc[s] \in Nat /\ work.to[s] \in Nat
    BY <2>1 DEF Inv, TypeOK, Position, Publication
  <2> QED
    BY <2>2, <2>3, <2>4 DEF Regresses, PositionFor
<1> QED
  BY <1>1, Invariance, PTL

\* No crash leaves a recovery manifest without its sealed batch.
THEOREM ManifestsHaveBatches == Spec => []NoOrphanManifest
<1>1. Inv => NoOrphanManifest
  BY DEF Inv, DiskInv, NoOrphanManifest
<1> QED
  BY <1>1, Invariance, PTL

\* At most one publication is sealed and not cleaned up.
THEOREM OneSealed == Spec => []AtMostOneSealed
<1>1. Inv => AtMostOneSealed
  <2> SUFFICES ASSUME Inv PROVE Cardinality(sealed) <= 1
    BY DEF AtMostOneSealed
  <2>1. CASE sealed = {}
    BY <2>1, FS_EmptySet
  <2>2. CASE sealed # {}
    <3>1. PICK b : b \in sealed
      BY <2>2
    <3>2. sealed = {b}
      BY <3>1 DEF Inv, DiskInv, Current
    <3> QED
      BY <3>2, FS_Singleton
  <2> QED BY <2>1, <2>2
<1> QED
  BY <1>1, Invariance, PTL

\* A start always finds a state it can recover from.
THEOREM RecoveryAlwaysSound == Spec => []RecoverySound
<1>1. CommitNeverRefused /\ NoOrphanManifest /\ AtMostOneSealed => RecoverySound
  BY DEF RecoverySound
<1> QED
  BY <1>1, CommitsAccepted, ManifestsHaveBatches, OneSealed, PTL

\* The publishers implement the promise of DeliveryContract: every step
\* delivers without gaps, commits forward over delivered records, or does
\* neither.
THEOREM ImplementsDelivery == Spec => RefinesDelivery
<1> DEFINE committed == [s \in Source |-> [inc |-> ckpt[s].inc, end |-> ckpt[s].end]]
<1>1. Init => Delivery!Init
  BY DEF Init, Delivery!Init
<1>2. Inv /\ Inv' /\ [Next]_vars => [Delivery!Next]_(Delivery!vars)
  <2> SUFFICES ASSUME Inv, Inv', [Next]_vars
               PROVE  [Delivery!Next]_(Delivery!vars)
    OBVIOUS
  <2>1. CASE UNCHANGED <<ckpt, delivered>>
    BY <2>1 DEF Delivery!vars
  <2>2. CASE LinkFinal
    <3>1. UNCHANGED ckpt /\ delivered \subseteq delivered'
      BY <2>2 DEF LinkFinal
    <3>2. delivered' \in SUBSET Delivery!Record
      BY DEF Inv, TypeOK, Record, Delivery!Record
    <3>3. Delivery!GapFree(delivered')
      BY DEF Inv, GapInv, Delivery!GapFree
    <3> QED
      BY <3>1, <3>2, <3>3 DEF Delivery!Next, Delivery!Deliver
  <2>3. CASE CommitCheckpoint /\ Accepted(work)
    <3>1. UNCHANGED delivered /\ work \in Publication /\ work \in Current
      BY <2>3 DEF CommitCheckpoint, historyVars, Inv, ControlInv, TypeOK, Current
    <3>2. committed' \in [Source -> Delivery!Position]
      BY DEF Inv, TypeOK, Position, Delivery!Position
    <3>3. ASSUME NEW s \in Source
          PROVE  /\ Delivery!Forward(committed[s], committed'[s])
                 /\ Delivery!Covered(s, committed'[s], delivered)
      <4>1. Delivery!Covered(s, committed'[s], delivered)
        BY <3>1 DEF Inv, DeliveryInv, Prefix, Delivery!Covered
      <4>2. CASE Touches(work, s)
        <5>1. ckpt'[s].inc = work.inc[s] /\ ckpt'[s].end = work.to[s]
          BY <2>3, <4>2 DEF CommitCheckpoint, PositionFor
        <5> QED
          BY <3>1, <4>1, <4>2, <5>1 DEF Inv, OrderInv, Ordered, Delivery!Forward
      <4>3. CASE ~Touches(work, s)
        BY <2>3, <4>1, <4>3 DEF CommitCheckpoint, Delivery!Forward, Inv, TypeOK, Position
      <4> QED BY <4>2, <4>3
    <3> QED
      BY <3>1, <3>2, <3>3 DEF Delivery!Next, Delivery!Commit
  <2>4. CASE Quiet
    BY <2>1, <2>4 DEF Quiet
  <2>5. ASSUME NEW s \in Source, Append(s) \/ Rotate(s) PROVE UNCHANGED <<ckpt, delivered>>
    BY <2>5 DEF Append, Rotate, Replace, diskVars, historyVars
  <2>6. CASE FormBatch \/ FormRejection
    BY <2>1, <2>6, FormStep DEF Inv
  <2>7. CASE Finish \/ RecoverDone
    BY <2>1, <2>7 DEF Finish, RecoverDone, diskVars, historyVars
  <2> QED
    BY <2>1, <2>2, <2>3, <2>4, <2>5, <2>6, <2>7, StepCases DEF Inv
<1> QED
  BY <1>1, <1>2, Invariance, PTL DEF Spec, RefinesDelivery, Delivery!Spec
=============================================================================
