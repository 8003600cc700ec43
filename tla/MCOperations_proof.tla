-------------------------- MODULE MCOperations_proof --------------------------
(***************************************************************************)
(* Proofs about the services of MCOperations, for any sets and limits:     *)
(* the heartbeats of a Collector advance and never collide, a notification *)
(* is sent once for each life of its marker, the hub of the gateway is the *)
(* set of open connections, the audit trail of the rules replays to their  *)
(* table, and a load that nothing disturbed leaves the active rules in     *)
(* use.                                                                    *)
(***************************************************************************)
EXTENDS MCOperations, FiniteSetTheorems, WellFoundedInduction, TLAPS

(***************************************************************************)
(* HeartbeatMonitor.                                                       *)
(***************************************************************************)

Beat ==
  [sequence : Nat, started : Nat, at : Nat, id : Nat,
   status : {"online", "degraded", "shutting_down"}]
Row ==
  [sequence : Nat, started : Nat, at : Nat, id : Nat,
   status : {"online", "degraded", "offline"}]
NoBeat == Heartbeats!NoBeat
NoRow == Heartbeats!NoRow

BeatTypes ==
  /\ clock \in Nat
  /\ collector \in [up : BOOLEAN, started : Nat, next : Nat, skew : Int]
  /\ collector.skew <= clock
  /\ reserved \in Nat \cup {-1} /\ stored \in Nat /\ written \in Nat
  /\ file \in Beat \cup {NoBeat}
  /\ row \in Row \cup {NoRow}
  /\ monitor \in [stage : {"rest", "read", "consumed"}, beat : Beat \cup {NoBeat},
                  known : Row \cup {NoRow}]

\* The heartbeats that are still to be seen somewhere.
Seen == {file, row, monitor.beat, monitor.known} \ {NoBeat, NoRow}

\* A number that is reserved, or will be, is above all that were used, and a
\* number that was used names one heartbeat.
NumbersInv ==
  /\ collector.up => collector.next >= stored
  /\ reserved # -1 => collector.up /\ reserved < stored
  /\ \A x \in Seen : x.sequence < stored /\ (reserved # -1 => x.sequence < reserved)
  /\ \A x, y \in Seen : x.sequence = y.sequence => x.id = y.id

\* Between reading the row and writing it nothing else writes it.
ReadInv ==
  monitor.stage = "read" => monitor.known = row /\ monitor.beat # NoBeat

BeatInv == BeatTypes /\ NumbersInv /\ ReadInv

LEMMA BeatInitially == Heartbeats!MonitorInit => BeatInv
  BY DEF Heartbeats!MonitorInit, BeatInv, BeatTypes, NumbersInv, ReadInv, Seen, NoBeat, NoRow,
    Heartbeats!NoBeat, Heartbeats!NoRow, Heartbeats!Resting, Beat, Row

LEMMA BeatSteps == BeatInv /\ Heartbeats!MonitorNext => BeatInv' /\ Heartbeats!RowAdvances
<1> SUFFICES ASSUME BeatInv, Heartbeats!MonitorNext
             PROVE  BeatInv' /\ Heartbeats!RowAdvances
  OBVIOUS
<1> USE DEF BeatInv, BeatTypes, NumbersInv, ReadInv, Seen, NoBeat, NoRow, Heartbeats!NoBeat,
        Heartbeats!NoRow, Heartbeats!Collector, Heartbeats!RowAdvances
<1>1. ASSUME NEW skew \in Skews, Heartbeats!Start(skew)
      PROVE  BeatInv' /\ Heartbeats!RowAdvances
  <2>1. skew \in Int /\ skew <= clock
    BY <1>1, LimitsAssumption DEF Heartbeats!Start
  <2> QED  BY <1>1, <2>1 DEF Heartbeats!Start, Row
<1>2. CASE Heartbeats!Reserve
  BY <1>2 DEF Heartbeats!Reserve, Row, Beat
<1>3. CASE Heartbeats!PublishFails
  BY <1>3 DEF Heartbeats!PublishFails, Row
<1>4. CASE Heartbeats!Crash
  <2>1. BeatTypes' /\ ReadInv' /\ Heartbeats!RowAdvances
    <3>1. collector' \in [up : BOOLEAN, started : Nat, next : Nat, skew : Int]
          /\ collector'.skew = collector.skew
      BY <1>4 DEF Heartbeats!Crash
    <3>2. BeatTypes'
      BY <1>4, <3>1 DEF Heartbeats!Crash
    <3>3. ReadInv' /\ Heartbeats!RowAdvances
      BY <1>4 DEF Heartbeats!Crash, Row
    <3> QED  BY <3>2, <3>3
  <2>2. NumbersInv'
    BY <1>4 DEF Heartbeats!Crash, Row, Beat
  <2> QED  BY <2>1, <2>2
<1>5. ASSUME NEW s \in Heartbeats!Status, Heartbeats!Publish(s)
      PROVE  BeatInv' /\ Heartbeats!RowAdvances
  <2> USE <1>5 DEF Heartbeats!Publish, Heartbeats!Status, Heartbeats!LocalTime
  <2>1. clock - collector.skew \in Nat
    OBVIOUS
  <2>2. file' \in Beat /\ file'.sequence = reserved /\ reserved \in Nat
    BY <2>1 DEF Beat
  <2>3. BeatTypes' /\ ReadInv'
    <3>1. collector' \in [up : BOOLEAN, started : Nat, next : Nat, skew : Int]
          /\ collector'.skew = collector.skew
      BY <1>5
    <3>2. UNCHANGED <<clock, stored, row, monitor>> /\ written' \in Nat /\ reserved' = -1
      BY <1>5
    <3>3. BeatTypes'
      BY <2>2, <3>1, <3>2
    <3>4. ReadInv'
      BY <3>2
    <3> QED  BY <3>3, <3>4
  <2>4. Seen' \subseteq Seen \cup {file'}
    OBVIOUS
  <2>5. NumbersInv'
    <3>1. \A x \in Seen : x.sequence \in Nat
      BY DEF Beat, Row
    <3>2. \A x \in Seen' : x.sequence < stored'
      BY <2>2, <2>4
    <3>3. \A x, y \in Seen' : x.sequence = y.sequence => x.id = y.id
      BY <2>2, <2>4, <3>1
    <3> QED  BY <3>2, <3>3
  <2>6. Heartbeats!RowAdvances
    BY DEF Row
  <2> QED  BY <2>3, <2>5, <2>6
<1>6. CASE Heartbeats!ReadBeat
  BY <1>6 DEF Heartbeats!ReadBeat, Heartbeats!Readable, Row, Beat
<1>7. CASE Heartbeats!NoBeatRead
  BY <1>7 DEF Heartbeats!NoBeatRead, Heartbeats!Resting, Row, Beat
<1>8. CASE Heartbeats!Consume
  BY <1>8 DEF Heartbeats!Consume, Heartbeats!Compare, Heartbeats!Mapped, Row, Beat
<1>9. CASE Heartbeats!ConsumeFails
  BY <1>9 DEF Heartbeats!ConsumeFails, Row, Beat
<1>10. CASE Heartbeats!MarkStaleOffline
  <2> USE <1>10 DEF Heartbeats!MarkStaleOffline, Heartbeats!Resting
  <2>1. BeatTypes' /\ ReadInv'
    <3>1. row' \in Row \cup {NoRow}
      BY DEF Row
    <3>2. QED  BY <3>1
  <2>2. Heartbeats!RowAdvances
    BY LimitsAssumption DEF Row
  <2>3. \A x \in Seen' : \E y \in Seen : x.sequence = y.sequence /\ x.id = y.id
    BY DEF Row
  <2>4. NumbersInv'
    <3>1. stored' = stored /\ reserved' = reserved /\ collector' = collector
      OBVIOUS
    <3>2. QED  BY <2>3, <3>1
  <2> QED  BY <2>1, <2>2, <2>4
<1>11. CASE Heartbeats!Tick
  BY <1>11 DEF Heartbeats!Tick, Row
<1>12. CASE Heartbeats!ReserveFails
  <2>1. /\ collector' \in [up : BOOLEAN, started : Nat, next : Nat, skew : Int]
        /\ collector'.skew = collector.skew /\ collector'.next = collector.next + 1
        /\ stored' \in {stored, collector.next + 1} /\ collector.up /\ reserved' = -1
        /\ UNCHANGED <<clock, file, written, row, monitor>>
    BY <1>12 DEF Heartbeats!ReserveFails
  <2>2. stored' \in Nat /\ stored' >= stored /\ collector'.next >= stored'
    BY <2>1
  <2>3. BeatTypes' /\ ReadInv' /\ Heartbeats!RowAdvances
    BY <2>1, <2>2 DEF Row
  <2>4. NumbersInv'
    BY <2>1, <2>2 DEF Row, Beat
  <2> QED  BY <2>3, <2>4
<1> QED
  BY <1>1, <1>2, <1>3, <1>4, <1>5, <1>6, <1>7, <1>8, <1>9, <1>10, <1>11, <1>12
  DEF Heartbeats!MonitorNext

LEMMA BeatInvariance == Spec => []BeatInv
<1>1. Init => BeatInv
  BY BeatInitially DEF Init
<1>2. BeatInv /\ [Next]_vars => BeatInv'
  <2> SUFFICES ASSUME BeatInv, [Next]_vars PROVE BeatInv'
    OBVIOUS
  <2>1. CASE Heartbeats!MonitorNext
    BY <2>1, BeatSteps
  <2>2. CASE UNCHANGED heartbeatVars
    BY <2>2 DEF heartbeatVars, BeatInv, BeatTypes, NumbersInv, ReadInv, Seen
  <2> QED
    BY <2>1, <2>2 DEF Next, vars
<1> QED
  BY <1>1, <1>2, PTL DEF Spec

\* However the Collector crashed and whatever heartbeats the monitor missed, it
\* never meets two heartbeats of one process start with one number.
THEOREM HeartbeatsNeverCollide == Spec => []NoCollision
<1>1. BeatInv => NoCollision
  BY DEF BeatInv, BeatTypes, NumbersInv, ReadInv, Seen, NoCollision, Heartbeats!NoCollision,
    Heartbeats!Compare, NoRow, NoBeat, Heartbeats!NoRow, Heartbeats!NoBeat, Row, Beat
<1> QED
  BY <1>1, BeatInvariance, PTL

\* The stored row goes forward only, and no cycle leaves a silent Collector
\* shown as running.
THEOREM RowsOnlyAdvance == Spec => HeartbeatsAdvance
<1>1. BeatInv /\ [Next]_vars => [Heartbeats!RowAdvances]_(Heartbeats!vars)
  BY BeatSteps DEF Next, vars, heartbeatVars, Heartbeats!vars
<1> QED
  BY <1>1, BeatInvariance, PTL DEF Spec, HeartbeatsAdvance, Heartbeats!HeartbeatsAdvance

(***************************************************************************)
(* NotificationDispatch.                                                   *)
(***************************************************************************)

Nobody == Dispatch!Nobody
NoticeRow ==
  [status : {"absent", "pending", "published", "dead_letter"}, attempts : Nat,
   owner : Worker \cup {Nobody}, lease : {"none", "held", "expired"}, due : BOOLEAN]
Claim == [id : Notice, attempts : Nat]

DispatchTypes ==
  /\ notices \in [Notice -> NoticeRow]
  /\ batch \in [Worker -> [stage : {"idle", "publish", "acknowledge", "fail"}, left : Seq(Claim)]]
  /\ marker \in SUBSET Notice
  /\ sent \in [Notice -> Nat] /\ lost \in [Notice -> Nat]

\* A batch has each of its rows once.
BatchInv ==
  \A w \in Worker :
    /\ batch[w].left = <<>> <=> batch[w].stage = "idle"
    /\ \A i, j \in 1..Len(batch[w].left) : batch[w].left[i].id = batch[w].left[j].id => i = j

\* The marker says that the notification was sent since it was lost last.
MarkerInv ==
  \A n \in Notice :
    /\ sent[n] <= lost[n] + (IF n \in marker THEN 1 ELSE 0)
    /\ n \in marker => sent[n] >= 1

\* A row is acknowledged after it was sent.
AcknowledgeInv ==
  /\ \A w \in Worker : batch[w].stage = "acknowledge" => sent[Head(batch[w].left).id] >= 1
  /\ \A n \in Notice : notices[n].status = "published" => sent[n] >= 1

\* As long as a worker owns a row, the count it claimed is the row's.
AttemptInv ==
  /\ \A w \in Worker : \A i \in 1..Len(batch[w].left) :
       LET c == batch[w].left[i] IN
         notices[c.id].owner = w => notices[c.id].attempts = c.attempts
  /\ \A n \in Notice :
       /\ notices[n].status = "pending" => notices[n].attempts < MaxAttempts
       /\ notices[n].status = "dead_letter" => notices[n].attempts = MaxAttempts

DispatchInv == DispatchTypes /\ BatchInv /\ MarkerInv /\ AcknowledgeInv /\ AttemptInv

LEMMA DispatchInitially == Dispatch!DispatchInit => DispatchInv
<1> USE LimitsAssumption DEF Dispatch!DispatchInit, DispatchInv, DispatchTypes, Dispatch!NoBatch,
        Dispatch!Absent, Dispatch!Nobody, Nobody, NoticeRow
<1> SUFFICES ASSUME Dispatch!DispatchInit PROVE DispatchInv
  OBVIOUS
<1>1. \A w \in Worker : batch[w] = [stage |-> "idle", left |-> <<>>]
  OBVIOUS
<1>2. DispatchTypes
  OBVIOUS
<1>3. BatchInv /\ AcknowledgeInv /\ AttemptInv
  BY <1>1 DEF BatchInv, AcknowledgeInv, AttemptInv
<1>4. MarkerInv
  BY DEF MarkerInv
<1> QED  BY <1>2, <1>3, <1>4

LEMMA DispatchCardinality == ASSUME NEW S PROVE Dispatch!Cardinality(S) = Cardinality(S)
  BY DEF Dispatch!Cardinality, Cardinality

LEMMA TailFacts ==
  ASSUME NEW S, NEW s \in Seq(S), s # <<>>
  PROVE  /\ Tail(s) \in Seq(S) /\ Len(s) \in Nat \ {0} /\ Len(Tail(s)) = Len(s) - 1
         /\ \A i \in 1..Len(Tail(s)) : i + 1 \in 1..Len(s) /\ Tail(s)[i] = s[i + 1]
         /\ Head(s) = s[1] /\ s[1] \in S
  OBVIOUS

\* What a step may do to the batches: rows are taken from the front or the
\* stage changes, and only the worker that acts can come to acknowledge.
BatchesShrink(w) ==
  /\ batch' \in [Worker -> [stage : {"idle", "publish", "acknowledge", "fail"}, left : Seq(Claim)]]
  /\ BatchInv'
  /\ \A v \in Worker : \A i \in 1..Len(batch'[v].left) :
       \E j \in 1..Len(batch[v].left) : batch'[v].left[i] = batch[v].left[j]
  /\ \A v \in Worker : v # w => batch'[v] = batch[v]

LEMMA AdvanceShrinks ==
  ASSUME DispatchTypes, BatchInv, NEW w \in Worker, batch[w].stage # "idle", Dispatch!Advance(w)
  PROVE  BatchesShrink(w) /\ batch'[w].stage # "acknowledge"
<1> DEFINE b == batch[w]
<1>1. b.left \in Seq(Claim) /\ b.left # <<>>
  BY DEF DispatchTypes, BatchInv
<1>2. \A v \in Worker : v # w => batch'[v] = batch[v]
  BY DEF Dispatch!Advance, DispatchTypes
<1>3. CASE Len(b.left) = 1
  <2>1. batch'[w] = [stage |-> "idle", left |-> <<>>]
    BY <1>3 DEF Dispatch!Advance, DispatchTypes, Dispatch!NoBatch
  <2> QED
    BY <1>2, <2>1 DEF BatchesShrink, Dispatch!Advance, DispatchTypes, Dispatch!NoBatch, BatchInv
<1>4. CASE Len(b.left) # 1
  <2>1. batch'[w] = [stage |-> "publish", left |-> Tail(b.left)]
    BY <1>4 DEF Dispatch!Advance, DispatchTypes
  <2>2. Tail(b.left) \in Seq(Claim) /\ Len(Tail(b.left)) = Len(b.left) - 1 /\ Len(b.left) >= 2
        /\ \A i \in 1..Len(Tail(b.left)) : i + 1 \in 1..Len(b.left) /\ Tail(b.left)[i] = b.left[i + 1]
    <3>1. b.left \in Seq(Claim) /\ b.left # <<>>
      BY <1>1
    <3>2. /\ Tail(b.left) \in Seq(Claim) /\ Len(b.left) \in Nat \ {0}
          /\ Len(Tail(b.left)) = Len(b.left) - 1
      BY <3>1, TailFacts
    <3>3. \A i \in 1..Len(Tail(b.left)) : i + 1 \in 1..Len(b.left) /\ Tail(b.left)[i] = b.left[i + 1]
      BY <3>1, TailFacts
    <3>4. Len(b.left) >= 2
      <4>1. \A k \in Nat \ {0} : k # 1 => k >= 2
        OBVIOUS
      <4> QED  BY ONLY <4>1, <3>2, <1>4
    <3> QED  BY ONLY <3>2, <3>3, <3>4
  <2>3. Tail(b.left) # <<>>
    BY <2>2
  <2>4. batch' \in [Worker -> [stage : {"idle", "publish", "acknowledge", "fail"}, left : Seq(Claim)]]
    BY <2>1, <2>2 DEF Dispatch!Advance, DispatchTypes, Dispatch!NoBatch
  <2>5. \A i \in 1..Len(batch'[w].left) : i + 1 \in 1..Len(b.left) /\ batch'[w].left[i] = b.left[i + 1]
    BY <2>1, <2>2
  <2>6. BatchInv'
    <3> SUFFICES ASSUME NEW v \in Worker
                 PROVE  /\ batch'[v].left = <<>> <=> batch'[v].stage = "idle"
                        /\ \A i, j \in 1..Len(batch'[v].left) :
                             batch'[v].left[i].id = batch'[v].left[j].id => i = j
      BY DEF BatchInv
    <3>1. CASE v # w
      BY <3>1, <1>2 DEF BatchInv
    <3>2. CASE v = w
      <4>1. \A i, j \in 1..Len(b.left) : b.left[i].id = b.left[j].id => i = j
        BY DEF BatchInv
      <4>2. \A i, j \in 1..Len(batch'[w].left) : batch'[w].left[i].id = batch'[w].left[j].id => i = j
        <5> TAKE i, j \in 1..Len(batch'[w].left)
        <5> HAVE batch'[w].left[i].id = batch'[w].left[j].id
        <5>1. i + 1 \in 1..Len(b.left) /\ j + 1 \in 1..Len(b.left)
              /\ b.left[i + 1].id = b.left[j + 1].id
          BY <2>5
        <5>2. i + 1 = j + 1
          BY <5>1, <4>1
        <5>3. i \in Int /\ j \in Int
          BY <2>1, <2>2
        <5> QED  BY <5>2, <5>3
      <4> QED  BY <3>2, <4>2, <2>1, <2>3
    <3> QED  BY <3>1, <3>2
  <2>7. \A v \in Worker : \A i \in 1..Len(batch'[v].left) :
          \E j \in 1..Len(batch[v].left) : batch'[v].left[i] = batch[v].left[j]
    <3> TAKE v \in Worker
    <3>1. CASE v # w
      BY <3>1, <1>2
    <3>2. CASE v = w
      BY <3>2, <2>5
    <3> QED  BY <3>1, <3>2
  <2> QED
    BY <1>2, <2>1, <2>4, <2>6, <2>7 DEF BatchesShrink
<1> QED  BY <1>3, <1>4

LEMMA StageShrinks ==
  ASSUME DispatchTypes, BatchInv, NEW w \in Worker, batch[w].stage # "idle",
         NEW stage \in {"publish", "acknowledge", "fail"},
         batch' = [batch EXCEPT ![w].stage = stage]
  PROVE  BatchesShrink(w) /\ batch'[w] = [stage |-> stage, left |-> batch[w].left]
<1>1. batch'[w] = [stage |-> stage, left |-> batch[w].left] /\ batch[w].left \in Seq(Claim)
  BY DEF DispatchTypes
<1>2. \A v \in Worker : v # w => batch'[v] = batch[v]
  BY DEF DispatchTypes
<1>3. batch' \in [Worker -> [stage : {"idle", "publish", "acknowledge", "fail"}, left : Seq(Claim)]]
  BY <1>1 DEF DispatchTypes
<1>4. \A v \in Worker : batch'[v].left = batch[v].left
  BY <1>1, <1>2
<1>5. BatchInv'
  <2>1. \A v \in Worker : batch'[v].stage = "idle" <=> batch[v].stage = "idle"
    BY <1>1, <1>2
  <2> QED  BY <1>4, <2>1 DEF BatchInv
<1> QED  BY <1>1, <1>2, <1>3, <1>4, <1>5 DEF BatchesShrink

LEMMA FailureShrinks ==
  ASSUME DispatchTypes, BatchInv, NEW w \in Worker, batch[w].stage # "idle",
         batch' = [batch EXCEPT ![w].stage = "fail"]
  PROVE  BatchesShrink(w) /\ batch'[w].stage = "fail"
<1>1. PICK stage \in {"publish", "acknowledge", "fail"} : stage = "fail"
  OBVIOUS
<1>2. batch' = [batch EXCEPT ![w].stage = stage]
  BY <1>1
<1>3. BatchesShrink(w) /\ batch'[w] = [stage |-> stage, left |-> batch[w].left]
  BY <1>2, StageShrinks
<1> QED  BY <1>1, <1>3

LEMMA DropShrinks ==
  ASSUME DispatchTypes, BatchInv, NEW w \in Worker, batch' = [batch EXCEPT ![w] = Dispatch!NoBatch]
  PROVE  BatchesShrink(w) /\ batch'[w].stage = "idle"
<1>1. batch'[w] = [stage |-> "idle", left |-> <<>>]
  BY DEF DispatchTypes, Dispatch!NoBatch
<1>2. \A v \in Worker : v # w => batch'[v] = batch[v]
  BY DEF DispatchTypes
<1>3. batch' \in [Worker -> [stage : {"idle", "publish", "acknowledge", "fail"}, left : Seq(Claim)]]
  BY DEF DispatchTypes, Dispatch!NoBatch
<1>4. BatchInv'
  BY <1>1, <1>2 DEF BatchInv
<1>5. \A v \in Worker : \A i \in 1..Len(batch'[v].left) :
        \E j \in 1..Len(batch[v].left) : batch'[v].left[i] = batch[v].left[j]
  <2> TAKE v \in Worker
  <2>1. CASE v # w
    BY <2>1, <1>2
  <2>2. CASE v = w
    BY <2>2, <1>1
  <2> QED  BY <2>1, <2>2
<1> QED  BY <1>1, <1>2, <1>3, <1>4, <1>5 DEF BatchesShrink

\* The script keeps the count of publications within the lives of the marker.
LEMMA PublishOnceKeeps ==
  ASSUME DispatchTypes, MarkerInv, NEW n \in Notice, Dispatch!PublishOnce(n), lost' = lost
  PROVE  /\ marker' \in SUBSET Notice /\ sent' \in [Notice -> Nat] /\ MarkerInv'
         /\ sent'[n] >= 1
         /\ \A m \in Notice : sent'[m] >= sent[m]
<1> USE DEF DispatchTypes, MarkerInv, Dispatch!PublishOnce
<1>1. marker' \in SUBSET Notice /\ sent' \in [Notice -> Nat]
  OBVIOUS
<1>2. \A m \in Notice : sent'[m] = IF m = n /\ n \notin marker THEN sent[m] + 1 ELSE sent[m]
  OBVIOUS
<1>3. MarkerInv'
  BY <1>2
<1> QED  BY <1>1, <1>2, <1>3

\* A claim is of a notification.
LEMMA ClaimTypes ==
  ASSUME DispatchTypes, NEW w \in Worker
  PROVE  /\ batch[w].left \in Seq(Claim)
         /\ \A i \in 1..Len(batch[w].left) :
              batch[w].left[i].id \in Notice /\ batch[w].left[i].attempts \in Nat
<1>1. batch[w].left \in Seq(Claim)
  BY DEF DispatchTypes
<1>2. \A i \in 1..Len(batch[w].left) : batch[w].left[i] \in Claim
  BY <1>1
<1> QED  BY <1>1, <1>2 DEF Claim

LEMMA CurrentTypes ==
  ASSUME DispatchTypes, BatchInv, NEW w \in Worker, batch[w].stage # "idle"
  PROVE  /\ batch[w].left # <<>> /\ 1 \in 1..Len(batch[w].left)
         /\ Dispatch!Current(w) = batch[w].left[1]
         /\ Head(batch[w].left) = batch[w].left[1]
         /\ batch[w].left[1].id \in Notice
<1>1. batch[w].left \in Seq(Claim) /\ batch[w].left # <<>>
  BY ClaimTypes DEF BatchInv
<1>2. Head(batch[w].left) = batch[w].left[1] /\ Len(batch[w].left) \in Nat \ {0}
  BY <1>1, TailFacts
<1> QED  BY <1>1, <1>2, ClaimTypes DEF Dispatch!Current

\* The counts of the claims stay those of the rows, when rows are left alone
\* or one of them is released.
LEMMA ClaimsStay ==
  ASSUME DispatchInv, NEW w \in Worker, BatchesShrink(w),
         notices' \in [Notice -> NoticeRow],
         \A n \in Notice : notices'[n] = notices[n] \/ notices'[n].owner = Nobody
                             \/ (notices'[n].owner = notices[n].owner
                                 /\ notices'[n].attempts = notices[n].attempts)
  PROVE  \A v \in Worker : \A i \in 1..Len(batch'[v].left) :
           LET c == batch'[v].left[i] IN
             notices'[c.id].owner = v => notices'[c.id].attempts = c.attempts
<1> TAKE v \in Worker
<1> TAKE i \in 1..Len(batch'[v].left)
<1>1. PICK j \in 1..Len(batch[v].left) : batch'[v].left[i] = batch[v].left[j]
  BY DEF BatchesShrink
<1> DEFINE c == batch[v].left[j]
<1>2. c \in Claim
  BY DEF DispatchInv, DispatchTypes
<1>3. notices[c.id].owner = v => notices[c.id].attempts = c.attempts
  BY DEF DispatchInv, AttemptInv
<1>4. v # Nobody
  BY LimitsAssumption DEF Nobody, Dispatch!Nobody
<1> QED
  BY <1>1, <1>2, <1>3, <1>4 DEF Claim

\* What the steps of a worker at its batch have to show.
LEMMA WorkerStep ==
  ASSUME DispatchInv, NEW w \in Worker, BatchesShrink(w),
         notices' \in [Notice -> NoticeRow],
         \A n \in Notice : notices'[n] = notices[n] \/ notices'[n].owner = Nobody,
         marker' \in SUBSET Notice, sent' \in [Notice -> Nat], lost' \in [Notice -> Nat], MarkerInv',
         \A n \in Notice : sent'[n] >= sent[n],
         batch'[w].stage = "acknowledge" => sent'[Head(batch'[w].left).id] >= 1,
         \A n \in Notice : notices'[n] # notices[n] =>
           /\ notices'[n].status = "published" => sent'[n] >= 1
           /\ notices'[n].status = "pending" => notices'[n].attempts < MaxAttempts
           /\ notices'[n].status = "dead_letter" => notices'[n].attempts = MaxAttempts
  PROVE  DispatchInv'
<1>a. DispatchTypes /\ BatchInv /\ MarkerInv /\ AcknowledgeInv /\ AttemptInv
  BY DEF DispatchInv
<1>1. DispatchTypes' /\ BatchInv'
  BY DEF DispatchTypes, BatchesShrink
<1>2. AcknowledgeInv'
  <2>1. ASSUME NEW v \in Worker, batch'[v].stage = "acknowledge", v # w
        PROVE  sent'[Head(batch'[v].left).id] >= 1
    <3>1. batch'[v] = batch[v]
      BY <2>1 DEF BatchesShrink
    <3>2. Head(batch[v].left).id \in Notice
      BY <1>a, <3>1, <2>1, CurrentTypes
    <3>3. sent[Head(batch[v].left).id] >= 1
      BY <1>a, <3>1, <2>1 DEF AcknowledgeInv
    <3>4. \A n \in Notice : sent[n] \in Nat /\ sent'[n] \in Nat
      BY <1>a DEF DispatchTypes
    <3> QED  BY <3>1, <3>2, <3>3, <3>4
  <2>2. \A n \in Notice : notices'[n].status = "published" => sent'[n] >= 1
    BY <1>a DEF AcknowledgeInv, DispatchTypes
  <2> QED  BY <2>1, <2>2 DEF AcknowledgeInv
<1>3. AttemptInv'
  <2>1. \A v \in Worker : \A i \in 1..Len(batch'[v].left) :
          LET c == batch'[v].left[i] IN
            notices'[c.id].owner = v => notices'[c.id].attempts = c.attempts
    BY ClaimsStay
  <2>2. \A n \in Notice :
          /\ notices'[n].status = "pending" => notices'[n].attempts < MaxAttempts
          /\ notices'[n].status = "dead_letter" => notices'[n].attempts = MaxAttempts
    BY <1>a DEF AttemptInv
  <2> QED  BY <2>1, <2>2 DEF AttemptInv
<1> QED  BY <1>1, <1>2, <1>3 DEF DispatchInv

\* Releasing a row as an attempt that ended.
LEMMA ReleaseKeeps ==
  ASSUME DispatchInv, NEW n \in Notice, NEW status \in {"pending", "published", "dead_letter"},
         notices' = Dispatch!Released(n, status)
  PROVE  /\ notices' \in [Notice -> NoticeRow]
         /\ \A m \in Notice : m # n => notices'[m] = notices[m]
         /\ notices'[n].owner = Nobody /\ notices'[n].status = status
         /\ notices'[n].attempts = notices[n].attempts + 1
  BY DEF DispatchInv, DispatchTypes, Dispatch!Released, NoticeRow, Nobody

\* The changes of a row keep it a row.
LEMMA RowChanges ==
  /\ \A r \in NoticeRow :
       LET x == [r EXCEPT !.lease = "expired"] IN
         x \in NoticeRow /\ x.status = r.status /\ x.owner = r.owner /\ x.attempts = r.attempts
  /\ \A r \in NoticeRow :
       LET x == [r EXCEPT !.due = TRUE] IN
         x \in NoticeRow /\ x.status = r.status /\ x.owner = r.owner /\ x.attempts = r.attempts
  /\ \A r \in NoticeRow, w \in Worker :
       LET x == [r EXCEPT !.owner = w, !.lease = "held"] IN
         x \in NoticeRow /\ x.status = r.status /\ x.owner = w /\ x.attempts = r.attempts
<1>1. \A r \in NoticeRow :
        LET x == [r EXCEPT !.lease = "expired"] IN
          x \in NoticeRow /\ x.status = r.status /\ x.owner = r.owner /\ x.attempts = r.attempts
  BY DEF NoticeRow
<1>2. \A r \in NoticeRow :
        LET x == [r EXCEPT !.due = TRUE] IN
          x \in NoticeRow /\ x.status = r.status /\ x.owner = r.owner /\ x.attempts = r.attempts
  BY DEF NoticeRow
<1>3. \A r \in NoticeRow, w \in Worker :
        LET x == [r EXCEPT !.owner = w, !.lease = "held"] IN
          x \in NoticeRow /\ x.status = r.status /\ x.owner = w /\ x.attempts = r.attempts
  BY DEF NoticeRow
<1> QED  BY <1>1, <1>2, <1>3

LEMMA RowReplaced ==
  ASSUME notices \in [Notice -> NoticeRow], NEW n \in Notice, NEW x \in NoticeRow,
         notices' = [notices EXCEPT ![n] = x]
  PROVE  /\ notices' \in [Notice -> NoticeRow] /\ notices'[n] = x
         /\ \A m \in Notice : m # n => notices'[m] = notices[m]
  OBVIOUS

LEMMA DispatchSteps == DispatchInv /\ Dispatch!DispatchNext => DispatchInv'
<1> SUFFICES ASSUME DispatchInv, Dispatch!DispatchNext PROVE DispatchInv'
  OBVIOUS
<1>a. DispatchTypes /\ BatchInv /\ MarkerInv /\ AcknowledgeInv /\ AttemptInv
  BY DEF DispatchInv
<1>1. ASSUME NEW n \in Notice, Dispatch!Enqueue(n) PROVE DispatchInv'
  <2>u. UNCHANGED <<batch, marker, sent, lost>>
    BY <1>1 DEF Dispatch!Enqueue
  <2> DEFINE x == [status |-> "pending", attempts |-> 0, owner |-> Nobody, lease |-> "none",
                   due |-> TRUE]
  <2>a. notices \in [Notice -> NoticeRow]
    BY <1>a DEF DispatchTypes
  <2>b. x \in NoticeRow
    BY DEF NoticeRow
  <2>1. notices' = [notices EXCEPT ![n] = x] /\ notices[n].attempts = 0 /\ notices[n].owner = Nobody
    BY <1>1, <2>a DEF Dispatch!Enqueue, Dispatch!Absent, Nobody
  <2>2. notices' \in [Notice -> NoticeRow] /\ notices'[n] = x
        /\ \A m \in Notice : m # n => notices'[m] = notices[m]
    BY <2>a, <2>b, <2>1, RowReplaced
  <2>3. notices'[n].attempts = 0 /\ notices'[n].owner = Nobody /\ notices'[n].status = "pending"
    BY <2>2
  <2> HIDE DEF x
  <2>4. DispatchTypes' /\ BatchInv' /\ MarkerInv'
    BY <1>a, <2>2, <2>u DEF DispatchTypes, BatchInv, MarkerInv
  <2>5. AcknowledgeInv'
    BY <1>a, <2>2, <2>3, <2>u DEF AcknowledgeInv
  <2>6. AttemptInv'
    <3>1. \A m \in Notice : notices'[m].owner = notices[m].owner
                            /\ notices'[m].attempts = notices[m].attempts
      BY <2>1, <2>2, <2>3
    <3>2. \A v \in Worker : \A i \in 1..Len(batch[v].left) : batch[v].left[i].id \in Notice
      BY <1>a, ClaimTypes
    <3>3. \A m \in Notice :
            /\ notices'[m].status = "pending" => notices'[m].attempts < MaxAttempts
            /\ notices'[m].status = "dead_letter" => notices'[m].attempts = MaxAttempts
      BY <1>a, <2>2, <2>3, LimitsAssumption DEF AttemptInv
    <3>4. \A v \in Worker : \A i \in 1..Len(batch[v].left) :
            notices'[batch[v].left[i].id].owner = v =>
              notices'[batch[v].left[i].id].attempts = batch[v].left[i].attempts
      BY <1>a, <3>1, <3>2 DEF AttemptInv
    <3> QED  BY <3>3, <3>4, <2>u DEF AttemptInv
  <2> QED  BY <2>4, <2>5, <2>6 DEF DispatchInv
<1>2. ASSUME NEW n \in Notice, Dispatch!LeaseExpires(n) \/ Dispatch!RetryDue(n) PROVE DispatchInv'
  <2>a. notices \in [Notice -> NoticeRow] /\ notices[n] \in NoticeRow
    BY <1>a DEF DispatchTypes
  <2>1. PICK x \in NoticeRow :
          /\ x.status = notices[n].status /\ x.owner = notices[n].owner
          /\ x.attempts = notices[n].attempts
          /\ notices' = [notices EXCEPT ![n] = x]
    <3>1. CASE Dispatch!LeaseExpires(n)
      <4>1. notices' = [notices EXCEPT ![n] = [notices[n] EXCEPT !.lease = "expired"]]
        BY <3>1 DEF Dispatch!LeaseExpires
      <4> QED  BY <4>1, <2>a, RowChanges
    <3>2. CASE Dispatch!RetryDue(n)
      <4>1. notices' = [notices EXCEPT ![n] = [notices[n] EXCEPT !.due = TRUE]]
        BY <3>2 DEF Dispatch!RetryDue
      <4> QED  BY <4>1, <2>a, RowChanges
    <3> QED  BY <3>1, <3>2, <1>2
  <2>2. UNCHANGED <<batch, marker, sent, lost>>
    BY <1>2 DEF Dispatch!LeaseExpires, Dispatch!RetryDue
  <2>3. notices' \in [Notice -> NoticeRow] /\ notices'[n] = x
        /\ \A m \in Notice : m # n => notices'[m] = notices[m]
    BY <2>a, <2>1, RowReplaced
  <2>4. \A m \in Notice : /\ notices'[m].status = notices[m].status
                          /\ notices'[m].owner = notices[m].owner
                          /\ notices'[m].attempts = notices[m].attempts
    BY <2>1, <2>3
  <2>5. DispatchTypes' /\ BatchInv' /\ MarkerInv'
    BY <1>a, <2>2, <2>3 DEF DispatchTypes, BatchInv, MarkerInv
  <2>6. AcknowledgeInv'
    BY <1>a, <2>2, <2>4 DEF AcknowledgeInv
  <2>7. \A v \in Worker : \A i \in 1..Len(batch[v].left) : batch[v].left[i].id \in Notice
    BY <1>a, ClaimTypes
  <2>8. AttemptInv'
    BY <1>a, <2>2, <2>4, <2>7 DEF AttemptInv
  <2> QED  BY <2>5, <2>6, <2>8 DEF DispatchInv
<1>3. ASSUME NEW n \in Notice, Dispatch!MarkerLost(n) PROVE DispatchInv'
  <2> USE <1>3 DEF Dispatch!MarkerLost
  <2>1. MarkerInv' /\ lost' \in [Notice -> Nat]
    BY <1>a DEF DispatchTypes, MarkerInv
  <2>2. DispatchTypes' /\ BatchInv'
    BY <1>a, <2>1 DEF DispatchTypes, BatchInv
  <2>3. AcknowledgeInv' /\ AttemptInv'
    BY <1>a DEF AcknowledgeInv, AttemptInv
  <2> QED  BY <2>1, <2>2, <2>3 DEF DispatchInv
<1>4. ASSUME NEW w \in Worker, Dispatch!ClaimBatch(w) PROVE DispatchInv'
  <2>1. PICK S \in SUBSET Dispatch!Claimable :
          /\ S # {}
          /\ notices' = [n \in Notice |-> IF n \in S THEN [notices[n] EXCEPT !.owner = w, !.lease = "held"]
                                          ELSE notices[n]]
          /\ \E order \in Dispatch!SetToSeqs(S) :
               batch' = [batch EXCEPT ![w] =
                           [stage |-> "publish",
                            left |-> [k \in DOMAIN order |->
                                        [id |-> order[k], attempts |-> notices[order[k]].attempts]]]]
    BY <1>4 DEF Dispatch!ClaimBatch
  <2>2. PICK order \in Dispatch!SetToSeqs(S) :
               batch' = [batch EXCEPT ![w] =
                           [stage |-> "publish",
                            left |-> [k \in DOMAIN order |->
                                        [id |-> order[k], attempts |-> notices[order[k]].attempts]]]]
    BY <2>1
  <2> DEFINE left == batch'[w].left
  <2>3. S \subseteq Notice /\ IsFiniteSet(S) /\ Cardinality(S) \in Nat \ {0}
    BY <2>1, LimitsAssumption, FS_Subset, FS_CardinalityType, FS_EmptySet DEF Dispatch!Claimable
  <2>4. /\ order \in [1..Cardinality(S) -> S]
        /\ \A i, j \in 1..Cardinality(S) : i # j => order[i] # order[j]
    BY <2>2, DispatchCardinality DEF Dispatch!SetToSeqs
  <2>5. UNCHANGED <<marker, sent, lost>>
    BY <1>4 DEF Dispatch!ClaimBatch
  <2>a. notices \in [Notice -> NoticeRow]
    BY <1>a DEF DispatchTypes
  <2>6. notices' \in [Notice -> NoticeRow]
    BY <2>a, <2>1, RowChanges
  <2>7. \A n \in Notice : /\ notices'[n].status = notices[n].status
                          /\ notices'[n].attempts = notices[n].attempts
                          /\ notices'[n].owner = IF n \in S THEN w ELSE notices[n].owner
    <3> TAKE n \in Notice
    <3> DEFINE x == [notices[n] EXCEPT !.owner = w, !.lease = "held"]
    <3>1. x.status = notices[n].status /\ x.owner = w /\ x.attempts = notices[n].attempts
      BY <2>a, RowChanges, ZenonT(30)
    <3>2. notices'[n] = IF n \in S THEN x ELSE notices[n]
      BY <2>1
    <3> QED  BY <3>1, <3>2
  <2>8. /\ batch'[w].stage = "publish"
        /\ left = [k \in 1..Cardinality(S) |-> [id |-> order[k], attempts |-> notices[order[k]].attempts]]
        /\ \A v \in Worker : v # w => batch'[v] = batch[v]
    BY <1>a, <2>2, <2>4 DEF DispatchTypes
  <2>9. left \in Seq(Claim) /\ Len(left) = Cardinality(S) /\ left # <<>>
    <3>1. left \in [1..Cardinality(S) -> Claim]
      BY <1>a, <2>3, <2>4, <2>8 DEF DispatchTypes, Claim, NoticeRow
    <3> HIDE DEF left
    <3> QED  BY <3>1, <2>3
  <2>10. batch' \in [Worker -> [stage : {"idle", "publish", "acknowledge", "fail"}, left : Seq(Claim)]]
    <3>1. batch' = [batch EXCEPT ![w] = [stage |-> "publish", left |-> left]]
      BY <1>a, <2>2 DEF DispatchTypes
    <3> HIDE DEF left
    <3>2. [stage |-> "publish", left |-> left]
            \in [stage : {"idle", "publish", "acknowledge", "fail"}, left : Seq(Claim)]
      BY <2>9
    <3> QED  BY <1>a, <3>1, <3>2 DEF DispatchTypes
  <2>11. DispatchTypes' /\ MarkerInv'
    BY <1>a, <2>5, <2>6, <2>10 DEF DispatchTypes, MarkerInv
  <2>12. BatchInv'
    <3>1. \A i \in 1..Cardinality(S) : left[i].id = order[i]
      BY <2>8
    <3>2. \A i, j \in 1..Len(left) : left[i].id = left[j].id => i = j
      <4> HIDE DEF left
      <4> QED  BY <3>1, <2>4, <2>9
    <3>3. \A v \in Worker : v # w =>
            /\ batch'[v].left = <<>> <=> batch'[v].stage = "idle"
            /\ \A i, j \in 1..Len(batch'[v].left) : batch'[v].left[i].id = batch'[v].left[j].id => i = j
      BY <1>a, <2>8 DEF BatchInv
    <3> QED  BY <2>8, <2>9, <3>2, <3>3 DEF BatchInv
  <2>13. AcknowledgeInv'
    BY <1>a, <2>5, <2>7, <2>8 DEF AcknowledgeInv
  <2>14. AttemptInv'
    <3>1. \A v \in Worker : v # w => \A i \in 1..Len(batch[v].left) :
            notices'[batch[v].left[i].id].owner = v =>
              notices'[batch[v].left[i].id].attempts = batch[v].left[i].attempts
      <4>1. \A v \in Worker : \A i \in 1..Len(batch[v].left) : batch[v].left[i].id \in Notice
        BY <1>a, ClaimTypes
      <4> QED  BY <1>a, <4>1, <2>7 DEF AttemptInv
    <3>2. \A i \in 1..Len(left) : left[i].id \in Notice /\ notices'[left[i].id].attempts = left[i].attempts
      BY <2>3, <2>4, <2>7, <2>8, <2>9
    <3>3. \A n \in Notice :
            /\ notices'[n].status = "pending" => notices'[n].attempts < MaxAttempts
            /\ notices'[n].status = "dead_letter" => notices'[n].attempts = MaxAttempts
      BY <1>a, <2>7 DEF AttemptInv
    <3>4. \A v \in Worker : \A i \in 1..Len(batch'[v].left) :
            notices'[batch'[v].left[i].id].owner = v =>
              notices'[batch'[v].left[i].id].attempts = batch'[v].left[i].attempts
      <4> TAKE v \in Worker
      <4>1. CASE v = w
        BY <4>1, <3>2
      <4>2. CASE v # w
        BY <4>2, <3>1, <2>8
      <4> QED  BY <4>1, <4>2
    <3> QED  BY <3>3, <3>4 DEF AttemptInv
  <2> QED  BY <2>11, <2>12, <2>13, <2>14 DEF DispatchInv
<1>5. ASSUME NEW w \in Worker, Dispatch!Publish(w) PROVE DispatchInv'
  <2> USE <1>5 DEF Dispatch!Publish
  <2>0. batch[w].stage # "idle"
    OBVIOUS
  <2> DEFINE n == Head(batch[w].left).id
  <2>1. n \in Notice /\ Dispatch!Current(w).id = n
    BY <1>a, <2>0, CurrentTypes
  <2>2. /\ marker' \in SUBSET Notice /\ sent' \in [Notice -> Nat] /\ MarkerInv'
        /\ sent'[n] >= 1 /\ \A m \in Notice : sent'[m] >= sent[m]
    BY <1>a, <2>1, PublishOnceKeeps
  <2>3. BatchesShrink(w) /\ batch'[w] = [stage |-> "acknowledge", left |-> batch[w].left]
    BY <1>a, <2>0, StageShrinks
  <2>4. notices \in [Notice -> NoticeRow] /\ lost \in [Notice -> Nat]
    BY <1>a DEF DispatchTypes
  <2> HIDE DEF n
  <2>5. Head(batch'[w].left).id = n
    BY <2>3 DEF n
  <2> QED  BY <2>2, <2>3, <2>4, <2>5, WorkerStep
<1>6. ASSUME NEW w \in Worker, Dispatch!PublishFails(w) PROVE DispatchInv'
  <2>0. batch[w].stage # "idle" /\ batch' = [batch EXCEPT ![w].stage = "fail"]
        /\ UNCHANGED <<notices, lost>>
    BY <1>6 DEF Dispatch!PublishFails
  <2>1. /\ marker' \in SUBSET Notice /\ sent' \in [Notice -> Nat] /\ MarkerInv'
        /\ \A m \in Notice : sent'[m] >= sent[m]
    <3>1. CASE UNCHANGED <<marker, sent>>
      BY <1>a, <2>0, <3>1 DEF DispatchTypes, MarkerInv
    <3>2. CASE Dispatch!PublishOnce(Dispatch!Current(w).id)
      BY <1>a, <2>0, <3>2, CurrentTypes, PublishOnceKeeps
    <3> QED  BY <1>6, <3>1, <3>2 DEF Dispatch!PublishFails
  <2>2. BatchesShrink(w) /\ batch'[w].stage = "fail"
    BY <1>a, <2>0, FailureShrinks
  <2>3. notices \in [Notice -> NoticeRow] /\ lost \in [Notice -> Nat]
    BY <1>a DEF DispatchTypes
  <2> QED  BY <2>0, <2>1, <2>2, <2>3, WorkerStep
<1>7. ASSUME NEW w \in Worker, BatchesShrink(w), batch'[w].stage # "acknowledge",
             UNCHANGED <<notices, marker, sent, lost>>
      PROVE  DispatchInv'
  <2>1. /\ notices \in [Notice -> NoticeRow] /\ marker \in SUBSET Notice
        /\ sent \in [Notice -> Nat] /\ lost \in [Notice -> Nat]
    BY <1>a DEF DispatchTypes
  <2>2. MarkerInv' /\ \A n \in Notice : sent'[n] >= sent[n]
    BY <1>7, <1>a, <2>1 DEF MarkerInv
  <2> QED  BY <1>7, <2>1, <2>2, WorkerStep
<1>8. ASSUME NEW w \in Worker, NEW status \in {"pending", "published", "dead_letter"},
             batch[w].stage # "idle", Dispatch!Owned(w, Dispatch!Current(w).id),
             notices' = Dispatch!Released(Dispatch!Current(w).id, status),
             Dispatch!Advance(w) \/ batch' = [batch EXCEPT ![w].stage = "fail"],
             UNCHANGED <<marker, sent, lost>>,
             status = "published" => batch[w].stage = "acknowledge",
             status = "dead_letter" => Dispatch!Current(w).attempts + 1 >= MaxAttempts,
             status = "pending" => ~(Dispatch!Current(w).attempts + 1 >= MaxAttempts)
      PROVE  DispatchInv'
  <2> DEFINE n == batch[w].left[1].id
  <2>1. /\ n \in Notice /\ Dispatch!Current(w) = batch[w].left[1]
        /\ Head(batch[w].left) = batch[w].left[1] /\ 1 \in 1..Len(batch[w].left)
    BY <1>a, <1>8, CurrentTypes
  <2>2. /\ notices' \in [Notice -> NoticeRow]
        /\ \A m \in Notice : m # n => notices'[m] = notices[m]
        /\ notices'[n].owner = Nobody /\ notices'[n].status = status
        /\ notices'[n].attempts = notices[n].attempts + 1
    BY <1>8, <2>1, ReleaseKeeps
  <2>3. BatchesShrink(w) /\ batch'[w].stage # "acknowledge"
    <3>1. CASE Dispatch!Advance(w)
      BY <1>a, <1>8, <3>1, AdvanceShrinks
    <3>2. CASE batch' = [batch EXCEPT ![w].stage = "fail"]
      <4>1. BatchesShrink(w) /\ batch'[w].stage = "fail"
        BY <1>a, <1>8, <3>2, FailureShrinks
      <4> QED  BY <4>1
    <3> QED  BY <1>8, <3>1, <3>2
  <2>4. /\ notices[n].attempts \in Nat /\ MaxAttempts \in Nat
        /\ notices[n].attempts = batch[w].left[1].attempts /\ notices[n].attempts < MaxAttempts
    <3>1. notices[n].owner = w /\ notices[n].status = "pending"
      BY <1>8, <2>1 DEF Dispatch!Owned, Dispatch!Pending
    <3>2. notices[n].attempts \in Nat
      BY <1>a, <2>1 DEF DispatchTypes, NoticeRow
    <3>3. notices[n].attempts = batch[w].left[1].attempts /\ notices[n].attempts < MaxAttempts
      BY <1>a, <2>1, <3>1 DEF AttemptInv
    <3> QED  BY <3>2, <3>3, LimitsAssumption
  <2>5. /\ status = "published" => sent[n] >= 1
        /\ status = "pending" => notices'[n].attempts < MaxAttempts
        /\ status = "dead_letter" => notices'[n].attempts = MaxAttempts
    <3>1. status = "published" => sent[n] >= 1
      BY <1>a, <1>8, <2>1 DEF AcknowledgeInv
    <3> HIDE DEF n
    <3> DEFINE k == notices[n].attempts
    <3>2. notices'[n].attempts = k + 1 /\ k \in Nat /\ MaxAttempts \in Nat /\ k < MaxAttempts
      BY <2>2, <2>4
    <3>3. Dispatch!Current(w).attempts = k
      BY <2>1, <2>4
    <3> HIDE DEF k
    <3>4. ASSUME status = "pending" PROVE notices'[n].attempts < MaxAttempts
      <4>1. ~(k + 1 >= MaxAttempts)
        BY <1>8, <3>3, <3>4, Zenon
      <4> QED  BY <3>2, <4>1
    <3>5. ASSUME status = "dead_letter" PROVE notices'[n].attempts = MaxAttempts
      <4>1. k + 1 >= MaxAttempts
        BY <1>8, <3>3, <3>5, Zenon
      <4> QED  BY <3>2, <4>1
    <3> QED  BY <3>1, <3>4, <3>5
  <2>6. /\ marker \in SUBSET Notice /\ sent \in [Notice -> Nat] /\ lost \in [Notice -> Nat]
    BY <1>a DEF DispatchTypes
  <2>7. MarkerInv' /\ \A m \in Notice : sent'[m] >= sent[m]
    BY <1>8, <1>a, <2>6 DEF MarkerInv
  <2> HIDE DEF n
  <2> QED  BY <1>8, <2>1, <2>2, <2>3, <2>5, <2>6, <2>7, WorkerStep
<1>9. ASSUME NEW w \in Worker, Dispatch!Acknowledge(w) PROVE DispatchInv'
  <2>1. batch[w].stage = "acknowledge" /\ UNCHANGED <<marker, sent, lost>>
    BY <1>9 DEF Dispatch!Acknowledge
  <2>2. CASE Dispatch!Owned(w, Dispatch!Current(w).id)
    BY <1>8, <1>9, <2>1, <2>2 DEF Dispatch!Acknowledge
  <2>3. CASE ~Dispatch!Owned(w, Dispatch!Current(w).id)
    <3>1. batch' = [batch EXCEPT ![w].stage = "fail"] /\ UNCHANGED notices
      BY <1>9, <2>3 DEF Dispatch!Acknowledge
    <3> QED  BY <1>7, <1>a, <2>1, <3>1, FailureShrinks
  <2> QED  BY <2>2, <2>3
<1>10. ASSUME NEW w \in Worker, Dispatch!AcknowledgeFails(w) PROVE DispatchInv'
  <2>1. /\ batch[w].stage = "acknowledge" /\ batch' = [batch EXCEPT ![w].stage = "fail"]
        /\ UNCHANGED <<marker, sent, lost>>
    BY <1>10 DEF Dispatch!AcknowledgeFails
  <2>2. CASE UNCHANGED notices
    BY <1>7, <1>a, <2>1, <2>2, FailureShrinks
  <2>3. CASE ~UNCHANGED notices
    <3>1. /\ Dispatch!Owned(w, Dispatch!Current(w).id)
          /\ notices' = Dispatch!Released(Dispatch!Current(w).id, "published")
      BY <1>10, <2>3 DEF Dispatch!AcknowledgeFails
    <3> QED  BY <1>8, <2>1, <3>1
  <2> QED  BY <2>2, <2>3
<1>11. ASSUME NEW w \in Worker, Dispatch!Fail(w) PROVE DispatchInv'
  <2>1. batch[w].stage = "fail" /\ UNCHANGED <<marker, sent, lost>>
    BY <1>11 DEF Dispatch!Fail
  <2>2. CASE Dispatch!Owned(w, Dispatch!Current(w).id)
    <3> DEFINE status == IF Dispatch!Current(w).attempts + 1 >= MaxAttempts THEN "dead_letter" ELSE "pending"
    <3>1. notices' = Dispatch!Released(Dispatch!Current(w).id, status) /\ Dispatch!Advance(w)
      BY <1>11, <2>2 DEF Dispatch!Fail
    <3>2. /\ status \in {"pending", "published", "dead_letter"} /\ status # "published"
          /\ status = "dead_letter" => Dispatch!Current(w).attempts + 1 >= MaxAttempts
          /\ status = "pending" => ~(Dispatch!Current(w).attempts + 1 >= MaxAttempts)
      OBVIOUS
    <3> HIDE DEF status
    <3> QED  BY <1>8, <2>1, <2>2, <3>1, <3>2
  <2>3. CASE ~Dispatch!Owned(w, Dispatch!Current(w).id)
    <3>1. batch' = [batch EXCEPT ![w] = Dispatch!NoBatch] /\ UNCHANGED notices
      BY <1>11, <2>3 DEF Dispatch!Fail
    <3> QED  BY <1>7, <1>a, <2>1, <3>1, DropShrinks
  <2> QED  BY <2>2, <2>3
<1>12. ASSUME NEW w \in Worker, Dispatch!Abandon(w) PROVE DispatchInv'
  BY <1>7, <1>12, <1>a, DropShrinks DEF Dispatch!Abandon
<1> QED
  BY <1>1, <1>2, <1>3, <1>4, <1>5, <1>6, <1>9, <1>10, <1>11, <1>12
  DEF Dispatch!DispatchNext, Dispatch!Work

LEMMA DispatchInvariance == Spec => []DispatchInv
<1>1. Init => DispatchInv
  BY DispatchInitially DEF Init
<1>2. DispatchInv /\ [Next]_vars => DispatchInv'
  <2> SUFFICES ASSUME DispatchInv, [Next]_vars PROVE DispatchInv'
    OBVIOUS
  <2>1. CASE Dispatch!DispatchNext
    BY <2>1, DispatchSteps
  <2>2. CASE UNCHANGED noticeVars
    BY <2>2 DEF noticeVars, DispatchInv, DispatchTypes, BatchInv, MarkerInv, AcknowledgeInv, AttemptInv
  <2> QED
    BY <2>1, <2>2 DEF Next, vars
<1> QED
  BY <1>1, <1>2, PTL DEF Spec

\* However leases expire, dispatchers overtake each other and calls fail, a
\* notification is published once for each life of its marker, and its row is
\* settled by the attempts that were made.
THEOREM NotificationsSentOnce == Spec => []SentOnce
<1>1. DispatchInv => SentOnce
  BY DEF DispatchInv, DispatchTypes, MarkerInv, AcknowledgeInv, AttemptInv, SentOnce,
    Dispatch!SentOnce, Dispatch!Pending
<1> QED
  BY <1>1, DispatchInvariance, PTL

(***************************************************************************)
(* RealtimeGateway.                                                        *)
(***************************************************************************)

LEMMA GatewayCardinality == ASSUME NEW S PROVE Gateway!Cardinality(S) = Cardinality(S)
  BY DEF Gateway!Cardinality, Cardinality

SocketRow ==
  [stage : {"unused", "authenticating", "answered", "open", "rejected", "closed"},
   session : Session \cup {Gateway!Unused.session}, token : Nat,
   answer : BOOLEAN, observed : BOOLEAN, check : {"none", "reading", "answered"}, lost : BOOLEAN]

GatewayTypes ==
  /\ socket \in [Socket -> SocketRow]
  /\ session \in [Session -> [valid : BOOLEAN, token : Nat]]

\* The connections of the hub are the open ones; with the limit, an invariant:
\* each step that opens a connection counts those of its session in the same
\* step, whatever was counted before its authentication.
HubInv ==
  /\ GatewayTypes
  /\ hub = {c \in Socket : socket[c].stage = "open"}
  /\ \A s \in Session : Cardinality({c \in hub : socket[c].session = s}) <= MaxPerSession

\* A step that opens no connection and moves none to another session.
LEMMA HubShrinks ==
  ASSUME HubInv, GatewayTypes',
         hub' = {c \in Socket : socket'[c].stage = "open"}, hub' \subseteq hub,
         \A c \in hub' : socket'[c].session = socket[c].session
  PROVE  HubInv'
<1>1. ASSUME NEW s \in Session
      PROVE  Cardinality({c \in hub' : socket'[c].session = s}) <= MaxPerSession
  <2> DEFINE before == {c \in hub : socket[c].session = s}
             after == {c \in hub' : socket'[c].session = s}
  <2>1. after \subseteq before /\ before \subseteq Socket
    BY DEF HubInv
  <2>2. IsFiniteSet(before)
    BY <2>1, LimitsAssumption, FS_Subset
  <2>3. Cardinality(after) <= Cardinality(before) /\ Cardinality(after) \in Nat
        /\ Cardinality(before) \in Nat
    BY <2>1, <2>2, FS_Subset, FS_CardinalityType
  <2>4. Cardinality(before) <= MaxPerSession /\ MaxPerSession \in Nat
    BY LimitsAssumption DEF HubInv
  <2> HIDE DEF before, after
  <2>5. Cardinality(after) <= MaxPerSession
    BY <2>3, <2>4
  <2> QED  BY <2>5 DEF after
<1> QED  BY <1>1 DEF HubInv

LEMMA SocketChanges ==
  /\ Gateway!Unused \in SocketRow /\ Gateway!Unused.stage = "unused"
  /\ \A c \in Socket : socket[c] \in SocketRow =>
       \A stage \in {"closed", "rejected"} :
         Gateway!Gone(c, stage) \in SocketRow /\ Gateway!Gone(c, stage).stage = stage
<1>1. Gateway!Unused \in SocketRow /\ Gateway!Unused.stage = "unused"
  BY DEF Gateway!Unused, SocketRow
<1>2. ASSUME NEW c \in Socket, socket[c] \in SocketRow, NEW stage \in {"closed", "rejected"}
      PROVE  Gateway!Gone(c, stage) \in SocketRow /\ Gateway!Gone(c, stage).stage = stage
  <2>1. socket[c].check \in {"none", "reading", "answered"}
    BY <1>2 DEF SocketRow
  <2> QED  BY <1>1, <2>1 DEF Gateway!Gone, SocketRow
<1> QED  BY <1>1, <1>2

\* Closing a set of connections.
LEMMA ClosedRows ==
  ASSUME HubInv, NEW S
  PROVE  /\ Gateway!Closed(S) \in [Socket -> SocketRow]
         /\ \A c \in Socket : c \notin S => Gateway!Closed(S)[c] = socket[c]
         /\ \A c \in S \cap Socket : Gateway!Closed(S)[c].stage # "open"
<1>1. \A c \in Socket : socket[c] \in SocketRow
  BY DEF HubInv, GatewayTypes
<1>2. \A c \in Socket : Gateway!Gone(c, "closed") \in SocketRow
                        /\ Gateway!Gone(c, "closed").stage = "closed"
  BY <1>1, SocketChanges
<1> QED  BY <1>1, <1>2 DEF Gateway!Closed, Gateway!Open

LEMMA GatewayInitially == Gateway!GatewayInit => HubInv
<1> SUFFICES ASSUME Gateway!GatewayInit PROVE HubInv
  OBVIOUS
<1>1. socket \in [Socket -> SocketRow] /\ \A c \in Socket : socket[c].stage = "unused"
  BY SocketChanges DEF Gateway!GatewayInit
<1>2. GatewayTypes /\ hub = {c \in Socket : socket[c].stage = "open"}
  BY <1>1 DEF GatewayTypes, Gateway!GatewayInit
<1>3. \A s \in Session : {c \in hub : socket[c].session = s} = {}
  BY DEF Gateway!GatewayInit
<1>4. Cardinality({}) <= MaxPerSession
  BY FS_EmptySet, LimitsAssumption
<1> QED  BY <1>2, <1>3, <1>4 DEF HubInv

LEMMA GatewaySteps == HubInv /\ Gateway!GatewayNext => HubInv'
<1> SUFFICES ASSUME HubInv, Gateway!GatewayNext PROVE HubInv'
  OBVIOUS
<1>a. /\ socket \in [Socket -> SocketRow]
      /\ session \in [Session -> [valid : BOOLEAN, token : Nat]]
      /\ hub = {c \in Socket : socket[c].stage = "open"}
  BY DEF HubInv, GatewayTypes
\* One socket changes and is neither opened nor moved while it is open.
<1>b. ASSUME NEW c \in Socket, NEW x \in SocketRow, socket' = [socket EXCEPT ![c] = x],
             x.stage = "open" <=> socket[c].stage = "open",
             x.stage = "open" => x.session = socket[c].session,
             hub' = hub, session' = session
      PROVE  HubInv'
  <2>1. GatewayTypes'
    BY <1>a, <1>b DEF GatewayTypes
  <2>2. hub' = {d \in Socket : socket'[d].stage = "open"}
    BY <1>a, <1>b
  <2>3. \A d \in hub' : socket'[d].session = socket[d].session
    BY <1>a, <1>b
  <2> QED  BY <1>b, <2>1, <2>2, <2>3, HubShrinks
\* Some connections are closed.
<1>c. ASSUME NEW S, S \subseteq hub, socket' = Gateway!Closed(S), hub' = hub \ S,
             session' \in [Session -> [valid : BOOLEAN, token : Nat]]
      PROVE  HubInv'
  <2>1. /\ socket' \in [Socket -> SocketRow]
        /\ \A c \in Socket : c \notin S => socket'[c] = socket[c]
        /\ \A c \in S \cap Socket : socket'[c].stage # "open"
    BY <1>c, ClosedRows
  <2>2. GatewayTypes'
    BY <1>c, <2>1 DEF GatewayTypes
  <2>3. hub' = {d \in Socket : socket'[d].stage = "open"}
    BY <1>a, <1>c, <2>1
  <2> QED  BY <1>a, <1>c, <2>1, <2>2, <2>3, HubShrinks
<1>1. ASSUME NEW c \in Socket, NEW s \in Session, Gateway!Upgrade(c, s) PROVE HubInv'
  <2>1. socket[c].stage = "unused" /\ socket[c] \in SocketRow /\ session[s].token \in Nat
        /\ hub' = hub /\ session' = session
    BY <1>1, <1>a, SocketChanges DEF Gateway!Upgrade
  <2> DEFINE x == [socket[c] EXCEPT !.stage = "authenticating", !.session = s, !.token = session[s].token]
  <2>2. x \in SocketRow /\ x.stage = "authenticating"
    BY <2>1 DEF SocketRow
  <2>3. socket' = [socket EXCEPT ![c] = x]
    BY <1>1, <1>a DEF Gateway!Upgrade
  <2> HIDE DEF x
  <2> QED  BY <1>b, <2>1, <2>2, <2>3
<1>2. ASSUME NEW c \in Socket, Gateway!ReadSession(c) PROVE HubInv'
  <2>1. socket[c].stage = "authenticating" /\ socket[c] \in SocketRow
        /\ hub' = hub /\ session' = session
    BY <1>2, <1>a DEF Gateway!ReadSession
  <2>2. PICK answer \in BOOLEAN :
          socket' = [socket EXCEPT ![c].stage = "answered", ![c].answer = answer]
    BY <1>2 DEF Gateway!ReadSession, Gateway!LoadActiveState
  <2> DEFINE x == [socket[c] EXCEPT !.stage = "answered", !.answer = answer]
  <2>3. socket' = [socket EXCEPT ![c] = x]
    BY <1>a, <2>2
  <2>4. x.stage = "answered" /\ x \in SocketRow
    BY <2>1 DEF SocketRow
  <2> HIDE DEF x
  <2> QED  BY <1>b, <2>1, <2>3, <2>4
<1>3. ASSUME NEW c \in Socket, Gateway!Admit(c) PROVE HubInv'
  <2>1. socket[c].stage = "answered" /\ socket[c] \in SocketRow /\ session' = session
    BY <1>3, <1>a DEF Gateway!Admit
  <2> DEFINE s == socket[c].session
             within == socket[c].answer /\ Gateway!Cardinality(Gateway!Of(s)) < MaxPerSession
             x == [socket[c] EXCEPT !.stage = "open", !.answer = FALSE, !.observed = TRUE]
             mine == {d \in hub : socket[d].session = s}
  <2>2. x \in SocketRow /\ x.stage = "open" /\ x.session = s
    BY <2>1 DEF SocketRow
  <2>3. CASE within
    <3>1. socket' = [socket EXCEPT ![c] = x] /\ hub' = hub \cup {c}
      BY <1>3, <1>a, <2>3 DEF Gateway!Admit
    <3> HIDE DEF x
    <3>2. GatewayTypes'
      BY <1>a, <2>1, <2>2, <3>1 DEF GatewayTypes
    <3>3. hub' = {d \in Socket : socket'[d].stage = "open"}
      BY <1>a, <2>2, <3>1
    <3>4. ASSUME NEW r \in Session
          PROVE  Cardinality({d \in hub' : socket'[d].session = r}) <= MaxPerSession
      <4>1. CASE r # s
        <5>1. {d \in hub' : socket'[d].session = r} = {d \in hub : socket[d].session = r}
          BY <1>a, <2>1, <2>2, <3>1, <4>1
        <5> QED  BY <5>1 DEF HubInv
      <4>2. CASE r = s
        <5>1. {d \in hub' : socket'[d].session = r} = mine \cup {c}
          BY <1>a, <2>1, <2>2, <3>1, <4>2
        <5>2. c \notin mine /\ IsFiniteSet(mine)
          BY <1>a, <2>1, LimitsAssumption, FS_Subset
        <5>3. Cardinality(mine \cup {c}) = Cardinality(mine) + 1 /\ Cardinality(mine) \in Nat
          BY <5>2, FS_AddElement, FS_CardinalityType
        <5>4. Cardinality(mine) < MaxPerSession /\ MaxPerSession \in Nat
          BY <2>3, GatewayCardinality, LimitsAssumption DEF Gateway!Of
        <5> HIDE DEF mine
        <5>5. Cardinality(mine \cup {c}) <= MaxPerSession
          BY <5>3, <5>4
        <5> QED  BY <5>1, <5>5
      <4> QED  BY <4>1, <4>2
    <3> QED  BY <3>2, <3>3, <3>4 DEF HubInv
  <2>4. CASE ~within
    <3>1. socket' = [socket EXCEPT ![c] = Gateway!Gone(c, "rejected")] /\ hub' = hub
      BY <1>3, <1>a, <2>4 DEF Gateway!Admit
    <3>2. Gateway!Gone(c, "rejected") \in SocketRow /\ Gateway!Gone(c, "rejected").stage = "rejected"
      BY <2>1, SocketChanges
    <3> QED  BY <1>b, <2>1, <3>1, <3>2
  <2> QED  BY <2>3, <2>4
<1>4. ASSUME NEW c \in Socket, Gateway!Leave(c) PROVE HubInv'
  BY <1>4, <1>a, <1>c DEF Gateway!Leave, Gateway!Open
<1>5. ASSUME NEW c \in Socket, Gateway!Pong(c) PROVE HubInv'
  <2> DEFINE x == [socket[c] EXCEPT !.observed = TRUE]
  <2>1. socket[c] \in SocketRow /\ hub' = hub /\ session' = session
    BY <1>5, <1>a DEF Gateway!Pong
  <2>2. socket' = [socket EXCEPT ![c] = x]
    BY <1>5, <1>a DEF Gateway!Pong
  <2>3. x \in SocketRow /\ x.stage = socket[c].stage /\ x.session = socket[c].session
    BY <2>1 DEF SocketRow
  <2> HIDE DEF x
  <2> QED  BY <1>b, <2>1, <2>2, <2>3
<1>6. ASSUME NEW c \in Socket, Gateway!CheckRead(c) PROVE HubInv'
  <2>1. socket[c] \in SocketRow /\ hub' = hub /\ session' = session
    BY <1>6, <1>a DEF Gateway!CheckRead
  <2>2. PICK answer \in BOOLEAN :
          socket' = [socket EXCEPT ![c].check = "answered", ![c].answer = answer]
    BY <1>6 DEF Gateway!CheckRead, Gateway!LoadActiveState, Gateway!Open
  <2> DEFINE x == [socket[c] EXCEPT !.check = "answered", !.answer = answer]
  <2>3. socket' = [socket EXCEPT ![c] = x]
    BY <1>a, <2>2
  <2>4. x \in SocketRow /\ x.stage = socket[c].stage /\ x.session = socket[c].session
    BY <2>1 DEF SocketRow
  <2> HIDE DEF x
  <2> QED  BY <1>b, <2>1, <2>3, <2>4
<1>13. ASSUME NEW c \in Socket, Gateway!LoseClient(c) PROVE HubInv'
  <2> DEFINE x == [socket[c] EXCEPT !.lost = TRUE]
  <2>1. socket[c] \in SocketRow /\ hub' = hub /\ session' = session
    BY <1>13, <1>a DEF Gateway!LoseClient
  <2>2. socket' = [socket EXCEPT ![c] = x]
    BY <1>13, <1>a DEF Gateway!LoseClient
  <2>3. x \in SocketRow /\ x.stage = socket[c].stage /\ x.session = socket[c].session
    BY <2>1 DEF SocketRow
  <2> HIDE DEF x
  <2> QED  BY <1>b, <2>1, <2>2, <2>3
<1>7. ASSUME NEW c \in Socket, Gateway!CheckDone(c) PROVE HubInv'
  <2>1. socket[c] \in SocketRow /\ session' = session
    BY <1>7, <1>a DEF Gateway!CheckDone
  <2>2. CASE socket[c].answer \/ ~Gateway!Open(c)
    <3> DEFINE x == [socket[c] EXCEPT !.check = "none", !.answer = FALSE, !.observed = FALSE]
    <3>1. socket' = [socket EXCEPT ![c] = x] /\ hub' = hub
      BY <1>7, <1>a, <2>2 DEF Gateway!CheckDone
    <3>2. x \in SocketRow /\ x.stage = socket[c].stage /\ x.session = socket[c].session
      BY <2>1 DEF SocketRow
    <3> HIDE DEF x
    <3> QED  BY <1>b, <2>1, <3>1, <3>2
  <2>3. CASE ~(socket[c].answer \/ ~Gateway!Open(c))
    <3> DEFINE closed == Gateway!Closed({c})
               x == [closed[c] EXCEPT !.check = "none"]
    <3>1. closed \in [Socket -> SocketRow] /\ closed[c].stage # "open"
          /\ \A d \in Socket : d # c => closed[d] = socket[d]
      BY ClosedRows
    <3>2. socket' = [closed EXCEPT ![c] = x] /\ hub' = hub \ {c}
      BY <1>7, <2>3 DEF Gateway!CheckDone
    <3> HIDE DEF closed
    <3>3. x \in SocketRow /\ x.stage # "open"
      BY <3>1 DEF SocketRow
    <3> HIDE DEF x
    <3>4. GatewayTypes' /\ hub' = {d \in Socket : socket'[d].stage = "open"}
      BY <1>a, <2>1, <3>1, <3>2, <3>3 DEF GatewayTypes
    <3>5. hub' \subseteq hub /\ \A d \in hub' : socket'[d].session = socket[d].session
      BY <1>a, <3>1, <3>2
    <3> QED  BY <3>4, <3>5, HubShrinks
  <2> QED  BY <2>2, <2>3
<1>8. ASSUME NEW s \in Session, Gateway!Revoke(s) \/ Gateway!Rotate(s) PROVE HubInv'
  <2>1. session' \in [Session -> [valid : BOOLEAN, token : Nat]] /\ hub' = hub /\ socket' = socket
    <3>1. CASE Gateway!Revoke(s)
      BY <3>1, <1>a DEF Gateway!Revoke
    <3>2. CASE Gateway!Rotate(s)
      BY <3>2, <1>a DEF Gateway!Rotate
    <3> QED  BY <1>8, <3>1, <3>2
  <2>2. GatewayTypes'
    BY <1>a, <2>1 DEF GatewayTypes
  <2> QED  BY <1>a, <2>1, <2>2, HubShrinks
<1>9. ASSUME NEW s \in Session, Gateway!Expire(s) PROVE HubInv'
  <2>1. session' \in [Session -> [valid : BOOLEAN, token : Nat]]
    BY <1>9, <1>a DEF Gateway!Expire
  <2> DEFINE S == Gateway!Of(s)
  <2>2. S \subseteq hub /\ socket' = Gateway!Closed(S) /\ hub' = hub \ S
    BY <1>9 DEF Gateway!Expire, Gateway!Of
  <2> HIDE DEF S
  <2> QED  BY <1>c, <2>1, <2>2
<1>10. CASE Gateway!StartCheck
  <2> DEFINE silent == {c \in hub : ~socket[c].observed}
  <2>1. /\ hub' = hub \ silent /\ session' = session
        /\ socket' = [c \in Socket |->
                       IF c \in silent THEN Gateway!Gone(c, "closed")
                       ELSE IF c \in hub THEN [socket[c] EXCEPT !.check = "reading"] ELSE socket[c]]
    BY <1>10 DEF Gateway!StartCheck
  <2>2. \A c \in Socket :
          LET x == [socket[c] EXCEPT !.check = "reading"] IN
            x \in SocketRow /\ x.stage = socket[c].stage /\ x.session = socket[c].session
    BY <1>a DEF SocketRow
  <2>3. \A c \in Socket : Gateway!Gone(c, "closed") \in SocketRow
                          /\ Gateway!Gone(c, "closed").stage = "closed"
    BY <1>a, SocketChanges
  <2>4. \A c \in Socket : socket'[c] \in SocketRow
    BY <1>a, <2>1, <2>2, <2>3
  <2>5. socket' \in [Socket -> SocketRow]
    BY <2>1, <2>4
  <2>6. GatewayTypes'
    BY <1>a, <2>1, <2>5 DEF GatewayTypes
  <2>7. \A c \in Socket : /\ c \in silent => socket'[c].stage = "closed"
                          /\ c \notin silent => socket'[c].stage = socket[c].stage
                                                /\ socket'[c].session = socket[c].session
    BY <2>1, <2>2, <2>3
  <2> HIDE DEF silent
  <2>8. hub' = {d \in Socket : socket'[d].stage = "open"} /\ hub' \subseteq hub
        /\ \A d \in hub' : socket'[d].session = socket[d].session
    BY <1>a, <2>1, <2>7
  <2> QED  BY <2>6, <2>8, HubShrinks
<1>11. CASE Gateway!EndCheck \/ Gateway!CloseHttp
  <2>1. session' = session /\ hub' = hub /\ socket' = socket
    BY <1>11 DEF Gateway!EndCheck, Gateway!CloseHttp
  <2> QED  BY <2>1, <1>a, HubShrinks DEF GatewayTypes
<1>12. CASE Gateway!CloseGateway
  BY <1>12, <1>a, <1>c DEF Gateway!CloseGateway
<1> QED
  BY <1>1, <1>2, <1>3, <1>4, <1>5, <1>6, <1>7, <1>8, <1>9, <1>10, <1>11, <1>12, <1>13
  DEF Gateway!GatewayNext

LEMMA HubInvariance == Spec => []HubInv
<1>1. Init => HubInv
  BY GatewayInitially DEF Init
<1>2. HubInv /\ [Next]_vars => HubInv'
  <2> SUFFICES ASSUME HubInv, [Next]_vars PROVE HubInv'
    OBVIOUS
  <2>1. CASE Gateway!GatewayNext
    BY <2>1, GatewaySteps
  <2>2. CASE UNCHANGED gatewayVars
    BY <2>2 DEF gatewayVars, HubInv, GatewayTypes
  <2> QED
    BY <2>1, <2>2 DEF Next, vars
<1> QED
  BY <1>1, <1>2, PTL DEF Spec

\* However upgrades, revocations, leaving clients and the heartbeat cycle
\* interleave, the hub is the set of open connections and no session has more
\* than its share of them.
THEOREM HubAlwaysExact == Spec => []HubExact
<1>1. HubInv => HubExact
  BY GatewayCardinality DEF HubInv, HubExact, Gateway!HubExact, Gateway!Open, Gateway!Of
<1> QED
  BY <1>1, HubInvariance, PTL

(***************************************************************************)
(* RuleReload.                                                             *)
(***************************************************************************)

(* Definitions by recursion on a number.                                   *)

LEMMA NatOrder == IsWellFoundedOn({ss \in Nat \X Nat : ss[1] < ss[2]}, Nat)
  BY NatLessThanWellFounded DEF OpToRel

LEMMA LeastNumber ==
  ASSUME NEW T, T \subseteq Nat, T # {}
  PROVE  \E x \in T : \A y \in T : x <= y
<1> DEFINE R == {ss \in Nat \X Nat : ss[1] < ss[2]}
<1>1. \E x \in T : \A y \in T : <<y, x>> \notin R
  <2>1. IsWellFoundedOn(R, Nat)
    BY NatOrder
  <2> HIDE DEF R
  <2> QED  BY <2>1, WFMin
<1>2. \A x, y \in Nat : <<y, x>> \in R <=> y < x
  OBVIOUS
<1> HIDE DEF R
<1>3. PICK x \in T : \A y \in T : <<y, x>> \notin R
  BY <1>1
<1>4. \A y \in T : x \in Nat /\ y \in Nat /\ ~(y < x)
  BY <1>2, <1>3
<1> QED  BY <1>4

\* g starts at a and goes on with the table F.
Recurs(g, a, F, L) == g[0] = a /\ \A n \in 1..L : g[n] = F[<<g[n-1], n>>]

\* What a step cannot leave holds at every step.
LEMMA RecursionStays ==
  ASSUME NEW A, NEW a \in A, NEW L \in Nat, NEW F \in [A \X (1..L) -> A], NEW g, Recurs(g, a, F, L)
  PROVE  \A n \in 0..L : g[n] \in A
<1> DEFINE T == {n \in 0..L : g[n] \notin A}
<1>1. SUFFICES ASSUME T # {} PROVE FALSE
  OBVIOUS
<1>2. PICK n \in T : \A k \in T : n <= k
  <2>1. T \subseteq Nat
    OBVIOUS
  <2> HIDE DEF T
  <2> QED  BY <1>1, <2>1, LeastNumber
<1>3. n \in 0..L /\ g[n] \notin A /\ n # 0
  BY <1>2 DEF Recurs
<1>4. n - 1 \in 0..L /\ n \in 1..L /\ n - 1 \notin T
  BY <1>2, <1>3
<1>5. g[n-1] \in A
  BY <1>4
<1> QED  BY <1>3, <1>4, <1>5 DEF Recurs

LEMMA RecursionExists ==
  ASSUME NEW A, NEW a \in A, NEW L \in Nat, NEW F \in [A \X (1..L) -> A]
  PROVE  \E g : DOMAIN g = 0..L /\ g = [n \in 0..L |-> g[n]] /\ Recurs(g, a, F, L)
<1> DEFINE Good(m) == \E g : DOMAIN g = 0..m /\ g = [n \in 0..m |-> g[n]] /\ Recurs(g, a, F, m)
           T == {m \in 0..L : ~Good(m)}
<1>1. SUFFICES ASSUME T # {} PROVE FALSE
  BY L \in 0..L
<1>2. PICK m \in T : \A k \in T : m <= k
  <2>1. T \subseteq Nat
    OBVIOUS
  <2> HIDE DEF T
  <2> QED  BY <1>1, <2>1, LeastNumber
<1>3. CASE m = 0
  <2> DEFINE h == [n \in 0..0 |-> a]
  <2>1. DOMAIN h = 0..0 /\ h = [n \in 0..0 |-> h[n]] /\ Recurs(h, a, F, 0)
    BY DEF Recurs
  <2> HIDE DEF h
  <2>2. Good(0)
    BY <2>1
  <2> QED  BY <1>2, <1>3, <2>2
<1>4. CASE m # 0
  <2>1. m \in 1..L /\ m - 1 \in 0..L /\ m - 1 \notin T
    BY <1>2, <1>4
  <2>2. PICK g : Recurs(g, a, F, m - 1)
    BY <2>1
  <2> DEFINE h == [n \in 0..m |-> IF n = m THEN F[<<g[m-1], m>>] ELSE g[n]]
  <2>3. DOMAIN h = 0..m /\ h = [n \in 0..m |-> h[n]]
    OBVIOUS
  <2>4. \A n \in 0..m-1 : h[n] = g[n]
    BY <2>1
  <2>5. h[m] = F[<<g[m-1], m>>]
    BY <2>1
  <2> HIDE DEF h
  <2>6. h[0] = a
    BY <2>1, <2>2, <2>4, 0 \in 0..m-1 DEF Recurs
  <2>7. ASSUME NEW n \in 1..m PROVE h[n] = F[<<h[n-1], n>>]
    <3>1. h[n-1] = g[n-1]
      BY <2>1, <2>4
    <3>2. CASE n = m
      BY <2>5, <3>1, <3>2
    <3>3. CASE n # m
      BY <2>1, <2>2, <2>4, <3>1, <3>3, n \in 1..m-1, SMTT(30) DEF Recurs
    <3> QED  BY <3>2, <3>3
  <2>8. Recurs(h, a, F, m)
    BY <2>6, <2>7 DEF Recurs
  <2>9. Good(m)
    BY <2>3, <2>8
  <2> HIDE DEF Good
  <2> QED  BY <1>2, <2>9
<1> QED  BY <1>3, <1>4

\* Two that go on with the same table agree.
LEMMA RecursionUnique ==
  ASSUME NEW L \in Nat, NEW a, NEW F, NEW g, Recurs(g, a, F, L), NEW h, Recurs(h, a, F, L)
  PROVE  \A n \in 0..L : g[n] = h[n]
<1> DEFINE T == {n \in 0..L : g[n] # h[n]}
<1>1. SUFFICES ASSUME T # {} PROVE FALSE
  OBVIOUS
<1>2. PICK n \in T : \A k \in T : n <= k
  <2>1. T \subseteq Nat
    OBVIOUS
  <2> HIDE DEF T
  <2> QED  BY <1>1, <2>1, LeastNumber
<1>3. n \in 0..L /\ g[n] # h[n] /\ n # 0
  BY <1>2 DEF Recurs
<1>4. n - 1 \in 0..L /\ n \in 1..L /\ n - 1 \notin T
  BY <1>2, <1>3
<1>5. g[n-1] = h[n-1]
  BY <1>4
<1> QED  BY <1>3, <1>4, <1>5 DEF Recurs

Occurs(x, s) == \E n \in 1..Len(s) : s[n] = x

LEMMA OccursAppended ==
  ASSUME NEW X, NEW s \in Seq(X), NEW x \in X
  PROVE  /\ Append(s, x) \in Seq(X) /\ Occurs(x, Append(s, x))
         /\ \A y : Occurs(y, s) => Occurs(y, Append(s, x))
<1>1. /\ Append(s, x) \in Seq(X) /\ Len(s) \in Nat /\ Len(Append(s, x)) = Len(s) + 1
      /\ Append(s, x)[Len(s) + 1] = x
      /\ \A n \in 1..Len(s) : Append(s, x)[n] = s[n]
  OBVIOUS
<1>2. \A n \in 1..Len(s) : n \in 1..Len(Append(s, x))
  BY <1>1
<1>3. Len(s) + 1 \in 1..Len(Append(s, x))
  BY <1>1
<1> QED  BY ONLY <1>1, <1>2, <1>3 DEF Occurs

\* Chosen selects the elements of the set, and all of them.
LEMMA ChosenFacts ==
  ASSUME NEW X, NEW s \in Seq(X), NEW S
  PROVE  /\ Rules!Chosen(s, S) \in Seq(X \cap S)
         /\ \A x \in S : Occurs(x, s) => Occurs(x, Rules!Chosen(s, S))
<1> DEFINE A == Seq(X \cap S)
           L == Len(s)
           F == [p \in A \X (1..L) |-> IF s[p[2]] \in S THEN Append(p[1], s[p[2]]) ELSE p[1]]
           Unfolds(g) == g = [n \in 0..L |-> IF n = 0 THEN <<>>
                                             ELSE IF s[n] \in S THEN Append(g[n-1], s[n]) ELSE g[n-1]]
           kept == CHOOSE g : Unfolds(g)
<1>1. L \in Nat /\ <<>> \in A /\ \A n \in 1..L : s[n] \in X
  OBVIOUS
<1>2. \A a \in A, n \in 1..L :
        F[<<a, n>>] = (IF s[n] \in S THEN Append(a, s[n]) ELSE a) /\ F[<<a, n>>] \in A
  BY <1>1
<1>3. F \in [A \X (1..L) -> A]
  BY <1>2
<1>4. Rules!Chosen(s, S) = kept[L]
  BY DEF Rules!Chosen
<1> HIDE DEF F, A
<1>5. \E g : Unfolds(g)
  <2>1. PICK g : DOMAIN g = 0..L /\ g = [n \in 0..L |-> g[n]] /\ Recurs(g, <<>>, F, L)
    BY <1>1, <1>3, RecursionExists
  <2>2. \A n \in 0..L : g[n] \in A
    BY <1>1, <1>3, <2>1, RecursionStays
  <2>3. \A n \in 0..L : g[n] = IF n = 0 THEN <<>>
                               ELSE IF s[n] \in S THEN Append(g[n-1], s[n]) ELSE g[n-1]
    <3> TAKE n \in 0..L
    <3>1. CASE n = 0
      BY <2>1, <3>1 DEF Recurs
    <3>2. CASE n # 0
      <4>1. n \in 1..L /\ n - 1 \in 0..L
        BY <1>1, <3>2
      <4>2. g[n] = F[<<g[n-1], n>>]
        BY <2>1, <4>1 DEF Recurs
      <4> QED  BY <1>2, <2>2, <3>2, <4>1, <4>2
    <3> QED  BY <3>1, <3>2
  <2> QED  BY <2>1, <2>3
<1>6. Unfolds(kept)
  BY <1>5
<1> HIDE DEF kept
<1>7. kept[0] = <<>> /\ \A n \in 1..L : kept[n] = IF s[n] \in S THEN Append(kept[n-1], s[n]) ELSE kept[n-1]
  <2>1. \A n \in 0..L : kept[n] = IF n = 0 THEN <<>>
                                  ELSE IF s[n] \in S THEN Append(kept[n-1], s[n]) ELSE kept[n-1]
    BY <1>6
  <2>2. 0 \in 0..L /\ \A n \in 1..L : n \in 0..L /\ n # 0
    BY <1>1
  <2> HIDE DEF L
  <2> QED  BY <2>1, <2>2
<1> DEFINE Right(n) == /\ kept[n] \in A
                       /\ \A m \in 1..n : s[m] \in S => Occurs(s[m], kept[n])
           T == {n \in 0..L : ~Right(n)}
<1>8. \A n \in 0..L : Right(n)
  <2>1. SUFFICES ASSUME T # {} PROVE FALSE
    OBVIOUS
  <2>2. PICK n \in T : \A k \in T : n <= k
    <3>1. T \subseteq Nat
      BY <1>1
    <3> HIDE DEF T
    <3> QED  BY <2>1, <3>1, LeastNumber
  <2>3. n # 0
    BY <1>1, <1>7, <2>2
  <2>4. n \in 1..L /\ n - 1 \in 0..L /\ n - 1 \notin T /\ ~Right(n)
    BY <1>1, <2>2, <2>3
  <2> DEFINE a == kept[n-1]
  <2>5. a \in Seq(X \cap S) /\ \A m \in 1..n-1 : s[m] \in S => Occurs(s[m], a)
    BY <2>4 DEF A
  <2>6. kept[n] = IF s[n] \in S THEN Append(a, s[n]) ELSE a
    BY <1>7, <2>4
  <2> HIDE DEF a, T
  <2>7. \A m \in 1..n : m \in 1..n-1 \/ m = n
    BY <1>1, <2>4
  <2>8. CASE s[n] \in S
    <3>1. s[n] \in X \cap S
      BY <1>1, <2>4, <2>8
    <3>2. /\ kept[n] \in Seq(X \cap S) /\ Occurs(s[n], kept[n])
          /\ \A y : Occurs(y, a) => Occurs(y, kept[n])
      BY <2>5, <2>6, <2>8, <3>1, OccursAppended
    <3>3. Right(n)
      BY <2>5, <2>7, <3>2 DEF A
    <3> QED  BY <2>4, <3>3
  <2>9. CASE s[n] \notin S
    <3>1. Right(n)
      BY <2>5, <2>6, <2>7, <2>9 DEF A
    <3> QED  BY <2>4, <3>1
  <2> QED  BY <2>8, <2>9
<1>9. kept[L] \in Seq(X \cap S) /\ \A m \in 1..L : s[m] \in S => Occurs(s[m], kept[L])
  BY <1>1, <1>8 DEF A
<1> QED  BY <1>4, <1>9 DEF Occurs

(* Replay of the audit entries.                                            *)

Replayed == {"absent", "active", "disabled", "archived", "contradiction"} \X Int

LEMMA StepTypes ==
  ASSUME NEW st \in Replayed, NEW x
  PROVE  Rules!Step(st, x) \in Replayed
BY DEF Rules!Step, Replayed

\* Replay reads the entries one by one.
LEMMA ReplayFacts ==
  ASSUME NEW X, NEW first \in Replayed, NEW s \in Seq(X)
  PROVE  \E g : /\ Rules!Replay(first, s) = g[Len(s)]
                /\ Recurs(g, first, [p \in Replayed \X (1..Len(s)) |-> Rules!Step(p[1], s[p[2]])], Len(s))
<1> DEFINE L == Len(s)
           F == [p \in Replayed \X (1..L) |-> Rules!Step(p[1], s[p[2]])]
           Unfolds(g) == g = [n \in 0..L |-> IF n = 0 THEN first ELSE Rules!Step(g[n-1], s[n])]
           state == CHOOSE g : Unfolds(g)
<1>1. L \in Nat
  OBVIOUS
<1>2. \A a \in Replayed, n \in 1..L :
        F[<<a, n>>] = Rules!Step(a, s[n]) /\ F[<<a, n>>] \in Replayed
  BY StepTypes
<1>3. F \in [Replayed \X (1..L) -> Replayed]
  BY <1>2
<1>4. Rules!Replay(first, s) = state[L]
  BY DEF Rules!Replay
<1> HIDE DEF F
<1>5. \E g : Unfolds(g) /\ Recurs(g, first, F, L)
  <2>1. PICK g : DOMAIN g = 0..L /\ g = [n \in 0..L |-> g[n]] /\ Recurs(g, first, F, L)
    BY <1>1, <1>3, RecursionExists
  <2>2. \A n \in 0..L : g[n] \in Replayed
    BY <1>1, <1>3, <2>1, RecursionStays
  <2>3. \A n \in 0..L : g[n] = IF n = 0 THEN first ELSE Rules!Step(g[n-1], s[n])
    <3> TAKE n \in 0..L
    <3>1. CASE n = 0
      BY <2>1, <3>1 DEF Recurs
    <3>2. CASE n # 0
      <4>1. n \in 1..L /\ n - 1 \in 0..L
        BY <1>1, <3>2
      <4>2. g[n] = F[<<g[n-1], n>>]
        BY <2>1, <4>1 DEF Recurs
      <4> QED  BY <1>2, <2>2, <3>2, <4>1, <4>2
    <3> QED  BY <3>1, <3>2
  <2> QED  BY <2>1, <2>3
<1>6. Unfolds(state)
  BY <1>5
<1> HIDE DEF state
<1>7. state[0] = first /\ \A n \in 1..L : state[n] = Rules!Step(state[n-1], s[n])
  BY <1>1, <1>6
<1>8. \A n \in 0..L : state[n] \in Replayed
  <2> DEFINE T == {n \in 0..L : state[n] \notin Replayed}
  <2>1. SUFFICES ASSUME T # {} PROVE FALSE
    OBVIOUS
  <2>2. PICK n \in T : \A k \in T : n <= k
    <3>1. T \subseteq Nat
      BY <1>1
    <3> HIDE DEF T
    <3> QED  BY <2>1, <3>1, LeastNumber
  <2>3. n # 0
    BY <1>1, <1>7, <2>2
  <2>4. n \in 1..L /\ n - 1 \in 0..L /\ n - 1 \notin T /\ state[n] \notin Replayed
    BY <1>1, <2>2, <2>3
  <2> QED  BY <1>7, <2>4, StepTypes
<1>9. Recurs(state, first, F, L)
  <2> SUFFICES ASSUME NEW n \in 1..L PROVE state[n] = F[<<state[n-1], n>>]
    BY <1>7 DEF Recurs
  <2>1. n - 1 \in 0..L
    BY <1>1
  <2> QED  BY <1>2, <1>7, <1>8, <2>1
<1> QED  BY <1>4, <1>9 DEF F

LEMMA ReplayEmpty ==
  ASSUME NEW first \in Replayed
  PROVE  Rules!Replay(first, <<>>) = first
<1>1. <<>> \in Seq({}) /\ Len(<<>>) = 0
  OBVIOUS
<1>2. PICK g : /\ Rules!Replay(first, <<>>) = g[0]
               /\ Recurs(g, first, [p \in Replayed \X (1..0) |-> Rules!Step(p[1], <<>>[p[2]])], 0)
  BY <1>1, ReplayFacts
<1> QED  BY <1>2 DEF Recurs

\* One entry more is one step more.
LEMMA ReplayAppend ==
  ASSUME NEW X, NEW first \in Replayed, NEW s \in Seq(X), NEW x \in X
  PROVE  Rules!Replay(first, s \o <<x>>) = Rules!Step(Rules!Replay(first, s), x)
<1> DEFINE L == Len(s)
           r == s \o <<x>>
           F == [p \in Replayed \X (1..L) |-> Rules!Step(p[1], s[p[2]])]
           G == [p \in Replayed \X (1..Len(r)) |-> Rules!Step(p[1], r[p[2]])]
<1>1. /\ L \in Nat /\ r \in Seq(X) /\ Len(r) = L + 1 /\ r[L + 1] = x
      /\ \A n \in 1..L : r[n] = s[n]
  OBVIOUS
<1> HIDE DEF r
<1>2. PICK g : Rules!Replay(first, s) = g[L] /\ Recurs(g, first, F, L)
  BY ReplayFacts
<1>3. PICK h : Rules!Replay(first, r) = h[Len(r)] /\ Recurs(h, first, G, Len(r))
  BY <1>1, ReplayFacts
<1>4. F \in [Replayed \X (1..L) -> Replayed] /\ G \in [Replayed \X (1..Len(r)) -> Replayed]
  BY StepTypes
<1>5. \A a \in Replayed : /\ \A n \in 1..L : F[<<a, n>>] = G[<<a, n>>]
                          /\ G[<<a, L + 1>>] = Rules!Step(a, x)
  <2>1. \A a \in Replayed : \A n \in 1..L : F[<<a, n>>] = Rules!Step(a, s[n])
    OBVIOUS
  <2>2. \A a \in Replayed : \A n \in 1..Len(r) : G[<<a, n>>] = Rules!Step(a, r[n])
    OBVIOUS
  <2>3. L + 1 \in 1..Len(r) /\ \A n \in 1..L : n \in 1..Len(r)
    BY <1>1
  <2> HIDE DEF F, G
  <2> QED  BY <1>1, <2>1, <2>2, <2>3, SMTT(30)
<1> HIDE DEF F, G
<1>6. Recurs(h, first, G, L) /\ h[L + 1] = G[<<h[L], L + 1>>]
  BY <1>1, <1>3 DEF Recurs
<1>7. \A n \in 0..L : g[n] \in Replayed
  BY <1>1, <1>2, <1>4, RecursionStays
<1>8. \A n \in 1..L : F[<<g[n-1], n>>] = G[<<g[n-1], n>>]
  <2> TAKE n \in 1..L
  <2>1. n - 1 \in 0..L
    BY <1>1
  <2> QED  BY <1>5, <1>7, <2>1
<1>9. g[L] = h[L]
  <2>1. L \in Nat /\ Recurs(g, first, G, L) /\ Recurs(h, first, G, L)
    BY <1>1, <1>2, <1>6, <1>8 DEF Recurs
  <2> HIDE DEF L
  <2>2. \A n \in 0..L : g[n] = h[n]
    BY <2>1, RecursionUnique
  <2> QED  BY <2>1, <2>2, L \in 0..L
<1> QED  BY <1>1, <1>2, <1>3, <1>5, <1>6, <1>7, <1>9, L \in 0..L DEF r

(* The invariant.                                                          *)

RuleRow ==
  [state : {"active", "disabled", "archived"}, sigma : Sigma \cup {"none"},
   name : Name \cup {"builtin"}, type : Rules!Type, version : Nat, plain : BOOLEAN]
Read == [id : Nat, version : Nat, plain : BOOLEAN]
Document == Sigma \X Name \X Rules!Type
RuleAction ==
  {"rule_create", "rule_import", "rule_update", "rule_enable", "rule_disable", "rule_delete"}
CommandState ==
  {Rules!Idle} \cup [stage : {"signal"}, rule : Nat]
    \cup [stage : {"import"}, left : Seq(Document), last : Nat]

\* The rows are numbered without a gap, each is in the order of the query and
\* the audit trail accounts for it.
TableInv ==
  /\ \E n \in Nat \ {0} : DOMAIN rules = 1..n
  /\ rules \in [DOMAIN rules -> RuleRow]
  /\ DOMAIN audit = DOMAIN rules
  /\ \A r \in DOMAIN rules : audit[r] \in Seq(RuleAction)
  /\ recency \in Seq(DOMAIN rules)
  /\ \A r \in DOMAIN rules : Occurs(r, recency)
  /\ Rules!RulesAudited

CommandsInv == api \in [Api -> CommandState]

\* A row that was read is not newer than the table's, and its content is the
\* table's if its version is.
Known(r, version, plain) ==
  /\ r \in DOMAIN rules
  /\ version \in Nat /\ version <= rules[r].version
  /\ version = rules[r].version => plain = rules[r].plain

\* What a load has read of type t is the first part of the table's rows.
ReadInOrder(t) ==
  LET rows == Rules!ActiveRows(t)
      read == load[t].rows
  IN /\ Len(read) <= Len(rows)
     /\ \A k \in 1..Len(read) : read[k] = Rules!LoadedRow(rows[k])
     /\ load[t].done => Len(read) = Len(rows)

ReadKnown(t) ==
  \A k \in 1..Len(load[t].rows) :
    Known(load[t].rows[k].id, load[t].rows[k].version, load[t].rows[k].plain)
CachedKnown(t) == \A r \in DOMAIN cache[t] : Known(r, cache[t][r], TRUE)

LoadInv ==
  /\ load \in [Rules!Type -> [rows : Seq(Read), done : BOOLEAN]]
  /\ \A t \in Rules!Type :
       ReadKnown(t) /\ CachedKnown(t) /\ (worker = "loading" /\ ~stale => ReadInOrder(t))
  /\ Rules!LoadedAsStored

RulesInv == TableInv /\ CommandsInv /\ LoadInv

LEMMA RulesUnchanged ==
  ASSUME UNCHANGED <<rules, recency, audit, stale, load, cache, worker, ready>>
  PROVE  /\ TableInv => TableInv'
         /\ LoadInv => LoadInv'
<1>1. TableInv => TableInv'
  BY DEF TableInv, Occurs, Rules!RulesAudited, Rules!Existing
<1>2. \A t \in Rules!Type : ReadInOrder(t) => ReadInOrder(t)'
  BY DEF ReadInOrder, Rules!ActiveRows, Rules!LoadedRow, Rules!Active, Rules!Existing
<1>3. \A t \in Rules!Type : ReadKnown(t) => ReadKnown(t)'
  BY DEF ReadKnown, Known
<1>4. \A t \in Rules!Type : CachedKnown(t) => CachedKnown(t)'
  BY DEF CachedKnown, Known
<1>5. Rules!LoadedAsStored => Rules!LoadedAsStored'
  BY DEF Rules!LoadedAsStored, Rules!Active, Rules!Existing
<1>6. LoadInv => LoadInv'
  <2>1. SUFFICES ASSUME LoadInv PROVE LoadInv'
    OBVIOUS
  <2>2. load' \in [Rules!Type -> [rows : Seq(Read), done : BOOLEAN]]
    BY <2>1 DEF LoadInv
  <2>3. Rules!LoadedAsStored'
    BY <1>5, <2>1 DEF LoadInv
  <2>4. \A t \in Rules!Type :
          ReadKnown(t)' /\ CachedKnown(t)' /\ (worker' = "loading" /\ ~stale' => ReadInOrder(t)')
    <3>1. worker' = worker /\ stale' = stale
      OBVIOUS
    <3>2. \A t \in Rules!Type :
            ReadKnown(t) /\ CachedKnown(t) /\ (worker = "loading" /\ ~stale => ReadInOrder(t))
      BY <2>1 DEF LoadInv
    <3> TAKE t \in Rules!Type
    <3>3. ReadKnown(t)'
      BY <1>3, <3>2
    <3>4. CachedKnown(t)'
      BY <1>4, <3>2
    <3>5. worker = "loading" /\ ~stale => ReadInOrder(t)'
      BY <1>2, <3>2
    <3> QED  BY <3>1, <3>3, <3>4, <3>5
  <2> QED  BY <2>2, <2>3, <2>4 DEF LoadInv
<1> QED  BY <1>1, <1>6

(* The table.                                                              *)

First(r) == IF r = Rules!Builtin THEN <<"active", 1>> ELSE <<"absent", 0>>

LEMMA RulesCardinality == ASSUME NEW S PROVE Rules!Cardinality(S) = Cardinality(S)
  BY DEF Rules!Cardinality, Cardinality

\* The number of a new row is the next one.
LEMMA NextNumber ==
  ASSUME NEW n \in Nat, DOMAIN rules = 1..n
  PROVE  Rules!NextId = n + 1
<1>1. Cardinality(1..n) = n
  BY FS_Interval
<1> QED  BY <1>1, RulesCardinality DEF Rules!NextId, Rules!Existing

\* What a commit may do to row r.
Allowed(r, new, action) ==
  /\ r \in DOMAIN rules \/ r = Rules!NextId
  /\ new \in RuleRow /\ action \in RuleAction
  /\ Rules!Step(IF r \in DOMAIN rules THEN <<rules[r].state, rules[r].version>> ELSE <<"absent", 0>>,
                action) = <<new.state, new.version>>
  /\ \A s \in DOMAIN rules : s # r => new.sigma # rules[s].sigma /\ new.name # rules[s].name
  /\ r \in DOMAIN rules =>
       /\ rules[r].version <= new.version
       /\ rules[r].version = new.version => rules[r].plain = new.plain

LEMMA CommitKeepsTable ==
  ASSUME TableInv, NEW r, NEW new, NEW action, Allowed(r, new, action), Rules!Commit(r, new, action)
  PROVE  TableInv'
<1>1. /\ rules' = [i \in DOMAIN rules \cup {r} |-> IF i = r THEN new ELSE rules[i]]
      /\ recency' = <<r>> \o Rules!Chosen(recency, DOMAIN rules \ {r})
      /\ audit' = [i \in DOMAIN rules \cup {r} |->
                     (IF i \in DOMAIN rules THEN audit[i] ELSE <<>>) \o
                     (IF i = r THEN <<action>> ELSE <<>>)]
  BY DEF Rules!Commit, Rules!Existing
<1> DEFINE E == DOMAIN rules
<1>2. PICK n \in Nat \ {0} : E = 1..n
  BY DEF TableInv
<1>3. (r \in E \/ r = n + 1) /\ new \in RuleRow
  BY <1>2, NextNumber DEF Allowed
<1>4. DOMAIN rules' = E \cup {r} /\ DOMAIN audit' = E \cup {r}
  BY <1>1
<1>5. \E m \in Nat \ {0} : DOMAIN rules' = 1..m
  <2>1. CASE r \in E
    BY <1>2, <1>4, <2>1
  <2>2. CASE r = n + 1
    <3>1. E \cup {r} = 1..(n + 1)
      BY <1>2, <2>2
    <3> QED  BY <1>4, <3>1
  <2> QED  BY <1>3, <2>1, <2>2
<1>6. rules' \in [DOMAIN rules' -> RuleRow]
  BY <1>1, <1>3, <1>4 DEF TableInv
<1>7. /\ \A i \in E : i # r => rules'[i] = rules[i] /\ audit'[i] = audit[i]
      /\ rules'[r] = new
      /\ audit'[r] = (IF r \in E THEN audit[r] ELSE <<>>) \o <<action>>
  <2>1. \A i \in E : audit[i] \in Seq(RuleAction)
    BY DEF TableInv
  <2>2. \A s \in Seq(RuleAction) : s \o <<>> = s
    OBVIOUS
  <2> QED  BY <1>1, <2>1, <2>2
<1>8. \A i \in DOMAIN rules' : audit'[i] \in Seq(RuleAction)
  <2>1. \A i \in E : audit[i] \in Seq(RuleAction)
    BY DEF TableInv
  <2>2. audit'[r] \in Seq(RuleAction)
    <3>1. action \in RuleAction /\ \A s \in Seq(RuleAction) : s \o <<action>> \in Seq(RuleAction)
      BY DEF Allowed
    <3>2. (IF r \in E THEN audit[r] ELSE <<>>) \in Seq(RuleAction)
      <4>1. <<>> \in Seq(RuleAction)
        OBVIOUS
      <4> QED  BY <2>1, <4>1, Zenon
    <3> QED  BY <1>7, <3>1, <3>2
  <2> QED  BY <1>4, <1>7, <2>1, <2>2
<1>9. recency' \in Seq(DOMAIN rules') /\ \A i \in DOMAIN rules' : Occurs(i, recency')
  <2> DEFINE rest == Rules!Chosen(recency, E \ {r})
  <2>1. /\ rest \in Seq(E \cap (E \ {r}))
        /\ \A x \in E \ {r} : Occurs(x, rest)
    BY ChosenFacts DEF TableInv
  <2>2. rest \in Seq(E \cup {r})
    BY <2>1
  <2> HIDE DEF rest
  <2>3. /\ <<r>> \o rest \in Seq(E \cup {r})
        /\ Len(<<r>> \o rest) = Len(rest) + 1 /\ (<<r>> \o rest)[1] = r
        /\ \A k \in 1..Len(rest) : (<<r>> \o rest)[k + 1] = rest[k]
    BY <2>2
  <2>4. Len(rest) \in Nat
    BY <2>2
  <2>5. recency' = <<r>> \o rest
    BY <1>1 DEF rest
  <2>6. Occurs(r, recency')
    BY <2>3, <2>4, <2>5, 1 \in 1..Len(rest) + 1 DEF Occurs
  <2>7. \A x : Occurs(x, rest) => Occurs(x, recency')
    <3> TAKE x
    <3> HAVE Occurs(x, rest)
    <3>1. PICK k \in 1..Len(rest) : rest[k] = x
      BY DEF Occurs
    <3>2. k + 1 \in 1..Len(recency') /\ recency'[k + 1] = x
      BY <2>3, <2>4, <2>5, <3>1
    <3> QED  BY <3>2 DEF Occurs
  <2> QED  BY <1>4, <2>1, <2>3, <2>5, <2>6, <2>7
<1>10. Rules!RulesAudited'
  <2>1. ASSUME NEW i \in DOMAIN rules'
        PROVE  Rules!Replay(First(i), audit'[i]) = <<rules'[i].state, rules'[i].version>>
    <3>1. CASE i # r
      BY <1>4, <1>7, <3>1 DEF TableInv, Rules!RulesAudited, Rules!Existing, First
    <3>2. CASE i = r
      <4> DEFINE before == IF r \in E THEN audit[r] ELSE <<>>
                 st == IF r \in E THEN <<rules[r].state, rules[r].version>> ELSE <<"absent", 0>>
      <4>1. First(r) \in Replayed
        BY DEF First, Replayed
      <4>2. before \in Seq(RuleAction) /\ Rules!Replay(First(r), before) = st
        <5>1. CASE r \in E
          BY <5>1 DEF TableInv, Rules!RulesAudited, Rules!Existing, First
        <5>2. CASE r \notin E
          <6>1. r # Rules!Builtin
            BY <1>2, <5>2 DEF Rules!Builtin
          <6>2. First(r) = <<"absent", 0>>
            BY <6>1 DEF First
          <6> QED  BY <4>1, <5>2, <6>2, ReplayEmpty
        <5> QED  BY <5>1, <5>2
      <4>3. Rules!Step(st, action) = <<new.state, new.version>> /\ action \in RuleAction
        BY DEF Allowed
      <4>4. audit'[r] = before \o <<action>>
        BY <1>7
      <4> HIDE DEF before, st
      <4>5. Rules!Replay(First(r), before \o <<action>>) = Rules!Step(st, action)
        BY <4>1, <4>2, <4>3, ReplayAppend
      <4> QED  BY <1>7, <3>2, <4>3, <4>4, <4>5
    <3> QED  BY <3>1, <3>2
  <2>2. \A i, s \in DOMAIN rules' :
          i # s => rules'[i].sigma # rules'[s].sigma /\ rules'[i].name # rules'[s].name
    BY <1>4, <1>7 DEF TableInv, Rules!RulesAudited, Rules!Existing, Allowed
  <2> QED  BY <2>1, <2>2 DEF Rules!RulesAudited, Rules!Existing, First
<1> QED  BY <1>4, <1>5, <1>6, <1>8, <1>9, <1>10 DEF TableInv

\* What was read stays known; nothing is said of an interrupted load.
LEMMA CommitKeepsLoad ==
  ASSUME TableInv, LoadInv, NEW r, NEW new, NEW action, Allowed(r, new, action),
         Rules!Commit(r, new, action), UNCHANGED <<load, cache>>
  PROVE  LoadInv'
<1>1. /\ rules' = [i \in DOMAIN rules \cup {r} |-> IF i = r THEN new ELSE rules[i]]
      /\ stale' = TRUE
  BY DEF Rules!Commit, Rules!Existing
<1>2. ASSUME NEW i, NEW version, NEW plain, Known(i, version, plain)
      PROVE  Known(i, version, plain)'
  <2>1. i \in DOMAIN rules' /\ rules'[i] = IF i = r THEN new ELSE rules[i]
    BY <1>1, <1>2 DEF Known
  <2>2. CASE i # r
    BY <1>2, <2>1, <2>2 DEF Known
  <2>3. CASE i = r
    <3>1. rules[r].version \in Nat /\ new.version \in Nat
      BY <1>2, <2>3 DEF TableInv, Known, Allowed, RuleRow
    <3> QED  BY <1>2, <2>1, <2>3, <3>1 DEF Known, Allowed
  <2> QED  BY <2>2, <2>3
<1>3. Rules!LoadedAsStored'
  BY <1>1 DEF Rules!LoadedAsStored
<1>4. \A t \in Rules!Type : ReadKnown(t)' /\ CachedKnown(t)'
  BY <1>2 DEF LoadInv, ReadKnown, CachedKnown
<1> QED  BY <1>1, <1>3, <1>4 DEF LoadInv

(* The commands.                                                           *)

LEMMA CommitKeeps ==
  ASSUME RulesInv, NEW r, NEW new, NEW action, Allowed(r, new, action), Rules!Commit(r, new, action),
         UNCHANGED Rules!working, CommandsInv'
  PROVE  RulesInv'
<1>1. UNCHANGED <<load, cache>>
  BY DEF Rules!working
<1> QED  BY <1>1, CommitKeepsTable, CommitKeepsLoad DEF RulesInv

\* A new row, created or imported.
LEMMA NewRowAllowed ==
  ASSUME TableInv, NEW s \in Sigma, NEW n \in Name, NEW t \in Rules!Type, NEW plain \in BOOLEAN,
         Rules!Free(s, n), NEW action \in {"rule_create", "rule_import"}
  PROVE  Allowed(Rules!NextId, Rules!NewRow(s, n, t, plain), action) /\ Rules!NextId \in Nat
<1> DEFINE new == Rules!NewRow(s, n, t, plain)
<1>1. PICK m \in Nat \ {0} : DOMAIN rules = 1..m
  BY DEF TableInv
<1>2. Rules!NextId = m + 1 /\ Rules!NextId \notin DOMAIN rules
  BY <1>1, NextNumber
<1>3. /\ new \in RuleRow /\ new.state = "active" /\ new.version = 1 /\ new.sigma = s /\ new.name = n
  BY DEF Rules!NewRow, RuleRow
<1> HIDE DEF new
<1>4. Rules!Step(<<"absent", 0>>, action) = <<"active", 1>>
  BY DEF Rules!Step
<1>5. \A i \in DOMAIN rules : new.sigma # rules[i].sigma /\ new.name # rules[i].name
  BY <1>3 DEF Rules!Free, Rules!Existing
<1>6. Allowed(Rules!NextId, new, action)
  <2>1. action \in RuleAction
    BY DEF RuleAction
  <2>2. Rules!NextId \notin DOMAIN rules /\ new \in RuleRow
        /\ Rules!Step(<<"absent", 0>>, action) = <<new.state, new.version>>
    BY <1>2, <1>3, <1>4
  <2> QED  BY <1>5, <2>1, <2>2, Zenon DEF Allowed
<1> QED  BY <1>1, <1>2, <1>6 DEF new

LEMMA NewRowTyped ==
  ASSUME CommandsInv, NEW p \in Api, NEW c \in CommandState, NEW q, q = [api EXCEPT ![p] = c]
  PROVE  q \in [Api -> CommandState]
BY DEF CommandsInv

LEMMA CreateKeeps ==
  ASSUME RulesInv, NEW p \in Api, NEW s \in Sigma, NEW n \in Name, NEW t \in Rules!Type,
         NEW plain \in BOOLEAN, Rules!CreateRule(p, s, n, t, plain)
  PROVE  RulesInv'
<1>1. /\ Rules!Free(s, n) /\ UNCHANGED Rules!working
      /\ Rules!Commit(Rules!NextId, Rules!NewRow(s, n, t, plain), "rule_create")
      /\ api' = [api EXCEPT ![p] = Rules!Signal(Rules!NextId)]
  BY DEF Rules!CreateRule
<1>2. Allowed(Rules!NextId, Rules!NewRow(s, n, t, plain), "rule_create") /\ Rules!NextId \in Nat
  BY <1>1, NewRowAllowed DEF RulesInv
<1>3. CommandsInv'
  <2>1. Rules!Signal(Rules!NextId) \in CommandState
    BY <1>2 DEF CommandState, Rules!Signal
  <2> QED  BY <1>1, <2>1 DEF RulesInv, CommandsInv
<1> QED  BY <1>1, <1>2, <1>3, CommitKeeps

\* A rule that is not archived, changed.
LEMMA ChangeAllowed ==
  ASSUME TableInv, NEW r \in DOMAIN rules, NEW new, new \in RuleRow, NEW action \in RuleAction,
         new.sigma = rules[r].sigma,
         \A s \in DOMAIN rules : s # r => new.name # rules[s].name,
         Rules!Step(<<rules[r].state, rules[r].version>>, action) = <<new.state, new.version>>,
         rules[r].version <= new.version,
         rules[r].version = new.version => rules[r].plain = new.plain
  PROVE  Allowed(r, new, action)
BY DEF TableInv, Rules!RulesAudited, Rules!Existing, Allowed

Updated(x, n, t, plain) ==
  [x EXCEPT !.name = n, !.type = t, !.plain = plain, !.version = @ + 1]

LEMMA UpdatedRow ==
  ASSUME NEW x \in RuleRow, NEW n \in Name, NEW t \in Rules!Type, NEW plain \in BOOLEAN
  PROVE  LET y == Updated(x, n, t, plain) IN
           y \in RuleRow /\ y.state = x.state /\ y.sigma = x.sigma /\ y.name = n
           /\ y.version = x.version + 1
<1> DEFINE a == [x EXCEPT !.name = n]
           b == [a EXCEPT !.type = t]
           c == [b EXCEPT !.plain = plain]
           d == [c EXCEPT !.version = x.version + 1]
<1>1. a \in RuleRow /\ a.state = x.state /\ a.sigma = x.sigma /\ a.name = n /\ a.version = x.version
  BY DEF RuleRow
<1> HIDE DEF a
<1>2. b \in RuleRow /\ b.state = x.state /\ b.sigma = x.sigma /\ b.name = n /\ b.version = x.version
  BY <1>1 DEF RuleRow
<1> HIDE DEF b
<1>3. c \in RuleRow /\ c.state = x.state /\ c.sigma = x.sigma /\ c.name = n /\ c.version = x.version
  BY <1>2 DEF RuleRow
<1> HIDE DEF c
<1>4. d \in RuleRow /\ d.state = x.state /\ d.sigma = x.sigma /\ d.name = n
      /\ d.version = x.version + 1
  BY <1>3, x.version \in Nat DEF RuleRow
<1>5. d = Updated(x, n, t, plain)
  BY <1>3, Zenon DEF a, b, c, Updated
<1> HIDE DEF d
<1> QED  BY <1>4, <1>5

LEMMA UpdateKeeps ==
  ASSUME RulesInv, NEW p \in Api, NEW s \in Sigma, NEW n \in Name, NEW t \in Rules!Type,
         NEW plain \in BOOLEAN, NEW r \in DOMAIN rules, Rules!UpdateRule(p, r, s, n, t, plain)
  PROVE  RulesInv'
<1> DEFINE new == Updated(rules[r], n, t, plain)
<1>1. /\ rules[r].state # "archived"
      /\ \A i \in DOMAIN rules : rules[i].name = n => i = r
      /\ Rules!Commit(r, new, "rule_update")
      /\ api' = [api EXCEPT ![p] = Rules!Signal(r)]
      /\ UNCHANGED Rules!working
  BY DEF Rules!UpdateRule, Rules!Existing, Updated
<1>2. rules[r] \in RuleRow
  BY DEF RulesInv, TableInv
<1>3. /\ new \in RuleRow /\ new.state = rules[r].state /\ new.sigma = rules[r].sigma /\ new.name = n
      /\ new.version = rules[r].version + 1
  BY <1>2, UpdatedRow
<1> HIDE DEF new
<1>4. Rules!Step(<<rules[r].state, rules[r].version>>, "rule_update") = <<new.state, new.version>>
  BY <1>1, <1>2, <1>3 DEF Rules!Step, RuleRow
<1>5. rules[r].version < new.version /\ rules[r].version \in Nat /\ new.version \in Nat
  BY <1>2, <1>3 DEF RuleRow
<1>6. Allowed(r, new, "rule_update")
  <2>1. \A i \in DOMAIN rules : i # r => new.name # rules[i].name
    BY <1>1, <1>3
  <2>2. rules[r].version <= new.version /\ rules[r].version # new.version
    BY <1>5
  <2>3. TableInv /\ "rule_update" \in RuleAction
    BY DEF RulesInv, RuleAction
  <2> QED  BY <1>3, <1>4, <2>1, <2>2, <2>3, ChangeAllowed
<1>7. CommandsInv'
  <2>1. r \in Nat
    BY DEF RulesInv, TableInv
  <2>2. Rules!Signal(r) \in CommandState
    BY <2>1 DEF CommandState, Rules!Signal
  <2> QED  BY <1>1, <2>2 DEF RulesInv, CommandsInv
<1> QED  BY <1>1, <1>6, <1>7, CommitKeeps

StatusSet(r, target, action) ==
  Rules!Commit(r, [rules[r] EXCEPT !.state = target], action)
Signals(p, r) == api' = [api EXCEPT ![p] = Rules!Signal(r)]

LEMMA StatusKeeps ==
  ASSUME RulesInv, NEW p \in Api, NEW r \in DOMAIN rules,
         NEW target \in {"active", "disabled", "archived"}, NEW action \in RuleAction,
         Rules!Step(<<rules[r].state, rules[r].version>>, action) = <<target, rules[r].version>>,
         StatusSet(r, target, action), Signals(p, r), UNCHANGED Rules!working
  PROVE  RulesInv'
<1> DEFINE new == [rules[r] EXCEPT !.state = target]
<1>2. rules[r] \in RuleRow
  BY DEF RulesInv, TableInv
<1>3. /\ new \in RuleRow /\ new.state = target /\ new.sigma = rules[r].sigma
      /\ new.name = rules[r].name /\ new.version = rules[r].version /\ new.plain = rules[r].plain
      /\ new.version \in Nat
  BY <1>2 DEF RuleRow
<1>4. Rules!Commit(r, new, action)
  BY DEF StatusSet
<1> HIDE DEF new
<1>5. \A s \in DOMAIN rules : s # r => new.name # rules[s].name
  BY <1>3 DEF RulesInv, TableInv, Rules!RulesAudited, Rules!Existing
<1>6. Allowed(r, new, action)
  <2>1. rules[r].version <= new.version
    BY <1>3
  <2> QED  BY <1>3, <1>5, <2>1, ChangeAllowed DEF RulesInv
<1>7. CommandsInv'
  <2>1. r \in Nat
    BY DEF RulesInv, TableInv
  <2>2. Rules!Signal(r) \in CommandState
    BY <2>1 DEF CommandState, Rules!Signal
  <2> QED  BY <2>2 DEF RulesInv, CommandsInv, Signals
<1> QED  BY <1>4, <1>6, <1>7, CommitKeeps

LEMMA ImportGoesOn ==
  ASSUME NEW c \in [stage : {"import"}, left : Seq(Document), last : Nat],
         NEW left \in Seq(Document), NEW last \in Nat
  PROVE  LET d == [c EXCEPT !.left = left] IN
           /\ d \in [stage : {"import"}, left : Seq(Document), last : Nat]
           /\ [d EXCEPT !.last = last] \in [stage : {"import"}, left : Seq(Document), last : Nat]
OBVIOUS

LEMMA ImportKeeps ==
  ASSUME RulesInv, NEW p \in Api, Rules!ImportDocument(p)
  PROVE  RulesInv'
<1> DEFINE c == api[p]
           d == Head(c.left)
<1>1. /\ c \in CommandState /\ c.stage = "import" /\ c.left # <<>> /\ UNCHANGED Rules!working
  BY DEF RulesInv, CommandsInv, Rules!ImportDocument
<1>2. c \in [stage : {"import"}, left : Seq(Document), last : Nat]
  BY <1>1 DEF CommandState, Rules!Idle
<1>3. d \in Document /\ Tail(c.left) \in Seq(Document)
  <2>1. c.left \in Seq(Document)
    BY <1>2
  <2> QED  BY <1>1, <2>1
<1>4. d[1] \in Sigma /\ d[2] \in Name /\ d[3] \in Rules!Type
  BY <1>3 DEF Document
<1>5. CASE /\ Rules!Free(d[1], d[2])
           /\ Rules!Commit(Rules!NextId, Rules!NewRow(d[1], d[2], d[3], TRUE), "rule_import")
           /\ api' = [api EXCEPT ![p].left = Tail(@), ![p].last = Rules!NextId]
  <2>1. Allowed(Rules!NextId, Rules!NewRow(d[1], d[2], d[3], TRUE), "rule_import")
        /\ Rules!NextId \in Nat
    BY <1>4, <1>5, NewRowAllowed DEF RulesInv
  <2> DEFINE e == [c EXCEPT !.left = Tail(@), !.last = Rules!NextId]
  <2>2. e \in CommandState
    BY <1>2, <1>3, <2>1, ImportGoesOn DEF CommandState
  <2>3. api' = [api EXCEPT ![p] = e]
    BY <1>5 DEF RulesInv, CommandsInv
  <2>4. CommandsInv'
    <3> HIDE DEF e
    <3> QED  BY <2>2, <2>3 DEF RulesInv, CommandsInv
  <2> QED  BY <1>1, <1>5, <2>1, <2>4, CommitKeeps
<1>6. CASE api' = [api EXCEPT ![p].left = Tail(@)] /\ UNCHANGED Rules!stored
  <2> DEFINE e == [c EXCEPT !.left = Tail(@)]
  <2>1. e \in CommandState
    BY <1>2, <1>3, ImportGoesOn DEF CommandState
  <2>2. api' = [api EXCEPT ![p] = e]
    BY <1>6
  <2>3. CommandsInv'
    <3> HIDE DEF e
    <3> QED  BY <2>1, <2>2 DEF RulesInv, CommandsInv
  <2> QED  BY <1>1, <1>6, <2>3, RulesUnchanged DEF RulesInv, Rules!stored, Rules!working
<1> QED  BY <1>5, <1>6 DEF Rules!ImportDocument

\* The other steps of a command change nothing but what is left of it.
LEMMA AnswerKeeps ==
  ASSUME RulesInv, NEW p \in Api, NEW c \in CommandState, api' = [api EXCEPT ![p] = c],
         UNCHANGED Rules!stored, UNCHANGED Rules!working
  PROVE  RulesInv'
<1>1. CommandsInv'
  BY DEF RulesInv, CommandsInv
<1> QED  BY <1>1, RulesUnchanged DEF RulesInv, Rules!stored, Rules!working

LEMMA CommandKeeps ==
  ASSUME RulesInv, Rules!Command
  PROVE  RulesInv'
<1> PICK p \in Api :
    \/ \E s \in Sigma, n \in Name, t \in Rules!Type, plain \in BOOLEAN :
         \/ Rules!CreateRule(p, s, n, t, plain)
         \/ \E r \in DOMAIN rules : Rules!UpdateRule(p, r, s, n, t, plain)
    \/ \E r \in DOMAIN rules :
         \/ \E target \in {"active", "disabled"} : Rules!ChangeRuleStatus(p, r, target)
         \/ Rules!ArchiveRule(p, r)
    \/ \E documents \in Imports : Rules!StartImport(p, documents)
    \/ Rules!ImportDocument(p) \/ Rules!ImportAborts(p) \/ Rules!ImportDone(p)
  BY DEF Rules!Command, Rules!Existing
<1>1. CASE \E s \in Sigma, n \in Name, t \in Rules!Type, plain \in BOOLEAN :
             \/ Rules!CreateRule(p, s, n, t, plain)
             \/ \E r \in DOMAIN rules : Rules!UpdateRule(p, r, s, n, t, plain)
  BY <1>1, CreateKeeps, UpdateKeeps
<1>2. ASSUME NEW r \in DOMAIN rules, NEW target \in {"active", "disabled"},
             Rules!ChangeRuleStatus(p, r, target)
      PROVE  RulesInv'
  <2> DEFINE action == IF target = "active" THEN "rule_enable" ELSE "rule_disable"
  <2>1. rules[r].state \in {"active", "disabled"} \ {target}
    BY <1>2 DEF RulesInv, TableInv, RuleRow, Rules!ChangeRuleStatus
  <2>2. Rules!Step(<<rules[r].state, rules[r].version>>, action) = <<target, rules[r].version>>
    BY <2>1 DEF Rules!Step
  <2>3. StatusSet(r, target, action) /\ Signals(p, r) /\ UNCHANGED Rules!working
        /\ action \in RuleAction
    BY <1>2 DEF Rules!ChangeRuleStatus, StatusSet, Signals, RuleAction
  <2> QED  BY <2>2, <2>3, StatusKeeps
<1>3. ASSUME NEW r \in DOMAIN rules, Rules!ArchiveRule(p, r) PROVE RulesInv'
  <2>1. rules[r].state \in {"active", "disabled"}
    BY <1>3 DEF RulesInv, TableInv, RuleRow, Rules!ArchiveRule
  <2>2. Rules!Step(<<rules[r].state, rules[r].version>>, "rule_delete") = <<"archived", rules[r].version>>
    BY <2>1 DEF Rules!Step
  <2>3. StatusSet(r, "archived", "rule_delete") /\ Signals(p, r) /\ UNCHANGED Rules!working
        /\ "rule_delete" \in RuleAction
    BY <1>3 DEF Rules!ArchiveRule, StatusSet, Signals, RuleAction
  <2> QED  BY <2>2, <2>3, StatusKeeps
<1>4. ASSUME NEW documents \in Imports, Rules!StartImport(p, documents) PROVE RulesInv'
  <2> DEFINE c == [stage |-> "import", left |-> documents, last |-> Rules!NoRule]
  <2>1. documents \in Seq(Document)
    BY ImportsAssumption DEF Document
  <2>2. c \in CommandState
    BY <2>1 DEF CommandState, Rules!NoRule
  <2>3. api' = [api EXCEPT ![p] = c] /\ UNCHANGED Rules!stored /\ UNCHANGED Rules!working
    BY <1>4 DEF Rules!StartImport
  <2> HIDE DEF c
  <2> QED  BY <2>2, <2>3, AnswerKeeps
<1>5. CASE Rules!ImportDocument(p)
  BY <1>5, ImportKeeps
<1>6. CASE Rules!ImportAborts(p)
  BY <1>6, AnswerKeeps, Rules!Idle \in CommandState DEF Rules!ImportAborts, CommandState
<1>7. CASE Rules!ImportDone(p)
  <2> DEFINE c == IF api[p].last = Rules!NoRule THEN Rules!Idle ELSE Rules!Signal(api[p].last)
  <2>1. api[p] \in CommandState /\ api[p].stage = "import"
    BY <1>7 DEF RulesInv, CommandsInv, Rules!ImportDone
  <2>2. api[p].last \in Nat
    BY <2>1 DEF CommandState, Rules!Idle
  <2>3. c \in CommandState
    BY <2>2 DEF CommandState, Rules!Signal
  <2>4. api' = [api EXCEPT ![p] = c] /\ UNCHANGED Rules!stored /\ UNCHANGED Rules!working
    BY <1>7 DEF Rules!ImportDone, RulesInv, CommandsInv
  <2> HIDE DEF c
  <2> QED  BY <2>3, <2>4, AnswerKeeps
<1> QED  BY <1>1, <1>2, <1>3, <1>4, <1>5, <1>6, <1>7

(* The worker.                                                             *)

LEMMA ToSetOfSequence ==
  ASSUME NEW X, NEW s \in Seq(X)
  PROVE  /\ Rules!ToSet(s) \subseteq X
         /\ \A x : x \in Rules!ToSet(s) <=> \E k \in 1..Len(s) : s[k] = x
<1>1. DOMAIN s = 1..Len(s) /\ \A k \in 1..Len(s) : s[k] \in X
  OBVIOUS
<1> QED  BY <1>1 DEF Rules!ToSet

\* The query returns the active rules, each with a row of the table.
LEMMA ActiveRowsFacts ==
  ASSUME TableInv, NEW t \in Rules!Type
  PROVE  /\ Rules!ActiveRows(t) \in Seq(Rules!Active(t))
         /\ \A r \in Rules!Active(t) : r \in DOMAIN rules /\ Occurs(r, Rules!ActiveRows(t))
<1> DEFINE E == DOMAIN rules
           S == Rules!Active(t)
<1>1. S \subseteq E
  BY DEF Rules!Active, Rules!Existing
<1>2. recency \in Seq(E) /\ \A r \in E : Occurs(r, recency)
  BY DEF TableInv
<1>3. Rules!ActiveRows(t) = Rules!Chosen(recency, S)
  BY DEF Rules!ActiveRows
<1> HIDE DEF E, S
<1>4. /\ Rules!Chosen(recency, S) \in Seq(E \cap S)
      /\ \A x \in S : Occurs(x, recency) => Occurs(x, Rules!Chosen(recency, S))
  BY <1>2, ChosenFacts
<1>5. E \cap S = S
  BY <1>1
<1>6. Rules!Chosen(recency, S) \in Seq(S)
  BY <1>4, <1>5
<1>7. \A r \in S : r \in E /\ Occurs(r, Rules!Chosen(recency, S))
  BY <1>1, <1>2, <1>4
<1> QED  BY <1>3, <1>6, <1>7 DEF E, S

\* A load that begins has read nothing of either type.
LEMMA NothingReadKeeps ==
  ASSUME TableInv, LoadInv, UNCHANGED <<rules, recency, audit>>, load' = Rules!NothingRead,
         \A t \in Rules!Type : CachedKnown(t)',
         Rules!LoadedAsStored'
  PROVE  TableInv' /\ LoadInv'
<1>1. TableInv'
  BY DEF TableInv, Occurs, Rules!RulesAudited, Rules!Existing
<1>2. \A t \in Rules!Type : load'[t] = [rows |-> <<>>, done |-> FALSE]
  BY DEF Rules!NothingRead
<1>3. load' \in [Rules!Type -> [rows : Seq(Read), done : BOOLEAN]]
  BY DEF Rules!NothingRead
<1>4. ASSUME NEW t \in Rules!Type PROVE ReadInOrder(t)'
  <2>1. Rules!ActiveRows(t)' \in Seq(Rules!Active(t)')
    <3>1. Rules!ActiveRows(t)' = Rules!ActiveRows(t) /\ Rules!Active(t)' = Rules!Active(t)
      BY DEF Rules!ActiveRows, Rules!Active, Rules!Existing
    <3> QED  BY <3>1, ActiveRowsFacts
  <2>2. Len(Rules!ActiveRows(t)') \in Nat
    BY <2>1
  <2> QED  BY <1>2, <2>2 DEF ReadInOrder
<1>5. \A t \in Rules!Type : ReadKnown(t)'
  BY <1>2 DEF ReadKnown
<1> QED  BY <1>1, <1>3, <1>4, <1>5 DEF LoadInv

\* What a section of a sequence holds.
LEMMA Section ==
  ASSUME NEW X, NEW s \in Seq(X), NEW n \in Nat, NEW e \in Nat, n <= e, e <= Len(s)
  PROVE  /\ Len(SubSeq(s, n + 1, e)) = e - n
         /\ \A k \in 1..(e - n) : SubSeq(s, n + 1, e)[k] = s[n + k]
OBVIOUS

LEMMA PageFacts ==
  ASSUME NEW X, NEW s \in Seq(X), NEW n \in Nat, NEW size \in Nat \ {0},
         NEW page, page = SubSeq(s, n + 1, IF Len(s) < n + size THEN Len(s) ELSE n + size)
  PROVE  /\ page \in Seq(X)
         /\ n <= Len(s) =>
              /\ n + Len(page) = IF Len(s) < n + size THEN Len(s) ELSE n + size
              /\ \A k \in 1..Len(page) : page[k] = s[n + k]
<1> DEFINE e == IF Len(s) < n + size THEN Len(s) ELSE n + size
<1>1. Len(s) \in Nat /\ e \in Nat /\ e <= Len(s) /\ page = SubSeq(s, n + 1, e)
  OBVIOUS
<1>2. n <= Len(s) => n <= e
  BY <1>1
<1>3. n <= Len(s) => n + Len(page) = e /\ \A k \in 1..Len(page) : page[k] = s[n + k]
  <2> HIDE DEF e
  <2> QED  BY <1>1, <1>2, Section
<1>4. page \in Seq(X)
  <2>1. \A k \in (n + 1)..e : s[k] \in X
    <3> HIDE DEF e
    <3> QED  BY <1>1
  <2> HIDE DEF e
  <2> QED  BY <1>1, <2>1
<1> QED  BY <1>3, <1>4

LEMMA Concatenation ==
  ASSUME NEW X, NEW a \in Seq(X), NEW b \in Seq(X)
  PROVE  /\ a \o b \in Seq(X) /\ Len(a \o b) = Len(a) + Len(b)
         /\ \A k \in 1..Len(a) : (a \o b)[k] = a[k]
         /\ \A k \in 1..Len(b) : (a \o b)[Len(a) + k] = b[k]
OBVIOUS

LEMMA ReadPageKeeps ==
  ASSUME RulesInv, NEW t \in Rules!Type, Rules!ReadPage(t)
  PROVE  RulesInv'
<1> DEFINE s == Rules!ActiveRows(t)
           n == Len(load[t].rows)
           page == SubSeq(s, n + 1, IF Len(s) < n + PageSize THEN Len(s) ELSE n + PageSize)
           more == [k \in DOMAIN page |-> Rules!LoadedRow(page[k])]
           x == [rows |-> load[t].rows \o more, done |-> Len(s) <= n + PageSize]
<1>1. /\ worker = "loading" /\ load' = [load EXCEPT ![t] = x]
      /\ UNCHANGED Rules!stored /\ UNCHANGED <<api, inbox, worker, ready, cache>>
  BY DEF Rules!ReadPage
<1>2. TableInv /\ CommandsInv /\ LoadInv /\ PageSize \in Nat \ {0}
  BY LimitsAssumption DEF RulesInv
<1>3. /\ s \in Seq(Rules!Active(t)) /\ Rules!Active(t) \subseteq DOMAIN rules
  BY <1>2, ActiveRowsFacts
<1>4. load[t].rows \in Seq(Read) /\ n \in Nat /\ Len(s) \in Nat
  BY <1>2, <1>3 DEF LoadInv
<1> HIDE DEF s
<1>5. /\ page \in Seq(Rules!Active(t))
      /\ n <= Len(s) =>
           /\ n + Len(page) = IF Len(s) < n + PageSize THEN Len(s) ELSE n + PageSize
           /\ \A k \in 1..Len(page) : page[k] = s[n + k]
  <2> HIDE DEF n
  <2> QED  BY <1>2, <1>3, <1>4, PageFacts
<1> HIDE DEF page
<1>6. \A r \in DOMAIN rules : LET y == Rules!LoadedRow(r) IN
        y \in Read /\ Known(y.id, y.version, y.plain)
  BY <1>2 DEF Read, Rules!LoadedRow, Known, TableInv, RuleRow
<1>7. /\ DOMAIN page = 1..Len(page) /\ Len(page) \in Nat
      /\ \A k \in 1..Len(page) : page[k] \in DOMAIN rules
  BY <1>3, <1>5
<1>8. more \in Seq(Read) /\ Len(more) = Len(page)
      /\ \A k \in 1..Len(page) : more[k] = Rules!LoadedRow(page[k])
  BY <1>6, <1>7
<1> HIDE DEF more
<1>9. /\ x.rows \in Seq(Read) /\ Len(x.rows) = n + Len(page)
      /\ \A k \in 1..n : x.rows[k] = load[t].rows[k]
      /\ \A k \in 1..Len(page) : x.rows[n + k] = Rules!LoadedRow(page[k])
  <2>1. x.rows = load[t].rows \o more
    OBVIOUS
  <2> HIDE DEF x
  <2>2. load[t].rows \in Seq(Read) /\ more \in Seq(Read)
    BY <1>4, <1>8
  <2>3. /\ x.rows \in Seq(Read) /\ Len(x.rows) = n + Len(more)
        /\ \A k \in 1..n : x.rows[k] = load[t].rows[k]
        /\ \A k \in 1..Len(more) : x.rows[n + k] = more[k]
    BY <2>1, <2>2, Concatenation
  <2> HIDE DEF n
  <2> QED  BY <1>8, <2>3
<1>10. x.done \in BOOLEAN /\ (x.done <=> Len(s) <= n + PageSize)
  <2> DEFINE last == Len(s) <= n + PageSize
  <2>1. last \in BOOLEAN /\ x = [rows |-> load[t].rows \o more, done |-> last]
    OBVIOUS
  <2> HIDE DEF last, x
  <2>2. x.done = last
    BY <2>1
  <2> QED  BY <2>1, <2>2, Zenon DEF last
<1>11. x \in [rows : Seq(Read), done : BOOLEAN]
  BY <1>9, <1>10
<1> HIDE DEF x
<1>12. load' \in [Rules!Type -> [rows : Seq(Read), done : BOOLEAN]]
       /\ load'[t] = x /\ \A u \in Rules!Type : u # t => load'[u] = load[u]
  BY <1>1, <1>2, <1>11 DEF LoadInv
<1>13. \A k \in 1..Len(x.rows) : k \in 1..n \/ (k - n \in 1..Len(page) /\ k = n + (k - n))
  <2> HIDE DEF n
  <2> QED  BY <1>4, <1>7, <1>9
<1>14. \A k \in 1..Len(x.rows) : Known(x.rows[k].id, x.rows[k].version, x.rows[k].plain)
  <2> TAKE k \in 1..Len(x.rows)
  <2>1. CASE k \in 1..n
    BY <1>2, <1>9, <2>1 DEF LoadInv, ReadKnown
  <2>2. CASE k - n \in 1..Len(page) /\ k = n + (k - n)
    <3>1. x.rows[k] = Rules!LoadedRow(page[k - n]) /\ page[k - n] \in DOMAIN rules
      BY <1>7, <1>9, <2>2
    <3> QED  BY <1>6, <3>1
  <2> QED  BY <1>13, <2>1, <2>2
<1>15. ASSUME ~stale
       PROVE  /\ Len(x.rows) <= Len(s)
              /\ \A k \in 1..Len(x.rows) : x.rows[k] = Rules!LoadedRow(s[k])
              /\ x.done => Len(x.rows) = Len(s)
  <2>1. /\ n <= Len(s)
        /\ \A k \in 1..n : load[t].rows[k] = Rules!LoadedRow(s[k])
    BY <1>1, <1>2, <1>15 DEF LoadInv, ReadInOrder, s
  <2>2. /\ n + Len(page) = IF Len(s) < n + PageSize THEN Len(s) ELSE n + PageSize
        /\ \A k \in 1..Len(page) : page[k] = s[n + k]
    BY <1>5, <2>1
  <2>3. Len(x.rows) <= Len(s) /\ (x.done => Len(x.rows) = Len(s))
    <3> HIDE DEF n
    <3> QED  BY <1>2, <1>4, <1>7, <1>9, <1>10, <2>2
  <2>4. \A k \in 1..Len(x.rows) : x.rows[k] = Rules!LoadedRow(s[k])
    <3> TAKE k \in 1..Len(x.rows)
    <3>1. CASE k \in 1..n
      BY <1>9, <2>1, <3>1
    <3>2. CASE k - n \in 1..Len(page) /\ k = n + (k - n)
      BY <1>9, <2>2, <3>2, ZenonT(30)
    <3> QED  BY <1>13, <3>1, <3>2
  <2> QED  BY <2>3, <2>4
<1>16. UNCHANGED <<rules, recency, audit, stale, worker, ready, cache, api>>
  BY <1>1 DEF Rules!stored
<1>17. TableInv' /\ CommandsInv'
  BY <1>2, <1>16 DEF TableInv, Occurs, Rules!RulesAudited, Rules!Existing, CommandsInv
<1>18. \A u \in Rules!Type : ~stale => ReadInOrder(u)'
  <2> SUFFICES ASSUME NEW u \in Rules!Type, ~stale PROVE ReadInOrder(u)'
    OBVIOUS
  <2>1. Rules!ActiveRows(u)' = Rules!ActiveRows(u) /\ \A r : Rules!LoadedRow(r)' = Rules!LoadedRow(r)
    BY <1>16 DEF Rules!ActiveRows, Rules!Active, Rules!Existing, Rules!LoadedRow
  <2>2. CASE u # t
    BY <1>1, <1>2, <1>12, <2>1, <2>2 DEF LoadInv, ReadInOrder
  <2>3. CASE u = t
    BY <1>12, <1>15, <2>1, <2>3 DEF ReadInOrder, s
  <2> QED  BY <2>2, <2>3
<1>20. Rules!LoadedAsStored'
  BY <1>1, <1>16 DEF Rules!LoadedAsStored
<1>21. LoadInv'
  <2>1. \A u \in Rules!Type : ReadKnown(u)'
    <3> TAKE u \in Rules!Type
    <3>1. CASE u # t
      BY <1>2, <1>12, <1>16, <3>1 DEF LoadInv, ReadKnown, Known
    <3>2. CASE u = t
      BY <1>12, <1>14, <1>16, <3>2 DEF ReadKnown, Known
    <3> QED  BY <3>1, <3>2
  <2>2. \A u \in Rules!Type : CachedKnown(u)'
    BY <1>2, <1>16 DEF LoadInv, CachedKnown, Known
  <2> QED  BY <1>12, <1>16, <1>18, <1>20, <2>1, <2>2 DEF LoadInv
<1> QED  BY <1>17, <1>21 DEF RulesInv

\* What becomes of the cache of type t: a row that was read, in its version or
\* in the one in use.
LEMMA CandidateFacts ==
  ASSUME LoadInv, NEW t \in Rules!Type
  PROVE  LET c == Rules!Candidate(t)
             read == load[t].rows
         IN /\ \A k \in 1..Len(read) :
                 read[k].plain \/ read[k].id \in DOMAIN cache[t] => read[k].id \in DOMAIN c
            /\ \A r \in DOMAIN c : \E k \in 1..Len(read) :
                 /\ read[k].id = r
                 /\ \/ read[k].plain /\ c[r] = read[k].version
                    \/ ~read[k].plain /\ r \in DOMAIN cache[t] /\ c[r] = cache[t][r]
<1> DEFINE c == Rules!Candidate(t)
           read == load[t].rows
           kept == {x \in Rules!ToSet(read) : x.plain \/ x.id \in DOMAIN cache[t]}
           Of(i) == CHOOSE y \in kept : y.id = i
<1>1. read \in Seq(Read)
  BY DEF LoadInv
<1>2. \A x : x \in Rules!ToSet(read) <=> \E k \in 1..Len(read) : read[k] = x
  BY <1>1, ToSetOfSequence
<1>3. c = [i \in {x.id : x \in kept} |-> IF Of(i).plain THEN Of(i).version ELSE cache[t][i]]
  BY DEF Rules!Candidate, Rules!Kept, Rules!Agrees
<1>4. \A i \in {x.id : x \in kept} : Of(i) \in kept /\ Of(i).id = i
  OBVIOUS
<1>5. \A x \in kept : \E k \in 1..Len(read) : read[k] = x
  BY <1>2
<1>6. \A k \in 1..Len(read) : read[k].plain \/ read[k].id \in DOMAIN cache[t] => read[k] \in kept
  BY <1>2
<1> HIDE DEF c, Of, kept
<1>7. DOMAIN c = {x.id : x \in kept}
  BY <1>3
<1>8. \A k \in 1..Len(read) : read[k].plain \/ read[k].id \in DOMAIN cache[t] => read[k].id \in DOMAIN c
  BY <1>6, <1>7
<1>9. ASSUME NEW r \in DOMAIN c
      PROVE  \E k \in 1..Len(read) :
               /\ read[k].id = r
               /\ \/ read[k].plain /\ c[r] = read[k].version
                  \/ ~read[k].plain /\ r \in DOMAIN cache[t] /\ c[r] = cache[t][r]
  <2>1. Of(r) \in kept /\ Of(r).id = r
    BY <1>4, <1>7
  <2>2. PICK k \in 1..Len(read) : read[k] = Of(r)
    BY <1>5, <2>1
  <2>3. c[r] = IF Of(r).plain THEN Of(r).version ELSE cache[t][r]
    BY <1>3, <1>7
  <2>4. Of(r).plain \/ Of(r).id \in DOMAIN cache[t]
    BY <2>1 DEF kept
  <2> QED  BY <2>1, <2>2, <2>3, <2>4
<1> QED  BY <1>8, <1>9 DEF c

LEMMA PublishKeeps ==
  ASSUME RulesInv, Rules!PublishCaches
  PROVE  RulesInv'
<1>1. /\ worker = "loading" /\ \A t \in Rules!Type : load[t].done
      /\ cache' = [t \in Rules!Type |-> Rules!Candidate(t)]
      /\ load' = Rules!NothingRead
      /\ UNCHANGED <<rules, recency, audit, stale, api>>
  BY DEF Rules!PublishCaches, Rules!AllRead, Rules!stored
<1>2. TableInv /\ CommandsInv /\ LoadInv
  BY DEF RulesInv
<1>3. \A t \in Rules!Type : cache'[t] = Rules!Candidate(t)
  BY <1>1
<1>4. ASSUME NEW t \in Rules!Type, NEW r \in DOMAIN cache'[t]
      PROVE  Known(r, cache'[t][r], TRUE)
  <2>1. PICK k \in 1..Len(load[t].rows) :
               /\ load[t].rows[k].id = r
               /\ \/ load[t].rows[k].plain /\ cache'[t][r] = load[t].rows[k].version
                  \/ ~load[t].rows[k].plain /\ r \in DOMAIN cache[t] /\ cache'[t][r] = cache[t][r]
    BY <1>2, <1>3, <1>4, CandidateFacts
  <2>2. /\ Known(load[t].rows[k].id, load[t].rows[k].version, load[t].rows[k].plain)
        /\ \A i \in DOMAIN cache[t] : Known(i, cache[t][i], TRUE)
        /\ load[t].rows[k].plain \in BOOLEAN
    <3>1. ReadKnown(t) /\ CachedKnown(t) /\ load[t].rows \in Seq(Read)
      BY <1>2 DEF LoadInv
    <3>2. load[t].rows[k] \in Read
      BY <3>1
    <3> QED  BY <3>1, <3>2 DEF ReadKnown, CachedKnown, Read
  <2> QED  BY <2>1, <2>2 DEF Known
<1>5. Rules!LoadedAsStored'
  <2> SUFFICES ASSUME ~stale, NEW t \in Rules!Type
               PROVE  /\ DOMAIN cache'[t] \subseteq Rules!Active(t)
                      /\ \A r \in Rules!Active(t) :
                           IF rules[r].plain
                           THEN r \in DOMAIN cache'[t] /\ cache'[t][r] = rules[r].version
                           ELSE r \in DOMAIN cache'[t] => cache'[t][r] < rules[r].version
    BY <1>1 DEF Rules!LoadedAsStored, Rules!Active, Rules!Existing
  <2> DEFINE s == Rules!ActiveRows(t)
             read == load[t].rows
  <2>1. /\ s \in Seq(Rules!Active(t))
        /\ \A r \in Rules!Active(t) : r \in DOMAIN rules /\ Occurs(r, s)
    BY <1>2, ActiveRowsFacts
  <2>2. Len(read) = Len(s) /\ \A k \in 1..Len(read) : read[k] = Rules!LoadedRow(s[k])
    BY <1>1, <1>2 DEF LoadInv, ReadInOrder
  <2>3. \A k \in 1..Len(read) : /\ s[k] \in Rules!Active(t) /\ read[k].id = s[k]
                                /\ read[k].version = rules[s[k]].version
                                /\ read[k].plain = rules[s[k]].plain
    <3> TAKE k \in 1..Len(read)
    <3>1. s[k] \in Rules!Active(t)
      BY <2>1, <2>2
    <3>2. read[k] = Rules!LoadedRow(s[k])
      BY <2>2
    <3> HIDE DEF s, read
    <3> QED  BY <3>1, <3>2 DEF Rules!LoadedRow
  <2>4. \A r \in Rules!Active(t) : \E k \in 1..Len(read) : s[k] = r
    BY <2>1, <2>2 DEF Occurs
  <2> HIDE DEF s
  <2>5. /\ \A k \in 1..Len(read) :
             read[k].plain \/ read[k].id \in DOMAIN cache[t] => read[k].id \in DOMAIN cache'[t]
        /\ \A r \in DOMAIN cache'[t] : \E k \in 1..Len(read) :
             /\ read[k].id = r
             /\ \/ read[k].plain /\ cache'[t][r] = read[k].version
                \/ ~read[k].plain /\ r \in DOMAIN cache[t] /\ cache'[t][r] = cache[t][r]
    BY <1>2, <1>3, CandidateFacts
  <2>6. DOMAIN cache'[t] \subseteq Rules!Active(t)
    BY <2>3, <2>5
  <2>7. ASSUME NEW r \in Rules!Active(t), rules[r].plain
        PROVE  r \in DOMAIN cache'[t] /\ cache'[t][r] = rules[r].version
    <3>1. r \in DOMAIN cache'[t]
      BY <2>3, <2>4, <2>5, <2>7
    <3> QED  BY <2>3, <2>5, <2>7, <3>1
  <2>8. ASSUME NEW r \in Rules!Active(t), ~rules[r].plain, r \in DOMAIN cache'[t]
        PROVE  cache'[t][r] < rules[r].version
    <3>1. Known(r, cache'[t][r], TRUE)
      BY <1>4, <2>8
    <3>2. rules[r] \in RuleRow
      BY <1>2, <2>1 DEF TableInv
    <3> QED  BY <2>8, <3>1, <3>2 DEF Known, RuleRow
  <2> QED  BY <2>6, <2>7, <2>8
<1>6. TableInv' /\ LoadInv'
  <2>1. \A t \in Rules!Type : CachedKnown(t)'
    BY <1>1, <1>4 DEF CachedKnown, Known
  <2> QED  BY <1>1, <1>2, <1>5, <2>1, NothingReadKeeps
<1>7. CommandsInv'
  BY <1>1, <1>2 DEF CommandsInv
<1> QED  BY <1>6, <1>7 DEF RulesInv

LEMMA LoadKeeps ==
  ASSUME RulesInv, Rules!Load
  PROVE  RulesInv'
<1>1. CASE Rules!PublishCaches
  BY <1>1, PublishKeeps
<1>2. ASSUME NEW t \in Rules!Type, Rules!ReadPage(t) PROVE RulesInv'
  BY <1>2, ReadPageKeeps
<1>3. CASE Rules!LoadFails
  <2>1. /\ load' = Rules!NothingRead /\ stale' = TRUE
        /\ UNCHANGED <<rules, recency, audit, cache, api>>
    BY <1>3 DEF Rules!LoadFails
  <2>2. \A t \in Rules!Type : CachedKnown(t)'
    BY <2>1 DEF RulesInv, LoadInv, CachedKnown, Known
  <2>3. Rules!LoadedAsStored'
    BY <2>1 DEF Rules!LoadedAsStored
  <2>4. TableInv' /\ LoadInv'
    BY <2>1, <2>2, <2>3, NothingReadKeeps DEF RulesInv
  <2> QED  BY <2>1, <2>4 DEF RulesInv, CommandsInv
<1> QED  BY <1>1, <1>2, <1>3 DEF Rules!Load

\* The worker starts, stops, or asks for its first pages.
LEMMA WorkerKeeps ==
  ASSUME RulesInv, Rules!StartWorker \/ Rules!HandleSignal \/ Rules!WorkerDies
  PROVE  RulesInv'
<1>1. ASSUME load' = Rules!NothingRead, UNCHANGED <<rules, recency, audit, api>>,
             worker' # "idle", cache' = Rules!NoCache \/ cache' = cache
      PROVE  RulesInv'
  <2>1. \A t \in Rules!Type : CachedKnown(t)'
    <3>1. CASE cache' = Rules!NoCache
      <4>1. \A t \in Rules!Type : DOMAIN cache'[t] = {}
        BY <3>1 DEF Rules!NoCache
      <4> QED  BY <4>1 DEF CachedKnown
    <3>2. CASE cache' = cache
      BY <1>1, <3>2 DEF RulesInv, LoadInv, CachedKnown, Known
    <3> QED  BY <1>1, <3>1, <3>2
  <2>2. Rules!LoadedAsStored'
    BY <1>1 DEF Rules!LoadedAsStored
  <2>3. TableInv' /\ LoadInv'
    BY <1>1, <2>1, <2>2, NothingReadKeeps DEF RulesInv
  <2> QED  BY <1>1, <2>3 DEF RulesInv, CommandsInv
<1>2. CASE Rules!StartWorker
  BY <1>1, <1>2 DEF Rules!StartWorker, Rules!BeginLoad
<1>3. CASE Rules!WorkerDies
  BY <1>1, <1>3 DEF Rules!WorkerDies, Rules!stored
<1>4. CASE Rules!HandleSignal /\ worker = "idle"
  BY <1>1, <1>4 DEF Rules!HandleSignal, Rules!BeginLoad
<1>5. CASE Rules!HandleSignal /\ worker # "idle"
  <2>1. UNCHANGED <<rules, recency, audit, stale, load, cache, worker, ready, api>>
    BY <1>5 DEF Rules!HandleSignal
  <2>2. TableInv' /\ LoadInv'
    BY <2>1, RulesUnchanged DEF RulesInv
  <2> QED  BY <2>1, <2>2 DEF RulesInv, CommandsInv
<1> QED  BY <1>2, <1>3, <1>4, <1>5

LEMMA SignalKeeps ==
  ASSUME RulesInv, NEW p \in Api, Rules!Publish(p) \/ Rules!SignalLost(p)
  PROVE  RulesInv'
<1>1. Rules!Idle \in CommandState
  BY DEF CommandState
<1>2. api' = [api EXCEPT ![p] = Rules!Idle] /\ UNCHANGED Rules!stored /\ UNCHANGED Rules!working
  BY DEF Rules!Publish, Rules!SignalLost
<1> QED  BY <1>1, <1>2, AnswerKeeps

LEMMA RulesInitially ==
  ASSUME Rules!RulesInit
  PROVE  RulesInv
<1> DEFINE sigma == CHOOSE s \in Sigma : s # "none"
           name == CHOOSE n \in Name : n # "builtin"
<1>1. PICK t \in Rules!Type : rules =
         [i \in 1..2 |-> Rules!NewRow(IF i = Rules!Builtin THEN "none" ELSE sigma,
                                      IF i = Rules!Builtin THEN "builtin" ELSE name,
                                      IF i = Rules!Builtin THEN "match" ELSE t, TRUE)]
  BY DEF Rules!RulesInit
<1>2. sigma \in Sigma /\ sigma # "none" /\ name \in Name /\ name # "builtin"
  BY LimitsAssumption
<1> HIDE DEF sigma, name
<1>3. /\ rules[1] = [state |-> "active", sigma |-> "none", name |-> "builtin", type |-> "match",
                     version |-> 1, plain |-> TRUE]
      /\ rules[2] = [state |-> "active", sigma |-> sigma, name |-> name, type |-> t,
                     version |-> 1, plain |-> TRUE]
      /\ DOMAIN rules = 1..2 /\ rules = [i \in 1..2 |-> rules[i]]
  BY <1>1 DEF Rules!NewRow, Rules!Builtin
<1>4. /\ recency = <<2, 1>> /\ DOMAIN audit = 1..2
      /\ audit[1] = <<>> /\ audit[2] = <<"rule_create">>
      /\ load = Rules!NothingRead /\ cache = Rules!NoCache /\ worker = "down"
      /\ api = [p \in Api |-> Rules!Idle]
  BY DEF Rules!RulesInit, Rules!Builtin
<1>5. CommandsInv
  BY <1>4 DEF CommandsInv, CommandState
<1>6. Rules!RulesAudited
  <2>1. Rules!Replay(<<"active", 1>>, audit[1]) = <<"active", 1>>
    <3>1. <<"active", 1>> \in Replayed
      BY DEF Replayed
    <3> QED  BY <1>4, <3>1, ReplayEmpty
  <2>2. Rules!Replay(<<"absent", 0>>, audit[2]) = <<"active", 1>>
    <3>1. <<"absent", 0>> \in Replayed
      BY DEF Replayed
    <3>2. <<>> \o <<"rule_create">> = <<"rule_create">> /\ <<>> \in Seq(RuleAction)
          /\ "rule_create" \in RuleAction
      BY DEF RuleAction
    <3>3. Rules!Replay(<<"absent", 0>>, <<>> \o <<"rule_create">>)
            = Rules!Step(Rules!Replay(<<"absent", 0>>, <<>>), "rule_create")
      BY <3>1, <3>2, ReplayAppend
    <3>4. Rules!Step(<<"absent", 0>>, "rule_create") = <<"active", 1>>
      BY DEF Rules!Step
    <3> QED  BY <1>4, <3>1, <3>2, <3>3, <3>4, ReplayEmpty
  <2> QED  BY <1>2, <1>3, <2>1, <2>2 DEF Rules!RulesAudited, Rules!Existing, Rules!Builtin
<1>7. TableInv
  <2>1. rules[1] \in RuleRow /\ rules[2] \in RuleRow
    BY <1>2, <1>3 DEF RuleRow, Rules!Type
  <2>2. rules \in [1..2 -> RuleRow]
    <3>1. \A r \in 1..2 : r = 1 \/ r = 2
      OBVIOUS
    <3>2. \A r \in 1..2 : rules[r] \in RuleRow
      BY <2>1, <3>1, Zenon
    <3> QED  BY <1>3, <3>2
  <2>3. audit[1] \in Seq(RuleAction) /\ audit[2] \in Seq(RuleAction)
    BY <1>4 DEF RuleAction
  <2>4. recency \in Seq(1..2) /\ Occurs(1, recency) /\ Occurs(2, recency)
    <3>1. recency \in Seq(1..2) /\ Len(recency) = 2 /\ recency[1] = 2 /\ recency[2] = 1
      BY <1>4
    <3> QED  BY <3>1, 1 \in 1..2, 2 \in 1..2 DEF Occurs
  <2>5. \A r \in 1..2 : r = 1 \/ r = 2
    OBVIOUS
  <2>6. \A r \in 1..2 : audit[r] \in Seq(RuleAction) /\ Occurs(r, recency)
    BY <2>3, <2>4, <2>5
  <2>7. 2 \in Nat \ {0}
    OBVIOUS
  <2> QED  BY <1>3, <1>4, <1>6, <2>2, <2>4, <2>6, <2>7 DEF TableInv
<1>8. LoadInv
  <2>1. \A t1 \in Rules!Type : Len(load[t1].rows) = 0 /\ DOMAIN cache[t1] = {}
    BY <1>4 DEF Rules!NothingRead, Rules!NoCache
  <2>2. load \in [Rules!Type -> [rows : Seq(Read), done : BOOLEAN]]
    BY <1>4 DEF Rules!NothingRead
  <2>3. \A t1 \in Rules!Type : ReadKnown(t1) /\ CachedKnown(t1)
    <3>1. 1..0 = {}
      OBVIOUS
    <3> QED  BY <2>1, <3>1, Zenon DEF ReadKnown, CachedKnown
  <2> QED  BY <1>4, <2>2, <2>3 DEF LoadInv, Rules!LoadedAsStored
<1> QED  BY <1>5, <1>7, <1>8 DEF RulesInv

LEMMA RulesInvariance == Spec => []RulesInv
<1>1. Init => RulesInv
  BY RulesInitially DEF Init
<1>2. RulesInv /\ [Next]_vars => RulesInv'
  <2> SUFFICES ASSUME RulesInv, [Next]_vars PROVE RulesInv'
    OBVIOUS
  <2>1. CASE Rules!RulesNext
    BY <2>1, CommandKeeps, SignalKeeps, WorkerKeeps, LoadKeeps DEF Rules!RulesNext
  <2>2. CASE UNCHANGED ruleVars
    <3>1. UNCHANGED <<rules, recency, audit, stale, load, cache, worker, ready>> /\ api' = api
      BY <2>2 DEF ruleVars
    <3>2. TableInv' /\ LoadInv'
      BY <3>1, RulesUnchanged DEF RulesInv
    <3> QED  BY <3>1, <3>2 DEF RulesInv, CommandsInv
  <2> QED
    BY <2>1, <2>2 DEF Next, vars
<1> QED
  BY <1>1, <1>2, PTL DEF Spec

\* Whatever commands of several processes interleave, imports that are cut
\* short included, the audit trail replays to the table, and no two rows share
\* an identifier or a name.
THEOREM RulesAlwaysAudited == Spec => []RulesAudited
<1>1. RulesInv => RulesAudited
  BY DEF RulesInv, TableInv, RulesAudited
<1> QED
  BY <1>1, RulesInvariance, PTL

\* A load that no commit disturbed leaves exactly the active rules in use, for
\* any number of rules and any size of a page.
THEOREM LoadsAsStored == Spec => []LoadedAsStored
<1>1. RulesInv => LoadedAsStored
  BY DEF RulesInv, LoadInv, LoadedAsStored
<1> QED
  BY <1>1, RulesInvariance, PTL
=============================================================================
