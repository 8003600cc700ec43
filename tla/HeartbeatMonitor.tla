---------------------------- MODULE HeartbeatMonitor ----------------------------
(***************************************************************************)
(* The heartbeats of one Collector: the publisher that reserves a sequence *)
(* number, then replaces heartbeat.json, and the backend's monitor that    *)
(* reads the file, orders it against the stored row and marks silent       *)
(* Collectors offline.                                                     *)
(*                                                                         *)
(* The clock counts periods of 30 s, HEARTBEAT_INTERVAL; times of one      *)
(* period are equal.  A heartbeat's content is its order of writing.       *)
(***************************************************************************)
EXTENDS Integers

CONSTANTS
  StaleAfter,  \* staleAfterMs, in periods
  MaxClock,    \* bound: periods
  MaxNumbers,  \* bound: sequence numbers
  Skews,       \* how many periods the Collector's clock may be behind after a
               \* restart; a negative one is ahead
  MaxFutureSkew \* maxFutureSkewMs, in periods

Status == {"online", "degraded", "shutting_down"}
NoBeat == [sequence |-> -1]

VARIABLES
  clock,      \* the backend's clock
  collector,  \* [up, started, next, skew]: the process and what it holds
  reserved,   \* a number taken by the publisher and not yet published, or -1
  stored,     \* next_sequence in heartbeat-sequence.json
  file,       \* heartbeat.json
  written,    \* heartbeats written
  row,        \* the row of collector_status
  monitor     \* [stage, beat, known]: the cycle, with what it read
vars == <<clock, collector, reserved, stored, file, written, row, monitor>>

Collector == <<collector, reserved, stored, file, written>>
NoRow == [sequence |-> -1, started |-> -1, at |-> -1, id |-> -1, status |-> "none"]
Resting == [stage |-> "rest", beat |-> NoBeat, known |-> NoRow]
LocalTime == clock - collector.skew

-----------------------------------------------------------------------------
(* HeartbeatPublisher.                                                     *)

\* Construction reads the stored number.
Start(skew) ==
  /\ ~collector.up
  /\ skew <= clock
  /\ collector' = [up |-> TRUE, started |-> clock - skew, next |-> stored, skew |-> skew]
  /\ reserved' = -1
  /\ UNCHANGED <<clock, stored, file, written, row, monitor>>

\* Mutant: the number is stored with the next heartbeat only.
ReserveInMemory ==
  /\ collector.up
  /\ reserved = -1
  /\ collector.next < MaxNumbers
  /\ reserved' = collector.next
  /\ collector' = [collector EXCEPT !.next = @ + 1]
  /\ stored' = collector.next
  /\ UNCHANGED <<clock, file, written, row, monitor>>

\* reserve_sequence: the next number is durable before this one is used.
Reserve ==
  /\ collector.up
  /\ reserved = -1
  /\ collector.next < MaxNumbers
  /\ reserved' = collector.next
  /\ collector' = [collector EXCEPT !.next = @ + 1]
  /\ stored' = collector.next + 1
  /\ UNCHANGED <<clock, file, written, row, monitor>>

\* The write of the reservation fails, before or after its rename: the number
\* stays taken in memory and no heartbeat carries it.
ReserveFails ==
  /\ collector.up
  /\ reserved = -1
  /\ collector.next < MaxNumbers
  /\ collector' = [collector EXCEPT !.next = @ + 1]
  /\ stored' \in {stored, collector.next + 1}
  /\ UNCHANGED <<clock, reserved, file, written, row, monitor>>

\* publish_locked, publish_shutdown: the file is replaced by one rename.
Publish(status) ==
  /\ collector.up
  /\ reserved # -1
  /\ file' = [sequence |-> reserved, started |-> collector.started, at |-> LocalTime,
              status |-> status, id |-> written]
  /\ written' = written + 1
  /\ reserved' = -1
  /\ collector' = [collector EXCEPT !.up = status # "shutting_down"]
  /\ UNCHANGED <<clock, stored, row, monitor>>

\* The number that was reserved is not used; the process goes on or dies.
PublishFails ==
  /\ reserved # -1
  /\ reserved' = -1
  /\ UNCHANGED <<clock, collector, stored, file, written, row, monitor>>

Crash ==
  /\ collector.up
  /\ collector' = [collector EXCEPT !.up = FALSE]
  /\ reserved' = -1
  /\ UNCHANGED <<clock, stored, file, written, row, monitor>>

-----------------------------------------------------------------------------
(* The monitor's cycle.                                                    *)

\* There is a file, and its heartbeat is not from the future.
Readable == file # NoBeat /\ file.at <= clock + MaxFutureSkew

\* ConsumeCollectorHeartbeatService.execute up to its read of the row.
ReadBeat ==
  /\ monitor.stage = "rest"
  /\ Readable
  /\ monitor' = [stage |-> "read", beat |-> file, known |-> row]
  /\ UNCHANGED <<clock, Collector, row>>

\* No file yet, or one that is refused: the cycle goes on without it.
NoBeatRead ==
  /\ monitor.stage = "rest"
  /\ ~Readable
  /\ monitor' = [Resting EXCEPT !.stage = "consumed"]
  /\ UNCHANGED <<clock, Collector, row>>

Mapped(status) == IF status = "shutting_down" THEN "offline" ELSE status

\* Mutant: the start of the process is not compared.
CompareSequences(known, b) ==
  IF known = NoRow THEN "newer"
  ELSE IF b.sequence < known.sequence THEN "stale"
  ELSE IF b.sequence > known.sequence THEN "newer"
  ELSE "replay"

\* compareWithExisting.
Compare(known, b) ==
  IF known = NoRow THEN "newer"
  ELSE IF b.started < known.started THEN "stale"
  ELSE IF b.started = known.started /\ b.sequence < known.sequence THEN "stale"
  ELSE IF b.started = known.started /\ b.sequence = known.sequence
  THEN IF b.id # known.id THEN "collision"
       ELSE IF known.status = Mapped(b.status) THEN "replay" ELSE "newer"
  ELSE IF b.at < known.at THEN "stale" ELSE "newer"

\* upsertHeartbeat: the statement itself keeps a later heartbeat.
Consume ==
  /\ monitor.stage = "read"
  /\ LET b == monitor.beat IN
       row' = IF Compare(monitor.known, b) = "newer" /\ b.at >= row.at
              THEN [sequence |-> b.sequence, started |-> b.started, at |-> b.at, id |-> b.id,
                    status |-> Mapped(b.status)]
              ELSE row
  /\ monitor' = [monitor EXCEPT !.stage = "consumed"]
  /\ UNCHANGED <<clock, Collector>>

\* A statement of the cycle fails: its part is skipped.
ConsumeFails ==
  /\ monitor.stage = "read"
  /\ monitor' = [monitor EXCEPT !.stage = "consumed"]
  /\ UNCHANGED <<clock, Collector, row>>

\* MarkStaleCollectorsOfflineService.execute, markStaleOffline.
MarkStaleOffline ==
  /\ monitor.stage = "consumed"
  /\ row' = IF row.status \in {"online", "degraded"} /\ row.at < clock - StaleAfter
            THEN [row EXCEPT !.status = "offline"] ELSE row
  /\ monitor' = Resting
  /\ UNCHANGED <<clock, Collector>>

\* A period passes between two cycles, or within one.
Tick ==
  /\ clock < MaxClock
  /\ clock' = clock + 1
  /\ UNCHANGED <<Collector, row, monitor>>

-----------------------------------------------------------------------------
MonitorInit ==
  /\ clock = 0
  /\ collector = [up |-> FALSE, started |-> 0, next |-> 0, skew |-> 0]
  /\ reserved = -1 /\ stored = 0 /\ file = NoBeat /\ written = 0
  /\ row = NoRow /\ monitor = Resting

MonitorNext ==
  \/ \E skew \in Skews : Start(skew)
  \/ Reserve \/ ReserveFails \/ PublishFails \/ Crash \/ (\E s \in Status : Publish(s))
  \/ ReadBeat \/ NoBeatRead \/ Consume \/ ConsumeFails \/ MarkStaleOffline
  \/ Tick

-----------------------------------------------------------------------------
\* No two heartbeats of one process start share a sequence number, whenever
\* the Collector crashed: the monitor never meets a collision, which would
\* make it refuse a running Collector.
NoCollision == monitor.stage = "read" => Compare(monitor.known, monitor.beat) # "collision"

\* The row never goes back to an earlier process, nor to an earlier heartbeat
\* of its process, nor to an earlier time; and a cycle ends with a row that
\* is not shown as running when its last heartbeat is older than the cutoff.
RowAdvances ==
  /\ row'.at >= row.at
  /\ row'.started >= row.started
  /\ row'.started = row.started => row'.sequence >= row.sequence
  /\ monitor.stage = "consumed" /\ monitor'.stage = "rest" =>
       (row'.status \in {"online", "degraded"} => row'.at >= clock - StaleAfter)
HeartbeatsAdvance == [][RowAdvances]_vars
=============================================================================
