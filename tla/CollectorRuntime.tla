-------------------------- MODULE CollectorRuntime --------------------------
(***************************************************************************)
(* The Collector's scheduler loop (CollectorRuntime): poll the sources,    *)
(* carry their records through buffered_inputs_, the bounded queue and the *)
(* batch assembler to signed publications, retry a failed publication      *)
(* before anything else, drain everything on shutdown.                     *)
(*                                                                         *)
(* The loop is one thread; a step below is one turn of one of its loops or *)
(* one attempt to publish.  An attempt is the whole protocol of            *)
(* OutboxPublication: it can stop before the publication is sealed, after  *)
(* it was sealed, after it became visible, or after the checkpoint moved.  *)
(*                                                                         *)
(* A record is [src, pos, class].  Its class is what becomes of it: an     *)
(* "event" enters a batch; a "refused" one is rejected by the reader, the  *)
(* mapper or the queue's record limit while it is at the front of          *)
(* buffered_inputs_; an "unrepresentable" one passes those checks and is   *)
(* refused by BatchAssembler::try_add, when the contract serializer throws *)
(* on the mapped event.                                                    *)
(***************************************************************************)
EXTENDS Integers, Sequences, FiniteSets, SequencesExt

CONSTANTS
  NumSources,     \* enabled sources, polled in this order
  MaxLen,         \* bound: records of a source
  Classes,        \* subset of {"event", "refused", "unrepresentable"}
  BatchSize,      \* scheduler.batch_size: records per poll, events per batch
  QueueCapacity,  \* scheduler.queue_capacity_events
  MaxFaults       \* bound: failed publication attempts and crashes

ASSUME RuntimeAssumption ==
  /\ NumSources \in Nat \ {0} /\ MaxLen \in Nat /\ BatchSize \in Nat \ {0}
  /\ QueueCapacity \in Nat \ {0} /\ MaxFaults \in Nat
  /\ Classes \subseteq {"event", "refused", "unrepresentable"}

VARIABLES
  phase,      \* "down", "starting", "running", "stopping", "stopped" or "failed"
  pc,         \* where the loop is
  after,      \* what follows process_buffered_inputs: a source, or "drain"
  drainFor,   \* who called drain_queue
  ret,        \* where a successful publication returns to
  buffered,   \* buffered_inputs_
  queue,      \* queue_
  deferred,   \* deferred_event_, as a sequence of at most one
  batch,      \* the events in assembler_
  pending,    \* pending_batch_ or pending_rejection_
  sealed,     \* whether pending has a private durable copy
  read,       \* source -> records read
  committed,  \* source -> checkpoint position
  delivered,  \* records published at least once
  faults,     \* failed attempts and crashes so far
  late        \* history: an event was refused after it had been queued

ram == <<buffered, queue, deferred, batch>>
control == <<phase, pc, after, drainFor, ret>>
durable == <<committed, delivered>>
history == <<faults, late>>
vars == <<control, ram, pending, sealed, read, durable, history>>

Source == 1..NumSources
Nothing == [kind |-> "none", items |-> <<>>]

Init ==
  /\ phase = "down" /\ pc = "idle" /\ after = 0 /\ drainFor = "poll" /\ ret = "idle"
  /\ buffered = <<>> /\ queue = <<>> /\ deferred = <<>> /\ batch = <<>>
  /\ pending = Nothing /\ sealed = FALSE
  /\ read = [s \in Source |-> 0] /\ committed = [s \in Source |-> 0]
  /\ delivered = {} /\ faults = 0 /\ late = FALSE

-----------------------------------------------------------------------------
(* Publishing.                                                             *)

Of(s, items) == {i \in DOMAIN items : items[i].src = s}

Touches(items, s) == Of(s, items) # {}

\* positions_for: the last record of each source in the publication.
LastPosition(s, items) == items[Max(Of(s, items))].pos

Regresses(items) ==
  \E s \in Source : Touches(items, s) /\ LastPosition(s, items) < committed[s]

Records(items) == {<<i.src, i.pos>> : i \in Range(items)}

\* Mutant: the checkpoint takes the reader's position.
AdvanceToReader(items) ==
  [s \in Source |-> IF Touches(items, s) THEN read[s] ELSE committed[s]]

Advance(items) ==
  [s \in Source |-> IF Touches(items, s) THEN LastPosition(s, items) ELSE committed[s]]

Publish(kind, items, next) ==
  /\ pending' = [kind |-> kind, items |-> items]
  /\ sealed' = FALSE
  /\ pc' = "publish" /\ ret' = next

\* retry_pending_publication returned false, or start threw.
GiveUp ==
  /\ pc' = "idle"
  /\ phase' = CASE phase = "stopping" -> "failed"
                [] phase = "starting" -> "down"
                [] OTHER -> phase

PublicationSucceeds ==
  /\ pc = "publish" /\ ~Regresses(pending.items)
  /\ delivered' = delivered \cup Records(pending.items)
  /\ committed' = Advance(pending.items)
  /\ pending' = Nothing /\ sealed' = FALSE
  /\ pc' = ret
  /\ UNCHANGED <<phase, after, drainFor, ret, ram, read, history>>

\* Mutant: a failed attempt is dropped once its batch is sealed.
PublicationFailsDrops ==
  /\ pc = "publish" /\ faults < MaxFaults
  /\ faults' = faults + 1 /\ UNCHANGED late
  /\ pending' = Nothing /\ sealed' = TRUE
  /\ GiveUp
  /\ UNCHANGED <<after, drainFor, ret, ram, read, durable>>

PublicationFails ==
  /\ pc = "publish" /\ faults < MaxFaults
  /\ faults' = faults + 1 /\ UNCHANGED late
  /\ \/ UNCHANGED <<sealed, durable>>
     \/ sealed' = TRUE /\ UNCHANGED durable
     \/ /\ sealed' = TRUE
        /\ delivered' = delivered \cup Records(pending.items)
        /\ \/ UNCHANGED committed
           \/ ~Regresses(pending.items) /\ committed' = Advance(pending.items)
  /\ GiveUp
  /\ UNCHANGED <<after, drainFor, ret, ram, pending, read>>

\* The checkpoint store refuses an offset regression, every time.
PublicationRefused ==
  /\ pc = "publish" /\ Regresses(pending.items)
  /\ delivered' = delivered \cup Records(pending.items)
  /\ sealed' = TRUE
  /\ GiveUp
  /\ UNCHANGED <<after, drainFor, ret, ram, pending, read, committed, history>>

-----------------------------------------------------------------------------
(* poll_once.                                                              *)

\* A pending publication is retried before anything else happens.
Begin(next) ==
  /\ pc' = IF pending = Nothing THEN "process" ELSE "publish"
  /\ ret' = "process"
  /\ after' = next
  /\ UNCHANGED <<drainFor, ram, pending, sealed, read, durable, history>>

PollOnce ==
  /\ phase = "running" /\ pc = "idle"
  /\ Begin(1)
  /\ UNCHANGED phase

\* FileReader::poll of source s returns up to batch_size records.
PollSource ==
  /\ pc = "sources" /\ after \in Source
  /\ \E n \in 0..BatchSize : \E class \in [1..n -> Classes] :
       /\ read[after] + n <= MaxLen
       /\ buffered' = buffered \o
            [i \in 1..n |-> [src |-> after, pos |-> read[after] + i, class |-> class[i]]]
       /\ read' = [read EXCEPT ![after] = @ + n]
  /\ after' = after + 1
  /\ pc' = "process"
  /\ UNCHANGED <<phase, drainFor, ret, queue, deferred, batch, pending, sealed, durable, history>>

\* All sources were polled: drain what reached the queue.
PollEnd ==
  /\ pc = "sources" /\ after \notin Source
  /\ pc' = "drain"
  /\ drainFor' = IF phase = "stopping" THEN "shutdown" ELSE "poll"
  /\ UNCHANGED <<phase, after, ret, ram, pending, sealed, read, durable, history>>

-----------------------------------------------------------------------------
(* process_buffered_inputs.                                                *)

ProcessDone ==
  /\ pc = "process" /\ buffered = <<>>
  /\ pc' = "sources"
  /\ UNCHANGED <<phase, after, drainFor, ret, ram, pending, sealed, read, durable, history>>

\* The front maps to an event and the queue has room.
Enqueue ==
  /\ pc = "process" /\ buffered # <<>> /\ Head(buffered).class # "refused"
  /\ Len(queue) < QueueCapacity
  /\ queue' = Append(queue, Head(buffered))
  /\ buffered' = Tail(buffered)
  /\ UNCHANGED <<control, deferred, batch, pending, sealed, read, durable, history>>

\* Backpressure: empty the queue, then try again.
MakeRoom ==
  /\ pc = "process" /\ buffered # <<>> /\ Head(buffered).class # "refused"
  /\ Len(queue) >= QueueCapacity
  /\ pc' = "drain" /\ drainFor' = "room"
  /\ UNCHANGED <<phase, after, ret, ram, pending, sealed, read, durable, history>>

\* A rejection is published after everything that came before it.
StartRejection ==
  /\ pc = "process" /\ buffered # <<>> /\ Head(buffered).class = "refused"
  /\ pc' = "drain" /\ drainFor' = "rejection"
  /\ UNCHANGED <<phase, after, ret, ram, pending, sealed, read, durable, history>>

PublishRejection ==
  /\ pc = "reject"
  /\ Publish("rejection", <<Head(buffered)>>, "process")
  /\ buffered' = Tail(buffered)
  /\ UNCHANGED <<phase, after, drainFor, queue, deferred, batch, read, durable, history>>

-----------------------------------------------------------------------------
(* drain_queue.                                                            *)

Waiting == deferred \o queue

TakeNext ==
  IF deferred # <<>> THEN deferred' = <<>> /\ UNCHANGED queue
                     ELSE queue' = Tail(queue) /\ UNCHANGED deferred

\* try_add accepts; a full batch is flushed at once.
AddEvent ==
  /\ pc = "drain" /\ Waiting # <<>> /\ Head(Waiting).class = "event"
  /\ TakeNext
  /\ IF Len(batch) + 1 < BatchSize
     THEN /\ batch' = Append(batch, Head(Waiting))
          /\ UNCHANGED <<pc, ret, pending, sealed>>
     ELSE /\ batch' = <<>>
          /\ Publish("batch", Append(batch, Head(Waiting)), "drain")
  /\ UNCHANGED <<phase, after, drainFor, buffered, read, durable, history>>

\* Mutant: the deferred event goes behind the queue.
DeferEventToBack ==
  /\ pc = "drain" /\ Waiting # <<>> /\ Head(Waiting).class = "event" /\ batch # <<>>
  /\ deferred' = <<>>
  /\ queue' = Append(Tail(Waiting), Head(Waiting))
  /\ batch' = <<>>
  /\ Publish("batch", batch, "drain")
  /\ UNCHANGED <<phase, after, drainFor, buffered, read, durable, history>>

\* The event does not fit the byte limit of the batch: flush_required.
DeferEvent ==
  /\ pc = "drain" /\ Waiting # <<>> /\ Head(Waiting).class = "event" /\ batch # <<>>
  /\ deferred' = <<Head(Waiting)>>
  /\ queue' = IF deferred # <<>> THEN queue ELSE Tail(queue)
  /\ batch' = <<>>
  /\ Publish("batch", batch, "drain")
  /\ UNCHANGED <<phase, after, drainFor, buffered, read, durable, history>>

\* try_add refuses the event: flush what precedes it, then put its rejection
\* in front of buffered_inputs_.
RefuseEvent ==
  /\ pc = "drain" /\ Waiting # <<>> /\ Head(Waiting).class = "unrepresentable"
  /\ late' = TRUE
  /\ deferred' = <<Head(Waiting)>>
  /\ queue' = IF deferred # <<>> THEN queue ELSE Tail(queue)
  /\ IF batch # <<>>
     THEN batch' = <<>> /\ Publish("batch", batch, "refuse")
     ELSE pc' = "refuse" /\ UNCHANGED <<batch, pending, sealed, ret>>
  /\ UNCHANGED <<phase, after, drainFor, buffered, read, durable, faults>>

DrainReturns == IF drainFor = "poll" THEN "dwell" ELSE "flush"

QueueRejection ==
  /\ pc = "refuse"
  /\ buffered' = <<[Head(deferred) EXCEPT !.class = "refused"]>> \o buffered
  /\ deferred' = <<>>
  /\ pc' = DrainReturns
  /\ UNCHANGED <<phase, after, drainFor, ret, queue, batch, pending, sealed, read, durable, history>>

DrainDone ==
  /\ pc = "drain" /\ Waiting = <<>>
  /\ pc' = DrainReturns
  /\ UNCHANGED <<phase, after, drainFor, ret, ram, pending, sealed, read, durable, history>>

\* should_flush: the oldest event of the batch is older than the dwell time,
\* or not yet.
Dwell ==
  /\ pc = "dwell"
  /\ pc' \in {"flush", "idle"}
  /\ UNCHANGED <<phase, after, drainFor, ret, ram, pending, sealed, read, durable, history>>

AfterFlush ==
  CASE drainFor = "room" -> "process"
    [] drainFor = "rejection" -> "reject"
    [] drainFor = "shutdown" -> "stop"
    [] OTHER -> "idle"

\* Mutant: shutdown skips the partial batch.
FlushNotLast ==
  /\ pc = "flush"
  /\ IF batch # <<>> /\ drainFor # "shutdown"
     THEN batch' = <<>> /\ Publish("batch", batch, AfterFlush)
     ELSE pc' = AfterFlush /\ UNCHANGED <<batch, pending, sealed, ret>>
  /\ UNCHANGED <<phase, after, drainFor, buffered, queue, deferred, read, durable, history>>

\* flush_batch, for whoever drained the queue.
Flush ==
  /\ pc = "flush"
  /\ IF batch # <<>>
     THEN batch' = <<>> /\ Publish("batch", batch, AfterFlush)
     ELSE pc' = AfterFlush /\ UNCHANGED <<batch, pending, sealed, ret>>
  /\ UNCHANGED <<phase, after, drainFor, buffered, queue, deferred, read, durable, history>>

-----------------------------------------------------------------------------
(* start, shutdown, crash.                                                 *)

Shutdown ==
  /\ phase = "running" /\ pc = "idle"
  /\ phase' = "stopping"
  /\ Begin(NumSources + 1)

\* shutdown throws unless every accepted record is out.
Stop ==
  /\ pc = "stop"
  /\ phase' = IF buffered = <<>> /\ Waiting = <<>> /\ pending = Nothing
              THEN "stopped" ELSE "failed"
  /\ pc' = "idle"
  /\ UNCHANGED <<after, drainFor, ret, ram, pending, sealed, read, durable, history>>

Crash ==
  /\ phase \in {"running", "stopping"} /\ faults < MaxFaults
  /\ faults' = faults + 1 /\ UNCHANGED late
  /\ phase' = "down" /\ pc' = "idle"
  /\ UNCHANGED <<after, drainFor, ret, ram, pending, sealed, read, durable>>

\* start: memory is empty; a sealed publication is recovered first.
Start ==
  /\ phase \in {"down", "stopped", "failed"}
  /\ phase' = "starting"
  /\ buffered' = <<>> /\ queue' = <<>> /\ deferred' = <<>> /\ batch' = <<>>
  /\ pending' = IF sealed THEN pending ELSE Nothing
  /\ pc' = IF sealed THEN "publish" ELSE "started"
  /\ ret' = "started"
  /\ UNCHANGED <<after, drainFor, sealed, read, durable, history>>

\* The readers resume at the checkpoint.
Started ==
  /\ pc = "started"
  /\ phase' = "running" /\ pc' = "idle"
  /\ read' = committed
  /\ UNCHANGED <<after, drainFor, ret, ram, pending, sealed, durable, history>>

-----------------------------------------------------------------------------
Loop ==
  \/ PublicationSucceeds \/ PublicationFails \/ PublicationRefused
  \/ PollSource \/ PollEnd
  \/ ProcessDone \/ Enqueue \/ MakeRoom \/ StartRejection \/ PublishRejection
  \/ AddEvent \/ DeferEvent \/ RefuseEvent \/ QueueRejection \/ DrainDone \/ Dwell \/ Flush
  \/ Stop \/ Started

Next == Loop \/ PollOnce \/ Shutdown \/ Crash \/ Start

Spec == Init /\ [][Next]_vars

\* The scheduler keeps calling poll_once, an operator starts an exited
\* Collector again and does not always stop it before its first poll;
\* publication attempts fail a bounded number of times.  The records of a
\* source stay there to be read, and the dwell time of a batch runs out.
FairSpec ==
  /\ Spec
  /\ WF_vars(Loop) /\ WF_vars(Start) /\ SF_vars(PollOnce)
  /\ SF_vars(PollSource /\ read' # read)
  /\ SF_vars(Dwell /\ pc' = "flush")

-----------------------------------------------------------------------------
(* Properties.                                                             *)

Running == phase \in {"running", "stopping"}

\* Everything read and not yet published, in the order it will leave.
Pipeline == pending.items \o (batch \o (Waiting \o buffered))

\* Between the reader and the publications no record is lost, repeated or
\* overtaken: what is in memory of a source is the run of records up to the
\* reader's position, in order, and everything before it was published
\* (deferred events, a retried publication, backpressure and rejections
\* included).  Here and below, `late` excepts what an event refused after it was
\* queued brings about: its rejection leaves behind later records.
PipelineInOrder ==
  Running /\ ~late =>
    \A s \in Source :
      LET here == Of(s, Pipeline) IN
        /\ \A i, j \in here : i < j => Pipeline[i].pos < Pipeline[j].pos
        /\ \A i \in here : Pipeline[i].pos <= read[s]
        /\ \A k \in 1..read[s] :
             \/ \E i \in here : Pipeline[i].pos = k
             \/ <<s, k>> \in delivered /\ \A i \in here : Pipeline[i].pos > k

\* The checkpoint advances past a record only after the record, or its
\* rejection, was made durable (ARCH-01 sections 8 and 10).
CheckpointCovered ==
  ~late => \A s \in Source : \A k \in 1..committed[s] : <<s, k>> \in delivered

\* The same of every record, those refused after they were queued included.
CheckpointCoveredAlways ==
  \A s \in Source : \A k \in 1..committed[s] : <<s, k>> \in delivered

\* After a graceful shutdown everything that was read is published and its
\* position committed; a late refusal alone does not break it, nor does a
\* failure alone.
ShutdownDrains ==
  phase = "stopped" /\ ~(late /\ faults > 0) =>
    /\ pending = Nothing
    /\ \A s \in Source : committed[s] = read[s]
    /\ \A s \in Source : \A k \in 1..read[s] : <<s, k>> \in delivered

\* shutdown gives up ("could not durably publish all accepted records") only
\* when a publication attempt failed.
ShutdownFailsOnlyOnFault == ~late /\ phase = "failed" => faults > 0

\* Both: shutdown ends with everything published, or with a reason.
ShutdownSound == ShutdownDrains /\ ShutdownFailsOnlyOnFault

\* Every record a reader returned is published eventually, as an event or as
\* a rejection.
EveryReadRecordPublished ==
  \A s \in Source : \A k \in 1..MaxLen : (read[s] >= k) ~> (<<s, k>> \in delivered \/ late)

=============================================================================
