-------------------------- MODULE NotificationDispatch --------------------------
(***************************************************************************)
(* The outbox of incident notifications: rows that correlation commits     *)
(* with the incident, the dispatchers of the workers that claim them under *)
(* a lease, and the Redis script that publishes each once.                 *)
(*                                                                         *)
(* Time is abstract: a lease that is held may be found expired, a row that *)
(* waits for its retry may be found due.                                   *)
(***************************************************************************)
EXTENDS Integers, Sequences, SequencesExt, FiniteSets

CONSTANTS
  Worker,       \* dispatchers; the owner of a lease is unique to a process
  Notice,       \* notifications
  MaxAttempts,  \* maxAttempts
  BatchSize,    \* batchSize
  MaxFaults     \* bound: failed or slow calls, crashes and lost markers

Nobody == "nobody"

VARIABLES
  notices, \* Notice -> the row of the outbox
  batch,   \* Worker -> what is left of its batch, as claimed, and the stage
  marker,  \* notices that the publish-once script has marked
  sent,    \* ghost: Notice -> publications
  lost,    \* ghost: Notice -> markers lost
  faults   \* faults so far
vars == <<notices, batch, marker, sent, lost, faults>>

Absent == [status |-> "absent", attempts |-> 0, owner |-> Nobody, lease |-> "none", due |-> FALSE]
NoBatch == [stage |-> "idle", left |-> <<>>]
Pending(n) == notices[n].status = "pending"
Fault == faults < MaxFaults /\ faults' = faults + 1
Current(w) == Head(batch[w].left)

\* enqueueIfAbsent, in the transaction of the correlation; a second one with
\* the same deduplication key is ignored.
Enqueue(n) ==
  /\ notices[n] = Absent
  /\ notices' = [notices EXCEPT ![n].status = "pending", ![n].due = TRUE]
  /\ UNCHANGED <<batch, marker, sent, lost, faults>>

\* Mutant: a lease that expired is not taken over.
ClaimableUnleased == {n \in Notice : Pending(n) /\ notices[n].due /\ notices[n].lease = "none"}

Claimable == {n \in Notice : Pending(n) /\ notices[n].due /\ notices[n].lease # "held"}

\* claimBatch: one statement, SKIP LOCKED, in no particular order; the attempt
\* count is returned as it is now.
ClaimBatch(w) ==
  /\ batch[w] = NoBatch
  /\ Claimable # {}
  /\ \E S \in SUBSET Claimable :
       /\ S # {}
       /\ Cardinality(S) = BatchSize \/ (S = Claimable /\ Cardinality(S) < BatchSize)
       /\ notices' = [n \in Notice |-> IF n \in S THEN [notices[n] EXCEPT !.owner = w, !.lease = "held"]
                                   ELSE notices[n]]
       /\ \E order \in SetToSeqs(S) :
            batch' = [batch EXCEPT ![w] =
                        [stage |-> "publish",
                         left |-> [k \in DOMAIN order |->
                                     [id |-> order[k], attempts |-> notices[order[k]].attempts]]]]
  /\ UNCHANGED <<marker, sent, lost, faults>>

\* Mutant: the marker is set without NX.
PublishAlways(n) ==
  /\ marker' = marker \cup {n}
  /\ sent' = [sent EXCEPT ![n] = @ + 1]

\* PUBLISH_ONCE_SCRIPT, atomic in Redis.
PublishOnce(n) ==
  /\ marker' = marker \cup {n}
  /\ sent' = [sent EXCEPT ![n] = IF n \in marker THEN @ ELSE @ + 1]

Publish(w) ==
  /\ batch[w].stage = "publish"
  /\ PublishOnce(Current(w).id)
  /\ batch' = [batch EXCEPT ![w].stage = "acknowledge"]
  /\ UNCHANGED <<notices, lost, faults>>

\* The call fails before the script ran, or its answer is lost after.
PublishFails(w) ==
  /\ batch[w].stage = "publish"
  /\ Fault
  /\ \/ PublishOnce(Current(w).id)
     \/ UNCHANGED <<marker, sent>>
  /\ batch' = [batch EXCEPT ![w].stage = "fail"]
  /\ UNCHANGED <<notices, lost>>

Owned(w, n) == notices[n].owner = w /\ Pending(n)
Released(n, status) ==
  [notices EXCEPT ![n] = [status |-> status, attempts |-> @.attempts + 1, owner |-> Nobody,
                      lease |-> "none", due |-> FALSE]]
Advance(w) ==
  batch' = [batch EXCEPT ![w] = IF Len(@.left) = 1 THEN NoBatch
                                ELSE [stage |-> "publish", left |-> Tail(@.left)]]

\* markPublished: the row must still be pending and owned; whether the lease
\* expired is not asked.  Losing the row counts as a failure of the attempt.
Acknowledge(w) ==
  /\ batch[w].stage = "acknowledge"
  /\ LET n == Current(w).id IN
       \/ Owned(w, n) /\ notices' = Released(n, "published") /\ Advance(w)
       \/ ~Owned(w, n) /\ batch' = [batch EXCEPT ![w].stage = "fail"] /\ UNCHANGED notices
  /\ UNCHANGED <<marker, sent, lost, faults>>

\* markPublished fails, or its answer is lost after it committed: then
\* markFailed finds a row that is no longer pending.
AcknowledgeFails(w) ==
  /\ batch[w].stage = "acknowledge"
  /\ Fault
  /\ LET n == Current(w).id IN
       \/ UNCHANGED notices
       \/ Owned(w, n) /\ notices' = Released(n, "published")
  /\ batch' = [batch EXCEPT ![w].stage = "fail"]
  /\ UNCHANGED <<marker, sent, lost>>

\* markFailed: whether it was the last attempt is decided on the count that
\* was claimed.  A row that is no longer owned ends the whole batch.
Fail(w) ==
  /\ batch[w].stage = "fail"
  /\ LET n == Current(w).id IN
       \/ /\ Owned(w, n)
          /\ notices' = Released(n, IF Current(w).attempts + 1 >= MaxAttempts THEN "dead_letter"
                                ELSE "pending")
          /\ Advance(w)
       \/ /\ ~Owned(w, n)
          /\ batch' = [batch EXCEPT ![w] = NoBatch]
          /\ UNCHANGED notices
  /\ UNCHANGED <<marker, sent, lost, faults>>

\* markFailed itself fails, or the process dies and another takes its place:
\* the leases stay until they expire, under an owner that holds no batch.  A
\* markFailed that committed before its answer was lost is Fail, then this.
Abandon(w) ==
  /\ batch[w] # NoBatch
  /\ Fault
  /\ batch' = [batch EXCEPT ![w] = NoBatch]
  /\ UNCHANGED <<notices, marker, sent, lost>>

\* 30 s passed since the claim.  That the owner is still at work on its batch
\* is a fault: two dispatchers that are always slower than their leases take
\* the rows from each other for ever, and no attempt is counted.
LeaseExpires(n) ==
  /\ notices[n].lease = "held"
  /\ notices' = [notices EXCEPT ![n].lease = "expired"]
  /\ IF \E w \in Worker : notices[n].owner = w /\ batch[w] # NoBatch THEN Fault
     ELSE UNCHANGED faults
  /\ UNCHANGED <<batch, marker, sent, lost>>

\* retryDelay passed.
RetryDue(n) ==
  /\ Pending(n)
  /\ ~notices[n].due
  /\ notices' = [notices EXCEPT ![n].due = TRUE]
  /\ UNCHANGED <<batch, marker, sent, lost, faults>>

\* The marker's 30 days end, or Redis loses it.
MarkerLost(n) ==
  /\ n \in marker
  /\ Fault
  /\ marker' = marker \ {n}
  /\ lost' = [lost EXCEPT ![n] = @ + 1]
  /\ UNCHANGED <<notices, batch, sent>>

-----------------------------------------------------------------------------
DispatchInit ==
  /\ notices = [n \in Notice |-> Absent]
  /\ batch = [w \in Worker |-> NoBatch]
  /\ marker = {} /\ faults = 0
  /\ sent = [n \in Notice |-> 0] /\ lost = [n \in Notice |-> 0]

Work(w) == ClaimBatch(w) \/ Publish(w) \/ Acknowledge(w) \/ Fail(w)

DispatchNext ==
  \/ \E n \in Notice : Enqueue(n) \/ LeaseExpires(n) \/ RetryDue(n) \/ MarkerLost(n)
  \/ \E w \in Worker : Work(w) \/ PublishFails(w) \/ AcknowledgeFails(w) \/ Abandon(w)

\* The runner polls every second and awaits each call; time passes.
DispatchFairness ==
  /\ \A w \in Worker : WF_vars(Work(w))
  /\ \A n \in Notice : WF_vars(LeaseExpires(n)) /\ WF_vars(RetryDue(n))

-----------------------------------------------------------------------------
\* However leases expire and calls fail, a notification is published once, and
\* once more at most for each time its marker was lost; a row is published
\* only if it was sent; it is a dead letter exactly after MaxAttempts attempts,
\* though the count that decides was read when the row was claimed.
SentOnce ==
  \A n \in Notice :
    /\ sent[n] <= 1 + lost[n]
    /\ notices[n].status = "published" => sent[n] >= 1
    /\ Pending(n) => notices[n].attempts < MaxAttempts
    /\ notices[n].status = "dead_letter" => notices[n].attempts = MaxAttempts

\* Each row is settled in the end: no lease that a dead or slow dispatcher
\* left behind, and no failure, keeps it from being published or given up.
EveryNoticeSettles ==
  \A n \in Notice : Pending(n) ~> notices[n].status \in {"published", "dead_letter"}
=============================================================================
