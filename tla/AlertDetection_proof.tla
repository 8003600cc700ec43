------------------------ MODULE AlertDetection_proof ------------------------
(***************************************************************************)
(* Proofs about rule detection, for any batches, rules, windows, cooldowns *)
(* and workers, and about what correlation makes of its alerts and of the  *)
(* results of the model, for any evidence that is found in a batch; about  *)
(* what a rule makes of events in the worker and in the dry run.           *)
(***************************************************************************)
EXTENDS
  AlertDetection, UnifiedAlerts, RuleEvaluation,
  FiniteSetTheorems, SequenceTheorems, WellFoundedInduction, TLAPS

JobTypes ==
  /\ pc \in [Batch -> Working \cup {"waiting", "completed"}]
  /\ next \in [Batch -> Nat \ {0}]
  /\ candidate \in [Batch -> SUBSET Event]
  /\ alerts \in [Batch -> Seq(Alert)]
  /\ \A b \in Batch : pc[b] = "acquire" => next[b] <= Size[b]

TypeOK ==
  /\ age \in [Event -> 0..Window]
  /\ lease \in [owner : Alert \cup {NoOwner}, left : Nat]
  /\ JobTypes
  /\ stored \subseteq Alert /\ linked \subseteq Alert
  /\ emitted \in [Batch -> SUBSET Alert]
  /\ quiet \in Nat /\ faults \in Nat

\* The lease outlasts the quiet time that is missing; who owns it was emitted.
Leased ==
  /\ lease.left + quiet >= Cooldown
  /\ lease.left > 0 => \E c \in Batch : lease.owner \in emitted[c]

Matched(b) == {MatchAlert(e) : e \in EventsOf(b) \cap MatchEvents}

\* Every attempt raises all match alerts of its batch.
MatchesKept(b) ==
  /\ \A a \in emitted[b] : a.rule = "match" => a \in Matched(b)
  /\ pc[b] \in {"record", "acquire", "persist", "correlate"} => Matched(b) \subseteq Range(alerts[b])
  /\ pc[b] = "correlate" => Range(alerts[b]) \subseteq stored
  /\ pc[b] = "completed" => Matched(b) \subseteq stored /\ Matched(b) \subseteq linked

\* No attempt failed, none was refused for an event of another batch.
Undisturbed(b) == faults = 0 /\ \A a \in emitted[b] : a.events \subseteq EventsOf(b)

\* Such a job has had one attempt, and its events enter the window in order.
FirstAttempt(b) ==
  /\ pc[b] \in {"waiting", "store", "match"} =>
       /\ emitted[b] = {} /\ next[b] = 1
       /\ \A e \in EventsOf(b) : age[e] = Window
  /\ pc[b] # "completed" => Range(alerts[b]) = emitted[b]
  /\ pc[b] = "record" => \A e \in EventsOf(b) : e[2] >= next[b] => age[e] = Window
  /\ pc[b] = "acquire" =>
       /\ \A e \in EventsOf(b) : e[2] > next[b] => age[e] = Window
       /\ <<b, next[b]>> \in candidate[b]
       /\ \A e \in candidate[b] : e[1] = b => e[2] <= next[b]
  /\ pc[b] \in {"record", "acquire"} =>
       \A a \in Range(alerts[b]) : a.rule = "count" => \A e \in a.events : e[2] < next[b]
  /\ IsInjective(alerts[b])
  /\ pc[b] = "completed" => emitted[b] \subseteq stored /\ emitted[b] \subseteq linked

DetectInv ==
  /\ TypeOK /\ Leased
  /\ \A b \in Batch : MatchesKept(b) /\ (Undisturbed(b) => FirstAttempt(b))
-----------------------------------------------------------------------------
LEMMA EventFacts ==
  /\ \A b \in Batch : \A i \in 1..Size[b] : <<b, i>> \in Event /\ <<b, i>> \in EventsOf(b)
  /\ \A e \in Event : e[1] \in Batch /\ e[2] \in 1..Size[e[1]] /\ e = <<e[1], e[2]>>
  /\ \A b \in Batch : \A e \in EventsOf(b) : e \in Event /\ e[1] = b
  BY DEF Event, EventsOf

LEMMA AlertFacts ==
  /\ \A e \in Event : MatchAlert(e) \in Alert /\ MatchAlert(e).rule = "match"
  /\ \A S \in SUBSET Event : /\ CountAlert(S) \in Alert /\ CountAlert(S).rule = "count"
                             /\ CountAlert(S).events = S
  /\ \A d, e \in Event : MatchAlert(d) = MatchAlert(e) => d = e
  BY DEF MatchAlert, CountAlert, Alert

LEMMA FewEvents == \A b \in Batch : IsFiniteSet(EventsOf(b))
<1> TAKE b \in Batch
<1> DEFINE f == [i \in 1..Size[b] |-> <<b, i>>]
<1>1. Size[b] \in Nat
  BY ConstantsAssumption DEF Batch
<1>2. IsFiniteSet(1..Size[b])
  BY <1>1, FS_Interval
<1>3. \A i \in 1..Size[b] : f[i] \in EventsOf(b)
  BY EventFacts
<1>4. \A e \in EventsOf(b) : \E i \in 1..Size[b] : f[i] = e
  BY EventFacts
<1>5. f \in Surjection(1..Size[b], EventsOf(b))
  BY <1>3, <1>4 DEF Surjection
<1> HIDE DEF f
<1> QED  BY <1>2, <1>5, FS_Surjection

\* The match evaluator's list holds each match alert of the batch once.
LEMMA AllMatched ==
  ASSUME NEW b \in Batch, NEW T, T = EventsOf(b) \cap MatchEvents,
         NEW list \in [1..Cardinality(T) -> T],
         \A i, j \in DOMAIN list : i < j => list[i][2] < list[j][2],
         NEW as, as = [i \in DOMAIN as |-> as[i]], DOMAIN as = DOMAIN list,
         \A i \in DOMAIN list : as[i] = MatchAlert(list[i])
  PROVE  /\ as \in Seq(Alert) /\ Range(as) = Matched(b) /\ IsInjective(as)
         /\ \A a \in Range(as) : a.rule = "match"
<1> DEFINE n == Cardinality(T)
<1>1. IsFiniteSet(T) /\ n \in Nat /\ T \subseteq Event
  <2>1. T \in SUBSET EventsOf(b) /\ IsFiniteSet(EventsOf(b))
    BY FewEvents
  <2>2. IsFiniteSet(T)
    BY <2>1, FS_Subset
  <2> QED  BY <2>1, <2>2, FS_CardinalityType, EventFacts
<1> HIDE DEF n
<1>2. list \in [1..n -> T] /\ DOMAIN list = 1..n
  BY DEF n
<1>3. \A i \in 1..n : list[i] \in Event /\ list[i][2] \in Nat
  <2> TAKE i \in 1..n
  <2>1. list[i] \in Event
    BY <1>1, <1>2
  <2>2. list[i][2] \in 1..Size[list[i][1]] /\ Size[list[i][1]] \in Nat
    BY <2>1, EventFacts, ConstantsAssumption DEF Batch
  <2> QED  BY <2>1, <2>2
<1>4. \A i, j \in 1..n : list[i] = list[j] => i = j
  <2> SUFFICES ASSUME NEW i \in 1..n, NEW j \in 1..n, list[i] = list[j], i # j PROVE FALSE
    OBVIOUS
  <2>1. i < j \/ j < i
    BY <1>1
  <2>2. list[i][2] < list[j][2] \/ list[j][2] < list[i][2]
    BY <1>2, <2>1
  <2>3. list[i][2] \in Nat /\ list[i][2] = list[j][2]
    BY <1>3
  <2> QED  BY <2>2, <2>3
<1>5. list \in Injection(1..n, T)
  BY <1>2, <1>4 DEF Injection, IsInjective
<1>6. list \in Surjection(1..n, T)
  <2>1. Cardinality(1..n) = n
    <3>1. 1 \in Int /\ n \in Int /\ (n < 1 => n = 0)
      BY <1>1
    <3>2. Cardinality(1..n) = IF 1 > n THEN 0 ELSE n - 1 + 1
      BY <3>1, FS_Interval
    <3> QED  BY <1>1, <3>1, <3>2
  <2>2. Cardinality(1..n) = Cardinality(T)
    BY <2>1 DEF n
  <2> QED  BY <1>1, <1>5, <2>2, FS_Injection
<1>7. \A e \in T : \E i \in 1..n : list[i] = e
  BY <1>6 DEF Surjection
<1>8. DOMAIN as = 1..n /\ \A i \in 1..n : as[i] = MatchAlert(list[i])
  BY <1>2
<1>9. as \in Seq(Alert)
  <2>1. \A i \in 1..n : as[i] \in Alert
    BY ONLY <1>3, <1>8, AlertFacts, ZenonT(30)
  <2>2. as = [i \in 1..n |-> as[i]]
    BY <1>8
  <2>3. as \in [1..n -> Alert]
    BY ONLY <2>1, <2>2
  <2>4. Seq(Alert) = UNION {[1..m -> Alert] : m \in Nat}
    BY SeqDef
  <2> QED  BY ONLY <1>1, <2>3, <2>4
<1>10. Range(as) = Matched(b)
  <2>1. \A a \in Range(as) : a \in Matched(b)
    BY <1>2, <1>8 DEF Range, Matched
  <2>2. \A a \in Matched(b) : a \in Range(as)
    <3> TAKE a \in Matched(b)
    <3>1. PICK e \in T : a = MatchAlert(e)
      BY DEF Matched
    <3>2. PICK i \in 1..n : list[i] = e
      BY <1>7
    <3>3. i \in DOMAIN as /\ as[i] = a
      BY ONLY <1>8, <3>1, <3>2
    <3> QED  BY ONLY <3>3 DEF Range
  <2> QED  BY <2>1, <2>2
<1>11. IsInjective(as)
  <2>1. \A i, j \in 1..n : as[i] = as[j] => i = j
    <3> TAKE i \in 1..n, j \in 1..n
    <3> HAVE as[i] = as[j]
    <3>1. MatchAlert(list[i]) = MatchAlert(list[j])
      BY <1>8
    <3>2. list[i] = list[j]
      BY ONLY <1>3, <3>1, AlertFacts
    <3> QED  BY ONLY <1>4, <3>2
  <2> QED  BY ONLY <1>8, <2>1 DEF IsInjective
<1>12. \A a \in Range(as) : a.rule = "match"
  <2>1. \A i \in 1..n : as[i].rule = "match"
    <3> TAKE i \in 1..n
    <3>1. MatchAlert(list[i]).rule = "match"
      BY ONLY <1>3, AlertFacts
    <3> QED  BY <1>8, <3>1
  <2> QED  BY ONLY <1>8, <2>1 DEF Range
<1> QED  BY <1>9, <1>10, <1>11, <1>12

LEMMA OneMoreAlert ==
  ASSUME NEW s \in Seq(Alert), NEW a \in Alert
  PROVE  /\ Append(s, a) \in Seq(Alert) /\ Range(Append(s, a)) = Range(s) \cup {a}
         /\ IsInjective(s) /\ a \notin Range(s) => IsInjective(Append(s, a))
<1> DEFINE t == Append(s, a)
           n == Len(s)
<1>1. /\ t \in Seq(Alert) /\ n \in Nat /\ DOMAIN s = 1..n /\ DOMAIN t = 1..(n+1)
      /\ t[n+1] = a /\ \A i \in 1..n : t[i] = s[i]
  OBVIOUS
<1> HIDE DEF t, n
<1>2. \A i \in 1..(n+1) : i \in 1..n \/ i = n+1
  BY <1>1
<1>3. Range(t) = Range(s) \cup {a}
  <2>1. \A x \in Range(t) : x \in Range(s) \cup {a}
    BY <1>1, <1>2 DEF Range
  <2>2. \A x \in Range(s) : x \in Range(t)
    <3> TAKE x \in Range(s)
    <3>1. PICK i \in 1..n : x = s[i]
      BY <1>1 DEF Range
    <3>2. i \in 1..(n+1) /\ t[i] = x
      BY <1>1, <3>1
    <3> QED  BY <1>1, <3>2 DEF Range
  <2>3. a \in Range(t)
    BY <1>1 DEF Range
  <2> QED  BY <2>1, <2>2, <2>3
<1>4. ASSUME IsInjective(s), a \notin Range(s) PROVE IsInjective(t)
  <2>1. \A i \in 1..n : t[i] # a
    BY <1>1, <1>4 DEF Range
  <2> QED  BY <1>1, <1>2, <1>4, <2>1 DEF IsInjective
<1> QED  BY <1>1, <1>3, <1>4 DEF t

LEMMA Initially == Init => DetectInv
<1> SUFFICES ASSUME Init PROVE DetectInv
  OBVIOUS
<1> USE ConstantsAssumption
<1>1. TypeOK
  BY DEF Init, TypeOK, JobTypes, NoOwner
<1>2. Leased
  BY DEF Init, Leased
<1>3. ASSUME NEW b \in Batch PROVE MatchesKept(b) /\ FirstAttempt(b)
  <2>1. MatchesKept(b)
    BY DEF Init, MatchesKept
  <2>2. alerts[b] = <<>> /\ Range(alerts[b]) = {} /\ IsInjective(alerts[b])
    BY DEF Init, Range, IsInjective
  <2>3. \A e \in EventsOf(b) : age[e] = Window
    BY EventFacts DEF Init
  <2> QED  BY <2>1, <2>2, <2>3 DEF Init, FirstAttempt
<1> QED  BY <1>1, <1>2, <1>3 DEF DetectInv
-----------------------------------------------------------------------------
(* Types.                                                                  *)

LEMMA TypesOfTick == TypeOK /\ Tick => TypeOK'
<1> SUFFICES ASSUME TypeOK, Tick PROVE TypeOK'
  OBVIOUS
<1>1. age' \in [Event -> 0..Window]
  BY ConstantsAssumption DEF TypeOK, Tick
<1>2. lease' \in [owner : Alert \cup {NoOwner}, left : Nat]
  BY DEF TypeOK, Tick
<1>3. JobTypes'
  BY DEF TypeOK, Tick, JobTypes, jobVars
<1>4. stored' \subseteq Alert /\ linked' \subseteq Alert /\ emitted' \in [Batch -> SUBSET Alert]
      /\ quiet' \in Nat /\ faults' \in Nat
  BY ConstantsAssumption DEF TypeOK, Tick, dbVars
<1> QED  BY <1>1, <1>2, <1>3, <1>4 DEF TypeOK

LEMMA TypesOfEnd ==
  ASSUME TypeOK, NEW b \in Batch, NEW end \in {"waiting", "completed"}, EndAttempt(b, end)
  PROVE  JobTypes'
BY DEF TypeOK, JobTypes, EndAttempt

LEMMA TypesOfStep ==
  ASSUME TypeOK, NEW b \in Batch, Begin(b) \/ Attempt(b) \/ Fail(b)
  PROVE  TypeOK'
<1> USE DEF TypeOK, redisVars, dbVars, historyVars
<1>1. CASE Begin(b)
  BY <1>1 DEF Begin, JobTypes, Working
<1>2. CASE StoreEvents(b)
  BY <1>2 DEF StoreEvents, JobTypes, Working
<1>3. CASE MatchRules(b)
  <2> DEFINE T == EventsOf(b) \cap MatchEvents
  <2>1. PICK list \in [1..Cardinality(T) -> T] :
          /\ \A i, j \in DOMAIN list : i < j => list[i][2] < list[j][2]
          /\ alerts' = [alerts EXCEPT ![b] = [i \in DOMAIN list |-> MatchAlert(list[i])]]
    BY <1>3 DEF MatchRules
  <2> DEFINE as == [i \in DOMAIN list |-> MatchAlert(list[i])]
  <2>2. as \in Seq(Alert)
    BY <2>1, AllMatched
  <2>3. emitted' \in [Batch -> SUBSET Alert]
    BY <1>3, EventFacts, AlertFacts DEF MatchRules
  <2> HIDE DEF as
  <2>4. alerts' \in [Batch -> Seq(Alert)]
    BY <2>1, <2>2 DEF JobTypes, as
  <2> QED  BY <1>3, <2>3, <2>4 DEF MatchRules, JobTypes, Working
<1>4. CASE RecordMatch(b)
  <2> DEFINE e == <<b, next[b]>>
  <2>1. next[b] \in 1..Size[b] /\ e \in Event
    BY <1>4, EventFacts, ConstantsAssumption DEF RecordMatch, JobTypes, Batch
  <2>2. age' \in [Event -> 0..Window]
    BY <1>4, <2>1, ConstantsAssumption DEF RecordMatch
  <2>3. Snapshot(e) \in SUBSET Event
    BY <2>1 DEF Snapshot
  <2> HIDE DEF e
  <2> DEFINE S == Snapshot(e)
  <2>4. /\ pc[b] = "record" /\ alerts' = alerts
        /\ \/ /\ candidate' = [candidate EXCEPT ![b] = S]
              /\ pc' = [pc EXCEPT ![b] = "acquire"] /\ next' = next
           \/ /\ next' = [next EXCEPT ![b] = @ + 1]
              /\ candidate' = candidate /\ pc' = pc
    BY <1>4 DEF RecordMatch, e
  <2>5. S \in SUBSET Event
    BY <2>3
  <2> HIDE DEF S
  <2>6. JobTypes'
    <3> USE DEF JobTypes
    <3>1. candidate' \in [Batch -> SUBSET Event]
      BY <2>4, <2>5
    <3>2. pc' \in [Batch -> Working \cup {"waiting", "completed"}]
      BY <2>4 DEF Working
    <3>3. next' \in [Batch -> Nat \ {0}]
      BY <2>4
    <3>4. \A c \in Batch : pc'[c] = "acquire" => next'[c] <= Size[c]
      <4> TAKE c \in Batch
      <4>1. CASE c = b
        BY <2>1, <2>4, <4>1
      <4>2. CASE c # b
        BY <2>4, <4>2
      <4> QED  BY <4>1, <4>2
    <3> QED  BY <2>4, <3>1, <3>2, <3>3, <3>4
  <2> QED  BY <1>4, <2>2, <2>6 DEF RecordMatch
<1>5. CASE TryAcquire(b)
  <2> DEFINE a == CountAlert(candidate[b])
  <2>1. a \in Alert
    BY AlertFacts DEF JobTypes
  <2> HIDE DEF a
  <2>2. \/ /\ alerts' = [alerts EXCEPT ![b] = Append(@, a)]
           /\ emitted' = [emitted EXCEPT ![b] = @ \cup {a}]
           /\ quiet' = quiet \/ quiet' = 0
           /\ lease' = lease \/ lease' = [owner |-> a, left |-> Cooldown]
        \/ UNCHANGED <<alerts, emitted, quiet, lease>>
    BY <1>5 DEF TryAcquire, a
  <2>3. alerts' \in [Batch -> Seq(Alert)]
    <3>1. Append(alerts[b], a) \in Seq(Alert)
      BY <2>1, OneMoreAlert DEF JobTypes
    <3> QED  BY <2>2, <3>1 DEF JobTypes
  <2>4. lease' \in [owner : Alert \cup {NoOwner}, left : Nat] /\ quiet' \in Nat
        /\ emitted' \in [Batch -> SUBSET Alert]
    <3>1. lease' \in [owner : Alert \cup {NoOwner}, left : Nat]
      BY <2>1, <2>2, ConstantsAssumption
    <3>2. quiet' \in Nat
      BY <2>2
    <3>3. emitted' \in [Batch -> SUBSET Alert]
      BY <2>1, <2>2
    <3> QED  BY <3>1, <3>2, <3>3
  <2>5. JobTypes'
    <3> USE DEF JobTypes
    <3>1. /\ next' = [next EXCEPT ![b] = @ + 1]
          /\ candidate' = [candidate EXCEPT ![b] = {}]
          /\ pc' = [pc EXCEPT ![b] = "record"]
      BY <1>5 DEF TryAcquire
    <3>2. next' \in [Batch -> Nat \ {0}] /\ candidate' \in [Batch -> SUBSET Event]
      BY <3>1
    <3>3. pc' \in [Batch -> Working \cup {"waiting", "completed"}]
      BY <3>1 DEF Working
    <3>4. \A c \in Batch : pc'[c] = "acquire" => next'[c] <= Size[c]
      BY <3>1
    <3> QED  BY <2>3, <3>2, <3>3, <3>4
  <2> QED  BY <1>5, <2>4, <2>5 DEF TryAcquire
<1>6. CASE Evaluated(b)
  BY <1>6 DEF Evaluated, JobTypes, Working
<1>7. CASE PersistAlerts(b)
  <2>1. CASE IsInjective(alerts[b])
    <3>1. Range(alerts[b]) \subseteq Alert
      BY DEF Range, JobTypes
    <3> QED  BY <1>7, <2>1, <3>1 DEF PersistAlerts, CreateManyIfAbsent, JobTypes, Working
  <2>2. CASE ~IsInjective(alerts[b])
    BY <1>7, <2>2, TypesOfEnd DEF PersistAlerts
  <2> QED  BY <2>1, <2>2
<1>8. CASE Correlate(b)
  <2>1. Range(alerts[b]) \subseteq Alert
    BY DEF Range, JobTypes
  <2>2. JobTypes'
    BY <1>8, TypesOfEnd DEF Correlate
  <2> QED  BY <1>8, <2>1, <2>2 DEF Correlate
<1>9. CASE Fail(b)
  <2>1. JobTypes'
    BY <1>9, TypesOfEnd DEF Fail
  <2> QED  BY <1>9, <2>1 DEF Fail
<1> QED  BY <1>1, <1>2, <1>3, <1>4, <1>5, <1>6, <1>7, <1>8, <1>9 DEF Attempt
-----------------------------------------------------------------------------
(* The cooldown.                                                           *)

LEMMA LeasedKept == TypeOK /\ Leased /\ [Next]_vars => Leased'
<1> SUFFICES ASSUME TypeOK, Leased, [Next]_vars PROVE Leased'
  OBVIOUS
<1>0. lease.left \in Nat /\ quiet \in Nat /\ Cooldown \in Nat
  BY ConstantsAssumption DEF TypeOK
<1>1. CASE Tick
  <2>1. lease'.left + quiet' >= Cooldown
    BY <1>0, <1>1 DEF Tick, Leased
  <2>2. lease'.left > 0 => lease.left > 0 /\ lease'.owner = lease.owner
    BY <1>0, <1>1 DEF Tick, TypeOK
  <2> QED  BY <1>1, <2>1, <2>2 DEF Tick, Leased
<1>2. ASSUME NEW b \in Batch, TryAcquire(b) PROVE Leased'
  <2> DEFINE a == CountAlert(candidate[b])
  <2> HIDE DEF a
  <2>1. \/ /\ Cooldown = 0 \/ MayEmit(a)
           /\ emitted' = [emitted EXCEPT ![b] = @ \cup {a}]
           /\ quiet' = IF \E c \in Batch : a \in emitted[c] THEN quiet ELSE 0
           /\ lease' = IF lease.left = 0 /\ Cooldown > 0
                       THEN [owner |-> a, left |-> Cooldown] ELSE lease
        \/ UNCHANGED <<emitted, quiet, lease>>
    BY <1>2 DEF TryAcquire, a
  <2>2. a \in emitted'[b] \/ UNCHANGED <<emitted, quiet, lease>>
    BY <2>1 DEF TypeOK
  <2>3. \A c \in Batch : emitted[c] \subseteq emitted'[c]
    BY <2>1 DEF TypeOK
  <2>4. CASE UNCHANGED <<emitted, quiet, lease>>
    BY <2>4 DEF Leased
  <2>5. CASE ~UNCHANGED <<emitted, quiet, lease>> /\ lease.left = 0 /\ Cooldown > 0
    <3>1. lease' = [owner |-> a, left |-> Cooldown] /\ quiet' \in Nat
      BY <1>0, <2>1, <2>5
    <3> QED  BY <1>0, <2>2, <2>5, <3>1 DEF Leased
  <2>6. CASE ~UNCHANGED <<emitted, quiet, lease>> /\ ~(lease.left = 0 /\ Cooldown > 0)
    <3>1. lease' = lease
      BY <2>1, <2>6
    <3>2. lease.left > 0 => \E c \in Batch : lease.owner \in emitted'[c]
      BY <2>3 DEF Leased
    <3>3. CASE Cooldown = 0
      BY <1>0, <2>1, <2>6, <3>1, <3>2, <3>3 DEF Leased
    <3>4. CASE Cooldown # 0
      <4>1. lease.left > 0 /\ lease.owner = a
        BY <1>0, <2>1, <2>6, <3>4 DEF MayEmit
      <4>2. quiet' = quiet
        BY <2>1, <2>6, <4>1 DEF Leased
      <4> QED  BY <3>1, <3>2, <4>2 DEF Leased
    <3> QED  BY <3>3, <3>4
  <2> QED  BY <2>4, <2>5, <2>6
<1>3. ASSUME NEW b \in Batch, MatchRules(b) PROVE Leased'
  <2>1. lease' = lease /\ quiet' = quiet /\ \A c \in Batch : emitted[c] \subseteq emitted'[c]
    BY <1>3 DEF MatchRules, TypeOK, redisVars
  <2> QED  BY <2>1 DEF Leased
<1>4. ASSUME NEW b \in Batch, \/ Begin(b) \/ StoreEvents(b) \/ RecordMatch(b) \/ Evaluated(b)
                              \/ PersistAlerts(b) \/ Correlate(b) \/ Fail(b)
      PROVE  Leased'
  <2>1. UNCHANGED <<lease, emitted, quiet>>
    BY <1>4 DEF Begin, StoreEvents, RecordMatch, Evaluated, PersistAlerts, Correlate, Fail,
                redisVars, historyVars
  <2> QED  BY <2>1 DEF Leased
<1>5. CASE UNCHANGED vars
  BY <1>5 DEF vars, redisVars, historyVars, Leased
<1> QED  BY <1>1, <1>2, <1>3, <1>4, <1>5 DEF Next, Attempt

\* A lease that another alert owns is alive for as long as the cooldown runs.
LEMMA CooldownStep ==
  ASSUME TypeOK, Leased, [Next]_vars, NEW b \in Batch, NEW a \in emitted'[b],
         a.rule = "count", \A c \in Batch : a \notin emitted[c]
  PROVE  quiet >= Cooldown
<1>1. PICK d \in Batch : MatchRules(d) \/ TryAcquire(d)
  <2>1. emitted' # emitted
    OBVIOUS
  <2> QED  BY <2>1 DEF Next, Attempt, Tick, Begin, StoreEvents, RecordMatch, Evaluated,
                       PersistAlerts, Correlate, Fail, vars, historyVars
<1>2. CASE MatchRules(d)
  <2>1. a \in emitted[b] \/ \E e \in EventsOf(d) : a = MatchAlert(e)
    BY <1>2 DEF MatchRules, TypeOK
  <2>2. \E e \in EventsOf(d) : a = MatchAlert(e)
    BY <2>1
  <2> QED  BY <2>2, EventFacts, AlertFacts
<1>3. CASE TryAcquire(d)
  <2> DEFINE x == CountAlert(candidate[d])
  <2> HIDE DEF x
  <2>1. (Cooldown = 0 \/ MayEmit(x)) /\ emitted' = [emitted EXCEPT ![d] = @ \cup {x}]
    <3>1. \/ (Cooldown = 0 \/ MayEmit(x)) /\ emitted' = [emitted EXCEPT ![d] = @ \cup {x}]
          \/ emitted' = emitted
      BY <1>3 DEF TryAcquire, x
    <3> QED  BY <3>1
  <2>2. a = x
    BY <2>1 DEF TypeOK
  <2>3. Cooldown = 0 \/ lease.left = 0
    BY <2>1, <2>2, ConstantsAssumption DEF MayEmit, Leased, TypeOK
  <2> QED  BY <2>3, ConstantsAssumption DEF Leased, TypeOK
<1> QED  BY <1>1, <1>2, <1>3
-----------------------------------------------------------------------------
(* The alerts of a job.                                                    *)

Kept(b) == MatchesKept(b) /\ (Undisturbed(b) => FirstAttempt(b))

\* Steps of the other workers and of the clock leave what is said of a job true.
LEMMA Bystander ==
  ASSUME NEW b \in Batch, Kept(b), faults \in Nat,
         pc'[b] = pc[b], next'[b] = next[b], candidate'[b] = candidate[b],
         alerts'[b] = alerts[b], emitted'[b] = emitted[b],
         stored \subseteq stored', linked \subseteq linked',
         faults' = faults \/ faults' = faults + 1,
         \A e \in EventsOf(b) : age[e] = Window => age'[e] = Window
  PROVE  Kept(b)'
<1>1. MatchesKept(b)'
  BY DEF Kept, MatchesKept, Matched
<1>2. ASSUME Undisturbed(b)' PROVE FirstAttempt(b)'
  <2>1. Undisturbed(b)
    BY <1>2 DEF Undisturbed
  <2> QED  BY <2>1 DEF Kept, FirstAttempt
<1> QED  BY <1>1, <1>2 DEF Kept

LEMMA OfTheOthers ==
  ASSUME TypeOK, NEW b \in Batch, Kept(b), NEW c \in Batch, c # b, Begin(c) \/ Attempt(c) \/ Fail(c)
  PROVE  Kept(b)'
<1>1. /\ pc'[b] = pc[b] /\ next'[b] = next[b] /\ candidate'[b] = candidate[b]
      /\ alerts'[b] = alerts[b] /\ emitted'[b] = emitted[b]
  BY DEF TypeOK, JobTypes, historyVars, Attempt, EndAttempt, Begin, StoreEvents, MatchRules,
         RecordMatch, TryAcquire, Evaluated, PersistAlerts, Correlate, Fail
<1>2. stored \subseteq stored' /\ linked \subseteq linked' /\ (faults' = faults \/ faults' = faults + 1)
  BY DEF dbVars, Attempt, Begin, StoreEvents, MatchRules, CreateManyIfAbsent,
         RecordMatch, TryAcquire, Evaluated, PersistAlerts, Correlate, Fail
<1>3. \A e \in EventsOf(b) : age'[e] = age[e]
  <2>1. CASE RecordMatch(c)
    <3> TAKE e \in EventsOf(b)
    <3>1. e \in Event /\ e # <<c, next[c]>>
      BY EventFacts
    <3> QED  BY <2>1, <3>1 DEF RecordMatch, TypeOK
  <2>2. CASE age' = age
    BY <2>2
  <2> QED  BY <2>1, <2>2 DEF redisVars, Attempt, Begin, StoreEvents, MatchRules,
                TryAcquire, Evaluated, PersistAlerts, Correlate, Fail
<1>4. faults \in Nat
  BY DEF TypeOK
<1> QED  BY <1>1, <1>2, <1>3, <1>4, Bystander

LEMMA OfTheClock ==
  ASSUME TypeOK, NEW b \in Batch, Kept(b), Tick \/ UNCHANGED vars
  PROVE  Kept(b)'
<1>1. \A e \in EventsOf(b) : age[e] = Window => age'[e] = Window
  BY EventFacts, ConstantsAssumption DEF Tick, vars, redisVars
<1>2. /\ UNCHANGED jobVars /\ UNCHANGED dbVars /\ emitted' = emitted /\ faults' = faults
  BY DEF Tick, vars, historyVars
<1>3. faults \in Nat
  BY DEF TypeOK
<1> QED  BY <1>1, <1>2, <1>3, Bystander DEF jobVars, dbVars

\* A job is handed out again: nothing is left of its attempt.
LEMMA OfTheEnd ==
  ASSUME TypeOK, NEW b \in Batch, Kept(b), EndAttempt(b, "waiting"), ~Undisturbed(b)', emitted' = emitted
  PROVE  Kept(b)'
<1>1. pc'[b] = "waiting"
  BY DEF TypeOK, JobTypes, EndAttempt
<1> QED  BY <1>1 DEF Kept, MatchesKept, Matched

LEMMA OfMatchRules ==
  ASSUME TypeOK, NEW b \in Batch, Kept(b), MatchRules(b)
  PROVE  Kept(b)'
<1> DEFINE T == EventsOf(b) \cap MatchEvents
<1>1. PICK list \in [1..Cardinality(T) -> T] :
        /\ \A i, j \in DOMAIN list : i < j => list[i][2] < list[j][2]
        /\ alerts' = [alerts EXCEPT ![b] = [i \in DOMAIN list |-> MatchAlert(list[i])]]
  BY DEF MatchRules
<1> DEFINE as == [i \in DOMAIN list |-> MatchAlert(list[i])]
<1>2. /\ as \in Seq(Alert) /\ Range(as) = Matched(b) /\ IsInjective(as)
      /\ \A a \in Range(as) : a.rule = "match"
  BY <1>1, AllMatched
<1> HIDE DEF as, T
<1>3. alerts'[b] = as
  BY <1>1 DEF TypeOK, JobTypes, as
<1>4. /\ pc[b] = "match" /\ pc'[b] = "record" /\ next'[b] = next[b] /\ age' = age
      /\ emitted'[b] = emitted[b] \cup Matched(b) /\ faults' = faults
  BY DEF MatchRules, TypeOK, JobTypes, redisVars, Matched
<1>5. MatchesKept(b)'
  BY <1>2, <1>3, <1>4 DEF Kept, MatchesKept, Matched
<1>6. ASSUME Undisturbed(b)' PROVE FirstAttempt(b)'
  <2>1. Undisturbed(b) /\ FirstAttempt(b)
    BY <1>4, <1>6 DEF Undisturbed, Kept
  <2>2. /\ emitted[b] = {} /\ next[b] = 1 /\ \A e \in EventsOf(b) : age[e] = Window
    BY <1>4, <2>1 DEF FirstAttempt
  <2> QED  BY <1>2, <1>3, <1>4, <2>2 DEF FirstAttempt
<1> QED  BY <1>5, <1>6 DEF Kept

LEMMA OfRecordMatch ==
  ASSUME TypeOK, NEW b \in Batch, Kept(b), RecordMatch(b)
  PROVE  Kept(b)'
<1> DEFINE e == <<b, next[b]>>
           S == Snapshot(e)
<1>1. /\ pc[b] = "record" /\ alerts' = alerts /\ emitted' = emitted /\ faults' = faults
      /\ next[b] \in Nat /\ e \in Event /\ e[2] = next[b]
      /\ stored' = stored /\ linked' = linked
  BY EventFacts, ConstantsAssumption DEF RecordMatch, TypeOK, JobTypes, Batch, dbVars, historyVars
<1>2. /\ \A d \in Event : d # e => age'[d] = age[d]
      /\ \/ candidate'[b] = S /\ pc'[b] = "acquire" /\ next'[b] = next[b]
         \/ next'[b] = next[b] + 1 /\ pc'[b] = "record"
  BY DEF RecordMatch, TypeOK, JobTypes
<1>3. \A d \in EventsOf(b) : d \in Event /\ d[2] \in Nat /\ (d[2] # next[b] => d # e)
  BY EventFacts, ConstantsAssumption DEF Batch
<1>4. e \in S /\ \A d \in S : d = e \/ (d \in Event /\ age[d] < Window)
  BY DEF Snapshot
<1> HIDE DEF S
<1>5. MatchesKept(b)'
  BY <1>1, <1>2 DEF Kept, MatchesKept, Matched
<1>6. ASSUME Undisturbed(b)' PROVE FirstAttempt(b)'
  <2>1. Undisturbed(b) /\ FirstAttempt(b)
    BY <1>1, <1>6 DEF Undisturbed, Kept
  <2>2. \A d \in EventsOf(b) : d[2] >= next[b] => age[d] = Window
    BY <1>1, <2>1 DEF FirstAttempt
  <2>3. \A d \in EventsOf(b) : d[2] > next[b] => age'[d] = Window
    BY <1>1, <1>2, <1>3, <2>2
  <2>4. \A a \in Range(alerts[b]) : a.rule = "count" =>
           \A d \in a.events : d \in EventsOf(b) /\ d[2] < next[b]
    BY <1>1, <2>1 DEF FirstAttempt, Undisturbed
  <2>5. \A d \in S : d[1] = b => d[2] <= next[b]
    <3> SUFFICES ASSUME NEW d \in S, d[1] = b, d # e PROVE d[2] <= next[b]
      BY <1>1
    <3>1. d \in EventsOf(b) /\ age[d] < Window
      BY <1>4 DEF EventsOf
    <3> QED  BY <1>1, <1>3, <2>2, <3>1, ConstantsAssumption
  <2>6. Range(alerts'[b]) = emitted'[b] /\ IsInjective(alerts'[b])
    BY <1>1, <2>1 DEF FirstAttempt
  <2>7. CASE candidate'[b] = S /\ pc'[b] = "acquire" /\ next'[b] = next[b]
    BY <1>1, <1>4, <2>3, <2>4, <2>5, <2>6, <2>7 DEF FirstAttempt
  <2>8. CASE next'[b] = next[b] + 1 /\ pc'[b] = "record"
    <3>1. \A d \in EventsOf(b) : d[2] >= next'[b] => age'[d] = Window
      BY <1>1, <1>3, <2>3, <2>8
    <3>2. \A a \in Range(alerts'[b]) : a.rule = "count" => \A d \in a.events : d[2] < next'[b]
      BY <1>1, <1>3, <2>4, <2>8
    <3> QED  BY <2>6, <2>8, <3>1, <3>2 DEF FirstAttempt
  <2> QED  BY <1>2, <2>7, <2>8
<1> QED  BY <1>5, <1>6 DEF Kept

LEMMA OfTryAcquire ==
  ASSUME TypeOK, NEW b \in Batch, Kept(b), TryAcquire(b)
  PROVE  Kept(b)'
<1> DEFINE a == CountAlert(candidate[b])
<1>1. a \in Alert /\ a.rule = "count" /\ a.events = candidate[b] /\ candidate[b] \in SUBSET Event
  BY AlertFacts DEF TypeOK, JobTypes
<1> HIDE DEF a
<1>2. /\ pc[b] = "acquire" /\ pc'[b] = "record" /\ next'[b] = next[b] + 1 /\ age' = age
      /\ faults' = faults
      /\ \/ alerts'[b] = Append(alerts[b], a) /\ emitted'[b] = emitted[b] \cup {a}
         \/ alerts'[b] = alerts[b] /\ emitted'[b] = emitted[b]
  BY DEF TryAcquire, TypeOK, JobTypes, a
<1>3. /\ next[b] \in Nat /\ next[b] \in 1..Size[b] /\ alerts[b] \in Seq(Alert)
  BY <1>2, ConstantsAssumption DEF TypeOK, JobTypes, Batch
<1>4. /\ Range(Append(alerts[b], a)) = Range(alerts[b]) \cup {a}
      /\ IsInjective(alerts[b]) /\ a \notin Range(alerts[b]) => IsInjective(Append(alerts[b], a))
  BY <1>1, <1>3, OneMoreAlert
<1>5. /\ Range(alerts[b]) \subseteq Range(alerts'[b])
      /\ emitted[b] \subseteq emitted'[b] /\ emitted'[b] \subseteq emitted[b] \cup {a}
  BY <1>2, <1>4
<1>6. MatchesKept(b)'
  BY <1>1, <1>2, <1>5 DEF Kept, MatchesKept, Matched
<1>7. ASSUME Undisturbed(b)' PROVE FirstAttempt(b)'
  <2>1. Undisturbed(b) /\ FirstAttempt(b)
    BY <1>2, <1>5, <1>7 DEF Undisturbed, Kept
  <2>2. \A d \in EventsOf(b) : d[2] \in Nat
    BY EventFacts, ConstantsAssumption DEF Batch
  <2>3. /\ \A d \in EventsOf(b) : d[2] > next[b] => age[d] = Window
        /\ <<b, next[b]>> \in candidate[b]
        /\ \A d \in candidate[b] : d[1] = b => d[2] <= next[b]
        /\ \A x \in Range(alerts[b]) : x.rule = "count" => \A d \in x.events : d[2] < next[b]
        /\ Range(alerts[b]) = emitted[b] /\ IsInjective(alerts[b])
    BY <1>2, <2>1 DEF FirstAttempt
  <2>4. \A d \in EventsOf(b) : d[2] >= next'[b] => age'[d] = Window
    BY <1>2, <1>3, <2>2, <2>3
  <2>5. ASSUME NEW x \in Range(alerts[b]), x.rule = "count"
        PROVE  \A d \in x.events : d[2] < next'[b]
    <3>1. \A d \in x.events : d \in EventsOf(b) /\ d[2] < next[b]
      BY <2>1, <2>3, <2>5 DEF Undisturbed
    <3> QED  BY <1>2, <1>3, <2>2, <3>1
  <2>6. CASE alerts'[b] = alerts[b] /\ emitted'[b] = emitted[b]
    BY <1>2, <2>3, <2>4, <2>5, <2>6 DEF FirstAttempt
  <2>7. CASE alerts'[b] = Append(alerts[b], a) /\ emitted'[b] = emitted[b] \cup {a}
    <3>1. a \notin Range(alerts[b])
      <4>1. a \in Range(alerts[b]) => <<b, next[b]>>[2] < next[b]
        BY <1>1, <2>3
      <4> QED  BY <1>3, <4>1
    <3>2. \A d \in a.events : d[2] < next'[b]
      <4>1. \A d \in a.events : d \in EventsOf(b)
        BY <1>7, <2>7 DEF Undisturbed
      <4>2. \A d \in a.events : d[2] <= next[b]
        BY <1>1, <2>3, <4>1, EventFacts
      <4> QED  BY <1>2, <1>3, <2>2, <4>1, <4>2
    <3>3. \A x \in Range(alerts'[b]) : x.rule = "count" => \A d \in x.events : d[2] < next'[b]
      BY <1>4, <2>5, <2>7, <3>2
    <3>4. Range(alerts'[b]) = emitted'[b] /\ IsInjective(alerts'[b])
      BY <1>4, <2>3, <2>7, <3>1
    <3> QED  BY <1>2, <2>4, <3>3, <3>4 DEF FirstAttempt
  <2> QED  BY <1>2, <2>6, <2>7
<1> QED  BY <1>6, <1>7 DEF Kept

LEMMA OfPersistAlerts ==
  ASSUME TypeOK, NEW b \in Batch, Kept(b), PersistAlerts(b)
  PROVE  Kept(b)'
<1>1. pc[b] = "persist" /\ emitted' = emitted /\ faults' = faults /\ linked' = linked /\ age' = age
  BY DEF PersistAlerts, historyVars, redisVars
<1>2. CASE IsInjective(alerts[b])
  <2>1. /\ pc'[b] = "correlate" /\ stored' = stored \cup Range(alerts[b])
        /\ next' = next /\ candidate' = candidate /\ alerts' = alerts
    BY <1>2 DEF PersistAlerts, CreateManyIfAbsent, TypeOK, JobTypes
  <2>2. MatchesKept(b)'
    BY <1>1, <2>1 DEF Kept, MatchesKept, Matched
  <2>3. ASSUME Undisturbed(b)' PROVE FirstAttempt(b)'
    <3>1. FirstAttempt(b)
      BY <1>1, <2>3 DEF Undisturbed, Kept
    <3> QED  BY <1>1, <2>1, <3>1 DEF FirstAttempt
  <2> QED  BY <2>2, <2>3 DEF Kept
<1>3. CASE ~IsInjective(alerts[b])
  <2>1. ~Undisturbed(b)
    BY <1>3 DEF Kept, FirstAttempt
  <2>2. ~Undisturbed(b)'
    BY <1>1, <2>1 DEF Undisturbed
  <2> QED  BY <1>1, <1>3, <2>2, OfTheEnd DEF PersistAlerts
<1> QED  BY <1>2, <1>3

LEMMA OfCorrelate ==
  ASSUME TypeOK, NEW b \in Batch, Kept(b), Correlate(b)
  PROVE  Kept(b)'
<1>1. /\ pc[b] = "correlate" /\ emitted' = emitted /\ faults' = faults /\ stored' = stored
  BY DEF Correlate, historyVars
<1>2. CASE Resolvable(b)
  <2>1. /\ pc'[b] = "completed" /\ linked' = linked \cup Range(alerts[b]) /\ alerts'[b] = <<>>
    BY <1>2 DEF Correlate, EndAttempt, TypeOK, JobTypes
  <2>2. Matched(b) \subseteq Range(alerts[b]) /\ Range(alerts[b]) \subseteq stored
    BY <1>1 DEF Kept, MatchesKept
  <2>3. MatchesKept(b)'
    BY <1>1, <2>1, <2>2 DEF Kept, MatchesKept, Matched
  <2>4. ASSUME Undisturbed(b)' PROVE FirstAttempt(b)'
    <3>1. FirstAttempt(b)
      BY <1>1, <2>4 DEF Undisturbed, Kept
    <3>2. Range(alerts[b]) = emitted[b]
      BY <1>1, <3>1 DEF FirstAttempt
    <3>3. IsInjective(alerts'[b])
      BY <2>1 DEF IsInjective
    <3> QED  BY <1>1, <2>1, <2>2, <3>2, <3>3 DEF FirstAttempt
  <2> QED  BY <2>3, <2>4 DEF Kept
<1>3. CASE ~Resolvable(b)
  <2>1. ~Undisturbed(b)
    BY <1>1, <1>3 DEF Resolvable, Undisturbed, Kept, FirstAttempt
  <2>2. ~Undisturbed(b)'
    BY <1>1, <2>1 DEF Undisturbed
  <2> QED  BY <1>1, <1>3, <2>2, OfTheEnd DEF Correlate
<1> QED  BY <1>2, <1>3

LEMMA OfTheJob ==
  ASSUME TypeOK, NEW b \in Batch, Kept(b), Begin(b) \/ Attempt(b) \/ Fail(b)
  PROVE  Kept(b)'
<1>1. CASE Begin(b) \/ StoreEvents(b) \/ Evaluated(b)
  <2>1. /\ emitted' = emitted /\ faults' = faults /\ age' = age /\ stored' = stored /\ linked' = linked
        /\ UNCHANGED <<next, candidate, alerts>>
        /\ \/ pc[b] \in {"waiting", "store"} /\ pc'[b] \in {"store", "match"}
           \/ pc[b] = "record" /\ pc'[b] = "persist"
    BY <1>1 DEF Begin, StoreEvents, Evaluated, TypeOK, JobTypes, redisVars, dbVars, historyVars
  <2>2. MatchesKept(b)'
    BY <2>1 DEF Kept, MatchesKept, Matched
  <2>3. ASSUME Undisturbed(b)' PROVE FirstAttempt(b)'
    <3>1. FirstAttempt(b)
      BY <2>1, <2>3 DEF Undisturbed, Kept
    <3> QED  BY <2>1, <3>1 DEF FirstAttempt
  <2> QED  BY <2>2, <2>3 DEF Kept
<1>2. CASE Fail(b)
  <2>1. emitted' = emitted /\ EndAttempt(b, "waiting") /\ faults' # 0
    BY <1>2 DEF Fail, TypeOK, historyVars
  <2> QED  BY <2>1, OfTheEnd DEF Undisturbed
<1> QED  BY <1>1, <1>2, OfMatchRules, OfRecordMatch, OfTryAcquire, OfPersistAlerts, OfCorrelate
            DEF Attempt
-----------------------------------------------------------------------------
LEMMA DetectInvKept == DetectInv /\ [Next]_vars => DetectInv'
<1> SUFFICES ASSUME DetectInv, [Next]_vars PROVE DetectInv'
  OBVIOUS
<1>1. TypeOK /\ Leased /\ \A b \in Batch : Kept(b)
  BY DEF DetectInv, Kept
<1>2. Leased'
  BY <1>1, LeasedKept
<1>3. TypeOK'
  <2>1. CASE UNCHANGED vars
    BY <1>1, <2>1 DEF vars, redisVars, jobVars, dbVars, historyVars, TypeOK, JobTypes
  <2> QED  BY <1>1, <2>1, TypesOfTick, TypesOfStep DEF Next
<1>4. ASSUME NEW b \in Batch PROVE Kept(b)'
  <2>1. CASE Tick \/ UNCHANGED vars
    BY <1>1, <2>1, OfTheClock
  <2>2. CASE \E c \in Batch : Begin(c) \/ Attempt(c) \/ Fail(c)
    <3>1. PICK c \in Batch : Begin(c) \/ Attempt(c) \/ Fail(c)
      BY <2>2
    <3>2. CASE c = b
      BY <1>1, <3>1, <3>2, OfTheJob
    <3>3. CASE c # b
      BY <1>1, <3>1, <3>3, OfTheOthers
    <3> QED  BY <3>2, <3>3
  <2> QED  BY <2>1, <2>2 DEF Next
<1> QED  BY <1>2, <1>3, <1>4 DEF DetectInv, Kept

\* The inductive invariant holds in every reachable state.
THEOREM DetectionSound == Spec => []DetectInv
<1>1. Init => DetectInv
  BY Initially
<1>2. DetectInv /\ [Next]_vars => DetectInv'
  BY DetectInvKept
<1> QED  BY <1>1, <1>2, PTL DEF Spec

\* Whatever fails, and whatever the other workers do in between, a completed
\* job leaves no reproducible alert behind: it is in PostgreSQL and was handed
\* to the correlation.
THEOREM NoAlertEverLost == Spec => []NoAlertLost
<1>1. DetectInv => NoAlertLost
  <2> SUFFICES ASSUME DetectInv, NEW b \in Batch, pc[b] = "completed",
                      NEW a \in emitted[b], Reproducible(a, b)
               PROVE  a \in stored /\ a \in linked
    BY DEF NoAlertLost
  <2>1. CASE a.rule = "match"
    BY <2>1 DEF DetectInv, MatchesKept
  <2>2. CASE faults = 0 /\ \A c \in emitted[b] : c.events \subseteq EventsOf(b)
    BY <2>2 DEF DetectInv, Undisturbed, FirstAttempt
  <2> QED  BY <2>1, <2>2 DEF Reproducible
<1> QED  BY <1>1, DetectionSound, PTL

\* Two different count alerts of an entity are first emitted at least a cooldown
\* apart, whatever is retried, for any number of workers.
THEOREM CooldownAlwaysHeld == Spec => CooldownHeld
<1> DEFINE Quiet == \A b \in Batch : \A a \in emitted'[b] :
                      (a.rule = "count" /\ \A c \in Batch : a \notin emitted[c]) => quiet >= Cooldown
<1>1. DetectInv /\ [Next]_vars => Quiet
  BY CooldownStep DEF DetectInv
<1>2. Quiet => [Quiet]_vars
  OBVIOUS
<1>3. Spec => [][Quiet]_vars
  BY <1>1, <1>2, DetectionSound, PTL DEF Spec
<1> QED  BY <1>3 DEF CooldownHeld

-----------------------------------------------------------------------------
(* UnifiedAlerts: sorting.                                                 *)

\* A set of natural numbers has a least one.
LEMMA LeastNatural ==
  ASSUME NEW T, T \subseteq Nat, T # {}
  PROVE  \E x \in T : \A y \in T : x <= y
<1> DEFINE R == {ss \in Nat \X Nat : ss[1] < ss[2]}
<1>1. \E x \in T : \A y \in T : <<y, x>> \notin R
  <2>1. IsWellFoundedOn(R, Nat)
    BY NatLessThanWellFounded DEF OpToRel
  <2> HIDE DEF R
  <2> QED  BY <2>1, WFMin
<1>2. \A x, y \in Nat : <<y, x>> \in R <=> y < x
  OBVIOUS
<1> HIDE DEF R
<1>3. PICK x \in T : \A y \in T : <<y, x>> \notin R
  BY <1>1
<1>4. \A y \in T : x \in Nat /\ y \in Nat /\ ~(y < x)
  BY <1>2, <1>3
<1> QED  BY <1>4

IntSet(S) == S \subseteq Int /\ IsFiniteSet(S)

IsAscending(t, S) ==
  /\ t \in [1..Cardinality(S) -> S]
  /\ \A i, j \in DOMAIN t : i < j => t[i] < t[j]

\* What is in order has no value twice, and therefore all of them.
LEMMA AscendingIsOnto ==
  ASSUME NEW S, IntSet(S), NEW t, IsAscending(t, S)
  PROVE  /\ \A i, j \in DOMAIN t : t[i] = t[j] => i = j
         /\ ToSet(t) = S
<1>1. Cardinality(S) \in Nat /\ IsFiniteSet(S)
  BY FS_CardinalityType DEF IntSet
<1>2. IsFiniteSet(1..Cardinality(S)) /\ Cardinality(1..Cardinality(S)) = Cardinality(S)
  <2> DEFINE n == Cardinality(S)
  <2>1. n \in Nat
    BY <1>1
  <2> HIDE DEF n
  <2>2. IsFiniteSet(1..n) /\ Cardinality(1..n) = n
    BY <2>1, FS_Interval
  <2> QED  BY <2>2 DEF n
<1>3. \A i, j \in DOMAIN t : t[i] = t[j] => i = j
  <2> TAKE i, j \in DOMAIN t
  <2>1. i \in Int /\ j \in Int /\ t[i] \in S /\ t[j] \in S
    BY <1>1 DEF IsAscending
  <2>2. t[i] \in Int /\ t[j] \in Int
    BY <2>1 DEF IntSet
  <2> QED  BY <2>1, <2>2 DEF IsAscending
<1>4. t \in Injection(1..Cardinality(S), S)
  BY <1>3 DEF IsAscending, Injection, IsInjective
<1>5. t \in Surjection(1..Cardinality(S), S)
  BY <1>1, <1>2, <1>4, FS_Injection
<1>6. ToSet(t) = S
  BY <1>5 DEF Surjection, ToSet, IsAscending
<1> QED  BY <1>3, <1>6

\* A set that is not empty has a greatest number.
LEMMA GreatestExists ==
  ASSUME NEW S, IntSet(S), S # {}
  PROVE  \E x \in S : \A y \in S : y <= x
<1>1. Cardinality(S) \in Nat /\ IsFiniteSet(S)
  BY FS_CardinalityType DEF IntSet
<1> DEFINE Above(x) == {y \in S : y > x}
           Sizes == {Cardinality(Above(x)) : x \in S}
<1>2. \A x \in S : IsFiniteSet(Above(x)) /\ Cardinality(Above(x)) \in Nat
  BY <1>1, FS_Subset, FS_CardinalityType
<1>3. Sizes \subseteq Nat /\ Sizes # {}
  BY <1>2
<1>4. PICK n \in Sizes : \A m \in Sizes : n <= m
  <2> HIDE DEF Sizes
  <2> QED  BY <1>3, LeastNatural
<1>5. PICK x \in S : n = Cardinality(Above(x))
  BY <1>4
<1>6. ASSUME NEW y \in S, ~(y <= x)  PROVE FALSE
  <2>1. x \in Int /\ y \in Int /\ y > x
    BY <1>6 DEF IntSet
  <2>2. Above(y) \subseteq Above(x) /\ y \in Above(x) /\ y \notin Above(y)
    <3>1. \A z \in S : z \in Int
      BY DEF IntSet
    <3>2. \A z \in S : z > y => z > x
      BY <2>1, <3>1
    <3>3. y \in Above(x)
      BY <2>1
    <3>4. ~(y > y)
      BY <2>1
    <3> QED  BY <3>2, <3>3, <3>4
  <2>3. Cardinality(Above(y)) <= Cardinality(Above(x))
        /\ (Cardinality(Above(y)) = Cardinality(Above(x)) => Above(y) = Above(x))
    <3> HIDE DEF Above
    <3> QED  BY <1>2, <2>2, FS_Subset
  <2>4. Cardinality(Above(x)) <= Cardinality(Above(y))
    BY <1>4, <1>5
  <2>5. Cardinality(Above(y)) \in Nat /\ Cardinality(Above(x)) \in Nat
    BY <1>2
  <2> HIDE DEF Above
  <2> QED  BY <2>2, <2>3, <2>4, <2>5
<1> QED  BY <1>6

LEMMA GreatestIs ==
  ASSUME NEW S, IntSet(S), S # {}
  PROVE  Max(S) \in S /\ \A y \in S : y <= Max(S)
<1>1. PICK x \in S : \A y \in S : x >= y
  <2>1. PICK x \in S : \A y \in S : y <= x
    BY GreatestExists
  <2>2. \A y \in S : x >= y
    BY <2>1 DEF IntSet
  <2> QED  BY <2>2
<1>2. Max(S) \in S /\ \A y \in S : Max(S) >= y
  BY <1>1 DEF Max
<1> QED  BY <1>2 DEF IntSet

\* The smallest set that could not be sorted could, without its greatest number.
LEMMA AscendingExists ==
  ASSUME NEW S, IntSet(S)
  PROVE  \E t : IsAscending(t, S)
<1> DEFINE Bad == {T \in SUBSET S : ~\E t : IsAscending(t, T)}
           Sizes == {Cardinality(T) : T \in Bad}
<1>1. \A T \in SUBSET S : IntSet(T) /\ Cardinality(T) \in Nat
  BY FS_Subset, FS_CardinalityType DEF IntSet
<1> SUFFICES ASSUME ~\E t : IsAscending(t, S)  PROVE FALSE
  OBVIOUS
<1>2. Sizes \subseteq Nat /\ Sizes # {}
  BY <1>1
<1>3. PICK n \in Sizes : \A m \in Sizes : n <= m
  <2> HIDE DEF Sizes
  <2> QED  BY <1>2, LeastNatural
<1>4. PICK T \in Bad : n = Cardinality(T)
  BY <1>3
<1>5. IntSet(T) /\ n \in Nat /\ IsFiniteSet(T)
  BY <1>1, <1>4 DEF IntSet
<1>6. T # {}
  <2> SUFFICES ASSUME T = {}  PROVE FALSE
    OBVIOUS
  <2>1. Cardinality(T) = 0
    BY FS_EmptySet
  <2>2. IsAscending([i \in 1..0 |-> 0], T)
    BY <2>1 DEF IsAscending
  <2> QED  BY <1>4, <2>2
<1>7. PICK x \in T : \A y \in T : y <= x
  BY <1>5, <1>6, GreatestExists
<1> DEFINE U == T \ {x}
<1>8. U \in SUBSET S /\ IsFiniteSet(U) /\ Cardinality(U) = n - 1 /\ n > 0
  <2>1. IsFiniteSet(U) /\ Cardinality(U) = n - 1
    BY <1>4, <1>5, <1>7, FS_RemoveElement
  <2>2. U \in SUBSET S
    BY <1>4
  <2> QED  BY <1>1, <1>5, <2>1, <2>2
<1>9. U \notin Bad
  <2> SUFFICES ASSUME U \in Bad  PROVE FALSE
    OBVIOUS
  <2>1. n <= Cardinality(U)
    BY <1>3
  <2> QED  BY <1>5, <1>8, <2>1
<1>10. PICK u : IsAscending(u, U)
  BY <1>8, <1>9
<1> DEFINE t == [i \in 1..n |-> IF i = n THEN x ELSE u[i]]
<1>11. \A i \in 1..n - 1 : u[i] \in U /\ u[i] \in Int /\ u[i] < x
  <2> TAKE i \in 1..n - 1
  <2>1. u[i] \in U
    BY <1>5, <1>8, <1>10 DEF IsAscending
  <2>2. u[i] \in Int /\ x \in Int
    BY <1>5, <1>7, <2>1 DEF IntSet
  <2>3. u[i] <= x /\ u[i] # x
    BY <1>7, <2>1
  <2> HIDE DEF U
  <2> QED  BY <2>1, <2>2, <2>3
<1>12. t \in [1..n -> T]
  BY <1>5, <1>11
<1>13. ASSUME NEW i \in 1..n, NEW j \in 1..n, i < j  PROVE t[i] < t[j]
  <2>1. CASE j = n
    BY <1>5, <1>11, <1>13, <2>1
  <2>2. CASE j # n
    <3>1. i \in 1..n - 1 /\ j \in 1..n - 1
      BY <1>5, <1>13, <2>2
    <3>2. u[i] < u[j]
      BY <1>8, <1>10, <1>13, <3>1 DEF IsAscending
    <3> QED  BY <1>5, <3>1, <3>2
  <2> QED  BY <2>1, <2>2
<1>14. IsAscending(t, T)
  BY <1>4, <1>12, <1>13 DEF IsAscending
<1> QED  BY <1>4, <1>14

LEMMA AscendingIs ==
  ASSUME NEW S, IntSet(S)
  PROVE  IsAscending(Ascending(S), S)
BY AscendingExists DEF Ascending, IsAscending

LEMMA AscendingOnto ==
  ASSUME NEW S, IntSet(S)
  PROVE  /\ Ascending(S) \in [1..Cardinality(S) -> S] /\ Cardinality(S) \in Nat
         /\ \A i, j \in 1..Cardinality(S) : Ascending(S)[i] = Ascending(S)[j] => i = j
         /\ ToSet(Ascending(S)) = S
<1>1. IsAscending(Ascending(S), S)
  BY AscendingIs
<1>2. Cardinality(S) \in Nat
  BY FS_CardinalityType DEF IntSet
<1>3. DOMAIN Ascending(S) = 1..Cardinality(S)
  BY <1>1 DEF IsAscending
<1> QED  BY <1>1, <1>2, <1>3, AscendingIsOnto DEF IsAscending

\* What s has at the places S: each place once.
LEMMA PickedIs ==
  ASSUME NEW s, NEW S, S \subseteq DOMAIN s, IntSet(S)
  PROVE  /\ DOMAIN Picked(s, S) = 1..Cardinality(S) /\ Cardinality(S) \in Nat
         /\ \A i \in DOMAIN Picked(s, S) :
              Ascending(S)[i] \in S /\ Picked(s, S)[i] = s[Ascending(S)[i]]
         /\ \A i, j \in DOMAIN Picked(s, S) : Ascending(S)[i] = Ascending(S)[j] => i = j
         /\ ToSet(Picked(s, S)) = {s[i] : i \in S}
<1> DEFINE places == Ascending(S)
           p == [i \in DOMAIN places |-> s[places[i]]]
<1>1. /\ places \in [1..Cardinality(S) -> S] /\ Cardinality(S) \in Nat
      /\ \A i, j \in 1..Cardinality(S) : places[i] = places[j] => i = j
      /\ ToSet(places) = S
  BY AscendingOnto
<1>2. Picked(s, S) = p
  BY DEF Picked
<1> HIDE DEF places
<1>3. {p[i] : i \in DOMAIN p} = {s[i] : i \in S}
  BY <1>1 DEF ToSet
<1> QED  BY <1>1, <1>2, <1>3 DEF ToSet, places

-----------------------------------------------------------------------------
(* Array.sort of what has no value twice.                                  *)

Once(s) == s \in Seq(Int) /\ \A i, j \in DOMAIN s : s[i] = s[j] => i = j

LEMMA OnceCounts ==
  ASSUME NEW s, Once(s)
  PROVE  /\ IntSet(ToSet(s)) /\ Cardinality(ToSet(s)) = Len(s)
         /\ \A x \in ToSet(s) : Cardinality({i \in DOMAIN s : s[i] = x}) = 1
<1>1. DOMAIN s = 1..Len(s) /\ Len(s) \in Nat /\ \A i \in 1..Len(s) : s[i] \in Int
  BY DEF Once
<1>2. IsFiniteSet(1..Len(s)) /\ Cardinality(1..Len(s)) = Len(s)
  <2> DEFINE n == Len(s)
  <2>1. n \in Nat
    BY <1>1
  <2> HIDE DEF n
  <2>2. IsFiniteSet(1..n) /\ Cardinality(1..n) = n
    BY <2>1, FS_Interval
  <2> QED  BY <2>2 DEF n
<1>3. s \in [1..Len(s) -> ToSet(s)] /\ \A x \in ToSet(s) : \E i \in 1..Len(s) : s[i] = x
  BY <1>1 DEF ToSet, Once
<1>4. s \in Surjection(1..Len(s), ToSet(s)) /\ s \in Injection(1..Len(s), ToSet(s))
  BY <1>1, <1>3 DEF Surjection, Injection, IsInjective, Once
<1>5. IsFiniteSet(ToSet(s)) /\ Cardinality(ToSet(s)) = Len(s)
  BY <1>2, <1>4, FS_Surjection
<1>6. ToSet(s) \subseteq Int
  BY <1>1 DEF ToSet
<1>7. ASSUME NEW x \in ToSet(s)  PROVE Cardinality({i \in DOMAIN s : s[i] = x}) = 1
  <2>1. PICK i \in DOMAIN s : s[i] = x
    BY DEF ToSet
  <2>2. {j \in DOMAIN s : s[j] = x} = {i}
    BY <2>1 DEF Once
  <2> QED  BY <2>2, FS_Singleton
<1> QED  BY <1>5, <1>6, <1>7 DEF IntSet

\* Which order they came in does not matter.
LEMMA SortedForgets ==
  ASSUME NEW s, Once(s), NEW t, Once(t), ToSet(s) = ToSet(t)
  PROVE  Sorted(s) = Sorted(t)
<1>1. Len(s) = Len(t) /\ DOMAIN s = DOMAIN t
  BY OnceCounts DEF Once
<1>2. \A x \in ToSet(s) :
        Cardinality({i \in DOMAIN s : s[i] = x}) = Cardinality({i \in DOMAIN t : t[i] = x})
  BY OnceCounts
<1>3. \A u : InOrderOf(u, s) = InOrderOf(u, t)
  BY <1>2 DEF InOrderOf
<1>4. [DOMAIN s -> ToSet(s)] = [DOMAIN t -> ToSet(t)]
  BY <1>1
<1>5. (CHOOSE u \in [DOMAIN s -> ToSet(s)] : InOrderOf(u, s))
        = (CHOOSE u \in [DOMAIN t -> ToSet(t)] : InOrderOf(u, t))
  BY <1>3, <1>4, Zenon
<1> QED  BY <1>5 DEF Sorted

LEMMA SortedKeeps ==
  ASSUME NEW s, Once(s)
  PROVE  ToSet(Sorted(s)) = ToSet(s)
<1> DEFINE u == Ascending(ToSet(s))
<1>1. IntSet(ToSet(s)) /\ Cardinality(ToSet(s)) = Len(s) /\ DOMAIN s = 1..Len(s)
  BY OnceCounts DEF Once
<1>2. IsAscending(u, ToSet(s)) /\ ToSet(u) = ToSet(s)
      /\ \A i, j \in DOMAIN u : u[i] = u[j] => i = j
  BY <1>1, AscendingIs, AscendingIsOnto
<1>3. u \in [DOMAIN s -> ToSet(s)]
  BY <1>1, <1>2 DEF IsAscending
<1>4. Once(u)
  BY <1>1, <1>2, <1>3 DEF Once, IntSet
<1>5. InOrderOf(u, s)
  <2>1. \A i, j \in DOMAIN u : i < j => u[i] <= u[j]
    <3> TAKE i, j \in DOMAIN u
    <3>1. u[i] \in Int /\ u[j] \in Int
      BY <1>1, <1>3 DEF IntSet
    <3> QED  BY <1>2, <3>1 DEF IsAscending
  <2>2. \A x \in ToSet(s) :
          Cardinality({i \in DOMAIN u : u[i] = x}) = Cardinality({i \in DOMAIN s : s[i] = x})
    BY <1>2, <1>4, OnceCounts
  <2> QED  BY <2>1, <2>2 DEF InOrderOf
<1> HIDE DEF u
<1>6. Sorted(s) \in [DOMAIN s -> ToSet(s)] /\ InOrderOf(Sorted(s), s)
  BY <1>3, <1>5 DEF Sorted
<1>7. ASSUME NEW x \in ToSet(s)  PROVE \E i \in DOMAIN Sorted(s) : Sorted(s)[i] = x
  <2>1. Cardinality({i \in DOMAIN Sorted(s) : Sorted(s)[i] = x}) = 1
    <3>1. Cardinality({i \in DOMAIN Sorted(s) : Sorted(s)[i] = x})
            = Cardinality({i \in DOMAIN s : s[i] = x})
      BY <1>6, Zenon DEF InOrderOf
    <3> QED  BY <3>1, OnceCounts
  <2>2. {i \in DOMAIN Sorted(s) : Sorted(s)[i] = x} # {}
    BY <2>1, FS_EmptySet
  <2> QED  BY <2>2
<1> QED  BY <1>6, <1>7 DEF ToSet
-----------------------------------------------------------------------------
(* What a piece of evidence becomes.                                       *)

Normal(r) == IF r.type = "rule" THEN NormalizeRule(r) ELSE NormalizeAi(r)

CountedIn(B) == {r \in ToSet(B) : Counted(r)}

LEMMA EventsFinite ==
  ASSUME NEW s \in Seq(Int)
  PROVE  IntSet(ToSet(s)) /\ (ToSet(s) = {} <=> s = <<>>)
<1>1. IsFiniteSet(1..Len(s))
  BY FS_Interval
<1>2. s \in Surjection(1..Len(s), ToSet(s))
  BY DEF Surjection, ToSet
<1>3. IsFiniteSet(ToSet(s))
  BY <1>1, <1>2, FS_Surjection
<1>4. ToSet(s) = {} <=> s = <<>>
  <2>1. CASE s = <<>>
    BY <2>1 DEF ToSet
  <2>2. CASE s # <<>>
    <3>1. 1 \in DOMAIN s
      BY <2>2
    <3> QED  BY <2>2, <3>1 DEF ToSet
  <2> QED  BY <2>1, <2>2
<1> QED  BY <1>3, <1>4 DEF IntSet, ToSet

LEMMA NormalEvents ==
  ASSUME NEW r \in Evidence
  PROVE  Once(Normal(r).events) /\ ToSet(Normal(r).events) = ToSet(r.events)
<1>1. r.events \in Seq(Int)
  BY AlertsAssumption
<1>2. CASE r.type = "rule"
  <2> DEFINE S == ToSet(r.events)
             t == Ascending(S)
  <2>1. Normal(r).events = t
    BY <1>2 DEF Normal, NormalizeRule, NormalizeEventIds
  <2>2. IntSet(S)
    BY <1>1, EventsFinite
  <2> HIDE DEF S
  <2>3. /\ t \in [1..Cardinality(S) -> S] /\ Cardinality(S) \in Nat
        /\ \A i, j \in 1..Cardinality(S) : t[i] = t[j] => i = j
        /\ ToSet(t) = S
    BY <2>2, AscendingOnto
  <2> HIDE DEF t
  <2>4. t \in [1..Cardinality(S) -> Int] /\ DOMAIN t = 1..Cardinality(S)
    BY <2>2, <2>3 DEF IntSet
  <2>5. t \in Seq(Int)
    BY <2>3, <2>4
  <2>6. Once(t)
    BY <2>3, <2>4, <2>5 DEF Once
  <2> QED  BY <2>1, <2>3, <2>6 DEF S
<1>3. CASE r.type # "rule"
  <2>1. r.type = "ai" /\ Len(r.events) = 1
    BY <1>3, AlertsAssumption
  <2>2. Normal(r).events = r.events
    BY <1>3 DEF Normal, NormalizeAi
  <2> QED  BY <1>1, <2>1, <2>2 DEF Once
<1> QED  BY <1>2, <1>3

\* Two alerts have one key if they are about the same.
LEMMA KeyIsSubject ==
  ASSUME NEW r \in Evidence, NEW s \in Evidence
  PROVE  DedupKey(Normal(r)) = DedupKey(Normal(s)) <=> Subject(r) = Subject(s)
<1> DEFINE a == Normal(r)
           b == Normal(s)
<1>1. r.type \in {"rule", "ai"} /\ s.type \in {"rule", "ai"}
  BY AlertsAssumption
<1>2. /\ Once(a.events) /\ ToSet(a.events) = ToSet(r.events)
      /\ Once(b.events) /\ ToSet(b.events) = ToSet(s.events)
  BY NormalEvents
<1>3. Sorted(a.events) = Sorted(b.events) <=> ToSet(r.events) = ToSet(s.events)
  BY <1>2, SortedForgets, SortedKeeps
<1>4. /\ a.type = r.type /\ a.name = r.name
      /\ a.version = IF r.type = "ai" THEN r.version ELSE "none"
      /\ b.type = s.type /\ b.name = s.name
      /\ b.version = IF s.type = "ai" THEN s.version ELSE "none"
  BY <1>1 DEF Normal, NormalizeRule, NormalizeAi
<1> HIDE DEF a, b
<1> QED  BY <1>3, <1>4 DEF DedupKey, Subject, a, b

\* About the same, they say the same if their evidence does.
LEMMA SameIsSaying ==
  ASSUME NEW r \in Evidence, NEW s \in Evidence, Subject(r) = Subject(s)
  PROVE  SameLogical(Normal(r), Normal(s)) <=> Saying(r) = Saying(s)
<1>1. r.type = s.type /\ r.name = s.name /\ ToSet(r.events) = ToSet(s.events)
  BY DEF Subject
<1>2. CASE r.type = "rule"
  <2>1. NormalizeEventIds(r.events) = NormalizeEventIds(s.events)
    BY <1>1 DEF NormalizeEventIds
  <2>2. Normal(r) = NormalizeRule(r) /\ Normal(s) = NormalizeRule(s)
    BY <1>1, <1>2 DEF Normal
  <2>3. SameLogical(NormalizeRule(r), NormalizeRule(s))
          <=> r.severity = s.severity /\ r.weight = s.weight
    <3> DEFINE a == NormalizeRule(r)
               b == NormalizeRule(s)
    <3>1. DOMAIN a = {"id", "type", "name", "version", "severity", "weight", "score",
                      "events", "fallback"}
      BY DEF NormalizeRule
    <3>2. /\ a.type = b.type /\ a.name = b.name /\ a.version = b.version /\ a.score = b.score
          /\ a.events = b.events /\ a.fallback = b.fallback
          /\ a.severity = r.severity /\ b.severity = s.severity
          /\ a.weight = r.weight /\ b.weight = s.weight
      BY <1>1, <2>1 DEF NormalizeRule
    <3> HIDE DEF a, b
    <3>3. (\A f \in DOMAIN a \ {"id"} : a[f] = b[f])
            <=> a.severity = b.severity /\ a.weight = b.weight
      BY <3>1, <3>2
    <3> QED  BY <3>2, <3>3 DEF SameLogical, a, b
  <2>4. Saying(r) = Saying(s) <=> r.severity = s.severity /\ r.weight = s.weight
    BY <1>1, <1>2 DEF Saying
  <2> QED  BY <2>2, <2>3, <2>4
<1>3. CASE r.type = "ai"
  <2>1. /\ r.events \in Seq(Int) /\ Len(r.events) = 1
        /\ s.events \in Seq(Int) /\ Len(s.events) = 1
    BY <1>1, <1>3, AlertsAssumption
  <2>2. r.events[1] = s.events[1]
    BY <1>1, <2>1, SMTT(30) DEF ToSet
  <2>3. r.events = s.events
    BY <2>1, <2>2
  <2>4. r.version = s.version
    BY <1>1, <1>3 DEF Subject
  <2>5. Normal(r) = NormalizeAi(r) /\ Normal(s) = NormalizeAi(s)
    BY <1>1, <1>3 DEF Normal
  <2>6. SameLogical(NormalizeAi(r), NormalizeAi(s))
          <=> r.fallback = s.fallback /\ r.weight = s.weight
    BY <1>1, <2>3, <2>4 DEF SameLogical, NormalizeAi
  <2>7. Saying(r) = Saying(s) <=> r.fallback = s.fallback /\ r.weight = s.weight
    BY <1>1, <1>3 DEF Saying
  <2> QED  BY <2>5, <2>6, <2>7
<1> QED  BY <1>2, <1>3, AlertsAssumption

Alerts == {Normal(r) : r \in Evidence}

LEMMA AlertDomain ==
  \A a \in Alerts : DOMAIN a = {"id", "type", "name", "version", "severity", "weight",
                              "score", "events", "fallback"}
BY DEF Alerts, Normal, NormalizeRule, NormalizeAi

LEMMA ConcatRange ==
  ASSUME NEW S, NEW s \in Seq(S), NEW t \in Seq(S)
  PROVE  ToSet(s \o t) = ToSet(s) \cup ToSet(t)
<1>1. DOMAIN (s \o t) = 1..Len(s) + Len(t)
  BY ConcatProperties
<1>2. \A i \in 1..Len(s) : (s \o t)[i] = s[i]
  BY ConcatProperties
<1>3. \A i \in 1..Len(t) : (s \o t)[Len(s) + i] = t[i]
  BY ConcatProperties
<1>4. \A i \in 1..Len(s) + Len(t) : i \in 1..Len(s) \/ \E j \in 1..Len(t) : i = Len(s) + j
  <2> TAKE i \in 1..Len(s) + Len(t)
  <2>1. i > Len(s) => i - Len(s) \in 1..Len(t) /\ i = Len(s) + (i - Len(s))
    OBVIOUS
  <2> QED  BY <2>1
<1>5. \A j \in 1..Len(t) : Len(s) + j \in 1..Len(s) + Len(t)
  OBVIOUS
<1>6. 1..Len(s) \subseteq 1..Len(s) + Len(t)
  OBVIOUS
<1>7. \A x : x \in ToSet(s \o t) <=> x \in ToSet(s) \/ x \in ToSet(t)
  <2> TAKE x
  <2>1. ASSUME x \in ToSet(s \o t)  PROVE x \in ToSet(s) \/ x \in ToSet(t)
    <3>1. PICK i \in 1..Len(s) + Len(t) : (s \o t)[i] = x
      BY <1>1, <2>1 DEF ToSet
    <3>2. CASE i \in 1..Len(s)
      <4>1. x = s[i] /\ i \in DOMAIN s
        BY <1>2, <3>1, <3>2
      <4> QED  BY <4>1 DEF ToSet
    <3>3. CASE \E j \in 1..Len(t) : i = Len(s) + j
      <4>1. PICK j \in 1..Len(t) : i = Len(s) + j
        BY <3>3
      <4>2. x = t[j] /\ j \in DOMAIN t
        BY <1>3, <3>1, <4>1
      <4> QED  BY <4>2 DEF ToSet
    <3> QED  BY <1>4, <3>2, <3>3, Zenon
  <2>2. ASSUME x \in ToSet(s)  PROVE x \in ToSet(s \o t)
    BY <1>1, <1>2, <1>6, <2>2 DEF ToSet
  <2>3. ASSUME x \in ToSet(t)  PROVE x \in ToSet(s \o t)
    <3>1. PICK j \in 1..Len(t) : t[j] = x
      BY <2>3 DEF ToSet
    <3> QED  BY <1>1, <1>3, <1>5, <3>1 DEF ToSet
  <2> QED  BY <2>1, <2>2, <2>3
<1> QED  BY <1>7

LEMMA MergeIs ==
  ASSUME NEW B \in Seq(Evidence)
  PROVE  Merge(B) \in Seq(Alerts) /\ ToSet(Merge(B)) = {Normal(r) : r \in CountedIn(B)}
<1> DEFINE R == {i \in DOMAIN B : B[i].type = "rule"}
           A == {i \in DOMAIN B : B[i].type = "ai" /\ Counted(B[i])}
           rules == Picked(B, R)
           anomalies == Picked(B, A)
           first == [i \in DOMAIN rules |-> NormalizeRule(rules[i])]
           then == [i \in DOMAIN anomalies |-> NormalizeAi(anomalies[i])]
<1>1. DOMAIN B = 1..Len(B) /\ IsFiniteSet(1..Len(B)) /\ 1..Len(B) \subseteq Int
  BY FS_Interval
<1>2. IntSet(R) /\ IntSet(A)
  BY <1>1, FS_Subset DEF IntSet
<1>3. /\ DOMAIN rules = 1..Cardinality(R) /\ Cardinality(R) \in Nat
      /\ ToSet(rules) = {B[i] : i \in R}
  <2> HIDE DEF R
  <2> SUFFICES R \subseteq DOMAIN B  BY <1>2, PickedIs
  <2> QED  BY DEF R
<1>4. /\ DOMAIN anomalies = 1..Cardinality(A) /\ Cardinality(A) \in Nat
      /\ ToSet(anomalies) = {B[i] : i \in A}
  <2> HIDE DEF A
  <2> SUFFICES A \subseteq DOMAIN B  BY <1>2, PickedIs
  <2> QED  BY DEF A
<1>5. \A i \in DOMAIN B : B[i] \in Evidence
  OBVIOUS
<1>6. \A i \in DOMAIN rules : first[i] = Normal(rules[i]) /\ rules[i] \in {B[j] : j \in R}
  <2> TAKE i \in DOMAIN rules
  <2>1. rules[i] \in {B[j] : j \in R}
    BY <1>3 DEF ToSet
  <2>2. rules[i].type = "rule"
    BY <2>1
  <2> HIDE DEF rules, R
  <2> QED  BY <2>1, <2>2 DEF Normal
<1>7. \A i \in DOMAIN anomalies :
        then[i] = Normal(anomalies[i]) /\ anomalies[i] \in {B[j] : j \in A}
  <2> TAKE i \in DOMAIN anomalies
  <2>1. anomalies[i] \in {B[j] : j \in A}
    BY <1>4 DEF ToSet
  <2>2. anomalies[i].type = "ai"
    BY <2>1
  <2> HIDE DEF anomalies, A
  <2> QED  BY <2>1, <2>2 DEF Normal
<1>8. {first[i] : i \in DOMAIN first} = {Normal(B[i]) : i \in R}
  <2> HIDE DEF rules
  <2>1. DOMAIN first = DOMAIN rules
    OBVIOUS
  <2>2. \A x : x \in ToSet(rules) <=> \E i \in DOMAIN rules : x = rules[i]
    BY DEF ToSet
  <2>3. \A x : x \in {B[i] : i \in R} <=> \E i \in DOMAIN rules : x = rules[i]
    BY <1>3, <2>2, Zenon
  <2> HIDE DEF R, first
  <2>4. \A i \in DOMAIN first : first[i] \in {Normal(B[j]) : j \in R}
    BY <1>6, <2>1
  <2>5. \A j \in R : \E i \in DOMAIN first : Normal(B[j]) = first[i]
    BY <1>6, <2>1, <2>3
  <2> QED  BY <2>4, <2>5
<1>9. {then[i] : i \in DOMAIN then} = {Normal(B[i]) : i \in A}
  <2> HIDE DEF anomalies
  <2>1. DOMAIN then = DOMAIN anomalies
    OBVIOUS
  <2>2. \A x : x \in ToSet(anomalies) <=> \E i \in DOMAIN anomalies : x = anomalies[i]
    BY DEF ToSet
  <2>3. \A x : x \in {B[i] : i \in A} <=> \E i \in DOMAIN anomalies : x = anomalies[i]
    BY <1>4, <2>2, Zenon
  <2> HIDE DEF A, then
  <2>4. \A i \in DOMAIN then : then[i] \in {Normal(B[j]) : j \in A}
    <3> TAKE i \in DOMAIN then
    <3>1. then[i] = Normal(anomalies[i]) /\ anomalies[i] \in {B[j] : j \in A}
      BY <1>7, <2>1, Zenon
    <3>2. PICK j \in A : anomalies[i] = B[j]
      BY <3>1, Zenon
    <3> QED  BY <3>1, <3>2, Zenon
  <2> HIDE DEF then
  <2>5. \A j \in A : \E i \in DOMAIN then : Normal(B[j]) = then[i]
    <3> TAKE j \in A
    <3>1. PICK i \in DOMAIN anomalies : B[j] = anomalies[i]
      BY <2>3, Zenon
    <3> QED  BY <1>7, <2>1, <3>1, Zenon
  <2> QED  BY <2>4, <2>5
<1>10. first \in Seq(Alerts) /\ then \in Seq(Alerts)
  <2>1. \A i \in R \cup A : Normal(B[i]) \in Alerts
    BY <1>5 DEF Alerts
  <2>2. \A i \in DOMAIN first : first[i] \in Alerts
    <3> HIDE DEF first
    <3> QED  BY <1>8, <2>1
  <2>3. \A i \in DOMAIN then : then[i] \in Alerts
    <3> HIDE DEF then
    <3> QED  BY <1>9, <2>1
  <2>4. DOMAIN first = 1..Cardinality(R) /\ DOMAIN then = 1..Cardinality(A)
    BY <1>3, <1>4
  <2>5. first \in [1..Cardinality(R) -> Alerts] /\ then \in [1..Cardinality(A) -> Alerts]
    BY <2>2, <2>3, <2>4
  <2> HIDE DEF first, then, R, A
  <2> QED  BY <1>3, <1>4, <2>5, SMTT(30)
<1>11. Merge(B) = first \o then
  BY DEF Merge
<1> HIDE DEF first, then
<1>12. ToSet(first \o then) = ToSet(first) \cup ToSet(then)
  BY <1>10, ConcatRange
<1>13. R \cup A = {i \in DOMAIN B : Counted(B[i])}
  BY <1>5, AlertsAssumption DEF Counted
<1>14. {Normal(r) : r \in CountedIn(B)} = {Normal(B[i]) : i \in R \cup A}
  <2> HIDE DEF R, A
  <2> QED  BY <1>13 DEF CountedIn, ToSet
<1>15. ToSet(first) = {Normal(B[i]) : i \in R} /\ ToSet(then) = {Normal(B[i]) : i \in A}
  BY <1>8, <1>9 DEF ToSet
<1> HIDE DEF R, A
<1>16. ToSet(Merge(B)) = {Normal(r) : r \in CountedIn(B)}
  <2>1. ToSet(Merge(B)) = {Normal(B[i]) : i \in R} \cup {Normal(B[i]) : i \in A}
    BY <1>11, <1>12, <1>15
  <2> QED  BY <1>14, <2>1
<1>17. Merge(B) \in Seq(Alerts)
  BY <1>10, <1>11, ConcatProperties
<1> QED  BY <1>16, <1>17
-----------------------------------------------------------------------------
(* Deduplication.                                                          *)

SameKey(a, b) == DedupKey(a) = DedupKey(b)

\* Of alerts that say the same if they have one key, one of each key.
LEMMA DeduplicateIs ==
  ASSUME NEW M, NEW n \in Nat, DOMAIN M = 1..n,
         \A i, j \in 1..n : SameKey(M[i], M[j]) => SameLogical(M[i], M[j])
  PROVE  LET D == Deduplicate(M) IN
         /\ \E m \in Nat : DOMAIN D = 1..m
         /\ ToSet(D) \subseteq ToSet(M)
         /\ \A x \in ToSet(M) : \E y \in ToSet(D) : SameKey(y, x)
         /\ \A i, j \in DOMAIN D : SameKey(D[i], D[j]) => i = j
<1> DEFINE first(i) == \A j \in 1..i - 1 : DedupKey(M[j]) # DedupKey(M[i])
           kept == {i \in DOMAIN M : first(i)}
           D == Picked(M, kept)
<1>1. kept \subseteq 1..n /\ kept \subseteq DOMAIN M
  OBVIOUS
<1>2. Deduplicate(M) = D
  BY <1>1 DEF Deduplicate, SameKey
<1>3. \A i, j \in kept : SameKey(M[i], M[j]) => i = j
  <2> SUFFICES ASSUME NEW i \in kept, NEW j \in kept, SameKey(M[i], M[j]), i < j
               PROVE  FALSE
    BY <1>1 DEF SameKey
  <2>1. i \in 1..j - 1 /\ first(j)
    OBVIOUS
  <2> QED  BY <2>1 DEF SameKey
<1>4. \A i \in 1..n : \E j \in kept : SameKey(M[j], M[i])
  <2> TAKE i \in 1..n
  <2> DEFINE T == {j \in 1..n : SameKey(M[j], M[i])}
  <2>1. T \subseteq Nat /\ i \in T
    BY DEF SameKey
  <2>2. PICK j \in T : \A k \in T : j <= k
    <3> HIDE DEF T
    <3> QED  BY <2>1, LeastNatural
  <2>3. \A k \in 1..j - 1 : k \notin T /\ k \in 1..n
    BY <2>2
  <2>4. first(j)
    BY <2>2, <2>3 DEF SameKey
  <2> QED  BY <2>2, <2>4
<1>5. IntSet(kept)
  <2>1. IsFiniteSet(1..n)
    BY FS_Interval
  <2> HIDE DEF kept
  <2>2. IsFiniteSet(kept)
    BY <1>1, <2>1, FS_Subset
  <2>3. kept \subseteq Int
    BY <1>1
  <2> QED  BY <2>2, <2>3 DEF IntSet
<1> HIDE DEF kept
<1>6. /\ DOMAIN D = 1..Cardinality(kept) /\ Cardinality(kept) \in Nat
      /\ \A i \in DOMAIN D : Ascending(kept)[i] \in kept /\ D[i] = M[Ascending(kept)[i]]
      /\ \A i, j \in DOMAIN D : Ascending(kept)[i] = Ascending(kept)[j] => i = j
      /\ ToSet(D) = {M[i] : i \in kept}
  <2>1. kept \subseteq DOMAIN M
    BY <1>1
  <2>2. DOMAIN Picked(M, kept) = 1..Cardinality(kept) /\ Cardinality(kept) \in Nat
    BY <1>5, <2>1, PickedIs
  <2>3. \A i \in DOMAIN Picked(M, kept) :
          Ascending(kept)[i] \in kept /\ Picked(M, kept)[i] = M[Ascending(kept)[i]]
    BY <1>5, <2>1, PickedIs
  <2>4. \A i, j \in DOMAIN Picked(M, kept) : Ascending(kept)[i] = Ascending(kept)[j] => i = j
    BY <1>5, <2>1, PickedIs
  <2>5. ToSet(Picked(M, kept)) = {M[i] : i \in kept}
    BY <1>5, <2>1, PickedIs
  <2> QED  BY <2>2, <2>3, <2>4, <2>5
<1>7. \A i, j \in DOMAIN D : SameKey(D[i], D[j]) => i = j
  BY <1>3, <1>6
<1>8. \A x \in ToSet(M) : \E y \in ToSet(D) : SameKey(y, x)
  <2> TAKE x \in ToSet(M)
  <2>1. PICK i \in 1..n : x = M[i]
    BY DEF ToSet
  <2>2. PICK j \in kept : SameKey(M[j], M[i])
    BY <1>4
  <2> QED  BY <1>6, <2>1, <2>2
<1>9. ToSet(D) \subseteq ToSet(M)
  BY <1>1, <1>6 DEF ToSet
<1> HIDE DEF D
<1> QED  BY <1>2, <1>6, <1>7, <1>8, <1>9

\* Alerts with one key that say different things are refused: the first of the
\* key differs from one of them.
LEMMA CollisionIs ==
  ASSUME NEW M, NEW n \in Nat, DOMAIN M = 1..n,
         \A i \in 1..n : M[i] \in Alerts,
         NEW i \in 1..n, NEW j \in 1..n, SameKey(M[i], M[j]), ~SameLogical(M[i], M[j])
  PROVE  Deduplicate(M) = <<Failed>>
<1> DEFINE first(k) == \A l \in 1..k - 1 : DedupKey(M[l]) # DedupKey(M[k])
           kept == {k \in DOMAIN M : first(k)}
           T == {k \in 1..n : SameKey(M[k], M[i])}
<1>1. T \subseteq Nat /\ i \in T
  BY DEF SameKey
<1>2. PICK k \in T : \A l \in T : k <= l
  <2> HIDE DEF T
  <2> QED  BY <1>1, LeastNatural
<1>3. \A l \in 1..k - 1 : l \notin T /\ l \in 1..n
  BY <1>2
<1>4. k \in kept /\ SameKey(M[i], M[k]) /\ SameKey(M[j], M[k])
  BY <1>2, <1>3 DEF SameKey
<1>5. ~SameLogical(M[i], M[k]) \/ ~SameLogical(M[j], M[k])
  <2> SUFFICES ASSUME SameLogical(M[i], M[k]), SameLogical(M[j], M[k])  PROVE FALSE
    OBVIOUS
  <2>1. DOMAIN M[i] = DOMAIN M[j]
    BY AlertDomain
  <2> QED  BY <2>1 DEF SameLogical
<1> HIDE DEF kept, T
<1>6. \E l \in DOMAIN M, m \in kept :
        DedupKey(M[l]) = DedupKey(M[m]) /\ ~SameLogical(M[l], M[m])
  BY <1>4, <1>5 DEF SameKey
<1> QED  BY <1>6 DEF Deduplicate, kept
-----------------------------------------------------------------------------
(* The pipeline.                                                           *)

Contradiction(B) ==
  \E r, s \in CountedIn(B) : Subject(r) = Subject(s) /\ Saying(r) # Saying(s)

Unknown(B) ==
  \E r \in CountedIn(B) : ToSet(r.events) = {} \/ ~(ToSet(r.events) \subseteq DOMAIN EventFields)

\* One alert for each subject of the evidence.
Represents(D, B) ==
  /\ \E m \in Nat : DOMAIN D = 1..m
  /\ \A a \in ToSet(D) : \E r \in CountedIn(B) : a = Normal(r)
  /\ \A r \in CountedIn(B) : \E s \in CountedIn(B) :
       Normal(s) \in ToSet(D) /\ Subject(s) = Subject(r)
  /\ \A i, j \in DOMAIN D : SameKey(D[i], D[j]) => i = j

LEMMA CountedTyped ==
  ASSUME NEW B \in Seq(Evidence)
  PROVE  ToSet(B) \subseteq Evidence /\ CountedIn(B) \subseteq Evidence
BY DEF CountedIn, ToSet

LEMMA UniqueIs ==
  ASSUME NEW B \in Seq(Evidence)
  PROVE  /\ Contradiction(B) => Deduplicate(Merge(B)) = <<Failed>>
         /\ ~Contradiction(B) => Represents(Deduplicate(Merge(B)), B)
<1> DEFINE M == Merge(B)
           n == Len(M)
           D == Deduplicate(M)
<1>1. M \in Seq(Alerts) /\ ToSet(M) = {Normal(r) : r \in CountedIn(B)}
  BY MergeIs
<1> HIDE DEF M
<1>2. n \in Nat /\ DOMAIN M = 1..n /\ \A i \in 1..n : M[i] \in Alerts
  BY <1>1
<1> HIDE DEF n
<1>3. CountedIn(B) \subseteq Evidence
  BY CountedTyped
<1>4. \A i \in 1..n : \E r \in CountedIn(B) : M[i] = Normal(r)
  BY <1>1, <1>2 DEF ToSet
<1>5. \A r \in CountedIn(B) : \E i \in 1..n : M[i] = Normal(r)
  <2> TAKE r \in CountedIn(B)
  <2>1. Normal(r) \in ToSet(M)
    BY <1>1
  <2> QED  BY <1>2, <2>1 DEF ToSet
<1>6. ASSUME Contradiction(B)  PROVE D = <<Failed>>
  <2>1. PICK r, s \in CountedIn(B) : Subject(r) = Subject(s) /\ Saying(r) # Saying(s)
    BY <1>6 DEF Contradiction
  <2>2. PICK i, j \in 1..n : M[i] = Normal(r) /\ M[j] = Normal(s)
    BY <1>5
  <2>3. SameKey(M[i], M[j]) /\ ~SameLogical(M[i], M[j])
    BY <1>3, <2>1, <2>2, KeyIsSubject, SameIsSaying DEF SameKey
  <2> QED  BY <1>2, <2>3, CollisionIs
<1>7. ASSUME ~Contradiction(B)  PROVE Represents(D, B)
  <2>1. ASSUME NEW i \in 1..n, NEW j \in 1..n, SameKey(M[i], M[j])
        PROVE  SameLogical(M[i], M[j])
    <3>1. PICK r, s \in CountedIn(B) : M[i] = Normal(r) /\ M[j] = Normal(s)
      BY <1>4
    <3>2. Subject(r) = Subject(s)
      BY <1>3, <2>1, <3>1, KeyIsSubject DEF SameKey
    <3>3. Saying(r) = Saying(s)
      BY <1>7, <3>2 DEF Contradiction
    <3> QED  BY <1>3, <3>1, <3>2, <3>3, SameIsSaying
  <2>2. /\ \E m \in Nat : DOMAIN D = 1..m
        /\ ToSet(D) \subseteq ToSet(M)
        /\ \A x \in ToSet(M) : \E y \in ToSet(D) : SameKey(y, x)
        /\ \A i, j \in DOMAIN D : SameKey(D[i], D[j]) => i = j
    BY <1>2, <2>1, DeduplicateIs
  <2> HIDE DEF D
  <2>3. \A a \in ToSet(D) : \E r \in CountedIn(B) : a = Normal(r)
    BY <1>1, <2>2
  <2>4. ASSUME NEW r \in CountedIn(B)
        PROVE  \E s \in CountedIn(B) : Normal(s) \in ToSet(D) /\ Subject(s) = Subject(r)
    <3>1. PICK y \in ToSet(D) : SameKey(y, Normal(r))
      BY <1>1, <2>2
    <3>2. PICK s \in CountedIn(B) : y = Normal(s)
      BY <2>3
    <3>3. Subject(s) = Subject(r)
      BY <1>3, <3>1, <3>2, KeyIsSubject DEF SameKey
    <3> QED  BY <3>2, <3>3
  <2> QED  BY <2>2, <2>3, <2>4 DEF Represents
<1> QED  BY <1>6, <1>7 DEF M, D

UniqueOf(B) == Deduplicate(Merge(B))
Enriched(D) == [i \in DOMAIN D |-> Enrich(D[i])]

LEMMA PipelineIs ==
  ASSUME NEW B \in Seq(Evidence)
  PROVE  /\ Contradiction(B) \/ Unknown(B) => Pipeline(B) = Failed
         /\ ~Contradiction(B) /\ ~Unknown(B) =>
              /\ Pipeline(B) = [ok |-> TRUE, alerts |-> Enriched(UniqueOf(B))]
              /\ Represents(UniqueOf(B), B)
<1> DEFINE D == UniqueOf(B)
           missing == \E a \in ToSet(D) : ~(ToSet(a.events) \subseteq DOMAIN EventFields)
<1>1. /\ Contradiction(B) => D = <<Failed>>
      /\ ~Contradiction(B) => Represents(D, B)
  BY UniqueIs DEF UniqueOf
<1>2. Pipeline(B) = IF ~MergeAccepts(B) \/ D = <<Failed>> THEN Failed
                    ELSE IF missing THEN Failed
                    ELSE [ok |-> TRUE, alerts |-> Enriched(D)]
  BY DEF Pipeline, UniqueOf, Enriched
<1> HIDE DEF D
<1>3. CountedIn(B) \subseteq Evidence /\ ToSet(B) \subseteq Evidence
  BY CountedTyped
<1>4. MergeAccepts(B) <=> \A r \in CountedIn(B) : ToSet(r.events) # {}
  <2>1. \A r \in ToSet(B) : r.events \in Seq(Int) /\ (ToSet(r.events) = {} <=> r.events = <<>>)
    BY <1>3, EventsFinite, AlertsAssumption
  <2>2. \A r \in ToSet(B) : r \notin CountedIn(B) => r.events # <<>>
    BY <1>3, AlertsAssumption DEF CountedIn, Counted
  <2>3. CountedIn(B) \subseteq ToSet(B)
    BY DEF CountedIn
  <2> QED  BY <2>1, <2>2, <2>3 DEF MergeAccepts
<1>5. ASSUME ~Contradiction(B)
      PROVE  missing <=> \E r \in CountedIn(B) : ~(ToSet(r.events) \subseteq DOMAIN EventFields)
  <2>1. \A r \in CountedIn(B) : ToSet(Normal(r).events) = ToSet(r.events)
    BY <1>3, NormalEvents
  <2>2. Represents(D, B)
    BY <1>1, <1>5
  <2>3. ASSUME missing
        PROVE  \E r \in CountedIn(B) : ~(ToSet(r.events) \subseteq DOMAIN EventFields)
    BY <2>1, <2>2, <2>3 DEF Represents
  <2>4. ASSUME NEW r \in CountedIn(B), ~(ToSet(r.events) \subseteq DOMAIN EventFields)
        PROVE  missing
    <3>1. PICK s \in CountedIn(B) : Normal(s) \in ToSet(D) /\ Subject(s) = Subject(r)
      BY <2>2 DEF Represents
    <3>2. ToSet(Normal(s).events) = ToSet(r.events)
      BY <2>1, <3>1 DEF Subject
    <3> QED  BY <2>4, <3>1, <3>2
  <2> QED  BY <2>3, <2>4
<1>6. ASSUME ~Contradiction(B)  PROVE D # <<Failed>>
  <2> SUFFICES ASSUME D = <<Failed>>  PROVE FALSE
    OBVIOUS
  <2>1. Failed \in ToSet(D)
    BY DEF ToSet
  <2>2. PICK r \in CountedIn(B) : Failed = Normal(r)
    BY <1>1, <1>6, <2>1 DEF Represents
  <2>3. Failed \in Alerts
    BY <1>3, <2>2 DEF Alerts
  <2>4. DOMAIN Failed = {"ok"} /\ "id" \in DOMAIN Failed
    BY <2>3, AlertDomain DEF Failed
  <2> QED  BY <2>4
<1> HIDE DEF missing
<1>7. ASSUME Contradiction(B)  PROVE Pipeline(B) = Failed
  BY <1>1, <1>2, <1>7
<1>8. ASSUME ~Contradiction(B), Unknown(B)  PROVE Pipeline(B) = Failed
  BY <1>2, <1>4, <1>5, <1>8 DEF Unknown
<1>9. ASSUME ~Contradiction(B), ~Unknown(B)
      PROVE  Pipeline(B) = [ok |-> TRUE, alerts |-> Enriched(D)] /\ Represents(D, B)
  BY <1>1, <1>2, <1>4, <1>5, <1>6, <1>9 DEF Unknown
<1> QED  BY <1>7, <1>8, <1>9 DEF D
-----------------------------------------------------------------------------
(* Entities, and what is stored.                                           *)

AlertSubject(a) == <<a.type, a.name, a.version, ToSet(a.events)>>

Field == {"id", "type", "name", "version", "severity", "weight", "score", "events",
          "fallback", "entities"}

LEMMA SubjectKept ==
  ASSUME NEW r \in Evidence
  PROVE  AlertSubject(Normal(r)) = Subject(r)
<1>1. r.type \in {"rule", "ai"}
  BY AlertsAssumption
<1>2. /\ Normal(r).type = r.type /\ Normal(r).name = r.name
      /\ Normal(r).version = IF r.type = "ai" THEN r.version ELSE "none"
  BY <1>1 DEF Normal, NormalizeRule, NormalizeAi
<1>3. ToSet(Normal(r).events) = ToSet(r.events)
  BY NormalEvents
<1> QED  BY <1>2, <1>3 DEF AlertSubject, Subject

\* What has one identity is about the same.
LEMMA SameIdentity ==
  ASSUME NEW r \in Evidence, NEW s \in Evidence, Normal(r).id = Normal(s).id
  PROVE  Subject(r) = Subject(s)
<1>1. \/ r.type = "rule" /\ Normal(r).id = r.id
      \/ r.type = "ai" /\ Normal(r).id = AiAlertId(r)
  BY AlertsAssumption DEF Normal, NormalizeRule, NormalizeAi
<1>2. \/ s.type = "rule" /\ Normal(s).id = s.id
      \/ s.type = "ai" /\ Normal(s).id = AiAlertId(s)
  BY AlertsAssumption DEF Normal, NormalizeRule, NormalizeAi
<1>3. CASE r.type = "ai" /\ s.type = "ai"
  BY <1>1, <1>2, <1>3 DEF AiAlertId, Subject
<1>4. CASE r.type = "rule" \/ s.type = "rule"
  BY <1>1, <1>2, <1>4, AlertsAssumption
<1> QED  BY <1>1, <1>2, <1>3, <1>4

LEMMA EnrichIs ==
  ASSUME NEW a \in Alerts
  PROVE  /\ DOMAIN Enrich(a) = Field
         /\ \A f \in Field \ {"entities"} : Enrich(a)[f] = a[f]
         /\ Enrich(a).entities = UNION {ExtractEntities(e) : e \in ToSet(a.events)}
BY AlertDomain DEF Enrich, Field

\* An entity that is normalized is so once and for all.
LEMMA NormalizedOnce ==
  ASSUME NEW type, NEW value, NEW x, x = NormalizeEntity(type, value)
  PROVE  NormalizeEntity(x.type, x) = x
BY DEF NormalizeEntity

LEMMA EntitiesAre ==
  ASSUME NEW a \in Alerts
  PROVE  /\ {<<x.type, x.base, x.suffix>> : x \in Enrich(a).entities} = Entities(ToSet(a.events))
         /\ {NormalizeEntity(x.type, x) : x \in Enrich(a).entities} = Enrich(a).entities
<1> DEFINE S == ToSet(a.events)
           E == Enrich(a).entities
           triple(x) == <<x.type, x.base, x.suffix>>
           N(e, t) == NormalizeEntity(t, EventFields[e][t])
<1>1. E = UNION {{N(e, t) : t \in DOMAIN EventFields[e]} : e \in S}
  BY EnrichIs DEF ExtractEntities
<1> HIDE DEF E, S
<1>2. \A x \in E : NormalizeEntity(x.type, x) = x
  BY <1>1, NormalizedOnce
<1>3. \A x : x \in Entities(S) <=> \E e \in S : \E t \in DOMAIN EventFields[e] : x = triple(N(e, t))
  <2> DEFINE entity(e, t) ==
               LET value == EventFields[e][t]
                   stripped == \/ t \in {"host", "src_host"} /\ value.suffix = ".corp"
                               \/ t = "user" /\ value.suffix = "@localhost"
               IN <<t, value.base, IF stripped THEN "" ELSE value.suffix>>
  <2>1. \A e, t : entity(e, t) = triple(N(e, t))
    BY DEF NormalizeEntity
  <2>2. Entities(S) = UNION {{entity(e, t) : t \in DOMAIN EventFields[e]} : e \in S}
    BY DEF Entities
  <2> HIDE DEF entity, triple, N
  <2> QED  BY <2>1, <2>2
<1>4. \A x : x \in {triple(y) : y \in E}
            <=> \E e \in S : \E t \in DOMAIN EventFields[e] : x = triple(N(e, t))
  <2> HIDE DEF triple, N
  <2> QED  BY <1>1
<1>5. {triple(y) : y \in E} = Entities(S)
  <2> HIDE DEF triple, N
  <2> QED  BY <1>3, <1>4
<1>6. {NormalizeEntity(x.type, x) : x \in E} = E
  BY <1>2
<1> QED  BY <1>5, <1>6 DEF E, S

LEMMA PersistIs ==
  ASSUME NEW e, DOMAIN e = Field
  PROVE  /\ \A f \in Field \ {"weight", "entities"} : Persist(e)[f] = e[f]
         /\ Persist(e).weight = NormalizeWeight(e.weight)
         /\ Persist(e).entities = IF e.type = "ai" THEN e.entities ELSE {}
         /\ DOMAIN Persist(e) = Field
BY DEF Persist, Field

\* A repeated job knows its alert again.
LEMMA StoredIs ==
  ASSUME NEW a \in Alerts
  PROVE  LET e == Enrich(a) IN
         /\ SamePersisted(e, Persist(e))
         /\ ReadBack(Persist(e)).entities \in {e.entities, {}}
         /\ \A f \in {"id", "type", "score", "fallback"} : ReadBack(Persist(e))[f] = a[f]
         /\ ReadBack(Persist(e)).weight = NormalizeWeight(a.weight)
<1> DEFINE e == Enrich(a)
           p == Persist(e)
           b == ReadBack(p)
<1>1. DOMAIN e = Field /\ \A f \in Field \ {"entities"} : e[f] = a[f]
  BY EnrichIs
<1>2. {NormalizeEntity(x.type, x) : x \in e.entities} = e.entities
  BY EntitiesAre
<1> HIDE DEF e
<1>3. /\ \A f \in Field \ {"weight", "entities"} : p[f] = e[f]
      /\ p.weight = NormalizeWeight(e.weight)
      /\ p.entities = IF e.type = "ai" THEN e.entities ELSE {}
      /\ DOMAIN p = Field
  BY <1>1, PersistIs
<1> HIDE DEF p
<1>4. SamePersisted(e, p)
  BY <1>3 DEF SamePersisted, Field
<1>5. /\ b.entities = {NormalizeEntity(x.type, x) : x \in p.entities}
      /\ \A f \in Field \ {"entities"} : b[f] = p[f]
  BY <1>3 DEF ReadBack, Field
<1>6. b.entities \in {e.entities, {}}
  BY <1>2, <1>3, <1>5
<1> HIDE DEF b
<1>7. /\ \A f \in {"id", "type", "score", "fallback"} : b[f] = a[f]
      /\ b.weight = NormalizeWeight(a.weight)
  BY <1>1, <1>3, <1>5 DEF Field
<1> QED  BY <1>4, <1>6, <1>7 DEF b, p, e

-----------------------------------------------------------------------------
(* How many they are.                                                      *)

LEMMA DistinctCount ==
  ASSUME NEW m \in Nat, NEW f, f \in [1..m -> ToSet(f)],
         \A i, j \in 1..m : f[i] = f[j] => i = j
  PROVE  IsFiniteSet(ToSet(f)) /\ Cardinality(ToSet(f)) = m
<1>1. IsFiniteSet(1..m) /\ Cardinality(1..m) = m
  BY FS_Interval
<1>2. \A x \in ToSet(f) : \E i \in 1..m : f[i] = x
  BY DEF ToSet
<1>3. f \in Surjection(1..m, ToSet(f)) /\ f \in Injection(1..m, ToSet(f))
  BY <1>2 DEF Surjection, Injection, IsInjective
<1> QED  BY <1>1, <1>3, FS_Surjection

LEMMA RepresentsCount ==
  ASSUME NEW B \in Seq(Evidence), NEW D, Represents(D, B), NEW m \in Nat, DOMAIN D = 1..m
  PROVE  /\ IsFiniteSet({Subject(r) : r \in CountedIn(B)})
         /\ Cardinality({Subject(r) : r \in CountedIn(B)}) = m
         /\ \A i, j \in 1..m : D[i].id = D[j].id => i = j
<1>1. CountedIn(B) \subseteq Evidence
  BY CountedTyped
<1>2. \A i \in 1..m : \E r \in CountedIn(B) : D[i] = Normal(r)
  BY DEF Represents, ToSet
<1> DEFINE f == [i \in 1..m |-> AlertSubject(D[i])]
<1>3. \A i, j \in 1..m : f[i] = f[j] => i = j
  <2> SUFFICES ASSUME NEW i \in 1..m, NEW j \in 1..m, f[i] = f[j]  PROVE i = j
    OBVIOUS
  <2>1. PICK r, s \in CountedIn(B) : D[i] = Normal(r) /\ D[j] = Normal(s)
    BY <1>2
  <2>2. Subject(r) = Subject(s)
    BY <1>1, <2>1, SubjectKept
  <2>3. SameKey(D[i], D[j])
    BY <1>1, <2>1, <2>2, KeyIsSubject DEF SameKey
  <2> QED  BY <2>3 DEF Represents
<1>4. ToSet(f) = {Subject(r) : r \in CountedIn(B)}
  <2>1. \A i \in 1..m : f[i] \in {Subject(r) : r \in CountedIn(B)}
    <3> TAKE i \in 1..m
    <3>1. PICK r \in CountedIn(B) : D[i] = Normal(r)
      BY <1>2
    <3>2. f[i] = Subject(r)
      BY <1>1, <3>1, SubjectKept
    <3> QED  BY <3>2
  <2>2. \A r \in CountedIn(B) : \E i \in 1..m : f[i] = Subject(r)
    <3> TAKE r \in CountedIn(B)
    <3>1. PICK s \in CountedIn(B) : Normal(s) \in ToSet(D) /\ Subject(s) = Subject(r)
      BY DEF Represents
    <3>2. PICK i \in 1..m : D[i] = Normal(s)
      BY <3>1 DEF ToSet
    <3>3. f[i] = Subject(s)
      BY <1>1, <3>2, SubjectKept
    <3> QED  BY <3>1, <3>3
  <2>3. ToSet(f) = {f[i] : i \in 1..m}
    BY DEF ToSet
  <2> HIDE DEF f
  <2> QED  BY <2>1, <2>2, <2>3
<1>5. f \in [1..m -> ToSet(f)]
  BY DEF ToSet
<1>6. IsFiniteSet(ToSet(f)) /\ Cardinality(ToSet(f)) = m
  <2> HIDE DEF f
  <2> QED  BY <1>3, <1>5, DistinctCount
<1>7. ASSUME NEW i \in 1..m, NEW j \in 1..m, D[i].id = D[j].id  PROVE i = j
  <2>1. PICK r, s \in CountedIn(B) : D[i] = Normal(r) /\ D[j] = Normal(s)
    BY <1>2
  <2>2. r \in Evidence /\ s \in Evidence /\ Normal(r).id = Normal(s).id
    BY <1>1, <1>7, <2>1
  <2>3. Subject(r) = Subject(s)
    BY <2>2, SameIdentity
  <2>4. SameKey(D[i], D[j])
    BY <2>1, <2>2, <2>3, KeyIsSubject DEF SameKey
  <2> QED  BY <2>4 DEF Represents
<1> QED  BY <1>4, <1>6, <1>7
-----------------------------------------------------------------------------
(* The batch as a whole.                                                   *)

Stored(D) == [i \in DOMAIN D |-> ReadBack(Persist(Enrich(D[i])))]

LEMMA AssessIs ==
  ASSUME NEW B \in Seq(Evidence)
  PROVE  /\ Contradiction(B) \/ Unknown(B) => Assess(B) = Failed
         /\ ~Contradiction(B) /\ ~Unknown(B) =>
              LET D == UniqueOf(B) IN
              /\ Represents(D, B)
              /\ Assess(B) = [ok |-> TRUE, alerts |-> Enriched(D),
                              scored |-> ScorerAccepts(Enriched(D)),
                              risk |-> RiskScore(Stored(D))]
<1> DEFINE D == UniqueOf(B)
<1>1. CASE Contradiction(B) \/ Unknown(B)
  <2>1. Pipeline(B) = Failed
    BY <1>1, PipelineIs
  <2> QED  BY <1>1, <2>1 DEF Assess, Failed
<1>2. CASE ~Contradiction(B) /\ ~Unknown(B)
  <2>1. Pipeline(B) = [ok |-> TRUE, alerts |-> Enriched(D)] /\ Represents(D, B)
    BY <1>2, PipelineIs
  <2> HIDE DEF D
  <2>2. [i \in DOMAIN Enriched(D) |-> ReadBack(Persist(Enriched(D)[i]))] = Stored(D)
    BY DEF Enriched, Stored
  <2>3. Assess(B) = [ok |-> TRUE, alerts |-> Enriched(D),
                     scored |-> ScorerAccepts(Enriched(D)), risk |-> RiskScore(Stored(D))]
    <3> DEFINE out == Pipeline(B)
               readBack == [i \in DOMAIN out.alerts |-> ReadBack(Persist(out.alerts[i]))]
    <3>1. out.ok /\ out.alerts = Enriched(D)
      BY <2>1
    <3>2. readBack = Stored(D)
      BY <2>2, <3>1
    <3>3. Assess(B) = IF ~out.ok THEN out
                      ELSE [ok |-> TRUE, alerts |-> out.alerts,
                            scored |-> ScorerAccepts(out.alerts), risk |-> RiskScore(readBack)]
      BY DEF Assess
    <3> HIDE DEF out, readBack
    <3> QED  BY <3>1, <3>2, <3>3
  <2> QED  BY <1>2, <2>1, <2>3 DEF D
<1> QED  BY <1>1, <1>2

LEMMA MergeIsSound ==
  ASSUME evidence \in Seq(Evidence), outcome = Assess(evidence)
  PROVE  MergeSound
<1> DEFINE B == evidence
           D == UniqueOf(B)
           counted == {r \in ToSet(evidence) : Counted(r)}
           made == outcome.alerts
<1>1. counted = CountedIn(B) /\ counted \subseteq Evidence
  BY CountedTyped DEF CountedIn
<1>2. outcome.ok \in BOOLEAN /\ (outcome.ok <=> ~Contradiction(B) /\ ~Unknown(B))
  <2>1. CASE Contradiction(B) \/ Unknown(B)
    <3>1. outcome = Failed
      BY <2>1, AssessIs
    <3>2. outcome.ok = FALSE
      BY <3>1 DEF Failed
    <3> QED  BY <2>1, <3>2
  <2>2. CASE ~Contradiction(B) /\ ~Unknown(B)
    <3>1. outcome.ok = TRUE
      BY <2>2, AssessIs
    <3> QED  BY <2>2, <3>1
  <2> QED  BY <2>1, <2>2
<1>3. ASSUME outcome.ok
      PROVE  /\ Len(made) = Cardinality({Subject(r) : r \in counted})
             /\ outcome.scored
             /\ \A a \in ToSet(made) :
                  /\ SamePersisted(a, Persist(a))
                  /\ ReadBack(Persist(a)).entities \in {a.entities, {}}
             /\ \A r \in counted : \E a \in ToSet(made) :
                  /\ Subject(r) = <<a.type, a.name, a.version, ToSet(a.events)>>
                  /\ {<<x.type, x.base, x.suffix>> : x \in a.entities} = Entities(ToSet(r.events))
  <2>1. ~Contradiction(B) /\ ~Unknown(B)
    BY <1>2, <1>3
  <2>2. Represents(D, B) /\ made = Enriched(D) /\ outcome.scored = ScorerAccepts(Enriched(D))
    BY <2>1, AssessIs
  <2> HIDE DEF D, made, counted
  <2>3. PICK m \in Nat : DOMAIN D = 1..m
    BY <2>2 DEF Represents
  <2>4. \A i \in 1..m : D[i] \in Alerts
    BY <1>1, <2>2, <2>3 DEF Represents, Alerts, ToSet
  <2>5. DOMAIN made = 1..m /\ \A i \in 1..m : made[i] = Enrich(D[i])
    BY <2>2, <2>3 DEF Enriched
  <2>6. made \in Seq(ToSet(made)) /\ Len(made) = m
    <3>1. made = [i \in 1..m |-> Enrich(D[i])]
      BY <2>2, <2>3 DEF Enriched
    <3>2. made \in [1..m -> ToSet(made)]
      BY <3>1 DEF ToSet
    <3> QED  BY <2>3, <3>2
  <2>7. /\ Cardinality({Subject(r) : r \in counted}) = m
        /\ \A i, j \in 1..m : D[i].id = D[j].id => i = j
    BY <1>1, <2>2, <2>3, RepresentsCount
  <2>8. outcome.scored
    <3> DEFINE ids == [i \in 1..m |-> D[i].id]
    <3>1. ids \in [1..m -> ToSet(ids)] /\ \A i, j \in 1..m : ids[i] = ids[j] => i = j
      BY <2>7 DEF ToSet
    <3>2. \A i \in 1..m : made[i].id = ids[i]
      BY <2>4, <2>5, EnrichIs DEF Field
    <3>3. ToSet(ids) = {ids[i] : i \in 1..m}
      BY DEF ToSet
    <3>4. ToSet(made) = {made[i] : i \in 1..m}
      BY <2>5 DEF ToSet
    <3> HIDE DEF ids
    <3>5. {a.id : a \in ToSet(made)} = ToSet(ids)
      BY <3>2, <3>3, <3>4
    <3>6. Cardinality(ToSet(ids)) = m
      BY <3>1, DistinctCount
    <3> QED  BY <2>2, <2>6, <3>5, <3>6 DEF ScorerAccepts
  <2>9. ASSUME NEW a \in ToSet(made)
        PROVE  /\ SamePersisted(a, Persist(a))
               /\ ReadBack(Persist(a)).entities \in {a.entities, {}}
    <3>1. PICK i \in 1..m : a = Enrich(D[i])
      BY <2>5 DEF ToSet
    <3> QED  BY <2>4, <3>1, StoredIs
  <2>10. ASSUME NEW r \in counted
         PROVE  \E a \in ToSet(made) :
                  /\ Subject(r) = <<a.type, a.name, a.version, ToSet(a.events)>>
                  /\ {<<x.type, x.base, x.suffix>> : x \in a.entities} = Entities(ToSet(r.events))
    <3>1. PICK s \in CountedIn(B) : Normal(s) \in ToSet(D) /\ Subject(s) = Subject(r)
      BY <1>1, <2>2 DEF Represents
    <3>2. PICK i \in 1..m : D[i] = Normal(s)
      BY <2>3, <3>1 DEF ToSet
    <3>3. s \in Evidence /\ Normal(s) \in Alerts
      BY <1>1, <2>4, <3>2
    <3> DEFINE a == Enrich(Normal(s))
    <3>4. a \in ToSet(made)
      BY <2>5, <3>2 DEF ToSet
    <3>5. /\ a.type = Normal(s).type /\ a.name = Normal(s).name
          /\ a.version = Normal(s).version /\ a.events = Normal(s).events
      BY <3>3, EnrichIs DEF Field
    <3>6. Subject(r) = <<a.type, a.name, a.version, ToSet(a.events)>>
      <4> HIDE DEF a
      <4> QED  BY <3>1, <3>3, <3>5, SubjectKept DEF AlertSubject
    <3>7. ToSet(Normal(s).events) = ToSet(r.events)
      BY <3>1, <3>3, NormalEvents DEF Subject
    <3>8. {<<x.type, x.base, x.suffix>> : x \in a.entities} = Entities(ToSet(r.events))
      BY <3>3, <3>7, EntitiesAre
    <3> HIDE DEF a
    <3> QED  BY <3>4, <3>6, <3>8
  <2> QED  BY <2>6, <2>7, <2>8, <2>9, <2>10
<1>4. /\ Contradiction(B) <=>
           \E r, s \in counted : Subject(r) = Subject(s) /\ Saying(r) # Saying(s)
      /\ Unknown(B) <=>
           \E r \in counted :
             ToSet(r.events) = {} \/ ~(ToSet(r.events) \subseteq DOMAIN EventFields)
  BY <1>1 DEF Contradiction, Unknown
<1> HIDE DEF made, D
<1> QED  BY <1>2, <1>3, <1>4 DEF MergeSound, made

AlertsInv == evidence \in Seq(Evidence) /\ outcome = Assess(evidence)

LEMMA AlertsInitially == AlertsInit => AlertsInv
BY DEF AlertsInit, AlertsInv

LEMMA AlertsStep ==
  ASSUME AlertsInv, [AlertsNext]_alertVars
  PROVE  AlertsInv'
<1>1. CASE AlertsNext
  <2>1. PICK r \in Evidence : Arrives(r)
    BY <1>1 DEF AlertsNext
  <2> QED  BY <2>1 DEF Arrives, AlertsInv
<1>2. CASE UNCHANGED alertVars
  BY <1>2 DEF alertVars, AlertsInv
<1> QED  BY <1>1, <1>2

\* Whatever evidence is found in whatever order: one alert for each subject,
\* with its entities, or a refusal for a reason.
THEOREM MergeAlwaysSound == AlertsSpec => []MergeSound
<1>1. AlertsInv => MergeSound
  BY MergeIsSound DEF AlertsInv
<1> QED  BY <1>1, AlertsInitially, AlertsStep, PTL DEF AlertsSpec
-----------------------------------------------------------------------------
(* The risk score.                                                         *)

LEMMA Smaller ==
  ASSUME NEW x \in Int, NEW y \in Int
  PROVE  Min({x, y}) = IF x <= y THEN x ELSE y
<1> DEFINE m == IF x <= y THEN x ELSE y
<1>1. m \in {x, y} /\ \A z \in {x, y} : m <= z
  OBVIOUS
<1>2. \A z \in {x, y} : (\A w \in {x, y} : z <= w) => z = m
  OBVIOUS
<1> HIDE DEF m
<1> QED  BY <1>1, <1>2 DEF Min, m

\* What an alert adds to the score, and the alerts of a kind that may be trusted.
Voice(a) == IF a.type = "rule" THEN NormalizeWeight(a.weight) ELSE a.score
Trustworthy(D, kind) == {a \in ToSet(D) : a.type = kind /\ ~a.fallback}
Voices(D, kind) == {Voice(a) : a \in Trustworthy(D, kind)}

LEMMA NormalTyped ==
  ASSUME NEW r \in Evidence
  PROVE  /\ Voice(Normal(r)) \in Int
         /\ Normal(r).type = r.type /\ Normal(r).type \in {"rule", "ai"}
<1>1. r.weight \in Int /\ r.type \in {"rule", "ai"}
  BY AlertsAssumption
<1>2. CASE r.type = "rule"
  BY <1>1, <1>2 DEF Voice, Normal, NormalizeRule, NormalizeWeight
<1>3. CASE r.type = "ai"
  BY <1>1, <1>3 DEF Voice, Normal, NormalizeAi
<1> QED  BY <1>1, <1>2, <1>3

LEMMA VoicesTyped ==
  ASSUME NEW D, NEW m \in Nat, DOMAIN D = 1..m, \A i \in 1..m : D[i] \in Alerts, NEW kind
  PROVE  IntSet(Voices(D, kind))
<1> DEFINE S == {i \in 1..m : D[i].type = kind /\ ~D[i].fallback}
           f == [i \in S |-> Voice(D[i])]
<1>1. IsFiniteSet(S)
  <2>1. IsFiniteSet(1..m)
    BY FS_Interval
  <2> QED  BY <2>1, FS_Subset
<1>2. Voices(D, kind) = {Voice(D[i]) : i \in S}
  BY DEF Voices, Trustworthy, ToSet
<1> HIDE DEF S
<1>3. f \in Surjection(S, Voices(D, kind))
  BY <1>2 DEF Surjection
<1>4. IsFiniteSet(Voices(D, kind))
  BY <1>1, <1>3, FS_Surjection
<1>5. \A a \in Alerts : Voice(a) \in Int
  BY NormalTyped DEF Alerts
<1>6. Voices(D, kind) \subseteq Int
  BY <1>5 DEF Voices, Trustworthy, ToSet
<1> QED  BY <1>4, <1>6 DEF IntSet

LEMMA StrongestIs ==
  ASSUME NEW D, NEW m \in Nat, DOMAIN D = 1..m, \A i \in 1..m : D[i] \in Alerts,
         NEW kind \in {"rule", "ai"}
  PROVE  Strongest(Stored(D), kind)
           = IF Voices(D, kind) = {} THEN Neutral ELSE Max(Voices(D, kind))
<1> DEFINE P == Stored(D)
           S == {i \in DOMAIN P : P[i].type = kind /\ ~P[i].fallback}
           V == {Measure(P[i]) : i \in S}
<1>1. DOMAIN P = 1..m
  BY DEF Stored
<1>2. \A i \in 1..m : /\ P[i].type = D[i].type /\ P[i].fallback = D[i].fallback
                      /\ Measure(P[i]) = Voice(D[i])
  <2> TAKE i \in 1..m
  <2>1. P[i] = ReadBack(Persist(Enrich(D[i])))
    BY DEF Stored
  <2>2. /\ P[i].type = D[i].type /\ P[i].score = D[i].score /\ P[i].fallback = D[i].fallback
        /\ P[i].weight = NormalizeWeight(D[i].weight)
    BY <2>1, StoredIs
  <2> HIDE DEF P
  <2> QED  BY <2>2 DEF Measure, Voice
<1> HIDE DEF P
<1>3. V = Voices(D, kind)
  <2>1. S = {i \in 1..m : D[i].type = kind /\ ~D[i].fallback}
    BY <1>1, <1>2
  <2>2. V = {Voice(D[i]) : i \in S}
    BY <1>1, <1>2
  <2> HIDE DEF S
  <2> QED  BY <2>1, <2>2 DEF Voices, Trustworthy, ToSet
<1>4. S = {} <=> V = {}
  OBVIOUS
<1>5. Strongest(P, kind) = IF S = {} THEN Neutral ELSE Max(V)
  BY DEF Strongest
<1> HIDE DEF S, V
<1> QED  BY <1>3, <1>4, <1>5 DEF P

LEMMA KindsAre ==
  ASSUME NEW D, NEW m \in Nat, DOMAIN D = 1..m, \A i \in 1..m : D[i] \in Alerts, NEW kind
  PROVE  Voices(D, kind) # {} <=> kind \in Kinds(Enriched(D))
<1> DEFINE E == Enriched(D)
<1>1. DOMAIN E = 1..m
  BY DEF Enriched
<1>2. \A i \in 1..m : E[i].type = D[i].type /\ E[i].fallback = D[i].fallback
  BY EnrichIs DEF Enriched, Field
<1> HIDE DEF E
<1>3. kind \in Kinds(E) <=> \E i \in 1..m : ~E[i].fallback /\ E[i].type = kind
  BY <1>1 DEF Kinds, ToSet
<1>4. Voices(D, kind) # {} <=> \E i \in 1..m : ~D[i].fallback /\ D[i].type = kind
  BY DEF Voices, Trustworthy, ToSet
<1> QED  BY <1>2, <1>3, <1>4 DEF E

\* More evidence leaves every voice there was.
LEMMA VoicesGrow ==
  ASSUME NEW B \in Seq(Evidence), NEW C \in Seq(Evidence), ToSet(B) \subseteq ToSet(C),
         NEW D, Represents(D, B), NEW F, Represents(F, C), ~Contradiction(C), NEW kind
  PROVE  Voices(D, kind) \subseteq Voices(F, kind)
<1>1. CountedIn(B) \subseteq CountedIn(C) /\ CountedIn(C) \subseteq Evidence
  BY CountedTyped DEF CountedIn
<1> SUFFICES ASSUME NEW a \in Trustworthy(D, kind)  PROVE Voice(a) \in Voices(F, kind)
  BY DEF Voices
<1>2. PICK r \in CountedIn(B) : a = Normal(r)
  BY DEF Trustworthy, Represents
<1>3. PICK s \in CountedIn(C) : Normal(s) \in ToSet(F) /\ Subject(s) = Subject(r)
  BY <1>1 DEF Represents
<1>4. Saying(s) = Saying(r)
  BY <1>1, <1>3 DEF Contradiction
<1>5. SameLogical(Normal(s), Normal(r)) /\ Normal(s) \in Alerts
  BY <1>1, <1>3, <1>4, SameIsSaying DEF Alerts
<1>6. /\ Normal(s).type = a.type /\ Normal(s).fallback = a.fallback
      /\ Normal(s).weight = a.weight /\ Normal(s).score = a.score
  BY <1>2, <1>5, AlertDomain DEF SameLogical
<1>7. Normal(s) \in Trustworthy(F, kind) /\ Voice(Normal(s)) = Voice(a)
  BY <1>3, <1>6 DEF Trustworthy, Voice
<1> QED  BY <1>7 DEF Voices

LEMMA RiskIs ==
  ASSUME NEW D, NEW m \in Nat, DOMAIN D = 1..m
  PROVE  RiskScore(Stored(D))
           = 30 * Strongest(Stored(D), "rule") + 25 * Strongest(Stored(D), "ai")
             + 20 * (IF Asset = -1 THEN Neutral ELSE Asset)
             + 15 * (IF 20 <= m THEN 200 ELSE 10 * m)
<1>1. Len(Stored(D)) = m
  BY DEF Stored
<1>2. (200 * m) \div DensityThreshold = 10 * m
  BY DEF DensityThreshold
<1>3. Min({200, 10 * m}) = IF 20 <= m THEN 200 ELSE 10 * m
  <2>1. Min({200, 10 * m}) = IF 200 <= 10 * m THEN 200 ELSE 10 * m
    BY Smaller
  <2> QED  BY <2>1
<1>4. Weights.rule = 30 /\ Weights.ml = 25 /\ Weights.asset = 20 /\ Weights.density = 15
  BY DEF Weights
<1> DEFINE a == Strongest(Stored(D), "rule")
           b == Strongest(Stored(D), "ai")
           c == IF Asset = -1 THEN Neutral ELSE Asset
           e == Min({200, (200 * m) \div DensityThreshold})
<1>5. RiskScore(Stored(D)) = Weights.rule * a + Weights.ml * b + Weights.asset * c + Weights.density * e
  <2>1. RiskScore(Stored(D)) = Weights.rule * a + Weights.ml * b + Weights.asset * c
                               + Weights.density * Min({200, (200 * Len(Stored(D))) \div DensityThreshold})
    BY Zenon DEF RiskScore
  <2> QED  BY <1>1, <2>1, Zenon
<1>6. e = IF 20 <= m THEN 200 ELSE 10 * m
  <2> DEFINE g(x) == Min({200, x})
  <2>1. e = g((200 * m) \div DensityThreshold)
    OBVIOUS
  <2>2. g(10 * m) = IF 20 <= m THEN 200 ELSE 10 * m
    BY <1>3
  <2> HIDE DEF e, g
  <2> QED  BY <1>2, <2>1, <2>2, Zenon
<1> HIDE DEF a, b, c, e
<1>7. RiskScore(Stored(D)) = 30 * a + 25 * b + 20 * c + 15 * e
  BY <1>4, <1>5, Zenon
<1> QED  BY <1>6, <1>7, Zenon DEF a, b, c

\* More evidence of the same kinds does not lower the score.
LEMMA RiskRises ==
  ASSUME NEW B \in Seq(Evidence), NEW C \in Seq(Evidence), ToSet(B) \subseteq ToSet(C),
         Assess(B).ok, Assess(C).ok, Kinds(Assess(B).alerts) = Kinds(Assess(C).alerts)
  PROVE  /\ Assess(B).risk \in Int /\ Assess(C).risk \in Int
         /\ Assess(C).risk >= Assess(B).risk
<1> DEFINE D == UniqueOf(B)
           F == UniqueOf(C)
<1>1. Failed.ok = FALSE
  BY DEF Failed
<1>2. ~Contradiction(B) /\ ~Unknown(B) /\ ~Contradiction(C) /\ ~Unknown(C)
  BY <1>1, AssessIs
<1>3. /\ Represents(D, B) /\ Represents(F, C)
      /\ Assess(B).alerts = Enriched(D) /\ Assess(B).risk = RiskScore(Stored(D))
      /\ Assess(C).alerts = Enriched(F) /\ Assess(C).risk = RiskScore(Stored(F))
  BY <1>2, AssessIs
<1> HIDE DEF D, F
<1>4. PICK m \in Nat, n \in Nat : DOMAIN D = 1..m /\ DOMAIN F = 1..n
  BY <1>3 DEF Represents
<1>5. CountedIn(B) \subseteq CountedIn(C) /\ CountedIn(C) \subseteq Evidence
  BY CountedTyped DEF CountedIn
<1>6. (\A i \in 1..m : D[i] \in Alerts) /\ (\A i \in 1..n : F[i] \in Alerts)
  BY <1>3, <1>4, <1>5 DEF Represents, Alerts, ToSet
<1>7. m <= n
  <2> DEFINE S == {Subject(r) : r \in CountedIn(B)}
             T == {Subject(r) : r \in CountedIn(C)}
  <2>1. Cardinality(S) = m /\ IsFiniteSet(T) /\ Cardinality(T) = n
    BY <1>3, <1>4, RepresentsCount
  <2>2. S \subseteq T
    BY <1>5
  <2> HIDE DEF S, T
  <2>3. Cardinality(S) <= Cardinality(T)
    BY <2>1, <2>2, FS_Subset
  <2> QED  BY <2>1, <2>3
<1>8. ASSUME NEW kind \in {"rule", "ai"}
      PROVE  /\ Strongest(Stored(D), kind) \in Int /\ Strongest(Stored(F), kind) \in Int
             /\ Strongest(Stored(D), kind) <= Strongest(Stored(F), kind)
  <2> DEFINE V == Voices(D, kind)
             W == Voices(F, kind)
  <2>1. V \subseteq W
    BY <1>2, <1>3, VoicesGrow
  <2>2. IntSet(V) /\ IntSet(W)
    BY <1>4, <1>6, VoicesTyped
  <2>3. V = {} <=> W = {}
    <3>1. V # {} <=> kind \in Kinds(Enriched(D))
      BY <1>4, <1>6, KindsAre
    <3>2. W # {} <=> kind \in Kinds(Enriched(F))
      BY <1>4, <1>6, KindsAre
    <3> QED  BY <1>3, <3>1, <3>2
  <2>4. /\ Strongest(Stored(D), kind) = IF V = {} THEN Neutral ELSE Max(V)
        /\ Strongest(Stored(F), kind) = IF W = {} THEN Neutral ELSE Max(W)
    BY <1>4, <1>6, StrongestIs
  <2> HIDE DEF V, W
  <2>5. CASE V = {}
    BY <2>3, <2>4, <2>5 DEF Neutral
  <2>6. CASE V # {}
    <3>1. Max(V) \in V /\ Max(W) \in W /\ \A y \in W : y <= Max(W)
      BY <2>2, <2>3, <2>6, GreatestIs
    <3>2. Max(V) \in Int /\ Max(W) \in Int /\ Max(V) <= Max(W)
      BY <2>1, <2>2, <3>1 DEF IntSet
    <3> QED  BY <2>3, <2>4, <2>6, <3>2
  <2> QED  BY <2>5, <2>6
<1> DEFINE a == Strongest(Stored(D), "rule")
           b == Strongest(Stored(D), "ai")
           c == Strongest(Stored(F), "rule")
           d == Strongest(Stored(F), "ai")
           e == IF Asset = -1 THEN Neutral ELSE Asset
<1>9. a \in Int /\ b \in Int /\ c \in Int /\ d \in Int /\ a <= c /\ b <= d
  BY <1>8
<1>10. e \in Int
  BY AlertsAssumption DEF Neutral
<1>11. /\ Assess(B).risk = 30 * a + 25 * b + 20 * e + 15 * (IF 20 <= m THEN 200 ELSE 10 * m)
       /\ Assess(C).risk = 30 * c + 25 * d + 20 * e + 15 * (IF 20 <= n THEN 200 ELSE 10 * n)
  BY <1>3, <1>4, RiskIs
<1> HIDE DEF a, b, c, d, e
<1> QED  BY <1>7, <1>9, <1>10, <1>11

LEMMA SeverityRises ==
  ASSUME NEW x \in Int, NEW y \in Int, y >= x
  PROVE  RiskSeverity(y) >= RiskSeverity(x)
BY DEF RiskSeverity

\* More evidence of the kinds an incident has never lowers its risk.
THEOREM RiskAlwaysGrows == AlertsSpec => RiskGrows
<1> DEFINE Growth ==
             outcome.ok /\ outcome'.ok /\ Kinds(outcome.alerts) = Kinds(outcome'.alerts) =>
               /\ outcome'.risk >= outcome.risk
               /\ RiskSeverity(outcome'.risk) >= RiskSeverity(outcome.risk)
<1>1. ASSUME AlertsInv, [AlertsNext]_alertVars  PROVE [Growth]_alertVars
  <2>1. CASE UNCHANGED alertVars
    BY <2>1
  <2>2. CASE AlertsNext
    <3>1. PICK r \in Evidence : Arrives(r)
      BY <2>2 DEF AlertsNext
    <3>2. /\ evidence \in Seq(Evidence) /\ evidence' = Append(evidence, r)
          /\ outcome = Assess(evidence) /\ outcome' = Assess(evidence')
      BY <1>1, <3>1 DEF Arrives, AlertsInv
    <3>3. evidence' \in Seq(Evidence) /\ ToSet(evidence) \subseteq ToSet(evidence')
      BY <3>2 DEF ToSet
    <3> SUFFICES ASSUME outcome.ok, outcome'.ok,
                        Kinds(outcome.alerts) = Kinds(outcome'.alerts)
                 PROVE  /\ outcome'.risk >= outcome.risk
                        /\ RiskSeverity(outcome'.risk) >= RiskSeverity(outcome.risk)
      OBVIOUS
    <3>4. /\ outcome.risk \in Int /\ outcome'.risk \in Int
          /\ outcome'.risk >= outcome.risk
      BY <3>2, <3>3, RiskRises
    <3> QED  BY <3>4, SeverityRises
  <2> QED  BY <1>1, <2>1, <2>2
<1>2. RiskGrows <=> [][Growth]_alertVars
  BY DEF RiskGrows
<1> HIDE DEF Growth
<1> QED  BY <1>1, <1>2, AlertsInitially, AlertsStep, PTL DEF AlertsSpec

-----------------------------------------------------------------------------
(* RuleEvaluation: comparisons.                                            *)

\* The values a selection compares: typed, and that of a number is a number.
TypedValue(x) ==
  /\ x = [type |-> x.type, v |-> x.v] /\ x.v \in Seq(Int)
  /\ IsNumber(x) => Len(x.v) = 1

LEMMA UndefinedIs ==
  /\ TypedValue(Undefined) /\ Undefined.type = "undefined"
  /\ ~IsNumber(Undefined) /\ ~IsText(Undefined)
BY DEF Undefined, TypedValue, IsNumber, IsText

\* What each operator asks of a value.
LEMMA MeetsIs ==
  ASSUME NEW T, NEW x
  PROVE  /\ Meets("exact", T, x) <=> x \in T
         /\ Meets("in", T, x) <=> x \in T
         /\ Meets("not", T, x) <=> x \notin T
         /\ \A op \in {"gt", "gte", "lt", "lte"} :
              Meets(op, T, x) <=> IsNumber(x) /\ \A t \in T : Orders(op, x.v[1], t.v[1])
         /\ \A op \in {"contains", "startswith", "endswith"} :
              Meets(op, T, x) <=> IsText(x) /\ \E t \in T : Occurs(op, x.v, t.v)
BY DEF Meets

\* A prefix and a suffix are contained.
LEMMA EndsContained ==
  ASSUME NEW s \in Seq(Int), NEW t \in Seq(Int),
         Occurs("startswith", s, t) \/ Occurs("endswith", s, t)
  PROVE  Occurs("contains", s, t)
<1>1. CASE Occurs("startswith", s, t)
  <2>1. Len(t) <= Len(s) /\ SubSeq(t, 1, Len(t)) = SubSeq(s, 1, Len(t))
    BY <1>1 DEF Occurs, IsPrefix
  <2>2. SubSeq(t, 1, Len(t)) = t
    OBVIOUS
  <2>3. 0 \in 0..Len(s) - Len(t) /\ SubSeq(s, 0 + 1, 0 + Len(t)) = t
    BY <2>1, <2>2
  <2> QED  BY <2>3 DEF Occurs
<1>2. CASE Occurs("endswith", s, t)
  <2> DEFINE k == Len(s) - Len(t)
  <2>1. /\ Len(Reverse(t)) <= Len(Reverse(s))
        /\ SubSeq(Reverse(t), 1, Len(Reverse(t))) = SubSeq(Reverse(s), 1, Len(Reverse(t)))
    BY <1>2 DEF Occurs, IsSuffix, IsPrefix
  <2>2. /\ Reverse(s) \in Seq(Int) /\ Len(Reverse(s)) = Len(s)
        /\ Reverse(t) \in Seq(Int) /\ Len(Reverse(t)) = Len(t)
    BY DEF Reverse
  <2>3. k \in 0..Len(s) - Len(t)
    BY <2>1, <2>2
  <2>4. ASSUME NEW i \in 1..Len(t)  PROVE SubSeq(s, k + 1, k + Len(t))[i] = t[i]
    <3> DEFINE j == Len(t) - i + 1
    <3>1. j \in 1..Len(t)
      OBVIOUS
    <3>2. SubSeq(Reverse(t), 1, Len(Reverse(t)))[j] = SubSeq(Reverse(s), 1, Len(Reverse(t)))[j]
      BY <2>1
    <3>3. Reverse(t)[j] = Reverse(s)[j]
      <4> HIDE DEF j
      <4> QED  BY <2>1, <2>2, <3>1, <3>2
    <3>4. Reverse(t)[j] = t[i] /\ Reverse(s)[j] = s[k + i]
      BY <2>1, <2>2, <3>1 DEF Reverse
    <3>5. SubSeq(s, k + 1, k + Len(t))[i] = s[k + i]
      <4>1. k \in Nat /\ k + Len(t) <= Len(s)
        BY <2>3
      <4>2. i \in 1..k + Len(t) - (k + 1) + 1
        BY <4>1
      <4>3. SubSeq(s, k + 1, k + Len(t))[i] = s[(k + 1) + i - 1]
        <5> HIDE DEF k
        <5> QED  BY <4>1, <4>2
      <4> QED  BY <4>1, <4>3
    <3> QED  BY <3>3, <3>4, <3>5
  <2>5. SubSeq(s, k + 1, k + Len(t)) \in Seq(Int) /\ Len(SubSeq(s, k + 1, k + Len(t))) = Len(t)
    <3> DEFINE n == k + Len(t)
    <3>1. k + 1 \in 1..Len(s) + 1 /\ n <= Len(s) /\ n \in Nat /\ k \in Nat /\ Len(t) \in Nat /\ n = k + Len(t)
      BY <2>1, <2>2, <2>3
    <3> HIDE DEF k, n
    <3>2. \A i \in k + 1..n : s[i] \in Int
      BY <2>1, <3>1
    <3>3. SubSeq(s, k + 1, n) \in Seq(Int) /\ Len(SubSeq(s, k + 1, n)) = n - (k + 1) + 1
      BY <2>1, <3>1, <3>2
    <3> QED  BY <3>1, <3>3 DEF n
  <2>6. SubSeq(s, k + 1, k + Len(t)) = t
    <3> DEFINE u == SubSeq(s, k + 1, k + Len(t))
    <3> HIDE DEF u
    <3>1. u \in Seq(Int) /\ Len(u) = Len(t) /\ \A i \in 1..Len(t) : u[i] = t[i]
      BY <2>4, <2>5 DEF u
    <3>2. u = t
      BY <3>1, SeqEqual
    <3> QED  BY <3>2 DEF u
  <2> HIDE DEF k
  <2> QED  BY <2>3, <2>6 DEF Occurs
<1> QED  BY <1>1, <1>2

\* The laws hold of two values and any value or an absent field.
LEMMA LawsHold ==
  ASSUME NEW t, NEW u, NEW x, TypedValue(t), TypedValue(u), TypedValue(x),
         t.type # "undefined", u.type # "undefined"
  PROVE  ComparisonLaws({t, u}, x)
<1> DEFINE T == {t, u}
<1>1. TargetFits("in", T) => Meets("not", T, x) = ~Meets("in", T, x)
  <2>1. Meets("not", T, x) \in BOOLEAN /\ Meets("in", T, x) \in BOOLEAN
    BY DEF Meets
  <2> QED  BY <2>1, MeetsIs
<1>2. ASSUME TargetFits("gt", T)
      PROVE  /\ Meets("gte", T, x) <=> Meets("gt", T, x) \/ (IsNumber(x) /\ x \in T)
             /\ IsNumber(x) => (Meets("gt", T, x) <=> ~Meets("lte", T, x))
             /\ Meets("gt", T, x) \/ Meets("lt", T, x) => IsNumber(x)
  <2>1. T = {t} /\ IsNumber(t)
    <3>1. Cardinality(T) = 1 /\ IsNumber(t)
      BY <1>2 DEF TargetFits
    <3>2. IsFiniteSet(T)
      <4>1. IsFiniteSet({t}) /\ T = {t} \cup {u}
        BY FS_Singleton
      <4> QED  BY <4>1, FS_AddElement
    <3>3. PICK y : T = {y}
      BY <3>1, <3>2, FS_Singleton
    <3> QED  BY <3>1, <3>3
  <2>2. t.v[1] \in Int /\ (IsNumber(x) => x.v[1] \in Int)
    BY <2>1 DEF TypedValue
  <2>3. IsNumber(x) => (x \in T <=> x.v[1] = t.v[1])
    <3>1. ASSUME IsNumber(x), x.v[1] = t.v[1]  PROVE x = t
      <4>1. x.v = t.v
        BY <2>1, <3>1, SeqEqual DEF TypedValue
      <4> QED  BY <2>1, <3>1, <4>1 DEF TypedValue, IsNumber
    <3> QED  BY <2>1, <3>1
  <2>4. /\ Orders("gt", x.v[1], t.v[1]) <=> x.v[1] > t.v[1]
        /\ Orders("gte", x.v[1], t.v[1]) <=> x.v[1] >= t.v[1]
        /\ Orders("lt", x.v[1], t.v[1]) <=> x.v[1] < t.v[1]
        /\ Orders("lte", x.v[1], t.v[1]) <=> x.v[1] <= t.v[1]
    BY DEF Orders
  <2>5. \A op \in {"gt", "gte", "lt", "lte"} :
          Meets(op, T, x) <=> IsNumber(x) /\ Orders(op, x.v[1], t.v[1])
    <3> HIDE DEF T
    <3>1. \A op : (\A y \in T : Orders(op, x.v[1], y.v[1])) <=> Orders(op, x.v[1], t.v[1])
      BY <2>1
    <3> QED  BY <3>1, MeetsIs
  <2> HIDE DEF T
  <2> QED  BY <2>2, <2>3, <2>4, <2>5
<1>3. Meets("startswith", T, x) \/ Meets("endswith", T, x) => Meets("contains", T, x)
  <2>1. \A y \in T : Occurs("startswith", x.v, y.v) \/ Occurs("endswith", x.v, y.v)
                       => Occurs("contains", x.v, y.v)
    BY EndsContained DEF TypedValue
  <2> HIDE DEF T
  <2> QED  BY <2>1, MeetsIs
<1>4. ASSUME x = Undefined, NEW op \in {"exact", "in", "gt", "contains", "endswith"}
      PROVE  ~Meets(op, T, x)
  <2>1. x \notin T /\ ~IsNumber(x) /\ ~IsText(x)
    BY <1>4, UndefinedIs
  <2> HIDE DEF T
  <2> QED  BY <2>1, MeetsIs
<1> HIDE DEF T
<1>5. ComparisonLaws(T, x)
  BY <1>1, <1>2, <1>3, <1>4 DEF ComparisonLaws
<1> QED  BY <1>5 DEF T

-----------------------------------------------------------------------------
(* RuleEvaluation: rule documents.                                         *)

\* A document passes exactly if it fails none of the checks.
LEMMA PassesIs ==
  ASSUME NEW checks, DOMAIN checks \subseteq Nat, \A k \in DOMAIN checks : checks[k] # "none",
         NEW failing
  PROVE  FirstFailed(checks, failing) = "none" <=> \A k \in DOMAIN checks : checks[k] \notin failing
<1> DEFINE bad == {k \in DOMAIN checks : checks[k] \in failing}
<1>1. CASE bad = {}
  BY <1>1 DEF FirstFailed
<1>2. CASE bad # {}
  <2>1. \E k \in bad : \A l \in bad : k <= l
    <3>1. bad \subseteq Nat
      OBVIOUS
    <3> HIDE DEF bad
    <3> QED  BY <1>2, <3>1, LeastNatural
  <2>2. (CHOOSE k \in bad : \A l \in bad : k <= l) \in bad
    BY <2>1
  <2>3. FirstFailed(checks, failing) = checks[CHOOSE k \in bad : \A l \in bad : k <= l]
    BY <1>2 DEF FirstFailed
  <2> QED  BY <1>2, <2>2, <2>3
<1> QED  BY <1>1, <1>2

LEMMA CheckLists ==
  /\ DOMAIN MatchChecks \subseteq Nat /\ \A k \in DOMAIN MatchChecks : MatchChecks[k] # "none"
  /\ DOMAIN CountChecks \subseteq Nat /\ \A k \in DOMAIN CountChecks : CountChecks[k] # "none"
  /\ 15 \in DOMAIN MatchChecks /\ MatchChecks[15] = "detection.stateless"
  /\ 3 \in DOMAIN CountChecks /\ CountChecks[3] = "detection.count"
<1>1. DOMAIN MatchChecks = 1..19 /\ DOMAIN CountChecks = 1..7
  BY DEF MatchChecks, CountChecks
<1>2. MatchChecks[15] = "detection.stateless" /\ CountChecks[3] = "detection.count"
  BY DEF MatchChecks, CountChecks
<1>3. \A k \in 1..7 : CountChecks[k] # "none"
  <2>1. \A k \in 1..4 : CountChecks[k] # "none"
    BY DEF CountChecks
  <2>2. \A k \in 5..7 : CountChecks[k] # "none"
    BY DEF CountChecks
  <2> QED  BY <2>1, <2>2
<1>4. \A k \in 1..19 : MatchChecks[k] # "none"
  <2>1. \A k \in 1..10 : MatchChecks[k] # "none"
    BY DEF MatchChecks
  <2>2. \A k \in 11..19 : MatchChecks[k] # "none"
    BY DEF MatchChecks
  <2> QED  BY <2>1, <2>2
<1> QED  BY <1>1, <1>2, <1>3, <1>4

\* Whatever a document fails, one loader takes it at most, that of its type.
LEMMA LoadedByOne ==
  ASSUME NEW failing, NEW c \in BOOLEAN, NEW s \in BOOLEAN
  PROVE  OneLoaderTakesIt(failing, c, s)
<1> SUFFICES ASSUME CompileSupported(failing, c, s) = "none"
             PROVE  /\ (CompileMatch(failing, c) = "none") = ~c
                    /\ (CompileCount(failing, c) = "none") = c
  BY DEF OneLoaderTakesIt
<1>1. FirstFailed(<<"$", "detection">>, failing) = "none"
  BY DEF CompileSupported
<1>2. IF c THEN CompileCount(failing, TRUE) = "none" ELSE CompileMatch(failing, FALSE) = "none"
  BY <1>1 DEF CompileSupported
<1>3. CASE c
  <2>1. CompileMatch(failing, c) # "none"
    BY <1>3, PassesIs, CheckLists DEF CompileMatch
  <2> QED  BY <1>2, <1>3, <2>1
<1>4. CASE ~c
  <2>1. CompileCount(failing, c) # "none"
    <3>1. FirstFailed(CountChecks, failing \cup {"detection.count"}) # "none"
      BY PassesIs, CheckLists
    <3> QED  BY <1>4, <3>1 DEF CompileCount
  <2> QED  BY <1>2, <1>4, <2>1
<1> QED  BY <1>3, <1>4

-----------------------------------------------------------------------------
(* RuleEvaluation: the dry run beside the worker.                          *)

Mine(rule, events) ==
  {i \in DOMAIN events : events[i].class = rule.class /\ rule.category \in {0, events[i].category}}

\* The events that are listed are those the class and category of the rule ask
\* for, all of them if there are no more events than the limit.
LEMMA ListedIs ==
  ASSUME NEW rule, NEW events, NEW limit \in Nat, NEW n \in Nat, DOMAIN events = 1..n, n <= limit
  PROVE  Listed(rule, events, limit) = Mine(rule, events)
<1> DEFINE M == Mine(rule, events)
<1>1. ASSUME NEW i \in M  PROVE Cardinality(M \cap 1..i) <= limit
  <2>1. i \in 1..n /\ M \cap 1..i \in SUBSET (1..n)
    BY DEF Mine
  <2>2. IsFiniteSet(1..n) /\ Cardinality(1..n) = n
    BY FS_Interval
  <2>3. Cardinality(M \cap 1..i) <= n /\ IsFiniteSet(M \cap 1..i)
    <3> HIDE DEF M
    <3> QED  BY <2>1, <2>2, FS_Subset
  <2>4. Cardinality(M \cap 1..i) \in Nat
    <3> HIDE DEF M
    <3> QED  BY <2>3, FS_CardinalityType
  <2> HIDE DEF M
  <2> QED  BY <2>3, <2>4
<1>2. Listed(rule, events, limit) = {i \in M : Cardinality(M \cap 1..i) <= limit}
  BY DEF Listed, Mine
<1> HIDE DEF M
<1>3. {i \in M : Cardinality(M \cap 1..i) <= limit} = M
  BY <1>1
<1> QED  BY <1>2, <1>3 DEF M

\* A rule matches events of its class and category only.
LEMMA MatchesMine ==
  ASSUME NEW rule, NEW events, NEW i \in DOMAIN events, RuleMatches(rule, events[i])
  PROVE  i \in Mine(rule, events)
BY DEF RuleMatches, Mine

\* Windows hold events of the range.
Within(counts, events) == \A k \in DOMAIN counts.windows : counts.windows[k] \subseteq DOMAIN events

LEMMA NothingCounted ==
  ASSUME NEW events
  PROVE  Within(NoCounts, events)
BY DEF Within, NoCounts

LEMMA CountWindowWithin ==
  ASSUME NEW events, NEW counts, Within(counts, events), NEW k
  PROVE  CountWindow(counts, k) \subseteq DOMAIN events
BY DEF CountWindow, Within

\* One event: the script and the filter of the dry run keep the same events.
LEMMA SameStep ==
  ASSUME NEW rule, rule.window \in Int,
         NEW events, \A i \in DOMAIN events : events[i].time \in Int,
         NEW counts, Within(counts, events), NEW i \in DOMAIN events
  PROVE  LET clock == [j \in DOMAIN events |-> events[j].time]
             live == LiveStep(rule, events, clock, counts, i)
         IN /\ live = IF i \in Mine(rule, events) THEN DryRunStep(rule, events, counts, i) ELSE counts
            /\ Within(live, events)
<1> DEFINE clock == [j \in DOMAIN events |-> events[j].time]
           live == LiveStep(rule, events, clock, counts, i)
           x == ResolveField(events[i].fields, rule.field)
           W == CountWindow(counts, x)
           kept == {j \in W : ~(clock[j] <= clock[i] - rule.window)}
           dry == {j \in W : events[j].time > events[i].time - rule.window}
           skips == ~RuleMatches(rule, events[i]) \/ EntityKey(x) = {}
<1>1. W \subseteq DOMAIN events
  BY CountWindowWithin
<1>2. kept = dry
  <2>1. \A j \in W : clock[j] = events[j].time /\ events[j].time \in Int
    BY <1>1
  <2>2. clock[i] = events[i].time /\ events[i].time \in Int
    OBVIOUS
  <2> HIDE DEF clock, W
  <2> QED  BY <2>1, <2>2
<1>3. live = IF skips THEN counts ELSE Recorded(rule, counts, x, kept \cup {i})
  BY DEF LiveStep
<1>4. DryRunStep(rule, events, counts, i)
        = IF skips THEN counts ELSE Recorded(rule, counts, x, dry \cup {i})
  BY DEF DryRunStep
<1>5. i \notin Mine(rule, events) => skips
  BY MatchesMine
<1>6. live = IF i \in Mine(rule, events) THEN DryRunStep(rule, events, counts, i) ELSE counts
  <2> HIDE DEF live, x, kept, dry, skips
  <2> QED  BY <1>2, <1>3, <1>4, <1>5
<1>7. Within(live, events)
  <2>1. kept \cup {i} \subseteq DOMAIN events
    BY <1>1
  <2> HIDE DEF kept, x, W
  <2>2. Within(Recorded(rule, counts, x, kept \cup {i}), events)
    BY <2>1 DEF Within, Recorded
  <2> HIDE DEF live, skips
  <2> QED  BY <1>3, <2>2
<1> QED  BY <1>6, <1>7

\* The counts of the worker after each of the first m events, and those of the
\* dry run.
LiveCounts(f, rule, events, clock, m) ==
  f = [i \in 0..m |-> IF i = 0 THEN NoCounts ELSE LiveStep(rule, events, clock, f[i - 1], i)]
DryCounts(f, rule, events, listed, m) ==
  f = [i \in 0..m |-> IF i = 0 THEN NoCounts
                      ELSE IF i \in listed THEN DryRunStep(rule, events, f[i - 1], i)
                      ELSE f[i - 1]]

\* The worker counts after any number of events.
LEMMA LiveCountsExist ==
  ASSUME NEW rule, NEW events, NEW clock, NEW n \in Nat
  PROVE  \E f : LiveCounts(f, rule, events, clock, n)
<1> DEFINE Without == {m \in Nat : ~\E f : LiveCounts(f, rule, events, clock, m)}
<1> SUFFICES ASSUME Without # {}  PROVE FALSE
  OBVIOUS
<1>1. PICK m \in Without : \A k \in Without : m <= k
  <2>1. Without \subseteq Nat
    OBVIOUS
  <2> HIDE DEF Without
  <2> QED  BY <2>1, LeastNatural
<1>2. CASE m = 0
  <2>1. LiveCounts([i \in 0..0 |-> NoCounts], rule, events, clock, 0)
    BY DEF LiveCounts
  <2> QED  BY <1>1, <1>2, <2>1
<1>3. CASE m # 0
  <2>1. m - 1 \in Nat /\ m \in Nat /\ m - 1 \notin Without
    BY <1>1, <1>3
  <2>2. PICK f : LiveCounts(f, rule, events, clock, m - 1)
    BY <2>1
  <2> DEFINE g == [i \in 0..m |-> IF i = m THEN LiveStep(rule, events, clock, f[m - 1], m) ELSE f[i]]
  <2>3. ASSUME NEW i \in 0..m
        PROVE  g[i] = IF i = 0 THEN NoCounts ELSE LiveStep(rule, events, clock, g[i - 1], i)
    <3>1. CASE i = m
      BY <1>3, <2>1, <3>1
    <3>2. CASE i # m
      <4>1. i \in 0..m - 1 /\ g[i] = f[i] /\ (i # 0 => i - 1 \in 0..m /\ i - 1 # m /\ g[i - 1] = f[i - 1])
        BY <2>1, <3>2
      <4>2. f[i] = IF i = 0 THEN NoCounts ELSE LiveStep(rule, events, clock, f[i - 1], i)
        BY <2>2, <4>1 DEF LiveCounts
      <4> HIDE DEF g
      <4> QED  BY <4>1, <4>2
    <3> QED  BY <3>1, <3>2
  <2>4. g = [i \in 0..m |-> g[i]]
    OBVIOUS
  <2>5. LiveCounts(g, rule, events, clock, m)
    <3> HIDE DEF g
    <3> QED  BY <2>3, <2>4 DEF LiveCounts
  <2> QED  BY <1>1, <2>5
<1> QED  BY <1>2, <1>3

\* Along the events the windows stay within the range.
LEMMA CountsWithin ==
  ASSUME NEW rule, rule.window \in Int, NEW events, NEW n \in Nat, DOMAIN events = 1..n,
         \A i \in DOMAIN events : events[i].time \in Int, NEW f,
         LiveCounts(f, rule, events, [i \in DOMAIN events |-> events[i].time], n)
  PROVE  \A i \in 0..n : Within(f[i], events)
<1> DEFINE clock == [i \in DOMAIN events |-> events[i].time]
           Beyond == {i \in 0..n : ~Within(f[i], events)}
<1> SUFFICES ASSUME Beyond # {}  PROVE FALSE
  OBVIOUS
<1>1. PICK i \in Beyond : \A k \in Beyond : i <= k
  <2>1. Beyond \subseteq Nat
    OBVIOUS
  <2> HIDE DEF Beyond
  <2> QED  BY <2>1, LeastNatural
<1>2. f[i] = IF i = 0 THEN NoCounts ELSE LiveStep(rule, events, clock, f[i - 1], i)
  BY DEF LiveCounts
<1>3. CASE i = 0
  BY <1>1, <1>2, <1>3, NothingCounted
<1>4. CASE i # 0
  <2>1. i - 1 \in 0..n /\ i - 1 \notin Beyond /\ i \in DOMAIN events
    BY <1>1, <1>4
  <2>2. Within(f[i - 1], events)
    BY <2>1
  <2>3. Within(LiveStep(rule, events, clock, f[i - 1], i), events)
    BY <2>1, <2>2, SameStep
  <2> QED  BY <1>1, <1>2, <1>4, <2>3
<1> QED  BY <1>3, <1>4

\* The dry run counts in one way.
LEMMA DryCountsUnique ==
  ASSUME NEW rule, NEW events, NEW listed, NEW n \in Nat,
         NEW f, DryCounts(f, rule, events, listed, n), NEW g, DryCounts(g, rule, events, listed, n)
  PROVE  f[n] = g[n]
<1> DEFINE Differ == {i \in 0..n : f[i] # g[i]}
<1> SUFFICES ASSUME Differ # {}  PROVE FALSE
  OBVIOUS
<1>1. PICK i \in Differ : \A k \in Differ : i <= k
  <2>1. Differ \subseteq Nat
    OBVIOUS
  <2> HIDE DEF Differ
  <2> QED  BY <2>1, LeastNatural
<1>2. f[i] = IF i = 0 THEN NoCounts
             ELSE IF i \in listed THEN DryRunStep(rule, events, f[i - 1], i) ELSE f[i - 1]
  BY DEF DryCounts
<1>3. g[i] = IF i = 0 THEN NoCounts
             ELSE IF i \in listed THEN DryRunStep(rule, events, g[i - 1], i) ELSE g[i - 1]
  BY DEF DryCounts
<1>4. i # 0 => i - 1 \in 0..n /\ i - 1 \notin Differ
  BY <1>1
<1>5. i # 0 => f[i - 1] = g[i - 1]
  BY <1>4
<1> QED  BY <1>1, <1>2, <1>3, <1>5

\* The alerts are the same, whichever way they are counted.
LEMMA SameAlerts ==
  ASSUME NEW rule, rule.window \in Int, NEW events, NEW n \in Nat, Len(events) = n,
         DOMAIN events = 1..n, \A i \in DOMAIN events : events[i].time \in Int,
         NEW limit \in Nat, n <= limit
  PROVE  DryRunAlerts(rule, events, limit)
           = LiveAlerts(rule, events, [i \in DOMAIN events |-> events[i].time])
<1> DEFINE clock == [i \in DOMAIN events |-> events[i].time]
           listed == Listed(rule, events, limit)
<1>1. listed = Mine(rule, events)
  BY ListedIs
<1>2. CASE rule.type = "match"
  <2>1. {j \in listed : RuleMatches(rule, events[j])}
          = {j \in DOMAIN events : RuleMatches(rule, events[j])}
    <3>1. listed \subseteq DOMAIN events
      BY <1>1 DEF Mine
    <3> HIDE DEF listed
    <3> QED  BY <1>1, <3>1, MatchesMine
  <2>2. MatchAlerts(rule, events, listed) = MatchAlerts(rule, events, DOMAIN events)
    BY <2>1 DEF MatchAlerts
  <2> QED  BY <1>2, <2>2 DEF DryRunAlerts, LiveAlerts
<1>3. CASE rule.type # "match"
  <2> DEFINE f == CHOOSE h : LiveCounts(h, rule, events, clock, n)
             g == CHOOSE h : DryCounts(h, rule, events, listed, n)
  <2>1. LiveCounts(f, rule, events, clock, n)
    <3> HIDE DEF clock
    <3> QED  BY LiveCountsExist
  <2>2. LiveAlerts(rule, events, clock) = f[n].alerts
    BY <1>3 DEF LiveAlerts, LiveCounts
  <2>3. DryRunAlerts(rule, events, limit) = g[n].alerts
    BY <1>3 DEF DryRunAlerts, DryCounts
  <2> HIDE DEF f
  <2>4. \A i \in 0..n : Within(f[i], events)
    BY <2>1, CountsWithin
  <2>5. DryCounts(f, rule, events, listed, n)
    <3>1. f = [i \in 0..n |-> IF i = 0 THEN NoCounts ELSE LiveStep(rule, events, clock, f[i - 1], i)]
      BY <2>1 DEF LiveCounts
    <3>2. ASSUME NEW i \in 0..n, i # 0
          PROVE  LiveStep(rule, events, clock, f[i - 1], i)
                   = IF i \in listed THEN DryRunStep(rule, events, f[i - 1], i) ELSE f[i - 1]
      <4>1. i - 1 \in 0..n /\ i \in DOMAIN events
        BY <3>2
      <4>2. Within(f[i - 1], events)
        BY <2>4, <4>1
      <4> HIDE DEF listed
      <4> QED  BY <1>1, <4>1, <4>2, SameStep
    <3> HIDE DEF clock, listed
    <3>3. \A i \in 0..n :
            f[i] = IF i = 0 THEN NoCounts
                   ELSE IF i \in listed THEN DryRunStep(rule, events, f[i - 1], i) ELSE f[i - 1]
      BY <3>1, <3>2
    <3>4. f = [i \in 0..n |-> f[i]]
      BY <3>1
    <3> QED  BY <3>3, <3>4 DEF DryCounts
  <2>6. DryCounts(g, rule, events, listed, n)
    <3> HIDE DEF listed
    <3> QED  BY <2>5
  <2> HIDE DEF g, listed
  <2>7. f[n] = g[n]
    BY <2>5, <2>6, DryCountsUnique
  <2> QED  BY <2>2, <2>3, <2>7
<1> QED  BY <1>2, <1>3

\* What is evaluated: documents, comparisons of typed values, and histories of
\* no more events than the bound, whose times are numbers.
Happening(i, t, c) ==
  [id |-> i, time |-> t, class |-> c.class, category |-> c.category, fields |-> c.fields]
Happened == {Happening(w[1], w[2], w[3]) : w \in Nat \X Int \X Candidate}

EvaluationInv ==
  \/ trial = [kind |-> "none"]
  \/ \E failing \in SUBSET Flag, c, s \in BOOLEAN :
       trial = [kind |-> "document", failing |-> failing, count |-> c, sequence |-> s]
  \/ \E t, u \in Comparable, x \in Comparable \cup {Undefined} :
       trial = [kind |-> "comparison", targets |-> {t, u}, value |-> x]
  \/ \E events \in Seq(Happened) :
       trial = [kind |-> "history", events |-> events] /\ Len(events) <= RuleEvents

LEMMA EvaluationInitially == EvaluationInit => EvaluationInv
BY DEF EvaluationInit, EvaluationInv

LEMMA EvaluationStep ==
  ASSUME EvaluationInv, [EvaluationNext]_trial
  PROVE  EvaluationInv'
<1> USE EvaluationAssumption
<1>1. CASE UNCHANGED trial
  BY <1>1 DEF EvaluationInv
<1>2. CASE Submit
  <2>1. UpToTwo \subseteq SUBSET Flag
    BY DEF UpToTwo
  <2>2. PICK failing \in UpToTwo, c \in BOOLEAN, s \in BOOLEAN :
          trial' = [kind |-> "document", failing |-> failing, count |-> c, sequence |-> s]
    BY <1>2 DEF Submit
  <2>3. failing \in SUBSET Flag
    BY <2>1
  <2> QED  BY <2>2, <2>3, Zenon DEF EvaluationInv
<1>3. CASE Compare
  BY <1>3 DEF Compare, EvaluationInv
<1>4. ASSUME NEW c \in Candidate, NEW gap \in Gap, Happens(c, gap)  PROVE EvaluationInv'
  <2> DEFINE past == IF trial.kind = "none" THEN <<>> ELSE trial.events
             time == IF past = <<>> THEN 0 ELSE past[Len(past)].time + gap
             e == [id |-> Len(past) + 1, time |-> time, class |-> c.class,
                   category |-> c.category, fields |-> c.fields]
  <2>1. past \in Seq(Happened)
    <3>1. CASE trial.kind = "none"
      BY <3>1
    <3>2. CASE trial.kind = "history"
      BY <3>2 DEF EvaluationInv
    <3> QED  BY <1>4, <3>1, <3>2 DEF Happens
  <2>2. Len(past) < RuleEvents /\ trial' = [kind |-> "history", events |-> Append(past, e)]
    BY <1>4 DEF Happens
  <2>3. time \in Int
    <3> HIDE DEF past
    <3>1. CASE past # <<>>
      <4>1. past[Len(past)] \in Happened
        BY <2>1, <3>1
      <4>2. past[Len(past)].time \in Int
        BY <4>1 DEF Happened, Happening
      <4> QED  BY <4>2
    <3> QED  BY <3>1
  <2>4. e \in Happened
    <3> HIDE DEF past, time
    <3> DEFINE w == <<Len(past) + 1, time, c>>
    <3>1. w \in Nat \X Int \X Candidate
      BY <1>4, <2>1, <2>3
    <3>2. e = Happening(w[1], w[2], w[3])
      BY DEF Happening
    <3> HIDE DEF w, e
    <3> QED  BY <3>1, <3>2 DEF Happened
  <2>5. Append(past, e) \in Seq(Happened) /\ Len(Append(past, e)) <= RuleEvents
    <3> HIDE DEF past, e
    <3> QED  BY <2>1, <2>2, <2>4
  <2> HIDE DEF past, e
  <2> QED  BY <2>2, <2>5 DEF EvaluationInv
<1> QED  BY <1>1, <1>2, <1>3, <1>4 DEF EvaluationNext

\* For any flags, values, rules, events and times in between: a document that is
\* accepted is loaded once, comparisons obey their laws, and the dry run reports
\* what the worker raises.
LEMMA EvaluationIsSound ==
  ASSUME EvaluationInv
  PROVE  OneLoader /\ ComparisonsObey /\ DryRunAgrees
<1> USE EvaluationAssumption
<1>1. OneLoader
  <2>1. ASSUME trial.kind = "document"
        PROVE  trial.count \in BOOLEAN /\ trial.sequence \in BOOLEAN
    BY <2>1 DEF EvaluationInv
  <2> QED  BY <2>1, LoadedByOne DEF OneLoader
<1>2. ComparisonsObey
  <2> SUFFICES ASSUME trial.kind = "comparison"
               PROVE  ComparisonLaws(trial.targets, trial.value)
    BY DEF ComparisonsObey
  <2>1. PICK t \in Comparable, u \in Comparable, x \in Comparable \cup {Undefined} :
          trial = [kind |-> "comparison", targets |-> {t, u}, value |-> x]
    BY DEF EvaluationInv
  <2>2. TypedValue(t) /\ TypedValue(u) /\ TypedValue(x) /\ t.type # "undefined" /\ u.type # "undefined"
    BY UndefinedIs DEF EvaluationAssumption, TypedValue
  <2>3. ComparisonLaws({t, u}, x)
    BY <2>2, LawsHold
  <2> QED  BY <2>1, <2>3
<1>3. DryRunAgrees
  <2> SUFFICES ASSUME trial.kind = "history", NEW rule \in CompiledRule
               PROVE  DryRun(rule, trial.events, RuleEvents)
                        = Summary(trial.events, LiveAlerts(rule, trial.events,
                                    [i \in DOMAIN trial.events |-> trial.events[i].time]))
    BY DEF DryRunAgrees
  <2>1. PICK events \in Seq(Happened) :
          trial = [kind |-> "history", events |-> events] /\ Len(events) <= RuleEvents
    BY DEF EvaluationInv
  <2>2. \A i \in DOMAIN events : events[i].time \in Int
    BY DEF Happened, Happening
  <2>3. Len(events) \in Nat /\ DOMAIN events = 1..Len(events)
    OBVIOUS
  <2>4. rule.window \in Int /\ RuleEvents \in Nat
    BY DEF EvaluationAssumption
  <2>5. DryRunAlerts(rule, events, RuleEvents)
          = LiveAlerts(rule, events, [i \in DOMAIN events |-> events[i].time])
    BY <2>1, <2>2, <2>3, <2>4, SameAlerts
  <2>6. trial.events = events
    BY <2>1
  <2> QED  BY <2>5, <2>6 DEF DryRun
<1> QED  BY <1>1, <1>2, <1>3

\* The document of a rule that is accepted is taken by the loader of its type
\* only, whichever checks it fails.
THEOREM DocumentsLoadedOnce == EvaluationSpec => []OneLoader
BY EvaluationInitially, EvaluationStep, EvaluationIsSound, PTL DEF EvaluationSpec

\* Comparisons obey their laws, for any values.
THEOREM ComparisonsAlwaysObey == EvaluationSpec => []ComparisonsObey
BY EvaluationInitially, EvaluationStep, EvaluationIsSound, PTL DEF EvaluationSpec

\* The dry run reports what the worker raises, for any rules and events,
\* whatever conditions mean.
THEOREM DryRunAlwaysAgrees == EvaluationSpec => []DryRunAgrees
BY EvaluationInitially, EvaluationStep, EvaluationIsSound, PTL DEF EvaluationSpec
=============================================================================
