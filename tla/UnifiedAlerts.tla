--------------------------- MODULE UnifiedAlerts ---------------------------
(***************************************************************************)
(* The evidence of a batch made one: rule alerts and AI results become     *)
(* alerts of one form, those that say the same are merged, each alert gets *)
(* the entities of its events, and an incident of such alerts gets a risk  *)
(* score.  These are functions of a batch; the batch grows step by step,   *)
(* so that what one more piece of evidence changes can be stated.          *)
(*                                                                         *)
(* Scores and weights are in two-hundredths of 1, the risk score in        *)
(* two-hundredths of a point: a weight is stored with two digits, and is   *)
(* rounded, a score with four, and is not.                                 *)
(***************************************************************************)
EXTENDS Integers, Sequences, SequencesExt, FiniteSets, FiniteSetsExt

CONSTANTS
  Evidence,    \* rule alerts and AI results that may come
  EventFields, \* event -> entity type -> raw value, of the types it has
  Asset,       \* criticality of the primary entity, or -1
  MaxEvidence  \* bound: pieces of evidence in a batch

VARIABLES
  evidence, \* what the engines have found in the batch so far
  outcome   \* what correlation makes of it

alertVars == <<evidence, outcome>>

Failed == [ok |-> FALSE]

-----------------------------------------------------------------------------
(* Sorting.                                                                *)

\* The numbers of S in their order.
Ascending(S) ==
  CHOOSE t \in [1..Cardinality(S) -> S] : \A i, j \in DOMAIN t : i < j => t[i] < t[j]

\* What s has at the places S.
Picked(s, S) == LET places == Ascending(S) IN [i \in DOMAIN places |-> s[places[i]]]

\* Array.sort: each value as often as before, in their order.
InOrderOf(t, s) ==
  /\ \A i, j \in DOMAIN t : i < j => t[i] <= t[j]
  /\ \A x \in ToSet(s) :
       Cardinality({i \in DOMAIN t : t[i] = x}) = Cardinality({i \in DOMAIN s : s[i] = x})

Sorted(s) == CHOOSE t \in [DOMAIN s -> ToSet(s)] : InOrderOf(t, s)

-----------------------------------------------------------------------------
(* UnifiedAlertMerger.                                                     *)

\* Mutant: the events stay as the engine listed them.
EventIdsAsListed(events) == events

\* normalizeEventIds: without repetition, sorted.
NormalizeEventIds(events) == Ascending(ToSet(events))

\* createDeterministicAiAlertId.
AiAlertId(r) == <<"ai", r.events, r.name, r.version>>

\* classifyAiSeverity.
AiSeverity(score) ==
  CASE score >= 160 -> "critical" [] score >= 120 -> "high" [] score >= 80 -> "medium"
    [] score >= 40 -> "low" [] OTHER -> "informational"

\* The time and the identity of the stored alert are not part of its content.
NormalizeRule(r) ==
  [id |-> r.id, type |-> "rule", name |-> r.name, version |-> "none", severity |-> r.severity,
   weight |-> r.weight, score |-> -1, events |-> NormalizeEventIds(r.events),
   fallback |-> FALSE]

NormalizeAi(r) ==
  [id |-> AiAlertId(r), type |-> "ai", name |-> r.name, version |-> r.version,
   severity |-> AiSeverity(r.weight), weight |-> r.weight, score |-> r.weight,
   events |-> r.events, fallback |-> r.fallback]

\* What becomes an alert: the rule alerts, and the anomalies of the model.
Counted(r) == r.type = "rule" \/ r.anomaly

\* merge: rule alerts first.
Merge(given) ==
  LET rules == Picked(given, {i \in DOMAIN given : given[i].type = "rule"})
      anomalies ==
        Picked(given, {i \in DOMAIN given : given[i].type = "ai" /\ Counted(given[i])})
  IN [i \in DOMAIN rules |-> NormalizeRule(rules[i])]
     \o [i \in DOMAIN anomalies |-> NormalizeAi(anomalies[i])]

\* A rule alert has an event.
MergeAccepts(given) == \A r \in ToSet(given) : r.events # <<>>

-----------------------------------------------------------------------------
(* UnifiedAlertDeduplicator.                                               *)

\* createUnifiedAlertDedupKey.
DedupKey(a) == <<a.type, a.name, a.version, Sorted(a.events)>>

\* sameLogicalAlert, of two alerts with one key.
SameLogical(a, b) == \A f \in DOMAIN a \ {"id"} : a[f] = b[f]

\* The first alert of each key stays; one that says otherwise is an error.
Deduplicate(merged) ==
  LET first(i) == \A j \in 1..i - 1 : DedupKey(merged[j]) # DedupKey(merged[i])
      kept == {i \in DOMAIN merged : first(i)}
  IN IF \E i \in DOMAIN merged, j \in kept :
          DedupKey(merged[i]) = DedupKey(merged[j]) /\ ~SameLogical(merged[i], merged[j])
     THEN <<Failed>>
     ELSE Picked(merged, kept)

-----------------------------------------------------------------------------
(* UnifiedAlertEntityExtractor and normalizeIncidentEntity.                *)

\* A raw value is a base, written in some case, with one suffix at most.
NormalizeEntity(type, value) ==
  [type |-> type, base |-> value.base,
   suffix |-> IF \/ type = "user" /\ value.suffix = "@localhost"
                 \/ type \in {"host", "src_host"} /\ value.suffix = ".corp"
              THEN "" ELSE value.suffix]

ExtractEntities(event) ==
  {NormalizeEntity(t, EventFields[event][t]) : t \in DOMAIN EventFields[event]}

Enrich(a) ==
  [f \in DOMAIN a \cup {"entities"} |->
     IF f = "entities" THEN UNION {ExtractEntities(e) : e \in ToSet(a.events)} ELSE a[f]]

\* The pipeline before the transaction; an event that is missing fails it.
Pipeline(given) ==
  LET unique == Deduplicate(Merge(given)) IN
    IF ~MergeAccepts(given) \/ unique = <<Failed>> THEN Failed
    ELSE IF \E a \in ToSet(unique) : ~(ToSet(a.events) \subseteq DOMAIN EventFields) THEN Failed
    ELSE [ok |-> TRUE, alerts |-> [i \in DOMAIN unique |-> Enrich(unique[i])]]

-----------------------------------------------------------------------------
(* The stored alert, which a repeated job is compared with and which the   *)
(* scorer is given.                                                        *)

\* normalizeDecimal: to the next hundredth, halves upwards.
NormalizeWeight(w) == 2 * ((w + 1) \div 2)

\* toCreateAlertInput: only an AI alert takes its entities along.
Persist(a) ==
  [a EXCEPT !.weight = NormalizeWeight(@), !.entities = IF a.type = "ai" THEN @ ELSE {}]

\* samePersistedAlert: a repeated job may list the events otherwise.
SamePersisted(a, record) ==
  /\ \A f \in {"type", "name", "version", "severity", "score", "fallback"} : record[f] = a[f]
  /\ record.weight = NormalizeWeight(a.weight)
  /\ Sorted(record.events) = Sorted(a.events)
  /\ a.type = "ai" => record.entities = a.entities

\* toUnifiedAlert: the entities are normalized once more.
ReadBack(record) ==
  [record EXCEPT !.entities = {NormalizeEntity(x.type, x) : x \in @}]

-----------------------------------------------------------------------------
(* IncidentRiskScorer, as it is configured.                                *)

Neutral == 100
DensityThreshold == 20
Weights == [rule |-> 30, ml |-> 25, asset |-> 20, density |-> 15]

Measure(a) == IF a.type = "rule" THEN a.weight ELSE a.score

\* Mutant: the last alert decides.
StrongestLast(given, kind) ==
  LET S == {i \in DOMAIN given : given[i].type = kind /\ ~given[i].fallback} IN
    IF S = {} THEN Neutral ELSE Measure(given[Max(S)])

\* maxBy, of the alerts of a kind that may be trusted.
Strongest(given, kind) ==
  LET S == {i \in DOMAIN given : given[i].type = kind /\ ~given[i].fallback} IN
    IF S = {} THEN Neutral ELSE Max({Measure(given[i]) : i \in S})

\* validateAlerts.
ScorerAccepts(given) == Cardinality({a.id : a \in ToSet(given)}) = Len(given)

RiskScore(given) ==
  Weights.rule * Strongest(given, "rule") + Weights.ml * Strongest(given, "ai")
  + Weights.asset * (IF Asset = -1 THEN Neutral ELSE Asset)
  + Weights.density * Min({200, (200 * Len(given)) \div DensityThreshold})

\* classifyIncidentRiskSeverity, as a rank.
RiskSeverity(score) ==
  CASE score >= 16000 -> 4 [] score >= 12000 -> 3 [] score >= 8000 -> 2
    [] score >= 4000 -> 1 [] OTHER -> 0

Assess(given) ==
  LET out == Pipeline(given) IN
    IF ~out.ok THEN out
    ELSE [ok |-> TRUE, alerts |-> out.alerts, scored |-> ScorerAccepts(out.alerts),
          risk |-> RiskScore([i \in DOMAIN out.alerts |-> ReadBack(Persist(out.alerts[i]))])]

-----------------------------------------------------------------------------
AlertsInit == evidence = <<>> /\ outcome = Assess(<<>>)

Arrives(r) ==
  /\ Len(evidence) < MaxEvidence
  /\ evidence' = Append(evidence, r)
  /\ outcome' = Assess(evidence')

AlertsNext == \E r \in Evidence : Arrives(r)

AlertsSpec == AlertsInit /\ [][AlertsNext]_alertVars

-----------------------------------------------------------------------------
(* Properties.                                                             *)

\* Reference: what a piece of evidence is about, and what it says of it.
Subject(r) ==
  <<r.type, r.name, IF r.type = "ai" THEN r.version ELSE "none", ToSet(r.events)>>
Saying(r) ==
  <<r.weight, IF r.type = "ai" THEN r.fallback ELSE FALSE,
    IF r.type = "rule" THEN r.severity ELSE "none">>

\* An AI result is about one event.  The identity of a rule alert is a hash of
\* its rule, its state and its events.
ASSUME AlertsAssumption ==
  /\ \A r \in Evidence :
       /\ r.events \in Seq(Int) /\ r.weight \in Int
       /\ \/ r.type = "rule"
          \/ r.type = "ai" /\ {r.anomaly, r.fallback} \subseteq BOOLEAN /\ Len(r.events) = 1
  /\ \A r, s \in Evidence :
       r.type = "rule" =>
         IF s.type = "rule" THEN r.id = s.id => Subject(r) = Subject(s)
         ELSE r.id # AiAlertId(s)
  /\ Asset \in Int

Entities(S) ==
  LET entity(e, t) ==
        LET value == EventFields[e][t]
            stripped == \/ t \in {"host", "src_host"} /\ value.suffix = ".corp"
                        \/ t = "user" /\ value.suffix = "@localhost"
        IN <<t, value.base, IF stripped THEN "" ELSE value.suffix>>
  IN UNION {{entity(e, t) : t \in DOMAIN EventFields[e]} : e \in S}

\* Whatever the order and the repetitions of the evidence, and however its
\* events are listed, the batch is refused only for evidence that contradicts
\* itself or has no known event; else there is one alert for each subject, with
\* the entities of its events whatever their spelling, and the scorer takes it.
\* A repeated job knows its own alerts again, and an AI alert that is read back
\* has the entities it was stored with.
MergeSound ==
  LET counted == {r \in ToSet(evidence) : Counted(r)}
      contradiction == \E r, s \in counted : Subject(r) = Subject(s) /\ Saying(r) # Saying(s)
      unknown == \E r \in counted :
                   ToSet(r.events) = {} \/ ~(ToSet(r.events) \subseteq DOMAIN EventFields)
  IN /\ outcome.ok <=> ~contradiction /\ ~unknown
     /\ outcome.ok =>
          /\ Len(outcome.alerts) = Cardinality({Subject(r) : r \in counted})
          /\ outcome.scored
          /\ \A a \in ToSet(outcome.alerts) :
               /\ SamePersisted(a, Persist(a))
               /\ ReadBack(Persist(a)).entities \in {a.entities, {}}
          /\ \A r \in counted : \E a \in ToSet(outcome.alerts) :
               /\ Subject(r) = <<a.type, a.name, a.version, ToSet(a.events)>>
               /\ {<<x.type, x.base, x.suffix>> : x \in a.entities} = Entities(ToSet(r.events))

Kinds(given) == {a.type : a \in {b \in ToSet(given) : ~b.fallback}}

\* More evidence of the kinds an incident has never lowers its risk or its
\* severity.  (A first alert of a kind replaces the neutral value and may.)
RiskGrows ==
  [][outcome.ok /\ outcome'.ok /\ Kinds(outcome.alerts) = Kinds(outcome'.alerts) =>
       /\ outcome'.risk >= outcome.risk
       /\ RiskSeverity(outcome'.risk) >= RiskSeverity(outcome.risk)]_alertVars
=============================================================================
