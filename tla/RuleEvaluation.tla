--------------------------- MODULE RuleEvaluation ---------------------------
(***************************************************************************)
(* What a rule makes of events: the comparisons of a selection with the    *)
(* fields of an event, the checks of a rule document, the evaluation of    *)
(* match and count rules in the worker, and the dry run over stored events.*)
(*                                                                         *)
(* An event is a function from paths to typed values, a text is a sequence *)
(* of letters; a document is the set of the checks it would fail.  Regular *)
(* expressions and the negative zero are left out.  What is evaluated is   *)
(* an input that is chosen or grows.                                       *)
(***************************************************************************)
EXTENDS Integers, Sequences, SequencesExt, FiniteSets

CONSTANTS
  CompiledRule,    \* compiled rules
  Meaning(_, _),   \* the value of a condition where these selections matched:
                   \* Evaluate of RuleLanguage
  Candidate,       \* bound: events that happen, without their times
  Gap,             \* bound: the times between an event and the next
  RuleEvents,      \* bound: events in the range of a dry run
  Comparable       \* bound: the values of fields and targets

VARIABLES trial

-----------------------------------------------------------------------------
(* Comparisons.  A value is [type, v], where v is a sequence; a field that *)
(* is absent is Undefined.                                                *)

Undefined == [type |-> "undefined", v |-> <<>>]
IsText(x) == x.type = "string"
IsNumber(x) == x.type = "number"

ResolveField(event, path) == IF path \in DOMAIN event THEN event[path] ELSE Undefined

Orders(op, a, b) ==
  CASE op = "gt" -> a > b [] op = "gte" -> a >= b
    [] op = "lt" -> a < b [] op = "lte" -> a <= b

\* Text t occurs in text s as op asks.
Occurs(op, s, t) ==
  CASE op = "contains" -> \E k \in 0..Len(s) - Len(t) : SubSeq(s, k + 1, k + Len(t)) = t
    [] op = "startswith" -> IsPrefix(t, s)
    [] op = "endswith" -> IsSuffix(t, s)

\* compileComparison: what the target may be, and when a value meets it.
\* Targets are a non-empty set; one scalar is a set of one.
TargetFits(op, T) ==
  CASE op \in {"exact", "in", "not"} -> T # {} /\ \A t \in T : t.type # "undefined"
    [] op \in {"gt", "gte", "lt", "lte"} -> Cardinality(T) = 1 /\ \A t \in T : IsNumber(t)
    [] op \in {"contains", "startswith", "endswith"} -> T # {} /\ \A t \in T : IsText(t)
    [] op = "exists" -> Cardinality(T) = 1 /\ \A t \in T : t.type = "boolean"

Meets(op, T, x) ==
  CASE op \in {"exact", "in"} -> x \in T
    [] op = "not" -> x \notin T
    [] op = "exists" -> \A t \in T : t.v = <<IF x.type \in {"undefined", "null"} THEN 0 ELSE 1>>
    [] op \in {"gt", "gte", "lt", "lte"} -> IsNumber(x) /\ \A t \in T : Orders(op, x.v[1], t.v[1])
    [] OTHER -> IsText(x) /\ \E t \in T : Occurs(op, x.v, t.v)

\* A field condition is <<path, operator, targets>>; a mapping holds when each
\* of its conditions does, a list when one of its mappings does.
FieldHolds(c, event) == Meets(c[2], c[3], ResolveField(event, c[1]))
MapHolds(map, event) == \A c \in map : FieldHolds(c, event)
SelectionHolds(list, event) == \E map \in list : MapHolds(map, event)

\* matches: the class, then the category if the rule names one, then the
\* condition over the selections.
RuleMatches(rule, event) ==
  /\ event.class = rule.class
  /\ rule.category \in {0, event.category}
  /\ Meaning(rule.expr, {s \in DOMAIN rule.selections :
                           SelectionHolds(rule.selections[s], event.fields)})

ComparisonLaws(T, x) ==
  /\ TargetFits("in", T) => Meets("not", T, x) = ~Meets("in", T, x)
  /\ TargetFits("gt", T) =>
       /\ Meets("gte", T, x) <=> Meets("gt", T, x) \/ (IsNumber(x) /\ x \in T)
       /\ IsNumber(x) => (Meets("gt", T, x) <=> ~Meets("lte", T, x))
       /\ Meets("gt", T, x) \/ Meets("lt", T, x) => IsNumber(x)
  /\ TargetFits("contains", T) =>
       (Meets("startswith", T, x) \/ Meets("endswith", T, x) => Meets("contains", T, x))
  /\ x = Undefined => \A op \in {"exact", "in", "gt", "contains", "endswith"} :
       TargetFits(op, T) => ~Meets(op, T, x)

-----------------------------------------------------------------------------
(* Rule documents.                                                         *)

\* compileSigmaMatchRule: the checks in the order in which they are made.  What is
\* asked of each selection, its name and what compileSelection asks of its fields,
\* modifiers and values, is one name here, as what the parser of the condition
\* refuses is one.  The limit of the entity keys of a count rule, 1024 characters
\* in the worker and in the dry run alike, is left out.
MatchChecks ==
  <<"$", "title", "id", "status", "level", "weight", "priority", "description", "tags",
    "logsource", "logsource.class_uid", "logsource.category_uid", "detection",
    "alert.cooldown", "detection.stateless", "detection.condition", "selections",
    "selection", "expression">>

\* compileSigmaCountRule checks its own part first and hands on the document
\* without it.
CountChecks ==
  <<"$", "detection", "detection.count", "detection.count.field",
    "detection.count.threshold", "detection.count.timewindow", "field.path">>

FirstFailed(checks, failing) ==
  LET bad == {k \in DOMAIN checks : checks[k] \in failing} IN
    IF bad = {} THEN "none" ELSE checks[CHOOSE k \in bad : \A l \in bad : k <= l]

CompileMatch(failing, hasCount) ==
  FirstFailed(MatchChecks, IF hasCount THEN failing \cup {"detection.stateless"} ELSE failing)

CompileCount(failing, hasCount) ==
  LET own == FirstFailed(CountChecks,
                         IF hasCount THEN failing ELSE failing \cup {"detection.count"}) IN
    IF own # "none" THEN own ELSE CompileMatch(failing, FALSE)

\* parseAndCompileSupportedSigmaRule: sequence rules are refused, a count
\* decides which compiler is used.
CompileSupported(failing, hasCount, hasSequence) ==
  IF "size" \in failing THEN "size"
  ELSE IF FirstFailed(<<"$", "detection">>, failing) # "none"
  THEN FirstFailed(<<"$", "detection">>, failing)
  ELSE IF hasSequence THEN "detection.sequence"
  ELSE IF hasCount THEN CompileCount(failing, TRUE) ELSE CompileMatch(failing, FALSE)

OneLoaderTakesIt(failing, hasCount, hasSequence) ==
  CompileSupported(failing, hasCount, hasSequence) = "none" =>
    /\ (CompileMatch(failing, hasCount) = "none") = ~hasCount
    /\ (CompileCount(failing, hasCount) = "none") = hasCount

-----------------------------------------------------------------------------
(* Evaluation.  A compiled rule is [class, category, selections, expr, type, *)
(* field, threshold, window], with category 0 for any.                     *)

\* canonicalizeEntityKey, and canonicalizeEntity of the dry run.
EntityKey(x) ==
  IF x.type \in {"string", "number", "boolean"} /\ x.v # <<>> THEN {x} ELSE {}

\* What a count rule keeps of its events: the window of each entity as the
\* indices of its events, and the events of each alert so far.
NoCounts == [windows |-> <<>>, alerts |-> {}]
CountWindow(counts, key) == IF key \in DOMAIN counts.windows THEN counts.windows[key] ELSE {}

Recorded(rule, counts, key, window) ==
  [windows |-> [k \in DOMAIN counts.windows \cup {key} |->
                  IF k = key THEN window ELSE counts.windows[k]],
   alerts |-> IF Cardinality(window) = rule.threshold THEN counts.alerts \cup {window}
              ELSE counts.alerts]

\* CountRuleEvaluator with the script of the count window, for event i of a
\* sequence that is evaluated at time clock[i].
LiveStep(rule, events, clock, counts, i) ==
  LET x == ResolveField(events[i].fields, rule.field)
      kept == {j \in CountWindow(counts, x) : ~(clock[j] <= clock[i] - rule.window)}
  IN IF ~RuleMatches(rule, events[i]) \/ EntityKey(x) = {} THEN counts
     ELSE Recorded(rule, counts, x, kept \cup {i})

\* Mutant: an event leaves the window one instant late.
DryRunStepLate(rule, events, counts, i) ==
  LET x == ResolveField(events[i].fields, rule.field)
      kept == {j \in CountWindow(counts, x) : events[j].time >= events[i].time - rule.window}
  IN IF ~RuleMatches(rule, events[i]) \/ EntityKey(x) = {} THEN counts
     ELSE Recorded(rule, counts, x, kept \cup {i})

\* DryRunRuleUseCase, evaluateCount.
DryRunStep(rule, events, counts, i) ==
  LET x == ResolveField(events[i].fields, rule.field)
      kept == {j \in CountWindow(counts, x) : events[j].time > events[i].time - rule.window}
  IN IF ~RuleMatches(rule, events[i]) \/ EntityKey(x) = {} THEN counts
     ELSE Recorded(rule, counts, x, kept \cup {i})

\* evaluateMatch, and the match rules of the worker.
MatchAlerts(rule, events, listed) == {{i} : i \in {j \in listed : RuleMatches(rule, events[j])}}

\* The alerts of the worker, cooldowns aside, for events that it evaluates at
\* the times clock.  An alert is the set of its events; its last one is in no
\* other, so there are as many sets as there are alerts.
LiveAlerts(rule, events, clock) ==
  LET counted[i \in 0..Len(events)] ==
        IF i = 0 THEN NoCounts ELSE LiveStep(rule, events, clock, counted[i - 1], i)
  IN IF rule.type = "match" THEN MatchAlerts(rule, events, DOMAIN events)
     ELSE counted[Len(events)].alerts

\* listForRule: the first events of the class and category, in order of time.
Listed(rule, events, limit) ==
  LET mine == {i \in DOMAIN events :
                 events[i].class = rule.class /\ rule.category \in {0, events[i].category}}
  IN {i \in mine : Cardinality(mine \cap 1..i) <= limit}

DryRunAlerts(rule, events, limit) ==
  LET listed == Listed(rule, events, limit)
      counted[i \in 0..Len(events)] ==
        IF i = 0 THEN NoCounts
        ELSE IF i \in listed THEN DryRunStep(rule, events, counted[i - 1], i)
        ELSE counted[i - 1]
  IN IF rule.type = "match" THEN MatchAlerts(rule, events, listed)
     ELSE counted[Len(events)].alerts

\* matches and matchedEventIds.
Summary(events, alerts) ==
  [matches |-> Cardinality(alerts), ids |-> {events[i].id : i \in UNION alerts}]
DryRun(rule, events, limit) == Summary(events, DryRunAlerts(rule, events, limit))

-----------------------------------------------------------------------------
(* Inputs.                                                                 *)

Flag == (ToSet(MatchChecks) \cup ToSet(CountChecks) \cup {"size"}) \ {"detection.stateless"}

EvaluationInit == trial = [kind |-> "none"]

\* A document is submitted that would fail up to two checks.
UpToTwo == {{f, g} : f, g \in Flag} \cup {{}}
Submit ==
  /\ trial.kind = "none"
  /\ \E failing \in UpToTwo, c, s \in BOOLEAN :
       trial' = [kind |-> "document", failing |-> failing, count |-> c, sequence |-> s]

\* A selection compares a value with one or two targets.
Compare ==
  /\ trial.kind = "none"
  /\ \E t, u \in Comparable, x \in Comparable \cup {Undefined} :
       trial' = [kind |-> "comparison", targets |-> {t, u}, value |-> x]

\* An event happens, at or after the one before it.
Happens(c, gap) ==
  /\ trial.kind \in {"none", "history"}
  /\ LET past == IF trial.kind = "none" THEN <<>> ELSE trial.events
         time == IF past = <<>> THEN 0 ELSE past[Len(past)].time + gap
     IN /\ Len(past) < RuleEvents
        /\ trial' = [kind |-> "history",
                     events |-> Append(past, [id |-> Len(past) + 1, time |-> time, class |-> c.class,
                                              category |-> c.category, fields |-> c.fields])]

EvaluationNext ==
  \/ Submit
  \/ Compare
  \/ \E c \in Candidate, gap \in Gap : Happens(c, gap)

EvaluationSpec == EvaluationInit /\ [][EvaluationNext]_trial

-----------------------------------------------------------------------------
(* Properties.                                                             *)

\* A value is [type, v], where v is a sequence and that of a number holds the
\* number.
ASSUME EvaluationAssumption ==
  /\ \A x \in Comparable :
       /\ x = [type |-> x.type, v |-> x.v] /\ x.type # "undefined" /\ x.v \in Seq(Int)
       /\ IsNumber(x) => Len(x.v) = 1
  /\ Gap \subseteq Nat /\ RuleEvents \in Nat
  /\ \A rule \in CompiledRule : rule.window \in Int

\* A document that is accepted for storage compiles in the worker's loader of
\* its type and in no other.
OneLoader ==
  trial.kind = "document" => OneLoaderTakesIt(trial.failing, trial.count, trial.sequence)

\* Comparisons obey the laws the author of a rule relies on: "not" is the
\* complement of "in", orders hold of numbers only and are total there, a
\* prefix or suffix is contained, and an absent field meets nothing but "not"
\* and exists: false.
ComparisonsObey ==
  trial.kind = "comparison" => ComparisonLaws(trial.targets, trial.value)

\* The dry run of a rule reports what the worker raises, in number and in
\* events, as long as the range has no more events than are listed and the
\* worker evaluates each when it happens.
DryRunAgrees ==
  trial.kind = "history" =>
    \A rule \in CompiledRule :
      LET clock == [i \in DOMAIN trial.events |-> trial.events[i].time] IN
        DryRun(rule, trial.events, RuleEvents) =
          Summary(trial.events, LiveAlerts(rule, trial.events, clock))
=============================================================================
