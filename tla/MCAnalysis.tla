----------------------------- MODULE MCAnalysis -----------------------------
(***************************************************************************)
(* Six parts of the analysis that share no state: the contract between     *)
(* Collector and backend for batches and for other messages, the feature   *)
(* history, the rule language, and the merging and scoring of alerts.      *)
(* Each behaviour runs one of them, chosen at its start, as in             *)
(* MCOperations.  Batches and messages are signed with the same keys and   *)
(* have the same limit of a record.                                        *)
(***************************************************************************)
EXTENDS CollectorContract, FeatureHistory, UnifiedAlerts, RuleEvaluation, TLC

CONSTANTS
  Selection, RuleNesting, Word, MaxTokens

ASSUME LimitsAssumption == RuleNesting \in Nat \ {0}

-----------------------------------------------------------------------------
(* FeatureHistory: four or five events in three batches.                   *)

PlainEvent == [time |-> 0, batch |-> "b1", src |-> "none", dst |-> "none", user |-> "none", class |-> 4003,
          outcome |-> "none", host |-> "none", name |-> "none", parent |-> "none", port |-> "none"]

\* Processes of one host: two of p, one of q a day later, then late ones.
ProcessEvents ==
  LET P(t, b, n) == [PlainEvent EXCEPT !.time = t, !.batch = b, !.class = 1007, !.host = "h",
                                  !.name = n, !.parent = IF n = "q" THEN "none" ELSE "sh"]
  IN <<P(0, "b1", "p"), P(1, "b1", "p"), P(5, "b2", "q"), P(2, "b3", "r"), P(2, "b3", "p")>>

\* Logins of one user from two addresses.
LoginEvents ==
  LET L(t, b, s, o) == [PlainEvent EXCEPT !.time = t, !.batch = b, !.class = 3002, !.src = s,
                                     !.user = "u", !.outcome = o]
  IN <<L(0, "b1", "s1", "success"), L(0, "b1", "s1", "failure"), L(1, "b2", "s2", "failure"),
       L(4, "b3", "s2", "success")>>

\* Connections of one address.
NetworkEvents ==
  LET N(t, b, d, p) == [PlainEvent EXCEPT !.time = t, !.batch = b, !.class = 4001, !.src = "s1",
                                     !.dst = d, !.port = p]
  IN <<N(0, "b1", "d1", "80"), N(1, "b2", "d2", "80"), N(2, "b2", "d1", "22"),
       N(4, "b3", "d1", "80")>>

MCScenario == {ProcessEvents, LoginEvents, NetworkEvents}
-----------------------------------------------------------------------------
(* RuleLanguage: values, and four rules over two selections.               *)

Text(s) == [type |-> "string", v |-> s]
Num(n) == [type |-> "number", v |-> <<n>>]
MCValue == {Text(<<1>>), Text(<<1, 2>>), Text(<<2>>), Text(<<>>), Num(1), Num(2),
            [type |-> "boolean", v |-> <<0>>], [type |-> "boolean", v |-> <<1>>],
            [type |-> "null", v |-> <<>>]}

OfAlice == << "user", "exact", {Text(<<1>>)} >>
FromPort == << "port", "gt", {Num(1)} >>
Expr == [type |-> "and", left |-> [type |-> "identifier", name |-> "a"],
         right |-> [type |-> "not", operand |-> [type |-> "identifier", name |-> "b"]]]
BaseRule == [class |-> 1, category |-> 0, type |-> "match", expr |-> Expr,
         selections |-> [a |-> {{OfAlice}, {FromPort}}, b |-> {{OfAlice, FromPort}}],
         field |-> "user", threshold |-> 2, window |-> 2]
MCRule == {BaseRule, [BaseRule EXCEPT !.type = "count", !.category = 3],
           [BaseRule EXCEPT !.type = "count", !.field = "port", !.threshold = 3],
           [BaseRule EXCEPT !.type = "count", !.expr = [type |-> "identifier", name |-> "a"]]}
MCCandidate ==
  {[class |-> 1, category |-> 3, fields |-> [user |-> Text(<<1>>), port |-> Num(1)]],
   [class |-> 1, category |-> 3, fields |-> [port |-> Num(2)]],
   [class |-> 1, category |-> 4, fields |-> [user |-> Text(<<1>>), port |-> Num(2)]],
   [class |-> 2, category |-> 4, fields |-> [user |-> Text(<<1>>)]]}

-----------------------------------------------------------------------------
(* UnifiedAlerts: two rules and a model over three events, one of which is *)
(* not stored.                                                             *)

Host(s) == [base |-> "h", suffix |-> s]
MCEventFields ==
  <<[host |-> Host(".corp"), user |-> [base |-> "u", suffix |-> "@localhost"]],
    [src_host |-> Host(".corp"), host |-> Host(""), user |-> [base |-> "u", suffix |-> ".corp"]]>>

RuleAlert(id, name, events, weight) ==
  [type |-> "rule", id |-> <<"rule", Ascending(ToSet(events)), name, id>>, name |-> name, events |-> events, weight |-> weight,
   severity |-> "high"]
AiResult(event, version, score) ==
  [type |-> "ai", name |-> "model", version |-> version, events |-> <<event>>, weight |-> score,
   anomaly |-> score >= 140, fallback |-> FALSE]

MCEvidence ==
  {RuleAlert("v1", "r1", <<1, 2>>, 161), RuleAlert("v1", "r1", <<2, 1, 2>>, 161),
   RuleAlert("v1", "r1", <<2>>, 180), RuleAlert("v1", "r2", <<2>>, 79),
   RuleAlert("v2", "r1", <<2>>, 100), RuleAlert("v1", "r2", <<>>, 80),
   RuleAlert("v1", "r2", <<3>>, 80),
   AiResult(1, "v1", 159), AiResult(1, "v2", 150), AiResult(2, "v1", 150), AiResult(2, "v2", 40),
   [AiResult(2, "v2", 160) EXCEPT !.fallback = TRUE]}
MCAsset == -1

-----------------------------------------------------------------------------
(* CollectorContract: a plain line, and lines that differ from it in what  *)
(* one check or another asks for.                                          *)

PlainLine ==
  [form |-> "object", bytes |-> 2, depth |-> 1,
   event_id |-> 1, endpoint_id |-> 1, event_type |-> 1, timestamp |-> 1, username |-> 1,
   source_ip |-> 1, kind |-> "login_success", ip |-> "address",
   time |-> [rfc |-> TRUE, real |-> TRUE, at |-> 4, offset |-> 0],
   number |-> [type |-> "integer", value |-> 1]]

LineTime(t) == [PlainLine.time EXCEPT !.at = t]

MCLine ==
  {PlainLine,
   [PlainLine EXCEPT !.kind = "login_failed", !.number.type = "float"],
   [PlainLine EXCEPT !.bytes = 4], [PlainLine EXCEPT !.bytes = 9], [PlainLine EXCEPT !.bytes = 12],
   [PlainLine EXCEPT !.depth = 2], [PlainLine EXCEPT !.depth = 3], [PlainLine EXCEPT !.depth = 7],
   [PlainLine EXCEPT !.username = -1], [PlainLine EXCEPT !.endpoint_id = -2],
   [PlainLine EXCEPT !.username = 5], [PlainLine EXCEPT !.username = 3],
   [PlainLine EXCEPT !.event_id = 5], [PlainLine EXCEPT !.endpoint_id = 5],
   [PlainLine EXCEPT !.kind = "logout"],
   [PlainLine EXCEPT !.ip = "none"], [PlainLine EXCEPT !.ip = "address then NUL"],
   [PlainLine EXCEPT !.time.real = FALSE], [PlainLine EXCEPT !.time.offset = 25],
   [PlainLine EXCEPT !.time = LineTime(-4)], [PlainLine EXCEPT !.time = LineTime(-3)],
   [PlainLine EXCEPT !.time = LineTime(-20)]}
  \cup {[PlainLine EXCEPT !.form = f] : f \in
    {"array", "byte order mark", "not utf8", "no json", "key twice", "unsafe number",
     "lone surrogate"}}
MCFirst == -10

-----------------------------------------------------------------------------
VARIABLES
  part,
  input

Language == INSTANCE RuleLanguage WITH MaxNesting <- RuleNesting
MCMeaning(e, S) == Language!Evaluate(e, S)

vars == <<part, featureVars, input, trial, alertVars, contractVars, messageVars>>

Init ==
  /\ part \in {"features", "language", "evaluation", "alerts", "contract", "messages"}
  /\ FeatureInit /\ (part # "features" => facts = ProcessEvents)
  /\ Language!LanguageInit
  /\ EvaluationInit
  /\ AlertsInit
  /\ ContractInit /\ (part # "contract" => key \in Trusted)
  /\ MessagesInit /\ (part # "messages" =>
                       identity = [collector |-> "name", source |-> "name", key |-> key])

Next ==
  /\ UNCHANGED part
  /\ \/ /\ part = "features" /\ FeatureNext
        /\ UNCHANGED <<input, trial, alertVars, contractVars, messageVars>>
     \/ /\ part = "language" /\ Language!LanguageNext
        /\ UNCHANGED <<featureVars, trial, alertVars, contractVars, messageVars>>
     \/ /\ part = "evaluation" /\ EvaluationNext
        /\ UNCHANGED <<featureVars, input, alertVars, contractVars, messageVars>>
     \/ /\ part = "alerts" /\ AlertsNext
        /\ UNCHANGED <<featureVars, input, trial, contractVars, messageVars>>
     \/ /\ part = "contract" /\ ContractNext
        /\ UNCHANGED <<featureVars, input, trial, alertVars, messageVars>>
     \/ /\ part = "messages" /\ MessagesNext
        /\ UNCHANGED <<featureVars, input, trial, alertVars, contractVars>>

Spec == Init /\ [][Next]_vars

Workers == Permutations(Worker)

\* A rule that is accepted is loaded once, its condition means what the grammar
\* says, and its comparisons obey their laws.
RuleMeans == Language!RuleMeans /\ OneLoader /\ ComparisonsObey
=============================================================================
