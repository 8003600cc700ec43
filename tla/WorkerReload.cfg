\* One API process and one worker, no faults: a rule is disabled while the
\* worker runs, and stays in use.
CONSTANTS
  Api = {p1}
  s1 = s1
  s2 = s2
  n1 = n1
  n2 = n2
  Sigma = {s1, s2}
  Imports <- OneImport
  Name = {n1, n2}
  MaxRules = 2
  MaxChanges = 1
  PageSize = 100
  Subscribed = FALSE
  Faults = FALSE
SPECIFICATION RulesSpec
PROPERTY
  DisabledRuleLeaves
CHECK_DEADLOCK FALSE
