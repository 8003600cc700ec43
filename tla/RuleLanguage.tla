---------------------------- MODULE RuleLanguage ----------------------------
(***************************************************************************)
(* The language of detection rules: the condition over the selections of a *)
(* rule, its parser and its evaluation.                                    *)
(*                                                                         *)
(* A condition is a sequence of tokens.  What is read is an input that     *)
(* grows.                                                                  *)
(***************************************************************************)
EXTENDS Integers, Sequences, FiniteSets

CONSTANTS
  Selection,   \* names of the selections of the rule
  MaxNesting,  \* MAX_NESTING_DEPTH
  Word,        \* bound: the words of a condition, with names of no selection
  MaxTokens    \* bound: tokens of a condition

VARIABLES input

Keyword == {"and", "or", "not", "(", ")"}
Failed == [type |-> "failed"]

-----------------------------------------------------------------------------
(* ConditionParser: recursive descent from token i at depth d; the result  *)
(* holds the expression and the index of the next token.                   *)

RECURSIVE ParseOr(_, _, _), ParseAnd(_, _, _), ParseUnary(_, _, _)
RECURSIVE MoreOr(_, _, _), MoreAnd(_, _, _)

At(ts, i) == IF i <= Len(ts) THEN ts[i] ELSE "end"
Parsed(e, i) == [type |-> "parsed", expr |-> e, next |-> i]

ParsePrimary(ts, i, d) ==
  IF At(ts, i) \in Selection THEN Parsed([type |-> "identifier", name |-> ts[i]], i + 1)
  ELSE IF At(ts, i) # "(" \/ d = MaxNesting THEN Failed
  ELSE LET inner == ParseOr(ts, i + 1, d + 1) IN
    IF inner = Failed \/ At(ts, inner.next) # ")" THEN Failed
    ELSE Parsed(inner.expr, inner.next + 1)

\* Mutant: "not" applies to everything that follows it.
ParseUnaryLoose(ts, i, d) ==
  IF At(ts, i) = "not"
  THEN LET e == ParseOr(ts, i + 1, d) IN
         IF e = Failed THEN Failed
         ELSE Parsed([type |-> "not", operand |-> e.expr], e.next)
  ELSE ParsePrimary(ts, i, d)

ParseUnary(ts, i, d) ==
  IF At(ts, i) = "not"
  THEN LET e == ParseUnary(ts, i + 1, d) IN
         IF e = Failed THEN Failed
         ELSE Parsed([type |-> "not", operand |-> e.expr], e.next)
  ELSE ParsePrimary(ts, i, d)

MoreAnd(ts, left, d) ==
  IF left = Failed \/ At(ts, left.next) # "and" THEN left
  ELSE LET e == ParseUnary(ts, left.next + 1, d) IN
    IF e = Failed THEN Failed
    ELSE MoreAnd(ts, Parsed([type |-> "and", left |-> left.expr, right |-> e.expr], e.next), d)

ParseAnd(ts, i, d) == MoreAnd(ts, ParseUnary(ts, i, d), d)

MoreOr(ts, left, d) ==
  IF left = Failed \/ At(ts, left.next) # "or" THEN left
  ELSE LET e == ParseAnd(ts, left.next + 1, d) IN
    IF e = Failed THEN Failed
    ELSE MoreOr(ts, Parsed([type |-> "or", left |-> left.expr, right |-> e.expr], e.next), d)

ParseOr(ts, i, d) == MoreOr(ts, ParseAnd(ts, i, d), d)

\* No trailing input.
ParseCondition(ts) ==
  LET e == ParseOr(ts, 1, 0) IN
    IF e = Failed \/ e.next <= Len(ts) THEN Failed ELSE e.expr

RECURSIVE Evaluate(_, _)

\* evaluateConditionExpression, where the selections in S matched the event.
Evaluate(e, S) ==
  CASE e.type = "identifier" -> e.name \in S
    [] e.type = "not" -> ~Evaluate(e.operand, S)
    [] e.type = "and" -> Evaluate(e.left, S) /\ Evaluate(e.right, S)
    [] e.type = "or" -> Evaluate(e.left, S) \/ Evaluate(e.right, S)

\* Reference: the grammar.  The truth values a sequence can be given as a
\* disjunction, a conjunction or a unary, for the matched selections S.
RECURSIVE Readings(_, _, _)

Splits(ts, t) == {k \in 2..Len(ts) - 1 : ts[k] = t}

Readings(kind, ts, S) ==
  CASE kind = "or" ->
         Readings("and", ts, S) \cup
         UNION {{a \/ b : a \in Readings("or", SubSeq(ts, 1, k - 1), S),
                          b \in Readings("and", SubSeq(ts, k + 1, Len(ts)), S)}
                : k \in Splits(ts, "or")}
    [] kind = "and" ->
         Readings("unary", ts, S) \cup
         UNION {{a /\ b : a \in Readings("and", SubSeq(ts, 1, k - 1), S),
                          b \in Readings("unary", SubSeq(ts, k + 1, Len(ts)), S)}
                : k \in Splits(ts, "and")}
    [] kind = "unary" ->
         CASE ts = <<>> -> {}
           [] ts[1] = "not" -> {~a : a \in Readings("unary", Tail(ts), S)}
           [] Len(ts) = 1 -> IF ts[1] \in Selection THEN {ts[1] \in S} ELSE {}
           [] ts[1] = "(" /\ ts[Len(ts)] = ")" -> Readings("or", SubSeq(ts, 2, Len(ts) - 1), S)
           [] OTHER -> {}

Depth(ts, k) ==
  Cardinality({i \in 1..k : ts[i] = "("}) - Cardinality({i \in 1..k : ts[i] = ")"})
Shallow(ts) == \A k \in 1..Len(ts) : Depth(ts, k) <= MaxNesting

-----------------------------------------------------------------------------
(* Inputs.                                                                 *)

LanguageInit == input = [kind |-> "none"]

\* A condition is written word by word.
Write(w) ==
  \/ /\ input.kind = "none"
     /\ input' = [kind |-> "condition", tokens |-> <<w>>]
  \/ /\ input.kind = "condition" /\ Len(input.tokens) < MaxTokens
     /\ input' = [input EXCEPT !.tokens = Append(@, w)]

LanguageNext == \E w \in Word \cup Keyword : Write(w)

-----------------------------------------------------------------------------
(* Properties.                                                             *)

\* The parser accepts the sentences of the grammar that are not nested too
\* deep, each has one meaning only, and the engine gives it that meaning.
ConditionMeans(tokens) ==
  \A S \in SUBSET Selection :
    LET values == Readings("or", tokens, S)
        e == ParseCondition(tokens)
    IN /\ e # Failed <=> values # {} /\ Shallow(tokens)
       /\ e # Failed => values = {Evaluate(e, S)}

\* The condition of a rule that is accepted means what the grammar says.
RuleMeans == input.kind = "condition" => ConditionMeans(input.tokens)
=============================================================================
