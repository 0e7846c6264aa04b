----------------------------- MODULE RouteNodes -----------------------------
(***************************************************************************)
(* The nodes that send items to their outputs: If, Filter, Switch and      *)
(* Limit.  A result is the lists of the outputs, or a failure, or a panic, *)
(* which the engine turns into a failed execution.  A list nobody appended *)
(* to is nil, written None: the engine does not forward it.                *)
(*                                                                         *)
(* What a parameter evaluates to may differ from item to item; a call has  *)
(* it per item.  Error stands for an expression that cannot be evaluated.  *)
(***************************************************************************)
EXTENDS Conditions

CONSTANTS None, Error

Outputs(lists) == [status |-> "success", lists |-> lists]
Failed == [status |-> "failed", lists |-> <<>>]
Panics == [status |-> "panic", lists |-> <<>>]

(* Appending to a nil list makes it one.                                   *)
Listed(list) == IF list = None THEN <<>> ELSE list
AppendTo(lists, k, item) == [lists EXCEPT ![k] = Append(Listed(@), item)]
Picked(items, Test(_)) ==
  LET ks == SelectSeq([k \in DOMAIN items |-> k], Test)
  IN  IF ks = <<>> THEN None ELSE [k \in DOMAIN ks |-> items[ks[k]]]

-----------------------------------------------------------------------------
(* If and Filter.  A condition that fails or is no boolean fails the node, *)
(* or counts as false when the node continues on errors.                   *)

Divide(items, pass, continueOnFail) ==
  IF ~continueOnFail /\ \E k \in DOMAIN items : pass[k] \notin {"true", "false"}
  THEN Failed
  ELSE Outputs(<<Picked(items, LAMBDA k : pass[k] = "true"),
                 Picked(items, LAMBDA k : pass[k] # "true")>>)

IfExecute(items, conditions, continueOnFail) ==
  Divide(items, [k \in DOMAIN items |-> ExtractFilter(conditions[k])], continueOnFail)

(* Filter: kept and discarded items.                                       *)
FilterExecute(items, conditions, continueOnFail) == IfExecute(items, conditions, continueOnFail)

-----------------------------------------------------------------------------
(* Switch.  The outputs are made for the first item; r is the result so    *)
(* far.  An error that is to be continued adds an output of its own.       *)

ErrorItem(k) == <<"error", k>>
Broken(r, k, continueOnFail) ==
  IF continueOnFail THEN Outputs(Append(r.lists, <<ErrorItem(k)>>)) ELSE Failed

(* returnData[index] = append(...), index counted from 0.                  *)
Put(r, index, item) ==
  IF index + 1 \in DOMAIN r.lists THEN Outputs(AppendTo(r.lists, index + 1, item)) ELSE Panics

(* An index outside the outputs is reported on the first output.           *)
PutChecked(r, index, n, item, k, continueOnFail) ==
  IF index >= 0 /\ index < n THEN Put(r, index, item)
  ELSE IF continueOnFail THEN Put(r, 0, ErrorItem(k)) ELSE Failed

Fresh(r, k, n) ==
  IF k # 1 THEN r ELSE IF n < 0 THEN Panics ELSE Outputs([i \in 1 .. n |-> None])

ByExpression(r, items, k, call) ==
  LET amount == call.amount[k]
      made == Fresh(r, k, amount)
  IN  CASE amount = Error -> Broken(r, k, call.continueOnFail)
        [] amount # Error /\ made = Panics -> Panics
        [] amount # Error /\ made # Panics /\ call.output[k] = Error ->
             Broken(made, k, call.continueOnFail)
        [] OTHER -> PutChecked(made, call.output[k], amount, items[k], k, call.continueOnFail)

(* compareOperation; the tests on strings assert their type.               *)
CompareOperation(op, v1, v2) ==
  CASE op \in {"equal", ""} -> Verdict(v1 = v2)
    [] op = "notEqual" -> Verdict(v1 # v2)
    [] op \in {"larger", "largerEqual", "smaller", "smallerEqual"} ->
         IF ~(Ok(v1.number) /\ Ok(v2.number)) THEN "false"
         ELSE Verdict(OnNumbers(CASE op = "larger" -> "gt" [] op = "largerEqual" -> "gte"
                                  [] op = "smaller" -> "lt" [] op = "smallerEqual" -> "lte",
                                v1.number[1], v2.number[1]))
    [] op \in {"after", "before"} ->
         IF ~(Ok(v1.date) /\ Ok(v2.date)) THEN "false"
         ELSE Verdict(OnDates(op, v1.date[1], v2.date[1]))
    [] OTHER ->
         IF ~(Ok(v1.text) /\ Ok(v2.text)) THEN "panic"
         ELSE Verdict(StringTest(op, v1.text[1], v2.text[1]))

(* The rules that do not let the item pass by: they match, or panic.       *)
Compare(rules, m, value) == CompareOperation(rules[m].op, value, rules[m].value2)
Stops(rules, value) == {m \in DOMAIN rules : Compare(rules, m, value) # "false"}
MatchAt(rules, value, m) == <<Compare(rules, m, value), m>>

(* Mutant: the last rule that matches takes the item.                      *)
LastMatch(rules, value) ==
  LET stops == Stops(rules, value)
      last == CHOOSE m \in stops : \A l \in stops : l <= m
  IN  IF stops = {} THEN <<"none">> ELSE MatchAt(rules, value, last)

(* The rules are tried in order.                                           *)
FirstMatch(rules, value) ==
  LET stops == Stops(rules, value)
      first == CHOOSE m \in stops : \A l \in stops : m <= l
  IN  IF stops = {} THEN <<"none">> ELSE MatchAt(rules, value, first)

(* The fallback -1 is "none"; one that cannot be evaluated is dereferenced *)
(* all the same.                                                           *)
ByRules(r, items, k, call) ==
  LET rules == call.rules[k]
      made == Fresh(r, k, Len(rules))
      match == FirstMatch(rules, call.value1[k])
      fallback == call.fallback[k]
  IN  CASE rules = Error -> Broken(r, k, call.continueOnFail)
        [] rules # Error /\ call.value1[k] = Error -> Broken(made, k, call.continueOnFail)
        [] OTHER ->
             CASE match[1] = "panic" -> Panics
               [] match[1] = "true" -> Put(made, match[2] - 1, items[k])
               [] match[1] = "none" /\ fallback = Error -> Panics
               [] match[1] = "none" /\ fallback = -1 -> made
               [] OTHER -> PutChecked(made, fallback, Len(rules), items[k], k, call.continueOnFail)

SwitchItem(r, items, k, call) ==
  IF r.status # "success" THEN r
  ELSE IF call.mode = "expression" THEN ByExpression(r, items, k, call)
  ELSE ByRules(r, items, k, call)

SwitchExecute(items, call) ==
  LET After[k \in 0 .. Len(items)] ==
        IF k = 0 THEN Outputs(<<>>) ELSE SwitchItem(After[k - 1], items, k, call)
  IN  After[Len(items)]

-----------------------------------------------------------------------------
(* Limit.  A negative number is a slice out of range.                      *)

LimitExecute(items, n, keep) ==
  CASE n > Len(items) -> Outputs(<<items>>)
    [] n < 0 -> Panics
    [] OTHER ->
         Outputs(<<IF keep = "firstItems" THEN SubSeq(items, 1, n)
                   ELSE SubSeq(items, Len(items) - n + 1, Len(items))>>)
=============================================================================
