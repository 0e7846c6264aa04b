----------------------------- MODULE Conditions -----------------------------
(***************************************************************************)
(* The conditions of If and Filter (core/condition.go) and how a filter    *)
(* parameter is evaluated (core/extract_value.go).                         *)
(*                                                                         *)
(* A value is known by its conversions, each <<>> where Convert... returns *)
(* an error and <<v>> otherwise: text (of a Go string), number, int, bool, *)
(* date, array (its elements), object (its keys).                          *)
(***************************************************************************)
EXTENDS Integers, Sequences, SequencesExt, FiniteSets

Plain ==
  [nil |-> FALSE, text |-> <<>>, number |-> <<>>, int |-> <<>>, bool |-> <<>>, date |-> <<>>,
   array |-> <<>>, object |-> <<>>]

(* nil converts to FALSE and to an empty array, and to no number.          *)
NilValue == [Plain EXCEPT !.nil = TRUE, !.bool = <<FALSE>>, !.array = << <<>> >>, !.object = <<{}>>]
Number(n) == [Plain EXCEPT !.number = <<n>>, !.int = <<n>>]
Boolean(b) == [Plain EXCEPT !.bool = <<b>>]
Elems(elements) == [Plain EXCEPT !.array = <<elements>>]
Keys(ks) == [Plain EXCEPT !.object = <<ks>>]

(* Strings may spell a number or a date.                                   *)
Text(cs) == [Plain EXCEPT !.text = <<cs>>]
NumberText(cs, n) == [Text(cs) EXCEPT !.number = <<n>>, !.int = <<n>>]
DateText(cs, t) == [Text(cs) EXCEPT !.date = <<t>>]

Ok(conversion) == conversion # <<>>

(* What the conversions give has its Go type; no number here is a NaN.     *)
IsValue(v) ==
  /\ \A n \in {v.number, v.int, v.date} : Ok(n) => n[1] \in Int
  /\ Ok(v.bool) => v.bool \in {<<TRUE>>, <<FALSE>>}
  /\ Ok(v.array) => Len(v.array[1]) \in Nat

Verdict(b) == IF b THEN "true" ELSE "false"

-----------------------------------------------------------------------------
(* Texts are sequences of letters; "A" is the capital of "a".              *)

ToLower(cs) == [k \in DOMAIN cs |-> IF cs[k] = "A" THEN "a" ELSE cs[k]]
HasPart(left, right) ==
  \E k \in 0 .. Len(left) - Len(right) : SubSeq(left, k + 1, k + Len(right)) = right

StringTest(op, left, right) ==
  CASE op = "equals" -> left = right
    [] op = "notEquals" -> left # right
    [] op \in {"contains", "regex"} -> HasPart(left, right)       \* a literal pattern
    [] op \in {"notContains", "notRegex"} -> ~HasPart(left, right)
    [] op = "startsWith" -> IsPrefix(right, left)
    [] op = "notStartsWith" -> ~IsPrefix(right, left)
    [] op = "endsWith" -> IsSuffix(right, left)
    [] op = "notEndsWith" -> ~IsSuffix(right, left)

(* A pattern keeps its case.                                               *)
OnStrings(op, ignoreCase, left, right) ==
  IF ~ignoreCase THEN StringTest(op, left, right)
  ELSE StringTest(op, ToLower(left), IF op \in {"regex", "notRegex"} THEN right ELSE ToLower(right))

OnNumbers(op, left, right) ==
  CASE op = "equals" -> left = right
    [] op = "notEquals" -> left # right
    [] op = "gt" -> left > right
    [] op = "lt" -> left < right
    [] op = "gte" -> left >= right
    [] op = "lte" -> left <= right

(* Mutant: afterEquals forgets the equal case.                             *)
StrictDates(op, left, right) ==
  CASE op = "equals" -> left = right
    [] op = "notEquals" -> left # right
    [] op \in {"after", "afterEquals"} -> left > right
    [] op \in {"before", "beforeEquals"} -> left < right

OnDates(op, left, right) ==
  CASE op = "equals" -> left = right
    [] op = "notEquals" -> left # right
    [] op = "after" -> left > right
    [] op = "before" -> left < right
    [] op = "afterEquals" -> left = right \/ left > right
    [] op = "beforeEquals" -> left = right \/ left < right

BooleanTest(op, left, right) ==
  CASE op = "true" -> Verdict(left.bool[1])
    [] op = "false" -> Verdict(~left.bool[1])
    [] op \in {"equals", "notEquals"} /\ ~Ok(right.bool) -> "error"
    [] op = "equals" /\ Ok(right.bool) -> Verdict(left.bool = right.bool)
    [] op = "notEquals" /\ Ok(right.bool) -> Verdict(left.bool # right.bool)

(* Elements are compared by their JSON.                                    *)
LengthOps == {"lengthEquals", "lengthNotEquals", "lengthGt", "lengthLt", "lengthGte", "lengthLte"}
ArrayTest(op, elements, right) ==
  LET n == Len(elements)
      m == right.int[1]
  IN  CASE op = "contains" -> Verdict(right \in ToSet(elements))
        [] op = "notContains" -> Verdict(right \notin ToSet(elements))
        [] op = "empty" -> Verdict(n = 0)
        [] op = "notEmpty" -> Verdict(n # 0)
        [] op \in LengthOps /\ ~Ok(right.int) -> "error"
        [] op \in LengthOps /\ Ok(right.int) ->
             Verdict(CASE op = "lengthEquals" -> n = m [] op = "lengthNotEquals" -> n # m
                       [] op = "lengthGt" -> n > m [] op = "lengthLt" -> n < m
                       [] op = "lengthGte" -> n >= m [] op = "lengthLte" -> n <= m)

ObjectTest(op, keys) == Verdict(IF op = "empty" THEN keys = {} ELSE keys # {})

-----------------------------------------------------------------------------
(* The operations of each type, besides asking whether the left operand    *)
(* is there.                                                               *)
Operations ==
  [string |-> {"equals", "notEquals", "contains", "notContains", "startsWith", "notStartsWith",
               "endsWith", "notEndsWith", "regex", "notRegex"},
   number |-> {"equals", "notEquals", "gt", "lt", "gte", "lte"},
   dateTime |-> {"equals", "notEquals", "after", "before", "afterEquals", "beforeEquals"},
   boolean |-> {"true", "false", "equals", "notEquals"},
   array |-> {"contains", "notContains", "empty", "notEmpty"} \cup LengthOps,
   object |-> {"empty", "notEmpty"}]
OperationsOf(type) == Operations[type] \cup {"exists", "notExists"}

(* One condition.  Two operands that are both nil, or one of them, are     *)
(* settled first where the operation is about equality; after that a nil   *)
(* fails every test but those for an empty array and on booleans.          *)

OfType(c, ignoreCase) ==
  LET left == c.left
      right == c.right
      someNil == left.nil \/ right.nil
      Both(l, r, Test(_, _, _)) ==
        IF someNil THEN "false"
        ELSE IF ~(Ok(l) /\ Ok(r)) THEN "error" ELSE Verdict(Test(c.op, l[1], r[1]))
  IN  CASE c.type = "string" ->
             Both(left.text, right.text, LAMBDA op, l, r : OnStrings(op, ignoreCase, l, r))
        [] c.type = "number" -> Both(left.number, right.number, OnNumbers)
        [] c.type = "dateTime" -> Both(left.date, right.date, OnDates)
        [] c.type = "boolean" -> IF Ok(left.bool) THEN BooleanTest(c.op, left, right) ELSE "error"
        [] c.type = "array" ->
             IF left.nil THEN Verdict(c.op = "empty")
             ELSE IF Ok(left.array) THEN ArrayTest(c.op, left.array[1], right) ELSE "error"
        [] c.type = "object" ->
             IF left.nil THEN "false"
             ELSE IF Ok(left.object) THEN ObjectTest(c.op, left.object[1]) ELSE "error"

ExecuteFilterCondition(c, ignoreCase) ==
  LET nils == {c.left.nil, c.right.nil}
  IN  CASE c.op = "exists" -> Verdict(~c.left.nil)
        [] c.op = "notExists" -> Verdict(c.left.nil)
        [] c.op \in {"equals", "notEquals"} /\ TRUE \in nils ->
             Verdict((c.op = "equals") <=> FALSE \notin nils)
        [] OTHER -> OfType(c, ignoreCase)

(* Mutant: the first condition that decides ends the evaluation.           *)
ShortCircuit(combinator, verdicts) ==
  LET decides == IF combinator = "and" THEN "false" ELSE "true"
      deciding == SelectSeq(verdicts, LAMBDA v : v \in {decides, "error"})
  IN  IF deciding = <<>> THEN Verdict(combinator = "and") ELSE Head(deciding)

(* An error of any condition is the filter's, whatever the others say.     *)
Combine(combinator, verdicts) ==
  IF "error" \in ToSet(verdicts) \/ combinator \notin {"and", "or"} THEN "error"
  ELSE IF combinator = "and" THEN Verdict("false" \notin ToSet(verdicts))
  ELSE Verdict("true" \in ToSet(verdicts))

ExecuteFilter(f) ==
  Combine(f.combinator,
          [k \in DOMAIN f.conditions |-> ExecuteFilterCondition(f.conditions[k], ~f.caseSensitive)])

(* extractValueFilter: a parameter that is no filter is handed on, and is  *)
(* then no boolean either, unless an expression made it one.               *)
ExtractFilter(parameter) ==
  IF parameter.filter THEN ExecuteFilter(parameter) ELSE parameter.value
=============================================================================
