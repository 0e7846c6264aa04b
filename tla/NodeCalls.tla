----------------------------- MODULE NodeCalls ------------------------------
(***************************************************************************)
(* One call of a node that computes its result from its parameters and     *)
(* items alone: If, Filter, Switch, Limit, HTML, the cron expression of a  *)
(* Schedule Trigger, the request and the items of an HTTP Request.  The    *)
(* properties compare the result with what the node is for.                *)
(***************************************************************************)
EXTENDS RouteNodes

CONSTANTS ConditionCalls,  \* [c, ignoreCase]
          FilterCalls,     \* [items, conditions, continueOnFail]
          SwitchCalls,     \* [items, mode, ...]
          LimitCalls,      \* [items, n, keep]
          ScheduleCalls,   \* sequences of intervals
          HtmlCalls,       \* [operation, html, source, values, options, continueOnFail]
          RequestCalls,    \* the parameters of a request
          ResponseCalls    \* [index, response, format, full]

ASSUME ConditionAssumption ==
  \A x \in ConditionCalls :
    /\ DOMAIN x.c = {"type", "op", "left", "right"}
    /\ x.c.type \in DOMAIN Operations /\ x.c.op \in OperationsOf(x.c.type)
    /\ IsValue(x.c.left) /\ IsValue(x.c.right)

(* A filter is a record with a list of conditions.                         *)
ASSUME FilterAssumption ==
  \A c \in FilterCalls : \A k \in DOMAIN c.items :
    LET f == c.conditions[k]
    IN  f.filter => /\ DOMAIN f = {"filter", "combinator", "conditions", "caseSensitive"}
                    /\ f.conditions \in Seq(ToSet(f.conditions))

(* Items are told apart by their position; rules are a list, unless they   *)
(* cannot be evaluated.                                                    *)
ASSUME SwitchAssumption ==
  \A c \in SwitchCalls :
    /\ c.items \in Seq(ToSet(c.items)) /\ None \notin Seq(ToSet(c.items)) /\ Error \notin Int
    /\ \A k, m \in DOMAIN c.items : c.items[k] = c.items[m] => k = m
    /\ c.mode = "rules" =>
         \A k \in DOMAIN c.items : c.rules[k] = Error \/ c.rules[k] \in Seq(ToSet(c.rules[k]))

(* A template has a text per item.                                         *)
ASSUME HtmlAssumption ==
  \A c \in HtmlCalls : c.operation = "generateHtmlTemplate" => c.html \in Seq(ToSet(c.html))

(* A list of intervals, each with some of these: every how many, and when. *)
IntervalTypes ==
  [hoursInterval |-> Nat \ {0}, daysInterval |-> Nat \ {0}, monthsInterval |-> Nat \ {0},
   triggerAtDayOfMonth |-> 1 .. 31, triggerAtDay |-> Seq(0 .. 6), triggerAtHour |-> 0 .. 23]
ASSUME ScheduleAssumption ==
  \A c \in ScheduleCalls :
    /\ c \in Seq(ToSet(c))
    /\ \A k \in DOMAIN c : \A f \in DOMAIN IntervalTypes \cap DOMAIN c[k] : c[k][f] \in IntervalTypes[f]

ContentTypes == {"form-urlencoded", "multipart-form-data", "json", "binaryData", "raw"}
ASSUME RequestAssumption == \A p \in RequestCalls : p.contentType \in ContentTypes

Cron == INSTANCE ScheduleTrigger
Http == INSTANCE HttpMessage
Html == INSTANCE HtmlNode

VARIABLES node, call, result
callVars == <<node, call, result>>

Pending == None

CallInit ==
  /\ result = Pending
  /\ \/ node = "condition" /\ call \in ConditionCalls
     \/ node \in {"if", "filter"} /\ call \in FilterCalls
     \/ node = "switch" /\ call \in SwitchCalls
     \/ node = "limit" /\ call \in LimitCalls
     \/ node = "scheduleTrigger" /\ call \in ScheduleCalls
     \/ node = "html" /\ call \in HtmlCalls
     \/ node = "request" /\ call \in RequestCalls
     \/ node = "response" /\ call \in ResponseCalls

NoCall == node = "none" /\ call = None /\ result = Pending

Answer(name, value) ==
  /\ node = name
  /\ result = Pending
  /\ result' = value
  /\ UNCHANGED <<node, call>>

EvaluateCondition == Answer("condition", ExecuteFilterCondition(call.c, call.ignoreCase))
ExecuteIf == Answer("if", IfExecute(call.items, call.conditions, call.continueOnFail))
ExecuteFilterNode == Answer("filter", FilterExecute(call.items, call.conditions, call.continueOnFail))
ExecuteSwitch == Answer("switch", SwitchExecute(call.items, call))
ExecuteLimit == Answer("limit", LimitExecute(call.items, call.n, call.keep))
ExecuteHtml == Answer("html", Html!HtmlExecute(call))
ScheduleCron == Answer("scheduleTrigger", Cron!Trigger(call))
BuildRequest == \E r \in Http!RequestsOf(call) : Answer("request", r)
ReadResponse ==
  Answer("response", Http!HandleResponse(call.index, call.response, call.format, call.full))

CallNext ==
  \/ EvaluateCondition \/ ExecuteIf \/ ExecuteFilterNode \/ ExecuteSwitch
  \/ ExecuteLimit \/ ExecuteHtml \/ ScheduleCron
  \/ node = "request" /\ BuildRequest
  \/ ReadResponse

CallSpec == CallInit /\ [][CallNext]_callVars

Answered(name) == node = name /\ result # Pending
-----------------------------------------------------------------------------
(* Conditions.                                                             *)

Complements ==
  {<<"equals", "notEquals">>, <<"contains", "notContains">>, <<"startsWith", "notStartsWith">>,
   <<"endsWith", "notEndsWith">>, <<"regex", "notRegex">>, <<"gt", "lte">>, <<"gte", "lt">>,
   <<"after", "beforeEquals">>, <<"afterEquals", "before">>, <<"true", "false">>,
   <<"empty", "notEmpty">>, <<"lengthEquals", "lengthNotEquals">>, <<"lengthGt", "lengthLte">>,
   <<"lengthGte", "lengthLt">>, <<"exists", "notExists">>}

(* Of an operation and its opposite exactly one holds, for operands that   *)
(* are there and convert, whatever their type: the two outputs of an If    *)
(* swap when its condition is turned round.                                *)
OppositesDiffer ==
  Answered("condition") /\ result # "error" /\ ~call.c.left.nil /\ ~call.c.right.nil =>
    \A q \in Complements :
      call.c.op = q[1] =>
        ExecuteFilterCondition([call.c EXCEPT !.op = q[2]], call.ignoreCase)
          = Verdict(result = "false")

Turned(f) == IF f.filter THEN [f EXCEPT !.conditions = Reverse(@)] ELSE f

(* The order of the conditions of a filter does not matter, not even when  *)
(* one of them cannot be evaluated.                                        *)
ConditionOrderFree ==
  Answered("if") =>
    result = IfExecute(call.items, [k \in DOMAIN call.items |-> Turned(call.conditions[k])],
                       call.continueOnFail)

(* What an If decides depends on what its conditions say only: not on the  *)
(* side they say it from, nor on the order they stand in.                  *)
ConditionsConsistent == OppositesDiffer /\ ConditionOrderFree

InOrder(list, items) ==
  /\ ToSet(list) \subseteq ToSet(items)
  /\ \A a, b \in DOMAIN list : a < b =>
       \E k, m \in DOMAIN items : k < m /\ items[k] = list[a] /\ items[m] = list[b]
OutputsOf(i) == {k \in DOMAIN result.lists : i \in ToSet(Listed(result.lists[k]))}

Evaluated(k) ==
  /\ call.rules[k] # Error
  /\ call.value1[k] # Error
  /\ call.fallback[k] \in -1 .. Len(call.rules[k]) - 1

(* A switch whose rules can be evaluated puts every item on the output of  *)
(* the first rule it matches, otherwise on the fallback if there is one,   *)
(* and keeps their order on each output.                                   *)
SwitchRoutesOnce ==
  /\ Answered("switch")
  /\ call.mode = "rules"
  /\ result.status = "success"
  /\ \A k \in DOMAIN call.items : Evaluated(k)
  => /\ \A k \in DOMAIN result.lists : InOrder(Listed(result.lists[k]), call.items)
     /\ \A k \in DOMAIN call.items :
          LET rules == call.rules[k]
              hits == {m \in DOMAIN rules :
                         CompareOperation(rules[m].op, call.value1[k], rules[m].value2) = "true"}
          IN  OutputsOf(call.items[k]) =
                IF hits # {} THEN {m \in hits : \A l \in hits : m <= l}
                ELSE IF call.fallback[k] = -1 THEN {} ELSE {call.fallback[k] + 1}
-----------------------------------------------------------------------------
(* HTML.                                                                   *)

(* A template that is filled for items some of which fail gives an item    *)
(* per item in their order, the k-th made from the k-th or its error.      *)
TemplatePerItem ==
  Answered("html") /\ call.operation = "generateHtmlTemplate" /\ result.status = "success" =>
    result.items = [k \in DOMAIN call.html |-> <<IF call.html[k] = "error" THEN "error" ELSE "html", k>>]
-----------------------------------------------------------------------------
(* HTTP Request.                                                           *)

(* Whatever headers the user sets, a body of parts is sent under a content *)
(* type that names their boundary, and a request whose method takes no     *)
(* body is sent without one, nor with a content type the user did not set. *)
PartsHaveBoundary ==
  Answered("request") /\ result.status = "sent" =>
    LET typed == \E n \in DOMAIN Http!Given(call) : call.lower[n] = "content-type"
    IN  /\ result.content # <<>> /\ result.content[1] = "parts" =>
             result.headers["content-type"] = Http!PartsType
        /\ call.method \notin Http!BodyMethods =>
             result.content = <<>> /\ ("content-type" \in DOMAIN result.headers => typed)
-----------------------------------------------------------------------------
(* Schedule Trigger.                                                       *)

Hits(field, value, first) ==
  \/ <<"any">> \in field
  \/ <<"at", value>> \in field
  \/ \E s \in field : s[1] = "step" /\ (value - first) % s[2] = 0

(* From any time on, a hit comes within n of the steps of the period.      *)
FiresEvery(n, field, first, period) ==
  \A t \in 0 .. period - 1 : \E u \in t .. t + n - 1 : Hits(field, first + (u % period), first)

DaysOf(month, leap) ==
  IF month = 2 THEN IF leap THEN 29 ELSE 28 ELSE IF month \in {4, 6, 9, 11} THEN 30 ELSE 31
MonthAfter(month) == 1 + (month % 12)
FiresOn(month, day) == Hits(result.month, month, 1) /\ Hits(result.day, day, 1)

(* From any day on, in n days; the steps start anew on the first.          *)
FiresEveryDays(n) ==
  \A leap \in BOOLEAN, month \in 1 .. 12 : \A day \in 1 .. DaysOf(month, leap) :
    \E d \in day .. day + n - 1 :
      \/ d <= DaysOf(month, leap) /\ FiresOn(month, d)
      \/ d = DaysOf(month, leap) + 1 /\ FiresOn(MonthAfter(month), 1)

(* In a month of any year.                                                 *)
FiresIn(month) == \A leap \in BOOLEAN : \E day \in 1 .. DaysOf(month, leap) : FiresOn(month, day)
FiresEveryMonths(n) == \A t \in 0 .. 11 : \E u \in t .. t + n - 1 : FiresIn(1 + (u % 12))

(* How long the trigger stays silent.  With the interval n it fires in any *)
(* n hours, and in any n days of the calendar; in any week on a day of the *)
(* week; in any n months on a day that all months have.  On another day of *)
(* the month it leaves out the months without it: of two successive months *)
(* one fires, and with longer intervals one a year.  An interval of one    *)
(* hour, which is the default, is silent for a day.                        *)
FiresWithinInterval ==
  Answered("scheduleTrigger") =>
    LET i == Head(Cron!SetDefaultValues(call))
        months == IF i.triggerAtDayOfMonth <= 28 THEN i.monthsInterval
                  ELSE IF i.monthsInterval = 1 THEN 2 ELSE 12
    IN  /\ i.field = "hours" =>
             FiresEvery(IF i.hoursInterval = 1 THEN 24 ELSE i.hoursInterval, result.hour, 0, 24)
        /\ i.field = "days" => FiresEveryDays(i.daysInterval)
        /\ i.field = "weeks" => FiresEvery(7, result.weekday, 0, 7)
        /\ i.field = "months" =>
             /\ FiresEveryMonths(months)
             /\ \A month \in 1 .. 12, day \in 1 .. 31 : FiresOn(month, day) => day = i.triggerAtDayOfMonth

=============================================================================
