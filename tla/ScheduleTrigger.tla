--------------------------- MODULE ScheduleTrigger --------------------------
(***************************************************************************)
(* The cron expression of a Schedule Trigger                               *)
(* (nodes/schedule_trigger/node.go).  A cron is "@every n units", or the   *)
(* five fields of an expression, or the text of one, or none.              *)
(***************************************************************************)
EXTENDS Integers, Sequences, SequencesExt

Every(n, unit) == [kind |-> "every", n |-> n, unit |-> unit]
Cron(minute, hour, day, month, weekday) ==
  [kind |-> "cron", minute |-> minute, hour |-> hour, day |-> day, month |-> month,
   weekday |-> weekday]
At(n) == {<<"at", n>>}
Always == {<<"any">>}
Step(n) == {<<"step", n>>}

(* The defaults of node.json.                                              *)
Defaults ==
  [field |-> "days", secondsInterval |-> 30, minutesInterval |-> 5, hoursInterval |-> 1,
   daysInterval |-> 1, weeksInterval |-> 1, monthsInterval |-> 1, triggerAtDayOfMonth |-> 1,
   triggerAtDay |-> <<0>>, triggerAtHour |-> 0, triggerAtMinute |-> 0, expression |-> ""]

(* An interval names some of the fields.                                   *)
SetDefaultValues(intervals) ==
  IF intervals = <<>> THEN <<Defaults>>
  ELSE [k \in DOMAIN intervals |->
          [f \in DOMAIN Defaults |->
             IF f \in DOMAIN intervals[k] THEN intervals[k][f] ELSE Defaults[f]]]

Weekdays(days) == IF days = <<>> THEN Always ELSE {<<"at", d>> : d \in ToSet(days)}

(* Mutant: an interval of hours always fires at the hour of the day.       *)
HourOfDay(i) == At(i.triggerAtHour)

HoursBetween(i) == IF i.hoursInterval = 1 THEN At(i.triggerAtHour) ELSE Step(i.hoursInterval)

(* Every hour is taken for every day, and every n weeks for every week.    *)
GenerateCronExpression(i) ==
  LET minute == At(i.triggerAtMinute)
      hour == At(i.triggerAtHour)
  IN  CASE i.field = "cronExpression" -> [kind |-> "text", text |-> i.expression]
        [] i.field = "seconds" -> Every(i.secondsInterval, "s")
        [] i.field = "minutes" -> Every(i.minutesInterval, "m")
        [] i.field = "hours" -> Cron(minute, HoursBetween(i), Always, Always, Always)
        [] i.field = "days" ->
             IF i.daysInterval = 1 THEN Cron(minute, hour, Always, Always, Always)
             ELSE Cron(minute, hour, Step(i.daysInterval), Always, Always)
        [] i.field = "weeks" -> Cron(minute, hour, Always, Always, Weekdays(i.triggerAtDay))
        [] i.field = "months" ->
             IF i.monthsInterval = 1
             THEN Cron(minute, hour, At(i.triggerAtDayOfMonth), Always, Always)
             ELSE Cron(minute, hour, At(i.triggerAtDayOfMonth), Step(i.monthsInterval), Always)
        [] OTHER -> [kind |-> "none"]

(* Only the first interval counts.                                         *)
Trigger(intervals) == GenerateCronExpression(Head(SetDefaultValues(intervals)))
=============================================================================
