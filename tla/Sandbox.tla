------------------------------- MODULE Sandbox ------------------------------
(***************************************************************************)
(* The JavaScript machine of a node (core/sandbox.go): the code of the     *)
(* expressions in a parameter, and the script of a Code node.  A timer of  *)
(* three minutes interrupts the machine, whatever it runs by then.         *)
(***************************************************************************)
EXTENDS Expressions

CONSTANTS ParameterJobs,  \* [kind, texts, parts, items, index, runData]
          CodeJobs        \* [kind, items, executeOnce, mode, returns, continueOnFail]

(* A text of a parameter is fixed, it is put together from parts, its text *)
(* and its code, or it is the only one.  Two texts in a row are one.       *)
Template(parts) ==
  /\ parts \in Seq(ToSet(parts))
  /\ \A k \in DOMAIN parts :
       /\ parts[k].type \in {"text", "code"}
       /\ parts[k].text \in Seq(ToSet(parts[k].text))
       /\ (IF parts[k].type = "text" THEN OpenBracket ELSE CloseBracket) \notin ToSet(parts[k].text)
       /\ parts[k].type = "text" =>
            /\ parts[k].text # <<>>
            /\ IF k = Len(parts) THEN Last(parts[k].text) \notin Escapes("text") ELSE parts[k + 1].type = "code"
Written(part) == IF part.type = "text" THEN part.text ELSE <<OpenBracket>> \o part.text \o <<CloseBracket>>
TextOf(parts) == <<"=">> \o FlattenSeq([k \in DOMAIN parts |-> Written(parts[k])])

(* A parameter is evaluated for one of the items, if there are any.        *)
ASSUME ParameterAssumption ==
  \A j \in ParameterJobs :
    /\ j.kind = "parameter"
    /\ j.items # <<>> => j.index \in DOMAIN j.items
    /\ j.texts \in Seq(Texts) /\ DOMAIN j.parts = DOMAIN j.texts
    /\ \A t \in DOMAIN j.texts :
         \/ Template(j.parts[t]) /\ j.texts[t] = TextOf(j.parts[t])
         \/ (IsFixed(j.texts[t]) \/ Len(j.texts) = 1) /\ j.parts[t] = <<>>

ASSUME CodeAssumption == \A j \in CodeJobs : j.kind = "code"

VARIABLES job,       \* what the machine is for, of kind "parameter" or "code"
          outcomes,  \* of the runs that have ended: <<"value", v>>, <<"nil">>, <<"error", why>>
          machine,   \* "idle", "ready", "running" or "done"
          armed,     \* the runs whose timer has not been stopped and has not fired
          interrupt, \* whether Interrupt was called since the last ClearInterrupt
          jobOutput

sandboxVars == <<job, outcomes, machine, armed, interrupt, jobOutput>>

NoOutput == [status |-> "none"]

SandboxIdle ==
  /\ job = [kind |-> "idle"] /\ outcomes = <<>> /\ machine = "idle"
  /\ armed = {} /\ interrupt = FALSE /\ jobOutput = NoOutput
SandboxInit ==
  /\ job \in ParameterJobs \cup CodeJobs
  /\ outcomes = <<>> /\ machine = "ready"
  /\ armed = {} /\ interrupt = FALSE /\ jobOutput = NoOutput

-----------------------------------------------------------------------------
(* What a script sees.                                                     *)

(* There is nothing at the place of the item where there are no items, and *)
(* in the output of a node that has put out fewer.                         *)
At(items, k) == IF k \in DOMAIN items THEN <<"value", items[k]>> ELSE <<"nil">>

(* getNodeOutputItems: of a node that ran, the first output of its last       *)
(* run, if there is anything in it.                                        *)
NodeOutputItems(runData) ==
  LET Output(n) == IF runData[n] = <<>> \/ Last(runData[n]) = <<>> THEN <<"none">> ELSE Last(runData[n])[1]
  IN  [n \in {m \in DOMAIN runData : Output(m)[1] = "items"} |-> Output(n)[2]]

(* SetupCtxForRunCode, and the code a run of it may be.                    *)
OutcomeOf(code) ==
  LET items == job.items
      outputs == NodeOutputItems(job.runData)
      OfNode(k) == IF code[2] \in DOMAIN outputs THEN At(outputs[code[2]], k) ELSE <<"error", "not a node">>
      LastOf == IF code[2] \in DOMAIN outputs THEN At(outputs[code[2]], Len(outputs[code[2]])) ELSE <<"error", "not a node">>
  IN  IF code = <<>> THEN <<"nil">>
      ELSE CASE Head(code) = "$json" -> At(items, job.index)
             [] Head(code) = "$input.first" -> At(items, 1)
             [] Head(code) = "$input.last" -> At(items, Len(items))
             [] Head(code) = "$.item" -> OfNode(job.index)
             [] Head(code) = "$.last" -> LastOf
             [] OTHER -> <<"error", "script">>

-----------------------------------------------------------------------------
(* The runs of a job.  resolveParameterValue evaluates all texts in a      *)
(* parameter with one machine.                                             *)

Runs ==
  IF job.kind = "code" THEN << [code |-> <<job.returns.kind>>, alone |-> TRUE] >>
  ELSE FlattenSeq([t \in DOMAIN job.texts |->
         LET codes == CodeOf(job.texts[t])
         IN  [k \in DOMAIN codes |-> [code |-> codes[k], alone |-> Alone(job.texts[t])]]])

NextRun == Len(outcomes) + 1
Current == Runs[NextRun]
Loops(run) == run.code # <<>> /\ Head(run.code) = "loops"

(* Code.Execute before the script runs.  Without items executeOnce slices  *)
(* past the end; only one mode is implemented.                             *)
Refused ==
  CASE job.kind # "code" -> "no"
    [] job.kind = "code" /\ job.executeOnce /\ job.items = <<>> -> "panic"
    [] job.kind = "code" /\ ~(job.executeOnce /\ job.items = <<>>) ->
         IF job.mode = "runOnceForAllItems" THEN "no" ELSE "failed"

Refuse ==
  /\ machine = "ready"
  /\ Refused # "no"
  /\ machine' = "done"
  /\ jobOutput' = [status |-> Refused]
  /\ UNCHANGED <<job, outcomes, armed, interrupt>>

(* A failed expression that stands alone fails the whole parameter.        *)
GivenUp == outcomes # <<>> /\ Last(outcomes)[1] = "error" /\ Runs[Len(outcomes)].alone

(* Mutant: a run has no timer.                                             *)
NeverTimed(k) == {}

TimerOf(k) == {k}

StartRun ==
  /\ machine = "ready"
  /\ Refused = "no" /\ ~GivenUp
  /\ Len(outcomes) < Len(Runs)
  /\ machine' = "running"
  /\ interrupt' = FALSE
  /\ armed' = armed \cup TimerOf(NextRun)
  /\ UNCHANGED <<job, outcomes, jobOutput>>

(* Only the script of a Code node stops its timer.  That of an expression  *)
(* goes on and hits whatever the machine runs when it fires.               *)
StopTimer == IF job.kind = "code" THEN armed \ {NextRun} ELSE armed

EndsWith(outcome) ==
  /\ outcomes' = Append(outcomes, outcome)
  /\ armed' = StopTimer
  /\ machine' = "ready"
  /\ UNCHANGED <<job, interrupt, jobOutput>>

EndRun ==
  /\ machine = "running"
  /\ ~interrupt
  /\ ~Loops(Current)
  /\ EndsWith(IF job.kind = "code"
              THEN IF job.returns.kind = "throws" THEN <<"error", "script">> ELSE <<"value", job.returns>>
              ELSE OutcomeOf(Current.code))

SeeInterrupt ==
  /\ machine = "running"
  /\ interrupt
  /\ EndsWith(<<"error", "timeout">>)

TimerFires(k) ==
  /\ machine # "done"
  /\ k \in armed
  /\ armed' = armed \ {k}
  /\ interrupt' = TRUE
  /\ UNCHANGED <<job, outcomes, machine, jobOutput>>

-----------------------------------------------------------------------------
(* ValidateRunCodeAllItems, StandardizeOutput and NormalizeItems.  A       *)
(* script returns nothing, a scalar, one map or an array that may have     *)
(* scalars in it.  An item is [json, junk]: whether it has the key json,   *)
(* and whether there are functions or undefined values in it, which are    *)
(* taken out.                                                              *)

ReturnsItems(returns) == returns.kind \in {"map", "array"} /\ ~returns.scalars

Normalized(items) == [k \in DOMAIN items |-> [items[k] EXCEPT !.json = TRUE, !.junk = FALSE]]

CodeOutput(outcome) ==
  IF outcome[1] = "error" \/ ~ReturnsItems(outcome[2])
  THEN IF job.continueOnFail THEN [status |-> "success", items |-> "error item"] ELSE [status |-> "failed"]
  ELSE [status |-> "success", items |-> Normalized(outcome[2].items)]

(* The outcomes of the texts of a parameter, each with its own code.       *)
ParameterValues ==
  LET Before(t) == Len(FlattenSeq([k \in 1 .. t - 1 |-> CodeOf(job.texts[k])]))
  IN  [t \in DOMAIN job.texts |->
         EvaluateExpression(job.texts[t],
           [k \in DOMAIN CodeOf(job.texts[t]) |-> outcomes[Before(t) + k]])]

FinishJob ==
  /\ machine = "ready"
  /\ Refused = "no"
  /\ GivenUp \/ Len(outcomes) = Len(Runs)
  /\ machine' = "done"
  /\ jobOutput' = IF job.kind = "code" THEN CodeOutput(outcomes[1])
               ELSE IF GivenUp THEN [status |-> "failed"]
               ELSE [status |-> "success", values |-> ParameterValues]
  /\ UNCHANGED <<job, outcomes, armed, interrupt>>

MachineStep == Refuse \/ StartRun \/ EndRun \/ SeeInterrupt \/ FinishJob
SandboxNext == MachineStep \/ \E k \in armed : TimerFires(k)
SandboxSpec == SandboxInit /\ [][SandboxNext]_sandboxVars

(* Scripts that do not loop come to their end, and timers fire.            *)
SandboxFairness ==
  /\ WF_sandboxVars(MachineStep)
  /\ WF_sandboxVars(\E k \in armed : TimerFires(k))
-----------------------------------------------------------------------------
(* An expression gives its text unchanged, and what each of its codes      *)
(* gives in the place of the code, also next to codes that fail or are     *)
(* interrupted: `parts` are the text and code it was put together from.    *)
Earlier ==
  LET codes[t \in 0 .. Len(job.texts)] ==
        IF t = 0 THEN 0 ELSE codes[t - 1] + CodesUpTo(job.parts[t], Len(job.parts[t]))
  IN  codes
RunOf(t, k) == Earlier[t - 1] + CodesUpTo(job.parts[t], k)
PlaceOf(t, k) ==
  IF job.parts[t][k].type = "text" THEN Verbatim(job.parts[t][k].text) ELSE Shown(outcomes[RunOf(t, k)])

EachInItsPlace ==
  jobOutput.status = "success" /\ job.kind = "parameter" =>
    \A t \in DOMAIN job.texts :
      LET parts == job.parts[t]
      IN  Len(parts) > 1 =>
            /\ jobOutput.values[t] = <<"string", FlattenSeq([k \in DOMAIN parts |-> PlaceOf(t, k)])>>
            /\ \A k \in DOMAIN parts :
                 parts[k].type = "code" =>
                   outcomes[RunOf(t, k)] \in {OutcomeOf(EscapeCode(parts[k].text)), <<"error", "timeout">>}

(* Whatever a script does, it ends, at its timer if not before.            *)
ScriptsEnd == machine = "ready" ~> machine = "done"
=============================================================================
