---------------------------- MODULE HandleWebhook ----------------------------
(***************************************************************************)
(* The handlers that start executions (api/webhook.go, core/run.go), on    *)
(* top of the registry of ActiveExecutions: a webhook in one of its three  *)
(* response modes, a form, and a request that runs its workflow itself     *)
(* (manual run, retry).                                                    *)
(*                                                                         *)
(* In mode responseNode the HTTP response is written either by a node,     *)
(* from the goroutine of the execution, or by the handler.  A sync.Once    *)
(* decides who, and a third channel tells the handler about the node.      *)
(***************************************************************************)
EXTENDS ActiveExecutions, Sequences

CONSTANT Modes        \* subset of the modes below

AllModes == {"onReceived", "lastNode", "responseNode", "form", "inline"}

ASSUME ModesAssumption == Modes \subseteq AllModes

VARIABLES
  handler,     \* where the handler of the request is
  mode,        \* responseMode of the webhook node, "form" or "inline"
  answer,      \* what the handler is about to answer
  once,        \* sendOnce: "new", "sending" and "leaving" inside Do, "done"
  written      \* the responses written to the fiber context

handlerVars == <<handler, mode, answer, once, written>>
vars == <<registryVars, handlerVars>>

Answers == {"none", "started", "result", "error", "dataError", "default"}
Responses == (Answers \ {"none"}) \cup {"node", "internal"}

Init ==
  /\ InitRegistry
  /\ handler = [e \in Exec |-> "idle"]
  /\ mode = [e \in Exec |-> "inline"]
  /\ answer = [e \in Exec |-> "none"]
  /\ once = [e \in Exec |-> "new"]
  /\ written = [e \in Exec |-> <<>>]

Goto(e, h) == handler' = [handler EXCEPT ![e] = h]
Write(e, response) == written' = [written EXCEPT ![e] = Append(@, response)]

(* The request fails: an error of the store, or a nil pointer for which    *)
(* the recover middleware answers.                                         *)
InternalError(e) ==
  /\ Goto(e, "returned")
  /\ Write(e, "internal")

-----------------------------------------------------------------------------
(* RunWorkflow.                                                            *)

(* The request is accepted; AddExecution may fail to create the row.       *)
Request(e, m) ==
  /\ handler[e] = "idle"
  /\ mode' = [mode EXCEPT ![e] = m]
  /\ \/ /\ AddExecution(e)
        /\ Goto(e, "added")
        /\ UNCHANGED written
     \/ /\ InternalError(e)
        /\ UNCHANGED registryVars
  /\ UNCHANGED <<answer, once>>

(* StartFromTriggerData: GetAdditionalDataWithHooks adds an execution f of *)
(* its own, which nobody runs, then RunWorkflow adds the one that runs.    *)
StartFromTriggerData(e, f) ==
  /\ "form" \in Modes
  /\ handler[e] = "idle" /\ handler[f] = "idle" /\ e # f
  /\ mode' = [mode EXCEPT ![e] = "form"]
  /\ \/ /\ AddExecution(f)
        /\ handler' = [handler EXCEPT ![e] = "adding", ![f] = "unused"]
        /\ UNCHANGED written
     \/ /\ InternalError(e)
        /\ UNCHANGED registryVars
  /\ UNCHANGED <<answer, once>>

AddAnother(e) ==
  /\ handler[e] = "adding"
  /\ \/ /\ AddExecution(e)
        /\ Goto(e, "added")
        /\ UNCHANGED written
     \/ /\ InternalError(e)
        /\ UNCHANGED registryVars
  /\ UNCHANGED <<mode, answer, once>>

(* These handlers do not look at the execution they have started.          *)
AnswersOnReceipt(e) == mode[e] \in {"onReceived", "form"}

ExecuteAsync(e) ==
  /\ handler[e] = "added" /\ mode[e] # "inline"
  /\ StartWorker(e)
  /\ Goto(e, "spawned")
  /\ UNCHANGED <<mode, answer, once, written>>

(* getExecution in ExecuteAsync.  When the goroutine was faster the result *)
(* is nil: some handlers ignore it, the other modes dereference it.        *)
FindExecution(e) ==
  /\ handler[e] = "spawned"
  /\ \/ /\ e \in listed
        /\ Goto(e, "found")
        /\ UNCHANGED <<answer, written>>
     \/ /\ e \notin listed /\ AnswersOnReceipt(e)
        /\ Goto(e, "answering")
        /\ answer' = [answer EXCEPT ![e] = "started"]
        /\ UNCHANGED written
     \/ /\ e \notin listed /\ ~AnswersOnReceipt(e)
        /\ InternalError(e)
        /\ UNCHANGED answer
  /\ UNCHANGED <<registryVars, mode, once>>

BindRun(e) ==
  /\ handler[e] = "found"
  /\ SetRun(e)
  /\ IF AnswersOnReceipt(e)
     THEN Goto(e, "answering") /\ answer' = [answer EXCEPT ![e] = "started"]
     ELSE Goto(e, "waiting") /\ UNCHANGED answer
  /\ UNCHANGED <<mode, once, written>>

-----------------------------------------------------------------------------
(* Wait: Go picks any case of the select that is ready.  The context of a  *)
(* fiber request is never done.                                            *)

Waited(e, a) ==
  /\ handler[e] = "waiting"
  /\ Goto(e, "answering")
  /\ answer' = [answer EXCEPT ![e] = a]
  /\ UNCHANGED <<mode, written>>

WaitCancelled(e) ==
  /\ e \in cancelled
  /\ Waited(e, "error")
  /\ UNCHANGED <<registryVars, once>>

(* Mutant: the error in the run data is not looked at.                     *)
AnswerToAnyData(e) ==
  CASE outcome[e] \in {"err", "panic"} -> "error"
    [] mode[e] = "responseNode" -> "default"
    [] OTHER -> "result"

(* sendResponseUsingLastNodeResult looks at the run data itself.           *)
AnswerTo(e) ==
  CASE outcome[e] \in {"err", "panic"} -> "error"
    [] mode[e] = "lastNode" -> "result"
    [] outcome[e] = "dataError" -> "dataError"
    [] OTHER -> "default"

(* Mutant: Wait listens to one of the two channels only.                   *)
WaitData(e) ==
  /\ outcome[e] \in {"data", "dataError"}
  /\ HandOver(e)
  /\ Waited(e, AnswerTo(e))
  /\ UNCHANGED once

WaitEnd(e) ==
  /\ HandOver(e)
  /\ Waited(e, AnswerTo(e))
  /\ UNCHANGED once

(* Mutant: Wait is given no channel of responses, as in mode lastNode.     *)
WaitNoResponse(e) == FALSE /\ Waited(e, "default") /\ UNCHANGED <<registryVars, once>>

WaitResponse(e) ==
  /\ once[e] = "sending"
  /\ once' = [once EXCEPT ![e] = "leaving"]
  /\ Waited(e, "default")
  /\ UNCHANGED registryVars

(* Mutant: the handler answers without sendOnce.                           *)
AnswerAlways(e) ==
  /\ handler[e] = "answering"
  /\ Write(e, answer[e])
  /\ Goto(e, "returned")
  /\ UNCHANGED <<registryVars, mode, answer, once>>

(* The handler answers and returns.  In mode responseNode through sendOnce *)
(* .Do, which waits for a Do that is under way and skips a second one.     *)
Answer(e) ==
  /\ handler[e] = "answering"
  /\ \/ /\ mode[e] # "responseNode"
        /\ Write(e, answer[e])
        /\ UNCHANGED once
     \/ /\ mode[e] = "responseNode" /\ once[e] = "new"
        /\ Write(e, answer[e])
        /\ once' = [once EXCEPT ![e] = "done"]
     \/ /\ mode[e] = "responseNode" /\ once[e] = "done"
        /\ UNCHANGED <<once, written>>
  /\ Goto(e, "returned")
  /\ UNCHANGED <<registryVars, mode, answer>>

(* A request that runs its workflow itself.  Nobody removes its entry from *)
(* the registry and nobody sets its run.                                   *)
AnswerInline(e) ==
  /\ handler[e] = "added" /\ mode[e] = "inline"
  /\ Write(e, "result")
  /\ Goto(e, "returned")
  /\ UNCHANGED <<registryVars, mode, answer, once>>

-----------------------------------------------------------------------------
(* The goroutine: nodes run one after the other inside the executable.     *)

InNode(e) == worker[e] = "running" /\ once[e] \notin {"sending", "leaving"}

(* Mutant: the hook writes without sendOnce.                               *)
RespondAgain(e) ==
  /\ InNode(e) /\ mode[e] = "responseNode"
  /\ Len(written[e]) < 2
  /\ Write(e, "node")
  /\ once' = [once EXCEPT ![e] = "sending"]
  /\ UNCHANGED <<registryVars, handler, mode, answer>>

(* Respond to Webhook runs the hook: the first one to reach sendOnce       *)
(* writes the response and then blocks until the handler has noticed.  A   *)
(* later one does nothing.                                                 *)
Respond(e) ==
  /\ InNode(e) /\ mode[e] = "responseNode" /\ once[e] = "new"
  /\ Write(e, "node")
  /\ once' = [once EXCEPT ![e] = "sending"]
  /\ UNCHANGED <<registryVars, handler, mode, answer>>

LeaveOnce(e) ==
  /\ once[e] = "leaving"
  /\ once' = [once EXCEPT ![e] = "done"]
  /\ UNCHANGED <<registryVars, handler, mode, answer, written>>

EndExecutable(e) ==
  /\ InNode(e)
  /\ \E o \in Outcomes : Return(e, o)
  /\ UNCHANGED handlerVars

Worker(e) ==
  \/ Respond(e) \/ LeaveOnce(e) \/ EndExecutable(e)
  \/ (RemoveExecution(e) \/ WorkerDone(e)) /\ UNCHANGED handlerVars

Handler(e) ==
  \/ AddAnother(e) \/ ExecuteAsync(e) \/ FindExecution(e) \/ BindRun(e)
  \/ WaitCancelled(e) \/ WaitEnd(e) \/ WaitResponse(e)
  \/ Answer(e) \/ AnswerInline(e)

(* The stop request looks the row up first: there is one once the request  *)
(* that started the execution was accepted.                                *)
Stop(e) ==
  /\ handler[e] # "idle"
  /\ StopFind(e) \/ StopCancel(e) \/ StopRemove(e)
  /\ UNCHANGED handlerVars

Shutdown == (ShutdownBegin \/ ShutdownEnd) /\ UNCHANGED handlerVars

Next ==
  \/ \E e \in Exec :
       \/ \E m \in Modes \ {"form"} : Request(e, m)
       \/ \E f \in Exec : StartFromTriggerData(e, f)
       \/ Handler(e) \/ Worker(e) \/ Stop(e)
  \/ Shutdown

Spec == Init /\ [][Next]_vars

(* Handlers and goroutines are scheduled and every node ends; a stop that  *)
(* began goes on.  No request has to be made.                              *)
Fairness ==
  \A e \in Exec :
    /\ WF_vars(Handler(e))
    /\ WF_vars(Worker(e))
    /\ WF_vars(Stop(e) /\ stop[e] # "idle")

FairSpec == Spec /\ Fairness

-----------------------------------------------------------------------------
(* Properties.                                                             *)

(* Every variable holds what its declaration says; a negative counter is a *)
(* panic of the wait group.                                                *)
TypeOK ==
  /\ listed \subseteq Exec
  /\ hasRun \subseteq Exec
  /\ cancelled \subseteq Exec
  /\ worker \in [Exec -> {"none", "running", "returned", "sending", "sent", "over"}]
  /\ outcome \in [Exec -> Outcomes \cup {"none"}]
  /\ waitGroup \in Nat
  /\ stop \in [Exec -> {"idle", "found", "cancelled", "stopped", "failed"}]
  /\ shutdown \in {"no", "waiting", "closed", "forced"}
  /\ handler \in [Exec -> {"idle", "adding", "unused", "added", "spawned", "found",
                           "waiting", "answering", "returned"}]
  /\ mode \in [Exec -> AllModes]
  /\ answer \in [Exec -> Answers]
  /\ once \in [Exec -> {"new", "sending", "leaving", "done"}]
  /\ written \in [Exec -> Seq(Responses)]

(***************************************************************************)
(* Every request is answered exactly once, whoever wins sendOnce, however  *)
(* the execution ends and whenever it is stopped (webhook.go:148-220).     *)
(***************************************************************************)
OneResponse ==
  \A e \in Exec :
    /\ Len(written[e]) <= 1
    /\ handler[e] = "returned" => Len(written[e]) = 1

(***************************************************************************)
(* Once the handler has returned nobody writes to its fiber context, which *)
(* then belongs to another request.                                        *)
(***************************************************************************)
NoLateWrite ==
  [][\A e \in Exec : handler[e] = "returned" => written'[e] = written[e]]_vars

(***************************************************************************)
(* The answer tells the truth about the run: "executed successfully" only  *)
(* after a run without error, an error only after an error or a stop.      *)
(***************************************************************************)
AnswerMatchesRun ==
  \A e \in Exec :
    /\ written[e] = <<"default">> => outcome[e] = "data"
    /\ written[e] = <<"dataError">> => outcome[e] = "dataError"
    /\ written[e] = <<"error">> => outcome[e] \in {"err", "panic"} \/ e \in cancelled

(***************************************************************************)
(* The list of current executions follows the goroutines: one that runs is *)
(* listed until it is stopped.  Nothing else stays listed for ever but the *)
(* entries of requests that ran their workflow themselves and the first    *)
(* one of a form: every other entry has a handler that is about to start   *)
(* its goroutine, or a goroutine that is about to remove it, also after a  *)
(* panic and next to a stop (removeExecution and its callers).             *)
(***************************************************************************)
ListedWhileRunning ==
  /\ \A e \in Exec : (worker[e] = "running" /\ stop[e] # "stopped") => e \in listed
  /\ \A e \in listed :
       \/ mode[e] = "inline"
       \/ handler[e] = "added"
       \/ worker[e] \in {"running", "returned"}

(***************************************************************************)
(* The hook is "thread-safe" (webhook.go:150): the node never holds        *)
(* sendOnce while the handler, which alone could receive from it, waits    *)
(* for sendOnce.                                                           *)
(***************************************************************************)
Locked(e) == handler[e] = "answering" /\ once[e] = "sending"

HookNeverBlocksHandler == \A e \in Exec : ~Locked(e)

(***************************************************************************)
(* Every request that was accepted is answered, except when a stop met the *)
(* hook in the middle of its response.                                     *)
(***************************************************************************)
EveryRequestReturns ==
  \A e \in Exec :
    handler[e] \notin {"idle", "unused"} ~> handler[e] = "returned" \/ (Locked(e) /\ e \in cancelled)

(***************************************************************************)
(* A goroutine whose handler waits for the end of the run ends itself,     *)
(* unless the run was stopped or the handler found no entry to wait on.    *)
(***************************************************************************)
AwaitedWorkerEnds ==
  \A e \in Exec :
    (mode[e] = "lastNode" /\ handler[e] = "waiting" /\ worker[e] # "none")
      ~> (worker[e] = "over" \/ e \in cancelled)

(***************************************************************************)
(* Both sides of a request come to an end: its handler and the goroutine   *)
(* the handler waits for.                                                  *)
(***************************************************************************)
RequestsEnd == EveryRequestReturns /\ AwaitedWorkerEnds

(***************************************************************************)
(* Shutdown gets its done signal "if all complete"                         *)
(* (active_executions.go:42): when every executable has ended, the wait    *)
(* group empties.                                                          *)
(***************************************************************************)
DoneIfAllComplete ==
  (/\ shutdown = "waiting"
   /\ \A e \in Exec : worker[e] # "running" /\ handler[e] \in {"idle", "unused", "returned"})
    ~> (waitGroup = 0 \/ \E e \in Exec : worker[e] = "running")

=============================================================================
