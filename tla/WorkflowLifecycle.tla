-------------------------- MODULE WorkflowLifecycle --------------------------
(***************************************************************************)
(* The requests that create, edit, activate, run and delete a workflow     *)
(* (api/workflow.go) against the start-up of the main service              *)
(* (api/service.go) and the Temporal workflow that removes test webhooks.  *)
(* All of them change the tables of WorkflowStore and the cron workflows   *)
(* on Temporal one call at a time, without a transaction or a lock.        *)
(*                                                                         *)
(* A process is a stack of calls still to make.  A call is a function of   *)
(* the Go code, `at` is the place inside it; each action below is one      *)
(* access to the database or to Temporal.                                  *)
(***************************************************************************)
EXTENDS WorkflowStore

CONSTANTS
  Slot,         \* requests that may be in progress at a time
  MainSlot,     \* those served by the main instance
  Faults,       \* subset of FaultKinds
  MaxRequests,  \* bound: requests in one behaviour
  MaxFaults     \* bound: faults in one behaviour

FaultKinds == {"read", "write", "temporal", "crash"}

Main == "main"
Proc == Slot \cup {Main} \cup Workflow     \* the activity of w runs as process w

ASSUME LifecycleAssumption ==
  /\ MainSlot \subseteq Slot
  /\ Slot \cap Workflow = {} /\ Main \notin Slot \cup Workflow
  /\ Faults \subseteq FaultKinds
  /\ MaxRequests \in Nat /\ MaxFaults \in Nat

VARIABLES
  fresh,        \* ids not given to a workflow yet
  schedule,     \* the open cron workflow on Temporal: its cron expression or None
  expiry,       \* the Temporal workflow that unregisters the test webhooks
  tries,        \* attempts of its activity so far
  proc,         \* the processes: requests, start-up, activities
  requests, faults,   \* counters for the bounds
  armed,        \* history: what the last undisturbed requests left (see below)
  disturbed,    \* history: workflows with overlapping requests or failed calls
  broken        \* history: workflows with a failed write or call to Temporal

temporal == <<schedule, expiry, tries>>
history == <<armed, disturbed, broken>>
vars == <<tables, fresh, temporal, proc, requests, faults, history>>

-----------------------------------------------------------------------------
(* Calls and processes.                                                    *)

Call(do, w, test) == [do |-> do, w |-> w, test |-> test]
Do(do, w) == Call(do, w, FALSE)

Idle ==
  [op |-> "idle", todo |-> <<>>, at |-> "start", left |-> <<>>,
   new |-> None,                           \* the body of an update
   seen |-> [w \in Workflow |-> None],     \* the rows the handler has read
   copy |-> None]                          \* the row a (un)registration has read

Here(p) == Head(proc[p].todo)
At(p, do, at) == proc[p].todo # <<>> /\ Here(p).do = do /\ proc[p].at = at

(* Start-up goes over every workflow.                                      *)
Busy(p, w) ==
  \/ p = Main /\ proc[p] # Idle
  \/ \E i \in DOMAIN proc[p].todo : proc[p].todo[i].w = w
BusyElsewhere(p, w) == \E q \in Proc \ {p} : Busy(q, w)

Goto(p, at) == proc' = [proc EXCEPT ![p].at = at]

(* The rest of a handler once it has loaded its workflow.  An update       *)
(* removes and re-adds the triggers of a workflow stored as active.        *)
AfterLoad(op, w, e) ==
  CASE op = "activate" ->
         <<Do("setActive", w), Do("setup", w), Do("register", w), Do("reload", w)>>
    [] op = "deactivate" ->
         <<Do("setActive", w), Do("terminate", w), Do("unregister", w), Do("reload", w)>>
    [] op = "update" /\ e.active ->
         <<Do("terminate", w), Do("unregister", w), Do("update", w),
           Do("setup", w), Do("register", w)>>
    [] op = "update" /\ ~e.active -> <<Do("update", w)>>
    [] op = "delete" ->
         <<Do("terminate", w), Do("unregister", w), Call("unregister", w, TRUE), Do("remove", w)>>
    [] op = "run" ->
         IF Webhooks[e.def] = <<>> THEN <<>>
         ELSE <<Call("register", w, TRUE), Do("expire", w)>>
    [] op = "deleteTest" -> <<Call("unregister", w, TRUE)>>

(* Start.                                                                  *)
StartProgram ==
  <<Do("unregisterAll", None), Do("registerAll", None), Do("terminateAll", None),
    Do("terminateAll", None), Do("setupAll", None)>>

(* The activity of Temporal's Workflow_UnregisterTestWebhooks.             *)
ExpiryProgram(w) == <<Call("unregister", w, TRUE)>>

(* Mutant: the retry policy of the activity allows no second attempt.      *)
OneAttempt == 1

MaximumAttempts == 2

(* The process p has made its last call; ok says whether it succeeded.     *)
(* Temporal repeats a failed activity of an open workflow.                 *)
End(p, ok) ==
  IF p \notin Workflow \/ expiry[p] # "active"
  THEN /\ proc' = [proc EXCEPT ![p] = Idle]
       /\ UNCHANGED <<expiry, tries>>
  ELSE IF ~ok /\ tries[p] < MaximumAttempts
  THEN /\ proc' = [proc EXCEPT ![p] = [Idle EXCEPT !.op = "expire", !.todo = ExpiryProgram(p)]]
       /\ tries' = [tries EXCEPT ![p] = @ + 1]
       /\ UNCHANGED expiry
  ELSE /\ proc' = [proc EXCEPT ![p] = Idle]
       /\ expiry' = [expiry EXCEPT ![p] = "none"]
       /\ tries' = [tries EXCEPT ![p] = 0]

(* The current call of p is done, the rows p has seen are kept, then comes *)
(* the next call.                                                          *)
ReturnWith(p, seen) ==
  IF Len(proc[p].todo) = 1
  THEN End(p, TRUE)
  ELSE /\ proc' = [proc EXCEPT ![p] = [proc[p] EXCEPT !.todo = Tail(@), !.at = "start",
                                                      !.left = <<>>, !.copy = None, !.seen = seen]]
       /\ UNCHANGED <<expiry, tries>>

Return(p) == ReturnWith(p, proc[p].seen)

(* The current call of p is replaced by the given calls.                   *)
Expand(p, calls, seen) ==
  LET todo == calls \o Tail(proc[p].todo)
  IN  IF todo = <<>>
      THEN End(p, TRUE)
      ELSE /\ proc' = [proc EXCEPT ![p].todo = todo, ![p].seen = seen]
           /\ UNCHANGED <<expiry, tries>>

(* The current call of p returns an error.  Start-up logs it and goes on,  *)
(* except where it cannot list the active workflows: then the service      *)
(* exits and starts again.  A run only logs that its test webhooks will    *)
(* not expire.  Every other handler answers the error at once.             *)
Fail(p) ==
  CASE p = Main /\ Here(p).do \in {"registerAll", "setupAll"} ->
         /\ proc' = [proc EXCEPT ![p] = [Idle EXCEPT !.op = "start", !.todo = StartProgram]]
         /\ UNCHANGED <<expiry, tries>>
    [] p = Main /\ Here(p).do \notin {"registerAll", "setupAll"} -> Return(p)
    [] p # Main /\ Here(p).do = "expire" -> Return(p)
    [] p # Main /\ Here(p).do # "expire" -> End(p, FALSE)

-----------------------------------------------------------------------------
(* Schedules.  Temporal keeps at most one open workflow per id; starting   *)
(* one that is open already returns the open one, terminating one that has *)
(* closed is an error.                                                     *)

Unchanged == UNCHANGED <<fresh, requests, faults, history>>

(* SetupTemporalWorkflow_ScheduleTrigger uses the nodes of the row the     *)
(* caller has read.  Without a schedule among them it does nothing.        *)
SetupStart(p) ==
  /\ At(p, "setup", "start")
  /\ LET w == Here(p).w
     IN  IF Cron[proc[p].seen[w].def] = None
         THEN Return(p)
         ELSE /\ Goto(p, IF schedule[w] = None THEN "execute" ELSE "terminate")
              /\ UNCHANGED <<expiry, tries>>
  /\ UNCHANGED <<tables, schedule>> /\ Unchanged

(* StartWorkflow_Override terminates the cron workflow it found open ...   *)
SetupTerminate(p) ==
  /\ At(p, "setup", "terminate")
  /\ LET w == Here(p).w
     IN  IF schedule[w] # None
         THEN /\ schedule' = [schedule EXCEPT ![w] = None]
              /\ Goto(p, "execute")
              /\ UNCHANGED <<expiry, tries>>
         ELSE Fail(p) /\ UNCHANGED schedule
  /\ UNCHANGED tables /\ Unchanged

(* ... and starts a new one.                                               *)
SetupExecute(p) ==
  /\ At(p, "setup", "execute")
  /\ LET w == Here(p).w
     IN  schedule' = [schedule EXCEPT ![w] = IF @ = None THEN Cron[proc[p].seen[w].def] ELSE @]
  /\ Return(p)
  /\ UNCHANGED tables /\ Unchanged

(* Mutant: an open workflow is taken for a closed one.                     *)
TakenForClosed(p) ==
  /\ At(p, "terminate", "start")
  /\ Return(p)
  /\ UNCHANGED <<tables, schedule>> /\ Unchanged

(* TerminateWorkflowIfOpen.                                                *)
TerminateStart(p) ==
  /\ At(p, "terminate", "start")
  /\ IF schedule[Here(p).w] = None
     THEN Return(p)
     ELSE Goto(p, "terminate") /\ UNCHANGED <<expiry, tries>>
  /\ UNCHANGED <<tables, schedule>> /\ Unchanged

Terminate(p) ==
  /\ At(p, "terminate", "terminate")
  /\ LET w == Here(p).w
     IN  IF schedule[w] # None
         THEN schedule' = [schedule EXCEPT ![w] = None] /\ Return(p)
         ELSE Fail(p) /\ UNCHANGED schedule
  /\ UNCHANGED tables /\ Unchanged

-----------------------------------------------------------------------------
(* Registrations.                                                          *)

(* RegisterWebhook and UnregisterWebhook read the workflow themselves.     *)
ReadWorkflow(p, do) ==
  /\ At(p, do, "start")
  /\ LET w == Here(p).w
     IN  CASE ~Exists(w) -> Fail(p)
           [] Exists(w) /\ Webhooks[row[w].def] = <<>> -> Return(p)
           [] Exists(w) /\ Webhooks[row[w].def] # <<>> ->
                /\ proc' = [proc EXCEPT ![p].copy = row[w], ![p].left = Webhooks[row[w].def],
                                         ![p].at = "hooks"]
                /\ UNCHANGED <<expiry, tries>>
  /\ UNCHANGED <<tables, schedule>> /\ Unchanged

(* The loop over the webhooks: one INSERT or DELETE each.  An error is     *)
(* logged and the loop goes on.                                            *)
NextHook(p) ==
  /\ proc' = [proc EXCEPT ![p].left = Tail(@),
                           ![p].at = IF Len(proc[p].left) = 1 THEN "static" ELSE "hooks"]
  /\ UNCHANGED <<expiry, tries>>

CurrentHook(p) == HookFor(Here(p).w, Head(proc[p].left), Here(p).test)

SaveHook(p) ==
  /\ At(p, "register", "hooks")
  /\ IF MayInsert(CurrentHook(p))
     THEN CreateWebhookEntity(CurrentHook(p)) /\ UNCHANGED disturbed
     ELSE /\ UNCHANGED tables
          /\ disturbed' = IF CurrentHook(p) \in hook THEN disturbed
                          ELSE disturbed \cup {Here(p).w}
  /\ NextHook(p)
  /\ UNCHANGED <<fresh, schedule, requests, faults, armed, broken>>

DeleteHook(p) ==
  /\ At(p, "unregister", "hooks")
  /\ DeleteWebhookEntityByWorkflowId_Path_Method(CurrentHook(p))
  /\ NextHook(p)
  /\ UNCHANGED schedule /\ Unchanged

(* Mutant: the static data of the row the handler loaded is written.       *)
LoadedStaticData(p) ==
  IF proc[p].seen[Here(p).w] = None THEN proc[p].copy.static ELSE proc[p].seen[Here(p).w].static

StaticData(p) == proc[p].copy.static

(* updateWorkflowStaticData writes back what was read before the loop.     *)
UpdateStaticData(p) ==
  /\ proc[p].at = "static"
  /\ IF Exists(Here(p).w)
     THEN UpdateWorkflowEntityStaticDataByID(Here(p).w, StaticData(p)) /\ Return(p)
     ELSE Fail(p) /\ UNCHANGED tables
  /\ UNCHANGED schedule /\ Unchanged

-----------------------------------------------------------------------------
(* The handlers' own queries.                                              *)

(* GetWorkflowEntity: the handler goes on with this row, whatever becomes  *)
(* of it in the table.                                                     *)
Load(p) ==
  /\ At(p, "load", "start")
  /\ LET w == Here(p).w
     IN  IF Exists(w)
         THEN Expand(p, AfterLoad(proc[p].op, w, row[w]), [proc[p].seen EXCEPT ![w] = row[w]])
         ELSE Fail(p)
  /\ UNCHANGED <<tables, schedule>> /\ Unchanged

Reload(p) ==
  /\ At(p, "reload", "start")
  /\ IF Exists(Here(p).w) THEN Return(p) ELSE Fail(p)
  /\ UNCHANGED <<tables, schedule>> /\ Unchanged

(* The flag alone is updated; the handler goes on with the updated row.    *)
SetActive(p) ==
  /\ At(p, "setActive", "start")
  /\ LET w == Here(p).w
         active == proc[p].op = "activate"
     IN  IF Exists(w)
         THEN /\ UpdateWorkflowEntityActive(w, active)
              /\ ReturnWith(p, [proc[p].seen EXCEPT ![w] = row'[w]])
              /\ armed' = [armed EXCEPT ![w] =
                            IF @ = "lost" THEN @
                            ELSE IF ~active THEN "off"
                            ELSE IF @ = "edited" /\ Cron[row[w].def] = None THEN @ ELSE "on"]
         ELSE Fail(p) /\ UNCHANGED <<tables, armed>>
  /\ UNCHANGED <<fresh, schedule, requests, faults, disturbed, broken>>

(* The whole row is updated; the handler goes on with the old one.         *)
Update(p) ==
  /\ At(p, "update", "start")
  /\ LET w == Here(p).w
         new == proc[p].new
     IN  IF Exists(w)
         THEN /\ UpdateWorkflowEntity(w, new.active, new.def)
              /\ Return(p)
              /\ armed' = [armed EXCEPT ![w] =
                            IF @ = "lost" \/ new.active # row[w].active THEN "lost"
                            ELSE IF new.active THEN "edited" ELSE "off"]
         ELSE Fail(p) /\ UNCHANGED <<tables, armed>>
  /\ UNCHANGED <<fresh, schedule, requests, faults, disturbed, broken>>

DeleteRow(p) ==
  /\ At(p, "remove", "start")
  /\ LET w == Here(p).w
     IN  IF Exists(w)
         THEN /\ DeleteWorkflowEntity(w)
              /\ Return(p)
              /\ armed' = [armed EXCEPT ![w] = IF @ = "lost" THEN @ ELSE "off"]
         ELSE Fail(p) /\ UNCHANGED <<tables, armed>>
  /\ UNCHANGED <<fresh, schedule, requests, faults, disturbed, broken>>

(* A request arrives.  The main instance listens once it has started.      *)
Bodies(op) == IF op = "update" THEN [active : BOOLEAN, def : Definition] ELSE {None}

Request(p, op, w) ==
  /\ proc[p] = Idle
  /\ requests < MaxRequests
  /\ w \notin fresh
  /\ p \in MainSlot => proc[Main] = Idle
  /\ \E body \in Bodies(op) :
       proc' = [proc EXCEPT ![p] = [Idle EXCEPT !.op = op, !.new = body, !.todo = <<Do("load", w)>>]]
  /\ requests' = requests + 1
  /\ disturbed' = IF BusyElsewhere(p, w) THEN disturbed \cup {w} ELSE disturbed
  /\ UNCHANGED <<tables, fresh, temporal, faults, armed, broken>>

(* CreateWorkflow stores the flag it is given and sets up nothing.         *)
CreateWorkflow(w, active, d) ==
  /\ w \in fresh
  /\ requests < MaxRequests
  /\ CreateWorkflowEntity(w, active, d)
  /\ fresh' = fresh \ {w}
  /\ requests' = requests + 1
  /\ armed' = [armed EXCEPT ![w] = IF active THEN "lost" ELSE "off"]
  /\ disturbed' = IF proc[Main] # Idle THEN disturbed \cup {w} ELSE disturbed
  /\ UNCHANGED <<temporal, proc, faults, broken>>

-----------------------------------------------------------------------------
(* The Temporal workflow that unregisters test webhooks after two minutes. *)
(* A run that registered some starts it over.                              *)

Finish(p) == proc' = [proc EXCEPT ![p] = Idle]
Expiry(w, value) == expiry' = [expiry EXCEPT ![w] = value] /\ tries' = [tries EXCEPT ![w] = 0]

ExpireStart(p) ==
  /\ At(p, "expire", "start")
  /\ Goto(p, IF expiry[Here(p).w] = "none" THEN "execute" ELSE "terminate")
  /\ UNCHANGED <<tables, temporal>> /\ Unchanged

(* The open workflow may have closed meanwhile; then no other is started.  *)
ExpireTerminate(p) ==
  /\ At(p, "expire", "terminate")
  /\ LET w == Here(p).w
     IN  IF expiry[w] # "none"
         THEN Expiry(w, "none") /\ Goto(p, "execute") /\ UNCHANGED broken
         ELSE /\ Finish(p)
              /\ broken' = broken \cup {w}
              /\ UNCHANGED <<expiry, tries>>
  /\ UNCHANGED <<tables, schedule, fresh, requests, faults, armed, disturbed>>

ExpireExecute(p) ==
  /\ At(p, "expire", "execute")
  /\ LET w == Here(p).w
     IN  IF expiry[w] = "none" THEN Expiry(w, "sleeping") ELSE UNCHANGED <<expiry, tries>>
  /\ Finish(p)
  /\ UNCHANGED <<tables, schedule>> /\ Unchanged

(* Two minutes have passed: the activity starts.                           *)
Wake(w) ==
  /\ expiry[w] = "sleeping" /\ proc[w] = Idle
  /\ expiry' = [expiry EXCEPT ![w] = "active"]
  /\ tries' = [tries EXCEPT ![w] = 1]
  /\ proc' = [proc EXCEPT ![w] = [Idle EXCEPT !.op = "expire", !.todo = ExpiryProgram(w)]]
  /\ disturbed' = IF BusyElsewhere(w, w) THEN disturbed \cup {w} ELSE disturbed
  /\ UNCHANGED <<tables, schedule, fresh, requests, faults, armed, broken>>

-----------------------------------------------------------------------------
(* Start-up of the main service.                                           *)

(* The workflows ws of a query come in any order.  Each has its calls,     *)
(* after all of them come the calls `last`.                                *)
Orders(ws) == Bijection(1 .. Cardinality(ws), ws)
Each(do, order) == [i \in DOMAIN order |-> Do(do, order[i])]
TestFirst(do, order) ==
  [i \in 1 .. 2 * Len(order) |-> Call(do, order[(i + 1) \div 2], i % 2 = 1)]

ForEach(p, ws, calls, last) ==
  Expand(p, calls \o last, [w \in Workflow |-> IF w \in ws /\ Exists(w) THEN row[w] ELSE None])

UnregisterAllWebhooks(p) ==
  /\ At(p, "unregisterAll", "start")
  /\ LET ws == ListDistinctWorkflowIdsFromWebhookEntities
     IN  IF ws = {}
         THEN Return(p)
         ELSE \E order \in Orders(ws) :
                ForEach(p, ws, TestFirst("unregister", order), <<Do("deleteAll", None)>>)
  /\ UNCHANGED <<tables, schedule>> /\ Unchanged

DeleteAll(p) ==
  /\ At(p, "deleteAll", "start")
  /\ DeleteAllWebhookEntities
  /\ Return(p)
  /\ UNCHANGED schedule /\ Unchanged

RegisterAllWebhooks(p) ==
  /\ At(p, "registerAll", "start")
  /\ LET ws == ListAllActiveWorkflowEntities
     IN  \E order \in Orders(ws) : ForEach(p, ws, Each("register", order), <<>>)
  /\ UNCHANGED <<tables, schedule>> /\ Unchanged

TerminateAllTemporalWorkflows(p) ==
  /\ At(p, "terminateAll", "start")
  /\ LET ws == {w \in Workflow : schedule[w] # None}
     IN  \E order \in Orders(ws) : ForEach(p, ws, Each("terminate", order), <<>>)
  /\ UNCHANGED <<tables, schedule>> /\ Unchanged

(* After the second terminateAll of StartProgram, which belongs to it.     *)
SetupAllTemporalWorkflows(p) ==
  /\ At(p, "setupAll", "start")
  /\ LET ws == ListAllActiveWorkflowEntities
     IN  \E order \in Orders(ws) : ForEach(p, ws, Each("setup", order), <<>>)
  /\ UNCHANGED <<tables, schedule>> /\ Unchanged

-----------------------------------------------------------------------------
(* Faults.                                                                 *)

KindOf(do, at) ==
  CASE do \in {"setup", "terminate", "terminateAll", "expire"} -> "temporal"
    [] at # "start" \/ do \in {"setActive", "update", "remove", "deleteAll"} -> "write"
    [] OTHER -> "read"

Spend(kind) ==
  /\ kind \in Faults /\ faults < MaxFaults
  /\ faults' = faults + 1

(* An access of p fails and changes nothing.  In the loop over webhooks    *)
(* the error is only logged.                                               *)
Fault(p) ==
  /\ proc[p].todo # <<>>
  /\ LET call == Here(p)
         ws == IF call.w = None THEN Workflow ELSE {call.w}
     IN  /\ Spend(KindOf(call.do, proc[p].at))
         /\ IF proc[p].at = "hooks" THEN NextHook(p) ELSE Fail(p)
         /\ disturbed' = disturbed \cup ws
         /\ broken' = IF KindOf(call.do, proc[p].at) = "read" THEN broken ELSE broken \cup ws
  /\ UNCHANGED <<tables, fresh, schedule, requests, armed>>

(* The main instance stops with all that runs in it, the Temporal worker   *)
(* included, and is started again.                                         *)
Crash ==
  /\ Spend("crash")
  /\ proc' = [p \in Proc |->
       IF p = Main THEN [Idle EXCEPT !.op = "start", !.todo = StartProgram]
       ELSE IF p \in Slot \ MainSlot THEN proc[p] ELSE Idle]
  /\ expiry' = [w \in Workflow |-> IF expiry[w] = "active" THEN "none" ELSE expiry[w]]
  /\ tries' = [w \in Workflow |-> 0]
  /\ armed' = [w \in Workflow |-> IF Exists(w) /\ row[w].active THEN "on" ELSE "off"]
  /\ disturbed' = {w \in Workflow : \E p \in Slot \ MainSlot : Busy(p, w)}
  /\ UNCHANGED <<tables, fresh, schedule, requests, broken>>

-----------------------------------------------------------------------------
(* The system.  It starts with workflows in the table, active ones with    *)
(* their triggers set up, as start-up leaves them.                         *)

Rows == [active : BOOLEAN, def : Definition, static : {None}]
Production(w) == {HookFor(w, h, FALSE) : h \in WebhooksOf(row[w].def)}

Init ==
  /\ \E stored \in SUBSET Workflow : row \in [stored -> Rows]
  /\ hook = UNION {Production(w) : w \in ListAllActiveWorkflowEntities}
  /\ \A h1, h2 \in hook : h1.path = h2.path /\ h1.method = h2.method => h1 = h2
  /\ fresh = {w \in Workflow : ~Exists(w)}
  /\ schedule = [w \in Workflow |-> IF Exists(w) /\ row[w].active THEN Cron[row[w].def] ELSE None]
  /\ expiry = [w \in Workflow |-> "none"]
  /\ tries = [w \in Workflow |-> 0]
  /\ proc = [p \in Proc |-> Idle]
  /\ requests = 0 /\ faults = 0
  /\ armed = [w \in Workflow |-> IF Exists(w) /\ row[w].active THEN "on" ELSE "off"]
  /\ disturbed = {} /\ broken = {}

Ops == {"activate", "deactivate", "update", "delete", "run", "deleteTest"}

Step(p) ==
  \/ Load(p) \/ Reload(p) \/ SetActive(p) \/ Update(p) \/ DeleteRow(p)
  \/ SetupStart(p) \/ SetupTerminate(p) \/ SetupExecute(p)
  \/ TerminateStart(p) \/ Terminate(p)
  \/ ReadWorkflow(p, "register") \/ ReadWorkflow(p, "unregister")
  \/ SaveHook(p) \/ DeleteHook(p) \/ UpdateStaticData(p)
  \/ ExpireStart(p) \/ ExpireTerminate(p) \/ ExpireExecute(p)
  \/ UnregisterAllWebhooks(p) \/ DeleteAll(p) \/ RegisterAllWebhooks(p)
  \/ TerminateAllTemporalWorkflows(p) \/ SetupAllTemporalWorkflows(p)

Next ==
  \/ \E p \in Slot, op \in Ops, w \in Workflow : Request(p, op, w)
  \/ \E w \in Workflow, active \in BOOLEAN, d \in Definition : CreateWorkflow(w, active, d)
  \/ \E p \in Proc : Step(p)
  \/ \E w \in Workflow : Wake(w)
  \/ \E p \in Proc : Fault(p)
  \/ Crash

Spec == Init /\ [][Next]_vars

(* Every process runs on and Temporal's timer fires; requests and faults   *)
(* may cease.                                                              *)
Fairness ==
  /\ \A p \in Proc : WF_vars(Step(p))
  /\ \A w \in Workflow : WF_vars(Wake(w))

FairSpec == Spec /\ Fairness

-----------------------------------------------------------------------------
(* Properties.                                                             *)

(* What the requests so far should have left of the triggers of w:         *)
(*   "on"      they were set up for the nodes the row has,                 *)
(*   "edited"  as before, and then the nodes were replaced by an update;   *)
(*             activating nodes without a schedule changes nothing in that,  *)
(*   "off"     there are none,                                             *)
(*   "lost"    an update changed the flag as well, or the workflow was     *)
(*             created as active: the handlers do not keep up with that.   *)
(* It can be told where no two requests on w overlapped and no call for w  *)
(* failed since the last start-up, and only while none is under way.       *)
Settled(w) ==
  /\ w \notin disturbed
  /\ armed[w] # "lost"
  /\ \A p \in Proc : ~Busy(p, w)

(* A webhook node is reachable by production requests iff its workflow is  *)
(* active, by exactly the webhooks of its nodes as they are now, whatever  *)
(* requests for other workflows, start-ups and crashes did meanwhile       *)
(* (RegisterWebhook, UnregisterWebhook and their callers).                 *)
WebhooksFollowActivation ==
  \A w \in Workflow : Settled(w) /\ Exists(w) =>
    \A h \in AllWebhooks :
      Accepts(w, h, FALSE) <=> armed[w] # "off" /\ h \in WebhooksOf(row[w].def)

(* Temporal has an open cron workflow for w iff w is active and its nodes  *)
(* have a schedule, and none for a deleted workflow.                       *)
ScheduleFollowsActivation ==
  \A w \in Workflow : Settled(w) =>
    /\ armed[w] = "off" => schedule[w] = None
    /\ armed[w] = "on" => schedule[w] = Cron[row[w].def]

(* Even with overlapping requests and failures no registration outlives    *)
(* its workflow: a handler that has read the workflow before it was        *)
(* deleted cannot register a webhook of it any more (SaveWebhookEntity).   *)
HookHasWorkflow == \A h \in hook : Exists(h.workflow)

(* Only an update that brings new static data changes it: registration     *)
(* and removal of webhooks write back what is there, unless two requests   *)
(* overlap (updateWorkflowStaticData).                                     *)
StaticDataKept ==
  [][\A w \in Workflow :
       Exists(w) /\ Exists(w)' /\ row'[w].static # row[w].static /\ w \notin disturbed
         => row'[w].def = row'[w].static]_vars

(* Once their expiry is scheduled the test registrations of the nodes as   *)
(* they are go away, although a read of the activity may fail once; unless *)
(* a failed DELETE was swallowed or a call to Temporal failed              *)
(* (Workflow_UnregisterTestWebhooks).                                      *)
TestWebhooksExpire ==
  \A w \in Workflow :
    expiry[w] = "sleeping" ~>
      \/ ~Exists(w) \/ w \in broken
      \/ \A h \in WebhooksOf(row[w].def) : HookFor(w, h, TRUE) \notin hook

(* The comment in UpdateWorkflow: a trigger that was updated takes effect  *)
(* on removing and re-adding, which the handler does.                      *)
NewTriggerTakesEffect ==
  \A w \in Workflow : Settled(w) /\ armed[w] = "edited" => schedule[w] = Cron[row[w].def]
=============================================================================
