--------------------------- MODULE WorkflowExecute ---------------------------
(***************************************************************************)
(* The execution engine of the workflow service: WorkflowExecute.execute   *)
(* (core/workflow_execute.go), the two hooks that persist its progress,    *)
(* the execution row they write, and the handler that retries an           *)
(* unfinished execution from that row (api/execution.go).                  *)
(*                                                                         *)
(* A workflow is a graph of nodes.  The engine keeps a stack of nodes that *)
(* are ready to run with their input, pops the first one, executes it,     *)
(* saves the result, and pushes the successors that became ready.  Every   *)
(* execution is a goroutine or a request of its own; executions meet only  *)
(* in the rows of the database.                                            *)
(***************************************************************************)
EXTENDS Integers, Sequences, FiniteSets, SequencesExt

CONSTANTS
  Node,        \* the nodes of the workflow
  Conn,        \* its connections, [src, out, dst, in] with 0-based indexes
  Rank,        \* Rank[n]: place of n on the canvas, top left first
  Disabled,    \* nodes the user switched off
  Starters,    \* enabled nodes typed manual/webhook/trigger, in list order
  Webhooks,    \* nodes an incoming webhook may start from
  Triggers,    \* nodes of category Trigger: their result is [TriggerData]
  Deleters,    \* Delete Execution nodes
  Responders,  \* Respond to Webhook nodes: they pass input.Data[0] through
  Shapes,      \* Shapes[n]: the lists of outputs a success of n may return
  Fallible,    \* nodes whose Execute may report a failure
  Exec,        \* execution ids
  MaxRuns,     \* bound: how often one node runs in one execution
  Faults,      \* subset of {"cancel", "crash", "db", "delete", "retry"}
  None         \* Go's nil: no row, no data, no entry in a map

Kinds == {"nil", "empty", "items"}

(***************************************************************************)
(* What flows along a connection: a nil list, an empty list or a list of   *)
(* items, identified by the run of the node that produced it.              *)
(***************************************************************************)
Item == [kind : Kinds, node : Node, run : Nat, out : Nat]

Entry == [node : Node, inputs : Seq(Item)]            \* NodeExecutionStackData
Source == [src : Node, out : Nat]                     \* ExecutionSourceData
Task == [ok : BOOLEAN, inputs : Seq(Item), outputs : Seq(Item)]
Pending == [conn : Conn, item : Item, out : Nat]      \* NodeToAdd

(***************************************************************************)
(* WorkflowRunExecutionData.  Task.inputs is a history field: the code     *)
(* records only the outputs of a run.                                      *)
(***************************************************************************)
RunExecutionData ==
  [runData : [Node -> Seq(Task)],
   error   : BOOLEAN,
   last    : Node \cup {None},
   stack   : Seq(Entry),
   waiting : [Node -> Seq(Item) \cup {None}],
   sources : [Node -> Seq(Source)]]

Row == [status : {"new", "running", "success", "failed"},
        finished : BOOLEAN,
        data : RunExecutionData \cup {None}]

ASSUME GraphAssumption ==
  /\ IsFiniteSet(Conn)
  /\ Conn \subseteq [src : Node, out : Nat, dst : Node, in : Nat]
  /\ Rank \in [Node -> Nat]
  /\ Disabled \subseteq Node
  /\ Starters \in Seq(Node \ Disabled)
  /\ Webhooks \subseteq Node
  /\ Triggers \subseteq Node
  /\ Deleters \subseteq Node
  /\ Responders \subseteq Node
  /\ Shapes \in [Node -> SUBSET Seq(Kinds)]
  /\ Fallible \subseteq Node
  /\ MaxRuns \in Nat

ASSUME NoneAssumption ==
  /\ None \notin Node /\ None \notin Seq(Item)
  /\ None \notin RunExecutionData /\ None \notin Row

VARIABLES
  pc,          \* where the goroutine of an execution is
  mem,         \* w.RunExecutionData, in memory
  pending,     \* successors of the popped node that are still to be added
  needDelete,  \* executions whose w.needDelete is set
  ctx,         \* "request", "live" (StopExecution can cancel it), "cancelled"
  row          \* workflow_execution_entity and its execution_data

vars == <<pc, mem, pending, needDelete, ctx, row>>

-----------------------------------------------------------------------------
(* The graph, as getConnectionByDestination turns it round.                *)

Into(n) == {c \in Conn : c.dst = n}
ConnectedInputs(n) == {c.in : c \in Into(n)}
SingleInput(n) == Into(n) # {} /\ \A c \in Into(n) : c.in = 0

(***************************************************************************)
(* connectionData[0] of every connected input of n, in input order.  The   *)
(* order of connectionData follows the iteration over the map of source    *)
(* nodes, which Go leaves open: any order of the sources, the outputs of   *)
(* one source ascending.                                                   *)
(***************************************************************************)
MapOrders(n) ==
  LET S == {c.src : c \in Into(n)}
  IN  {f \in [S -> 1 .. Cardinality(S)] : IsInjective(f)}

FirstConnections(n) ==
  {cs \in [1 .. Cardinality(ConnectedInputs(n)) -> Into(n)] :
     /\ \A j, k \in DOMAIN cs : j < k => cs[j].in < cs[k].in
     /\ \E ord \in MapOrders(n) :
          \A k \in DOMAIN cs : \A d \in Into(n) :
            d.in = cs[k].in =>
              \/ ord[cs[k].src] < ord[d.src]
              \/ (cs[k].src = d.src /\ cs[k].out <= d.out)}

-----------------------------------------------------------------------------
(* Executing one node.                                                     *)

Outputs(n, run, shape) ==
  [i \in DOMAIN shape |->
     [kind |-> shape[i], node |-> n, run |-> run, out |-> i - 1]]

(* The results of a successful Execute.  Respond to Webhook returns        *)
(* input.Data[0], so it has none on an empty input list: it panics.        *)
Results(n, inputs, run) ==
  IF n \in Responders
  THEN {Outputs(n, run, <<inputs[1].kind>>) : i \in DOMAIN inputs}
  ELSE {Outputs(n, run, shape) : shape \in Shapes[n]}

(* Mutant: no result at all for a failure.                                 *)
NoFailedOutputs(n, run) == None

(* getResultData of a failure: the zero TriggerData or the zero list.      *)
FailedOutputs(n, run) ==
  IF n \in Triggers THEN Outputs(n, run, <<"nil">>) ELSE <<>>

(* Mutant: an empty output is treated like a nil one.                      *)
SuccessorsWithItems(n, outputs) ==
  {[conn |-> c, item |-> outputs[c.out + 1], out |-> c.out] :
     c \in {d \in Conn : /\ d.src = n
                         /\ d.out < Len(outputs)
                         /\ outputs[d.out + 1].kind = "items"}}

(* The successors of an executed node: outputs that are not nil.           *)
Successors(n, outputs) ==
  {[conn |-> c, item |-> outputs[c.out + 1], out |-> c.out] :
     c \in {d \in Conn : /\ d.src = n
                         /\ d.out < Len(outputs)
                         /\ outputs[d.out + 1].kind # "nil"}}

(* A disabled node hands its own input on, output i getting input i, when  *)
(* there is something in it.  It leaves OutputIndex at its zero value.     *)
PassedOn(n, inputs) ==
  {[conn |-> c, item |-> inputs[c.out + 1], out |-> 0] :
     c \in {d \in Conn : /\ d.src = n
                         /\ d.out < Len(inputs)
                         /\ inputs[d.out + 1].kind = "items"}}

-----------------------------------------------------------------------------
(* The row.                                                                *)

FreshData ==
  [runData |-> [n \in Node |-> <<>>], error |-> FALSE, last |-> None,
   stack |-> <<>>, waiting |-> [n \in Node |-> None],
   sources |-> [n \in Node |-> <<>>]]

NewRow(d) == [status |-> "new", finished |-> FALSE, data |-> d]

(***************************************************************************)
(* How a read followed by the two UPDATEs of the row ends: nothing could   *)
(* be read, the read alone succeeded, the entity alone was updated, or     *)
(* both tables were.  A missing row and a cancelled context fail the read. *)
(***************************************************************************)
StoreOutcomes(e) ==
  IF row[e] = None \/ ctx[e] = "cancelled" THEN {"unreadable"}
  ELSE IF "db" \in Faults THEN {"unreadable", "unwritten", "entity", "both"}
  ELSE {"both"}

(* Mutant: the stack in the row is not replaced.                           *)
SaveProgressOldStack(r, outcome, n, task, live) ==
  IF outcome # "both" THEN r
  ELSE [r EXCEPT !.status = "running",
                 !.data = [live EXCEPT !.stack = IF r.data = None THEN <<>> ELSE r.data.stack]]

(* Mutant: a row that is gone is written again.                            *)
SaveProgressUpsert(r, outcome, n, task, live) ==
  IF outcome = "both" \/ r = None
  THEN [status |-> "running", finished |-> FALSE, data |-> live]
  ELSE r

(* saveExecutionProgress: the result of the node that ran goes into the    *)
(* row's own run data, the live stack and waiting maps replace its.        *)
SaveProgress(r, outcome, n, task, live) ==
  LET old == IF r.data = None THEN FreshData ELSE r.data
      new == [live EXCEPT !.runData = [old.runData EXCEPT ![n] = Append(@, task)],
                          !.error = old.error,
                          !.last = n]
  IN  CASE outcome \in {"unreadable", "unwritten"} -> r
        [] r # None /\ r.finished -> r
        [] outcome = "entity" -> [r EXCEPT !.status = "running"]
        [] OTHER -> [r EXCEPT !.status = "running", !.data = new]

(* Mutant: a failed execution is not deleted.                              *)
SaveFinalDeleteOnSuccess(r, outcome, finished, error, delete) ==
  IF delete /\ ~error THEN None
  ELSE [r EXCEPT !.status = IF error THEN "failed" ELSE "success",
                 !.finished = finished, !.data.error = error]

(* Mutant: the final status is computed and not stored.                    *)
SaveFinalNoStatus(r, outcome, finished, error, delete) ==
  IF delete THEN None ELSE [r EXCEPT !.finished = finished, !.data.error = error]

(* saveWorkflowAfterExecutionData, once the row could be read.             *)
SaveFinal(r, outcome, finished, error, delete) ==
  CASE outcome = "unwritten" -> r
    [] delete -> None
    [] OTHER ->
         [r EXCEPT !.status = IF error THEN "failed" ELSE "success",
                   !.finished = finished,
                   !.data.error = IF outcome = "both" THEN error ELSE @]

-----------------------------------------------------------------------------
(* Starting an execution: AddExecution and the head of execute.            *)

Init ==
  /\ pc = [e \in Exec |-> "idle"]
  /\ mem = [e \in Exec |-> FreshData]
  /\ pending = [e \in Exec |-> {}]
  /\ needDelete = {}
  /\ ctx = [e \in Exec |-> "request"]
  /\ row = [e \in Exec |-> None]

Begin(e, stack, c) ==
  /\ pc[e] = "idle"
  /\ pc' = [pc EXCEPT ![e] = "loop"]
  /\ mem' = [mem EXCEPT ![e] = [FreshData EXCEPT !.stack = stack]]
  /\ ctx' = [ctx EXCEPT ![e] = c]
  /\ row' = [row EXCEPT ![e] = NewRow(None)]
  /\ UNCHANGED <<pending, needDelete>>

(* Run: a manual, scheduled or form execution starts every trigger node.   *)
StartAll(e) ==
  Begin(e, [i \in DOMAIN Starters |-> [node |-> Starters[i], inputs |-> <<>>]],
        "request")

(* RunFromNode in ExecuteAsync: a webhook starts its own node.             *)
StartFrom(e, n) ==
  Begin(e, <<[node |-> n, inputs |-> <<>>]>>, "live")

-----------------------------------------------------------------------------
(* The loop of execute.                                                    *)

AtPop(e) == pc[e] = "loop" /\ pending[e] = {}

(* A recovered panic ends the goroutine: the row stays as it is, what was  *)
(* in memory is gone.                                                      *)
Panic(e) ==
  /\ pc' = [pc EXCEPT ![e] = "dead"]
  /\ mem' = [mem EXCEPT ![e] = FreshData]

PopDisabled(e) ==
  /\ AtPop(e)
  /\ mem[e].stack # <<>>
  /\ LET top == Head(mem[e].stack)
     IN  /\ top.node \in Disabled
         /\ pending' = [pending EXCEPT ![e] = PassedOn(top.node, top.inputs)]
  /\ mem' = [mem EXCEPT ![e].stack = Tail(@)]
  /\ UNCHANGED <<pc, needDelete, ctx, row>>

(* The whole body for an enabled node up to the sorted list of successors: *)
(* the outcome of Execute, the in-memory record of it and the save.        *)
Record(e, top, ok, outputs) ==
  LET n == top.node
      task == [ok |-> ok, inputs |-> top.inputs, outputs |-> outputs]
      live == [mem[e] EXCEPT !.stack = Tail(@),
                             !.waiting[n] = outputs,
                             !.runData[n] = Append(@, task),
                             !.error = @ \/ ~ok,
                             !.last = n]
  IN  /\ mem' = [mem EXCEPT ![e] = live]
      /\ \E outcome \in StoreOutcomes(e) :
           row' = [row EXCEPT ![e] = SaveProgress(@, outcome, n, task, live)]
      /\ pc' = [pc EXCEPT ![e] = IF ok THEN "loop" ELSE "broken"]
      /\ pending' = [pending EXCEPT ![e] = IF ok THEN Successors(n, outputs) ELSE {}]

ExecuteNode(e) ==
  /\ AtPop(e)
  /\ mem[e].stack # <<>>
  /\ LET top == Head(mem[e].stack)
         n == top.node
         run == Len(mem[e].runData[n]) + 1
     IN  /\ n \notin Disabled
         /\ run <= MaxRuns
         /\ needDelete' = IF n \in Deleters THEN needDelete \cup {e} ELSE needDelete
         /\ \/ \E outputs \in Results(n, top.inputs, run) : Record(e, top, TRUE, outputs)
            \/ n \in Fallible /\ Record(e, top, FALSE, FailedOutputs(n, run))
            \/ /\ n \in Responders /\ top.inputs = <<>>
               /\ Panic(e)
               /\ UNCHANGED <<pending, row>>
  /\ UNCHANGED ctx

(* Mutant: the comparison of the sort turned round.                        *)
NextToAddTopLeft(e) ==
  {p \in pending[e] : \A q \in pending[e] : Rank[p.conn.dst] <= Rank[q.conn.dst]}

(***************************************************************************)
(* addNodeToBeExecuted, once per successor, bottom right first; the order  *)
(* of two successors at the same place is open (sort.Slice is not stable). *)
(***************************************************************************)
NextToAdd(e) ==
  {p \in pending[e] : \A q \in pending[e] : Rank[q.conn.dst] <= Rank[p.conn.dst]}

(* Mutant: the source is appended, as it is for several inputs.            *)
PushSingleAppend(e, p) ==
  LET n == p.conn.dst
  IN  /\ mem' = [mem EXCEPT
           ![e].stack = <<[node |-> n, inputs |-> <<p.item>>]>> \o @,
           ![e].sources[n] = Append(@, [src |-> p.conn.src, out |-> p.out])]
      /\ UNCHANGED pc

PushSingle(e, p) ==
  LET n == p.conn.dst
  IN  /\ mem' = [mem EXCEPT
           ![e].stack = <<[node |-> n, inputs |-> <<p.item>>]>> \o @,
           ![e].sources[n] = <<[src |-> p.conn.src, out |-> p.out]>>]
      /\ UNCHANGED pc

(* Mutant: inputs after the first are not looked at.                       *)
PushFirstInput(e, n, cs) ==
  LET result == mem[e].waiting[cs[1].src]
  IN  /\ mem' = IF result # None /\ cs[1].out < Len(result)
                THEN [mem EXCEPT ![e].stack =
                  <<[node |-> n, inputs |-> <<result[cs[1].out + 1]>>]>> \o @]
                ELSE mem
      /\ UNCHANGED pc

(* Input k is usable when the first source of it has run and its result is *)
(* long enough.  Otherwise the call returns (the source has not run) or    *)
(* panics (index out of range), after it recorded the sources before k.    *)
PushMulti(e, n, cs) ==
  LET result(k) == mem[e].waiting[cs[k].src]
      Usable(k) == result(k) # None /\ cs[k].out < Len(result(k))
      Sources(ready) == [k \in 1 .. ready |-> [src |-> cs[k].src, out |-> cs[k].out]]
      inputs == [k \in DOMAIN cs |-> result(k)[cs[k].out + 1]]
  IN  \E ready \in 0 .. Len(cs) :
        /\ \A k \in 1 .. ready : Usable(k)
        /\ \/ /\ ready = Len(cs)
              /\ mem' = [mem EXCEPT
                   ![e].stack = <<[node |-> n, inputs |-> inputs]>> \o @,
                   ![e].sources[n] = @ \o Sources(ready)]
              /\ UNCHANGED pc
           \/ /\ ready < Len(cs) /\ result(ready + 1) = None
              /\ mem' = [mem EXCEPT ![e].sources[n] = @ \o Sources(ready)]
              /\ UNCHANGED pc
           \/ /\ ready < Len(cs) /\ result(ready + 1) # None /\ ~Usable(ready + 1)
              /\ Panic(e)

AddNodeToBeExecuted(e) ==
  /\ pc[e] = "loop"
  /\ \E p \in NextToAdd(e) :
       /\ pending' = [pending EXCEPT ![e] = @ \ {p}]
       /\ IF SingleInput(p.conn.dst)
          THEN PushSingle(e, p)
          ELSE \E cs \in FirstConnections(p.conn.dst) : PushMulti(e, p.conn.dst, cs)
  /\ UNCHANGED <<needDelete, ctx, row>>

(* The end of execute.  The row is read without looking at the error: an   *)
(* unreadable row, or one no node has written to yet, is a nil pointer.    *)
Finish(e) ==
  /\ pc[e] = "broken" \/ (AtPop(e) /\ mem[e].stack = <<>>)
  /\ \E outcome \in StoreOutcomes(e) :
       IF outcome = "unreadable" \/ row[e].data = None
       THEN /\ Panic(e)
            /\ UNCHANGED row
       ELSE /\ pc' = [pc EXCEPT ![e] = "over"]
            /\ UNCHANGED mem
            /\ row' = [row EXCEPT ![e] =
                 SaveFinal(@, outcome, pc[e] = "loop", mem[e].error, e \in needDelete)]
  /\ UNCHANGED <<pending, needDelete, ctx>>

-----------------------------------------------------------------------------
(* RetryWorkflowExecution.                                                 *)

(* The input of the node to restart, rebuilt from WaitingExecutionSource.  *)
CanRebuild(d, n) ==
  /\ d.sources[n] # <<>>
  /\ \A k \in DOMAIN d.sources[n] :
       LET s == d.sources[n][k]
       IN  d.waiting[s.src] \in {None, <<>>} \/ s.out < Len(d.waiting[s.src])

Rebuilt(d, n) ==
  [k \in DOMAIN d.sources[n] |->
     LET s == d.sources[n][k]
     IN  IF d.waiting[s.src] \in {None, <<>>}
         THEN [kind |-> "empty", node |-> s.src, run |-> 0, out |-> s.out]
         ELSE d.waiting[s.src][s.out + 1]]

(* Mutant: the failed task stays in the run data.                          *)
WithFailure(tasks) == tasks

WithoutFailure(tasks) ==
  IF tasks # <<>> /\ ~Last(tasks).ok THEN Front(tasks) ELSE tasks

(* Mutant: only the failed node is restarted.                              *)
RetryDataOneNode(d) ==
  [d EXCEPT !.error = FALSE,
            !.runData[d.last] = WithoutFailure(@),
            !.stack = <<[node |-> d.last, inputs |-> Rebuilt(d, d.last)]>>]

RetryData(d) ==
  [d EXCEPT !.error = FALSE,
            !.runData[d.last] = WithoutFailure(@),
            !.stack = <<[node |-> d.last, inputs |-> Rebuilt(d, d.last)]>> \o @]

(* Retry execution e as the new execution f.  Only Finished is refused; a  *)
(* row still running is not.  Without saved data ("{}") the new row is     *)
(* created and the engine then dereferences a nil ExecutionData.           *)
Retry(e, f) ==
  /\ "retry" \in Faults
  /\ row[e] # None /\ ~row[e].finished
  /\ pc[f] = "idle"
  /\ \/ /\ row[e].data = None
        /\ row' = [row EXCEPT ![f] = NewRow(None)]
        /\ pc' = [pc EXCEPT ![f] = "dead"]
        /\ UNCHANGED mem
     \/ /\ row[e].data # None
        /\ CanRebuild(row[e].data, row[e].data.last)
        /\ row' = [row EXCEPT ![f] = NewRow(RetryData(row[e].data))]
        /\ pc' = [pc EXCEPT ![f] = "loop"]
        /\ mem' = [mem EXCEPT ![f] = RetryData(row[e].data)]
  /\ UNCHANGED <<pending, needDelete, ctx>>

-----------------------------------------------------------------------------
(* What happens to an execution from outside.                              *)

Alive == {e \in Exec : pc[e] \in {"loop", "broken"}}

(* StopExecution cancels the context; the goroutine is not stopped.        *)
Cancel(e) ==
  /\ "cancel" \in Faults
  /\ e \in Alive /\ ctx[e] = "live"
  /\ ctx' = [ctx EXCEPT ![e] = "cancelled"]
  /\ UNCHANGED <<pc, mem, pending, needDelete, row>>

(* The process dies: only the rows survive.                                *)
Crash ==
  /\ "crash" \in Faults
  /\ Alive # {}
  /\ pc' = [e \in Exec |-> IF e \in Alive THEN "dead" ELSE pc[e]]
  /\ mem' = [e \in Exec |-> IF e \in Alive THEN FreshData ELSE mem[e]]
  /\ pending' = [e \in Exec |-> {}]
  /\ UNCHANGED <<needDelete, ctx, row>>

(* DeleteWorkflowExecutions removes rows whatever their status.            *)
DeleteRow(e) ==
  /\ "delete" \in Faults
  /\ row[e] # None
  /\ row' = [row EXCEPT ![e] = None]
  /\ UNCHANGED <<pc, mem, pending, needDelete, ctx>>

Step(e) ==
  PopDisabled(e) \/ ExecuteNode(e) \/ AddNodeToBeExecuted(e) \/ Finish(e)

Next ==
  \/ \E e \in Exec : StartAll(e) \/ Step(e) \/ Cancel(e) \/ DeleteRow(e)
  \/ \E e \in Exec, n \in Webhooks : StartFrom(e, n)
  \/ \E e, f \in Exec : Retry(e, f)
  \/ Crash

Spec == Init /\ [][Next]_vars

(* A goroutine the Go scheduler runs again and again takes its next step.  *)
FairSpec == Spec /\ \A e \in Exec : WF_vars(Step(e))

-----------------------------------------------------------------------------
(* Properties.                                                             *)

(* Every variable holds what its declaration says.                         *)
TypeOK ==
  /\ pc \in [Exec -> {"idle", "loop", "broken", "over", "dead"}]
  /\ mem \in [Exec -> RunExecutionData]
  /\ pending \in [Exec -> SUBSET Pending]
  /\ needDelete \subseteq Exec
  /\ ctx \in [Exec -> {"request", "live", "cancelled"}]
  /\ row \in [Exec -> Row \cup {None}]

Saved(e) == row[e] # None /\ row[e].data # None

(***************************************************************************)
(* A finished row is a clean one: the execution succeeded, no run in it    *)
(* failed and no error is recorded, whatever was retried, cancelled or     *)
(* only half written on the way.  Retry trusts Finished alone              *)
(* (api/execution.go:159).                                                 *)
(***************************************************************************)
FinishedIsClean ==
  \A e \in Exec : row[e] # None =>
    /\ row[e].finished <=> row[e].status = "success"
    /\ row[e].finished =>
         /\ row[e].data # None
         /\ ~row[e].data.error
         /\ \A n \in Node : \A i \in DOMAIN row[e].data.runData[n] :
              row[e].data.runData[n][i].ok

(***************************************************************************)
(* Nothing the engine forwarded is lost: once an execution has finished,   *)
(* every non-nil output of the latest run of a node was consumed by a run  *)
(* of each enabled single-input node it leads to.                          *)
(***************************************************************************)
NothingLost ==
  \A e \in Exec : (Saved(e) /\ row[e].finished) =>
    \A c \in Conn :
      LET tasks == row[e].data.runData[c.src]
          item == Last(tasks).outputs[c.out + 1]
      IN  (/\ SingleInput(c.dst) /\ c.dst \notin Disabled
           /\ tasks # <<>> /\ c.out < Len(Last(tasks).outputs) /\ item.kind # "nil")
          => \E i \in DOMAIN row[e].data.runData[c.dst] :
               row[e].data.runData[c.dst][i].inputs = <<item>>

(***************************************************************************)
(* A node with several inputs only runs on a full set of inputs: input k   *)
(* comes from the first source connected to it, never from another input   *)
(* of the node (addNodeToBeExecuted).                                      *)
(***************************************************************************)
MergeInputsFromSources ==
  \A e \in Exec, n \in Node : \A i \in DOMAIN mem[e].runData[n] :
    LET inputs == mem[e].runData[n][i].inputs
    IN  (Into(n) # {} /\ ~SingleInput(n)) =>
          \E cs \in FirstConnections(n) :
            /\ Len(inputs) = Len(cs)
            /\ \A k \in DOMAIN cs :
                 inputs[k].node = cs[k].src /\ inputs[k].out = cs[k].out

(***************************************************************************)
(* Siblings wait in canvas order: of two nodes pushed by the same run, the *)
(* one nearer to the top left is nearer to the top of the stack            *)
(* (workflow_execute.go:283-285).                                          *)
(***************************************************************************)
PushedBy(entry) ==
  {<<c.src, entry.inputs[1].run>> : c \in
     {d \in Conn : /\ d.dst = entry.node /\ SingleInput(d.dst)
                   /\ entry.inputs # <<>>
                   /\ d.src = entry.inputs[1].node /\ d.out = entry.inputs[1].out}}

SiblingsInCanvasOrder ==
  \A e \in Exec : \A i, j \in DOMAIN mem[e].stack :
    (i < j /\ PushedBy(mem[e].stack[i]) \cap PushedBy(mem[e].stack[j]) # {}) =>
      Rank[mem[e].stack[i].node] <= Rank[mem[e].stack[j].node]

(***************************************************************************)
(* The row is a checkpoint: while an execution runs undisturbed its row    *)
(* holds exactly the runs and results in memory, and a saved stack that    *)
(* differs from the one in memory only by disabled nodes popped since and, *)
(* on top, by nodes the last run or such a disabled node has pushed.       *)
(***************************************************************************)
RowIsCheckpoint ==
  \A e \in Alive : (Saved(e) /\ ctx[e] # "cancelled") =>
    LET d == row[e].data
        stack == mem[e].stack
    IN  /\ d.runData = mem[e].runData
        /\ d.waiting = mem[e].waiting
        /\ d.last = mem[e].last
        /\ \E popped \in 0 .. Len(d.stack), pushed \in 0 .. Len(stack) :
             /\ \A i \in 1 .. popped : d.stack[i].node \in Disabled
             /\ \A i \in 1 .. pushed : \E c \in Into(stack[i].node) :
                  c.src = d.last \/ c.src \in Disabled
             /\ SubSeq(d.stack, popped + 1, Len(d.stack))
                  = SubSeq(stack, pushed + 1, Len(stack))

(***************************************************************************)
(* Where a retry can start, it runs the failed node on the input it failed *)
(* on ("find input data of the last failed node", api/execution.go:192).   *)
(***************************************************************************)
RetryRestoresInput ==
  \A e \in Exec :
    Saved(e) =>
      LET d == row[e].data
          tasks == d.runData[d.last]
      IN  (tasks # <<>> /\ ~Last(tasks).ok /\ CanRebuild(d, d.last)) =>
            Rebuilt(d, d.last) = Last(tasks).inputs

(***************************************************************************)
(* A node that was skipped because an input was missing "will execute      *)
(* after the last prev node" (workflow_execute.go:522): in a finished      *)
(* execution every enabled node that was offered an input has run.         *)
(***************************************************************************)
SkippedNodeRunsLater ==
  \A e \in Exec : (Saved(e) /\ row[e].finished) =>
    \A c \in Conn :
      LET tasks == row[e].data.runData[c.src]
      IN  (/\ c.dst \notin Disabled
           /\ \E i \in DOMAIN tasks : /\ c.out < Len(tasks[i].outputs)
                                      /\ tasks[i].outputs[c.out + 1].kind # "nil")
          => row[e].data.runData[c.dst] # <<>>

(***************************************************************************)
(* Delete Execution removes the row of the execution it ran in, also when  *)
(* a later node fails, and no execution that ran none loses its row.       *)
(***************************************************************************)
DeletedIffAsked ==
  \A e \in Exec : pc[e] = "over" =>
    (row[e] = None <=> \E n \in Deleters : mem[e].runData[n] # <<>>)

(***************************************************************************)
(* The rows keep the promise of ExecutionLifecycle: one creation, progress *)
(* only before the verdict, one verdict, no resurrection of a removed row. *)
(***************************************************************************)
Life(e) ==
  IF row[e] # None THEN row[e].status
  ELSE IF pc[e] = "idle" THEN "absent" ELSE "removed"

Lifecycle == INSTANCE ExecutionLifecycle WITH life <- [e \in Exec |-> Life(e)]
RowLifecycle == Lifecycle!Spec

(***************************************************************************)
(* Every execution comes to an end, and with it its row: it is deleted or  *)
(* has a final status, unless the engine panicked.                         *)
(***************************************************************************)
EveryExecutionEnds ==
  \A e \in Exec : pc[e] = "loop" ~>
    \/ pc[e] = "dead"
    \/ /\ pc[e] = "over"
       /\ row[e] = None \/ row[e].status \in {"success", "failed"}

=============================================================================
