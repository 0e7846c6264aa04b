-------------------- MODULE WorkflowExecute_data_proofs --------------------
(***************************************************************************)
(* Proofs about the data WorkflowExecute moves through a workflow: where   *)
(* the inputs of a node come from, and what becomes of a row whose         *)
(* execution asked to delete it.                                           *)
(***************************************************************************)
EXTENDS WorkflowExecute_proofs

(* Mem, the part of TypeInv used throughout.                               *)
LEMMA MemType ==
  ASSUME TypeInv, NEW e \in Exec
  PROVE  /\ mem[e] \in RunExecutionData
         /\ mem[e].stack \in Seq(Entry)
         /\ mem[e].waiting \in [Node -> Seq(Item) \cup {None}]
         /\ mem[e].runData \in [Node -> Seq(Task)]
         /\ mem[e].sources \in [Node -> Seq(Source)]
BY DEF TypeInv, TypeOK, RunExecutionData

LEMMA Variables ==
  ASSUME TypeInv
  PROVE  /\ pc \in [Exec -> {"idle", "loop", "broken", "over", "dead"}]
         /\ mem \in [Exec -> RunExecutionData]
         /\ row \in [Exec -> Row \cup {None}]
         /\ needDelete \subseteq Exec
BY DEF TypeInv, TypeOK

LEMMA TopType ==
  ASSUME TypeInv, NEW e \in Exec, mem[e].stack # <<>>
  PROVE  /\ Head(mem[e].stack) \in Entry
         /\ Head(mem[e].stack).node \in Node
         /\ Head(mem[e].stack).inputs \in Seq(Item)
<1>1. mem[e].stack \in Seq(Entry)  BY MemType
<1>2. Head(mem[e].stack) \in Entry  BY <1>1
<1>3. QED  BY <1>2 DEF Entry

-----------------------------------------------------------------------------
(* Inputs from their sources.  A node with several inputs is put on the    *)
(* stack with what lies in `waiting`, so the induction says of that too    *)
(* whose results it holds, and of the stack what it will say of the runs.  *)

Full(n, inputs) ==
  (Into(n) # {} /\ ~SingleInput(n)) =>
    \E cs \in FirstConnections(n) :
      /\ Len(inputs) = Len(cs)
      /\ \A k \in DOMAIN cs : inputs[k].node = cs[k].src /\ inputs[k].out = cs[k].out

Own(n, outputs) ==
  outputs # None => \A i \in DOMAIN outputs : outputs[i].node = n /\ outputs[i].out = i - 1

StackFull(stack) == \A i \in DOMAIN stack : Full(stack[i].node, stack[i].inputs)
WaitingOwn(waiting) == \A n \in Node : Own(n, waiting[n])
RunsFull(runData) == \A n \in Node : \A i \in DOMAIN runData[n] : Full(n, runData[n][i].inputs)

Fed(d) == StackFull(d.stack) /\ WaitingOwn(d.waiting) /\ RunsFull(d.runData)

FedInv == \A e \in Exec : Fed(mem[e])

(* Starters have no input of their own, or only one.                       *)
StartsAnywhere == \A n \in Range(Starters) \cup Webhooks : Into(n) = {} \/ SingleInput(n)

LEMMA ResultsOwn ==
  ASSUME NEW n \in Node, NEW inputs, NEW run
  PROVE  /\ \A outputs \in Results(n, inputs, run) : Own(n, outputs)
         /\ Own(n, FailedOutputs(n, run))
<1>1. ASSUME NEW shape PROVE Own(n, Outputs(n, run, shape))
  BY DEF Outputs, Own
<1>2. Own(n, <<>>)
  BY DEF Own
<1>3. QED
  BY <1>1, <1>2 DEF Results, FailedOutputs

(* Pushing on the stack and popping from it.                               *)
LEMMA Pushed ==
  ASSUME NEW stack \in Seq(Entry), NEW entry \in Entry, StackFull(stack),
         Full(entry.node, entry.inputs)
  PROVE  StackFull(<<entry>> \o stack)
<1> DEFINE new == <<entry>> \o stack
<1>1. DOMAIN new = 1 .. Len(stack) + 1 /\ DOMAIN stack = 1 .. Len(stack) /\ Len(stack) \in Nat
  OBVIOUS
<1>2. new[1] = entry
  OBVIOUS
<1>3. \A i \in 2 .. Len(stack) + 1 : new[i] = stack[i - 1]
  OBVIOUS
<1> HIDE DEF new
<1>4. ASSUME NEW i \in DOMAIN new PROVE Full(new[i].node, new[i].inputs)
  <2>1. CASE i = 1  BY <1>2, <2>1
  <2>2. CASE i # 1
    <3>1. i \in 2 .. Len(stack) + 1 /\ i - 1 \in DOMAIN stack  BY <1>1, <2>2
    <3>2. QED  BY <1>3, <3>1 DEF StackFull
  <2>3. QED  BY <2>1, <2>2
<1>5. QED
  BY <1>4 DEF StackFull, new

LEMMA Popped ==
  ASSUME NEW stack \in Seq(Entry), stack # <<>>, StackFull(stack)
  PROVE  StackFull(Tail(stack)) /\ Full(Head(stack).node, Head(stack).inputs)
<1>1. DOMAIN Tail(stack) = 1 .. Len(stack) - 1 /\ DOMAIN stack = 1 .. Len(stack)
      /\ Len(stack) \in Nat /\ Len(stack) > 0
  OBVIOUS
<1>2. \A i \in DOMAIN Tail(stack) : Tail(stack)[i] = stack[i + 1] /\ i + 1 \in DOMAIN stack
  BY <1>1
<1>3. Head(stack) = stack[1] /\ 1 \in DOMAIN stack
  BY <1>1
<1>4. QED
  BY <1>2, <1>3 DEF StackFull

LEMMA FreshFed ==
  ASSUME NEW stack, StackFull(stack)
  PROVE  Fed([FreshData EXCEPT !.stack = stack])
BY DEF Fed, FreshData, StackFull, WaitingOwn, Own, RunsFull

LEMMA EmptyFed == Fed(FreshData)
BY DEF Fed, FreshData, StackFull, WaitingOwn, Own, RunsFull

(* A step of e that leaves the others' memory alone.                       *)
LEMMA OneFed ==
  ASSUME TypeInv, FedInv, NEW e \in Exec, NEW d, mem' = [mem EXCEPT ![e] = d], Fed(d)
  PROVE  FedInv'
BY Variables DEF FedInv

LEMMA RecordFed ==
  ASSUME TypeInv, FedInv, NEW e \in Exec, mem[e].stack # <<>>,
         NEW ok \in BOOLEAN, NEW outputs, Own(Head(mem[e].stack).node, outputs),
         Record(e, Head(mem[e].stack), ok, outputs)
  PROVE  FedInv'
<1> DEFINE n == Head(mem[e].stack).node
           task == [ok |-> ok, inputs |-> Head(mem[e].stack).inputs, outputs |-> outputs]
           live == [mem[e] EXCEPT !.stack = Tail(@),
                                  !.waiting[n] = outputs,
                                  !.runData[n] = Append(@, task),
                                  !.error = @ \/ ~ok,
                                  !.last = n]
<1>1. mem' = [mem EXCEPT ![e] = live]
  BY DEF Record
<1>2. n \in Node /\ task.inputs = Head(mem[e].stack).inputs
  BY TopType
<1>3. Fed(mem[e])
  BY DEF FedInv
<1>4. StackFull(Tail(mem[e].stack)) /\ Full(n, task.inputs)
  BY <1>2, <1>3, MemType, Popped DEF Fed
<1> HIDE DEF n, task
<1>5. /\ live.stack = Tail(mem[e].stack)
      /\ live.waiting = [mem[e].waiting EXCEPT ![n] = outputs]
      /\ live.runData = [mem[e].runData EXCEPT ![n] = Append(@, task)]
  BY <1>2, MemType DEF RunExecutionData
<1>6. WaitingOwn(live.waiting)
  <2>1. Own(n, outputs)
    BY DEF n
  <2> HIDE DEF live
  <2>2. QED
    BY <1>2, <1>3, <1>5, <2>1, MemType DEF Fed, WaitingOwn
<1>7. RunsFull(live.runData)
  <2> HIDE DEF live
  <2>1. ASSUME NEW m \in Node, m # n, NEW i \in DOMAIN live.runData[m]
        PROVE  Full(m, live.runData[m][i].inputs)
    BY <1>2, <1>3, <1>5, <2>1, MemType DEF Fed, RunsFull
  <2>2. ASSUME NEW i \in DOMAIN live.runData[n]
        PROVE  Full(n, live.runData[n][i].inputs)
    <3> DEFINE tasks == mem[e].runData[n]
    <3>1. tasks \in Seq(Task) /\ live.runData[n] = Append(tasks, task)
      BY <1>2, <1>5, MemType
    <3>2. i \in 1 .. Len(tasks) + 1 /\ Len(tasks) \in Nat
      BY <2>2, <3>1
    <3>3. CASE i = Len(tasks) + 1
      <4>1. live.runData[n][i] = task
        BY SMTT(30), <3>1, <3>3
      <4>2. QED
        BY <1>4, <4>1
    <3>4. CASE i # Len(tasks) + 1
      <4>1. i \in DOMAIN tasks /\ live.runData[n][i] = tasks[i]
        BY <3>1, <3>2, <3>4
      <4>2. QED
        BY <1>2, <1>3, <4>1 DEF Fed, RunsFull
    <3>5. QED
      BY <3>3, <3>4
  <2>3. QED
    BY <2>1, <2>2 DEF RunsFull
<1>8. Fed(live)
  BY <1>4, <1>5, <1>6, <1>7 DEF Fed
<1> HIDE DEF live
<1>9. QED
  BY <1>1, <1>8, OneFed

(* A node is put on the stack; `sources` is not looked at.                 *)
LEMMA PushFed ==
  ASSUME TypeInv, FedInv, NEW e \in Exec, NEW entry \in Entry, NEW n, NEW sources,
         Full(entry.node, entry.inputs),
         mem' = [mem EXCEPT ![e].stack = <<entry>> \o @, ![e].sources[n] = sources]
  PROVE  FedInv'
<1> DEFINE d == [mem[e] EXCEPT !.stack = <<entry>> \o @, !.sources[n] = sources]
<1>1. mem' = [mem EXCEPT ![e] = d]
  BY Variables
<1>2. d.stack = <<entry>> \o mem[e].stack /\ d.waiting = mem[e].waiting
      /\ d.runData = mem[e].runData
  BY MemType DEF RunExecutionData
<1>3. Fed(mem[e])
  BY DEF FedInv
<1>4. Fed(d)
  BY <1>2, <1>3, MemType, Pushed DEF Fed
<1> HIDE DEF d
<1>5. QED
  BY <1>1, <1>4, OneFed

LEMMA SkipFed ==
  ASSUME TypeInv, FedInv, NEW e \in Exec, NEW n, NEW sources,
         mem' = [mem EXCEPT ![e].sources[n] = sources]
  PROVE  FedInv'
<1> DEFINE d == [mem[e] EXCEPT !.sources[n] = sources]
<1>1. mem' = [mem EXCEPT ![e] = d]
  BY Variables
<1>2. d.stack = mem[e].stack /\ d.waiting = mem[e].waiting /\ d.runData = mem[e].runData
  BY MemType DEF RunExecutionData
<1>3. Fed(d)
  BY <1>2 DEF FedInv, Fed
<1> HIDE DEF d
<1>4. QED
  BY <1>1, <1>3, OneFed

LEMMA PanicFed == ASSUME TypeInv, FedInv, NEW e \in Exec, Panic(e) PROVE FedInv'
BY EmptyFed, OneFed DEF Panic

(* All inputs are there: each is what its first source put out.            *)
LEMMA PushMultiFed ==
  ASSUME TypeInv, FedInv, NEW e \in Exec, NEW n \in Node, NEW cs \in FirstConnections(n),
         PushMulti(e, n, cs)
  PROVE  FedInv'
<1> DEFINE result(k) == mem[e].waiting[cs[k].src]
           Usable(k) == result(k) # None /\ cs[k].out < Len(result(k))
           srcs(r) == [k \in 1 .. r |-> [src |-> cs[k].src, out |-> cs[k].out]]
           inputs == [k \in DOMAIN cs |-> result(k)[cs[k].out + 1]]
           entry == [node |-> n, inputs |-> inputs]
<1>1. cs \in Seq(Conn) /\ Len(cs) \in Nat /\ DOMAIN cs = 1 .. Len(cs)
  BY FirstConnectionsType
<1>2. ASSUME NEW k \in 1 .. Len(cs) PROVE cs[k].src \in Node /\ cs[k].out \in Nat
  <2>1. cs[k] \in Conn  BY <1>1
  <2>2. QED  BY <2>1, GraphAssumption
<1>3. PICK ready \in 0 .. Len(cs) :
        /\ \A k \in 1 .. ready : Usable(k)
        /\ \/ /\ ready = Len(cs)
              /\ mem' = [mem EXCEPT ![e].stack = <<entry>> \o @,
                                    ![e].sources[n] = @ \o srcs(ready)]
           \/ mem' = [mem EXCEPT ![e].sources[n] = @ \o srcs(ready)]
           \/ Panic(e)
  BY DEF PushMulti
<1>4. CASE /\ ready = Len(cs)
           /\ mem' = [mem EXCEPT ![e].stack = <<entry>> \o @,
                                 ![e].sources[n] = @ \o srcs(ready)]
  <2>1. ASSUME NEW k \in 1 .. Len(cs)
        PROVE  inputs[k] \in Item /\ inputs[k].node = cs[k].src /\ inputs[k].out = cs[k].out
    <3>1. result(k) \in Seq(Item) /\ cs[k].out + 1 \in DOMAIN result(k) /\ result(k) # None
      <4>1. result(k) # None /\ cs[k].out < Len(result(k))
        BY <1>3, <1>4
      <4>2. result(k) \in Seq(Item)
        BY <1>2, <4>1, MemType
      <4>3. QED
        BY <1>2, <4>1, <4>2
    <3>2. Own(cs[k].src, result(k))
      BY <1>2 DEF FedInv, Fed, WaitingOwn
    <3>3. inputs[k] = result(k)[cs[k].out + 1]
      BY <1>1
    <3> DEFINE w == result(k)
               j == cs[k].out + 1
    <3>4. w \in Seq(Item) /\ j \in DOMAIN w /\ w # None /\ Own(cs[k].src, w) /\ inputs[k] = w[j]
      BY <3>1, <3>2, <3>3
    <3>5. j - 1 = cs[k].out
      BY <1>2
    <3> HIDE DEF w, j, inputs
    <3>6. w[j] \in Item
      BY <3>4
    <3>7. w[j].node = cs[k].src /\ w[j].out = j - 1
      BY <3>4 DEF Own
    <3>8. QED
      BY <3>4, <3>5, <3>6, <3>7
  <2>2. DOMAIN inputs = 1 .. Len(cs)
    BY <1>1
  <2> HIDE DEF inputs
  <2>3. inputs \in Seq(Item) /\ Len(inputs) = Len(cs)
    <3>1. inputs = [k \in 1 .. Len(cs) |-> inputs[k]]
      BY <1>1 DEF inputs
    <3>2. QED
      BY <1>1, <2>1, <3>1
  <2>4. Full(n, inputs)
    BY <1>1, <2>1, <2>3 DEF Full
  <2>5. entry \in Entry /\ entry.node = n /\ entry.inputs = inputs
    BY <2>3 DEF Entry
  <2>6. mem' = [mem EXCEPT ![e].stack = <<entry>> \o @,
                           ![e].sources[n] = mem[e].sources[n] \o srcs(ready)]
    BY <1>4, Variables
  <2> HIDE DEF entry
  <2>7. QED
    BY <2>4, <2>5, <2>6, PushFed
<1>5. CASE mem' = [mem EXCEPT ![e].sources[n] = @ \o srcs(ready)]
  <2>1. mem' = [mem EXCEPT ![e].sources[n] = mem[e].sources[n] \o srcs(ready)]
    BY <1>5, Variables
  <2>2. QED
    BY <2>1, SkipFed
<1>6. CASE Panic(e)
  BY <1>6, PanicFed
<1>7. QED
  BY <1>3, <1>4, <1>5, <1>6

LEMMA AddNodeFed ==
  ASSUME TypeInv, FedInv, NEW e \in Exec, AddNodeToBeExecuted(e)
  PROVE  FedInv'
<1>1. PICK p \in NextToAdd(e) :
        \/ SingleInput(p.conn.dst) /\ PushSingle(e, p)
        \/ \E cs \in FirstConnections(p.conn.dst) : PushMulti(e, p.conn.dst, cs)
  BY DEF AddNodeToBeExecuted
<1>2. p \in Pending
  BY DEF NextToAdd, TypeInv, TypeOK
<1>3. p.conn.dst \in Node /\ p.item \in Item
  BY <1>2, GraphAssumption DEF Pending
<1>4. CASE SingleInput(p.conn.dst) /\ PushSingle(e, p)
  <2> DEFINE entry == [node |-> p.conn.dst, inputs |-> <<p.item>>]
  <2>1. entry \in Entry /\ Full(entry.node, entry.inputs)
    BY <1>3, <1>4 DEF Entry, Full
  <2>2. mem' = [mem EXCEPT ![e].stack = <<entry>> \o @,
                           ![e].sources[p.conn.dst] = <<[src |-> p.conn.src, out |-> p.out]>>]
    BY <1>4 DEF PushSingle
  <2> HIDE DEF entry
  <2>3. QED
    BY <2>1, <2>2, PushFed
<1>5. QED
  BY <1>1, <1>3, <1>4, PushMultiFed

LEMMA BeginFed ==
  ASSUME StartsAnywhere, TypeInv, FedInv, NEW e \in Exec,
         StartAll(e) \/ \E n \in Webhooks : StartFrom(e, n)
  PROVE  FedInv'
<1>1. PICK stack, c : Begin(e, stack, c) /\ StackFull(stack)
  <2>1. CASE StartAll(e)
    <3> DEFINE stack == [i \in DOMAIN Starters |-> [node |-> Starters[i], inputs |-> <<>>]]
    <3>1. \A i \in DOMAIN Starters : Starters[i] \in Range(Starters)
      BY DEF Range
    <3>2. StackFull(stack)
      BY <3>1 DEF StackFull, StartsAnywhere, Full
    <3>3. QED
      BY <2>1, <3>2 DEF StartAll
  <2>2. ASSUME NEW n \in Webhooks, StartFrom(e, n)
        PROVE  \E stack, c : Begin(e, stack, c) /\ StackFull(stack)
    <3> DEFINE stack == <<[node |-> n, inputs |-> <<>>]>>
    <3>1. StackFull(stack)
      BY DEF StackFull, StartsAnywhere, Full
    <3>2. QED
      BY <2>2, <3>1 DEF StartFrom
  <2>3. QED
    BY <2>1, <2>2
<1>2. mem' = [mem EXCEPT ![e] = [FreshData EXCEPT !.stack = stack]]
  BY <1>1 DEF Begin
<1>3. QED
  BY <1>1, <1>2, FreshFed, OneFed

LEMMA StepFed ==
  ASSUME "retry" \notin Faults, StartsAnywhere, TypeInv, FedInv, [Next]_vars
  PROVE  FedInv'
<1>1. ASSUME NEW e \in Exec, StartAll(e) \/ \E n \in Webhooks : StartFrom(e, n)
      PROVE  FedInv'
  BY <1>1, BeginFed
<1>2. ASSUME NEW e \in Exec, PopDisabled(e) PROVE FedInv'
  <2> DEFINE d == [mem[e] EXCEPT !.stack = Tail(@)]
  <2>1. mem' = [mem EXCEPT ![e] = d] /\ mem[e].stack # <<>>
    BY <1>2, Variables DEF PopDisabled
  <2>2. d.stack = Tail(mem[e].stack) /\ d.waiting = mem[e].waiting /\ d.runData = mem[e].runData
    BY MemType DEF RunExecutionData
  <2>3. Fed(d)
    BY <2>1, <2>2, MemType, Popped DEF FedInv, Fed
  <2> HIDE DEF d
  <2>4. QED
    BY <2>1, <2>3, OneFed
<1>3. ASSUME NEW e \in Exec, ExecuteNode(e) PROVE FedInv'
  <2> DEFINE top == Head(mem[e].stack)
             run == Len(mem[e].runData[top.node]) + 1
  <2>1. mem[e].stack # <<>> /\ top.node \in Node
    BY <1>3, TopType DEF ExecuteNode
  <2>2. ASSUME NEW outputs \in Results(top.node, top.inputs, run), Record(e, top, TRUE, outputs)
        PROVE  FedInv'
    BY <2>1, <2>2, ResultsOwn, RecordFed
  <2>3. ASSUME Record(e, top, FALSE, FailedOutputs(top.node, run)) PROVE FedInv'
    BY <2>1, <2>3, ResultsOwn, RecordFed
  <2>4. QED
    BY <1>3, <2>2, <2>3, PanicFed DEF ExecuteNode
<1>4. ASSUME NEW e \in Exec, AddNodeToBeExecuted(e) PROVE FedInv'
  BY <1>4, AddNodeFed
<1>5. ASSUME NEW e \in Exec, Finish(e) PROVE FedInv'
  <2>1. Panic(e) \/ UNCHANGED mem
    BY <1>5 DEF Finish
  <2>2. QED
    BY <2>1, PanicFed DEF FedInv
<1>6. ASSUME NEW e \in Exec, Cancel(e) \/ DeleteRow(e) PROVE FedInv'
  BY <1>6 DEF Cancel, DeleteRow, FedInv
<1>7. CASE Crash
  <2>1. mem' = [x \in Exec |-> IF x \in Alive THEN FreshData ELSE mem[x]]
    BY <1>7 DEF Crash
  <2>2. QED
    BY <2>1, EmptyFed DEF FedInv
<1>8. CASE UNCHANGED vars
  BY <1>8 DEF vars, FedInv
<1>9. ASSUME NEW e \in Exec, NEW f \in Exec, Retry(e, f) PROVE FALSE
  BY <1>9 DEF Retry
<1>10. QED
  BY <1>1, <1>2, <1>3, <1>4, <1>5, <1>6, <1>7, <1>8, <1>9 DEF Next, Step

(* A node with several inputs only runs on a full set of inputs, each from *)
(* the first source connected to it, in every workflow, whatever order its *)
(* predecessors finish in, with disabled nodes, failures, cancels, crashes *)
(* and failed saves; only a retry may put another input on the stack.      *)
THEOREM MergesAreFed ==
  ASSUME "retry" \notin Faults, StartsAnywhere
  PROVE  Spec => []MergeInputsFromSources
<1>1. Init => FedInv
  BY EmptyFed DEF Init, FedInv
<1>2. TypeInv /\ FedInv /\ [Next]_vars => FedInv'
  BY StepFed
<1>3. FedInv => MergeInputsFromSources
  BY DEF FedInv, Fed, RunsFull, Full, MergeInputsFromSources
<1>4. QED
  BY <1>1, <1>2, <1>3, TypeInvariant, PTL DEF Spec

-----------------------------------------------------------------------------
(* The wish to delete.  That the row is there while its execution runs,    *)
(* and that needDelete knows of every Delete Execution node that ran, is   *)
(* what the end of the execution relies on.                                *)

Asked(d) == \E n \in Deleters : d.runData[n] # <<>>

WishInv(e) ==
  /\ pc[e] = "idle" => e \notin needDelete
  /\ pc[e] \in {"loop", "broken"} => row[e] # None /\ (e \in needDelete <=> Asked(mem[e]))
  /\ pc[e] = "over" => (row[e] = None <=> Asked(mem[e]))

Wishes == \A e \in Exec : WishInv(e)

(* What one step of e leaves of another execution.                         *)
Aside(e) ==
  \A x \in Exec \ {e} :
    /\ UNCHANGED <<pc[x], mem[x], row[x]>>
    /\ x \in needDelete' <=> x \in needDelete

LEMMA OneWish ==
  ASSUME Wishes, NEW e \in Exec, Aside(e), WishInv(e)'
  PROVE  Wishes'
BY DEF Wishes, WishInv, Aside

(* A save never removes the row, the last one only where it should.        *)
LEMMA ProgressKeepsRow ==
  ASSUME NEW r \in Row, NEW outcome, NEW n \in Node, NEW task \in Task,
         NEW live \in RunExecutionData
  PROVE  SaveProgress(r, outcome, n, task, live) # None
<1> DEFINE old == IF r.data = None THEN FreshData ELSE r.data
           new == [live EXCEPT !.runData = [old.runData EXCEPT ![n] = Append(@, task)],
                               !.error = old.error,
                               !.last = n]
<1>1. old \in RunExecutionData
  BY FreshDataType DEF Row
<1>2. [old.runData EXCEPT ![n] = Append(@, task)] \in [Node -> Seq(Task)]
  BY <1>1, RunDataExcept
<1>3. new \in RunExecutionData
  <2> HIDE DEF old
  <2>1. QED
    BY <1>1, <1>2 DEF RunExecutionData
<1>4. /\ [r EXCEPT !.status = "running"] \in Row
      /\ [r EXCEPT !.status = "running", !.data = new] \in Row
  <2> HIDE DEF new
  <2>1. QED
    BY <1>3 DEF Row
<1>5. SaveProgress(r, outcome, n, task, live) \in
        {r, [r EXCEPT !.status = "running"], [r EXCEPT !.status = "running", !.data = new]}
  BY DEF SaveProgress
<1> HIDE DEF new
<1>6. QED
  BY <1>4, <1>5, NoneAssumption

LEMMA FinalRemovesIffAsked ==
  ASSUME NEW r \in Row, r.data # None, NEW finished \in BOOLEAN, NEW error \in BOOLEAN,
         NEW delete \in BOOLEAN
  PROVE  SaveFinal(r, "both", finished, error, delete) = None <=> delete
<1>1. [r EXCEPT !.status = IF error THEN "failed" ELSE "success",
                !.finished = finished, !.data.error = error] \in Row
  <2>1. [r.data EXCEPT !.error = error] \in RunExecutionData
    BY DEF Row, RunExecutionData
  <2>2. QED
    BY <2>1 DEF Row
<1>2. QED
  BY <1>1, NoneAssumption DEF SaveFinal

(* Without failing saves the row is written or cannot be read.             *)
LEMMA Outcomes ==
  ASSUME "db" \notin Faults, NEW e \in Exec, NEW outcome \in StoreOutcomes(e)
  PROVE  outcome \in {"unreadable", "both"}
BY DEF StoreOutcomes

LEMMA RecordWish ==
  ASSUME TypeInv, Wishes, NEW e \in Exec, AtPop(e), mem[e].stack # <<>>,
         NEW ok \in BOOLEAN, NEW outputs \in Seq(Item),
         Record(e, Head(mem[e].stack), ok, outputs),
         needDelete' = IF Head(mem[e].stack).node \in Deleters THEN needDelete \cup {e}
                       ELSE needDelete
  PROVE  Wishes'
<1> DEFINE n == Head(mem[e].stack).node
           task == [ok |-> ok, inputs |-> Head(mem[e].stack).inputs, outputs |-> outputs]
           live == [mem[e] EXCEPT !.stack = Tail(@),
                                  !.waiting[n] = outputs,
                                  !.runData[n] = Append(@, task),
                                  !.error = @ \/ ~ok,
                                  !.last = n]
<1>1. n \in Node /\ task \in Task
  BY TopType DEF Task
<1>2. PICK outcome \in StoreOutcomes(e) :
        row' = [row EXCEPT ![e] = SaveProgress(@, outcome, n, task, live)]
  BY DEF Record
<1>3. /\ mem' = [mem EXCEPT ![e] = live]
      /\ pc' = [pc EXCEPT ![e] = IF ok THEN "loop" ELSE "broken"]
  BY DEF Record
<1>4. needDelete' = IF n \in Deleters THEN needDelete \cup {e} ELSE needDelete
  OBVIOUS
<1> HIDE DEF n, task
<1>5. live.runData = [mem[e].runData EXCEPT ![n] = Append(@, task)]
  BY <1>1, MemType DEF RunExecutionData
<1>6. live \in RunExecutionData
  <2>1. [mem[e].runData EXCEPT ![n] = Append(@, task)] \in [Node -> Seq(Task)]
    BY <1>1, MemType, RunDataExcept
  <2>2. [mem[e].waiting EXCEPT ![n] = outputs] \in [Node -> Seq(Item) \cup {None}]
    BY <1>1, MemType
  <2>3. Tail(mem[e].stack) \in Seq(Entry)
    BY MemType
  <2>4. QED
    BY <1>1, <2>1, <2>2, <2>3, MemType DEF RunExecutionData
<1> HIDE DEF live
<1>7. pc[e] = "loop" /\ row[e] # None /\ row[e] \in Row /\ (e \in needDelete <=> Asked(mem[e]))
  BY Variables DEF AtPop, Wishes, WishInv
<1>8. row'[e] # None
  BY <1>1, <1>2, <1>6, <1>7, Variables, ProgressKeepsRow
<1>9. Asked(live) <=> Asked(mem[e]) \/ n \in Deleters
  <2>1. live.runData[n] # <<>>
    <3>1. mem[e].runData[n] \in Seq(Task) /\ live.runData[n] = Append(mem[e].runData[n], task)
      BY <1>1, <1>5, MemType
    <3>2. Len(Append(mem[e].runData[n], task)) = Len(mem[e].runData[n]) + 1
      BY <1>1, <3>1
    <3>3. Append(mem[e].runData[n], task) \in Seq(Task) /\ Len(mem[e].runData[n]) \in Nat
      BY <1>1, <3>1
    <3>4. Append(mem[e].runData[n], task) # <<>>
      BY <3>2, <3>3
    <3>5. QED
      BY <3>1, <3>4
  <2>2. \A m \in Node \ {n} : live.runData[m] = mem[e].runData[m]
    BY <1>1, <1>5, MemType
  <2>3. Deleters \subseteq Node
    BY GraphAssumption
  <2>4. QED
    BY <2>1, <2>2, <2>3 DEF Asked
<1>10. mem'[e] = live /\ pc'[e] \in {"loop", "broken"} /\ Aside(e)
  BY <1>2, <1>3, <1>4, Variables DEF Aside
<1>11. e \in needDelete' <=> e \in needDelete \/ n \in Deleters
  BY <1>4
<1>12. WishInv(e)'
  BY <1>7, <1>8, <1>9, <1>10, <1>11 DEF WishInv, Asked
<1>13. QED
  BY <1>10, <1>12, OneWish

LEMMA PanicWish ==
  ASSUME TypeInv, Wishes, NEW e \in Exec, Panic(e), UNCHANGED row,
         needDelete' \in {needDelete, needDelete \cup {e}}
  PROVE  Wishes'
<1>1. pc'[e] = "dead" /\ Aside(e)
  BY Variables DEF Panic, Aside
<1>2. QED
  BY <1>1, OneWish DEF WishInv

(* A step of e that changes neither its runs nor its row nor its wish.     *)
LEMMA QuietWish ==
  ASSUME TypeInv, Wishes, UNCHANGED <<pc, needDelete, row>>,
         \A x \in Exec : mem'[x].runData = mem[x].runData
  PROVE  Wishes'
BY DEF Wishes, WishInv, Asked

LEMMA AddNodeWish ==
  ASSUME TypeInv, Wishes, NEW e \in Exec, AddNodeToBeExecuted(e)
  PROVE  Wishes'
<1>1. PICK p \in NextToAdd(e) :
        \/ PushSingle(e, p)
        \/ \E cs \in FirstConnections(p.conn.dst) : PushMulti(e, p.conn.dst, cs)
  BY DEF AddNodeToBeExecuted
<1>2. UNCHANGED <<row, needDelete>>
  BY DEF AddNodeToBeExecuted
<1> DEFINE n == p.conn.dst
<1>3. ASSUME NEW stack, NEW sources,
             mem' \in {[mem EXCEPT ![e].stack = stack, ![e].sources[n] = sources],
                       [mem EXCEPT ![e].sources[n] = sources]}
      PROVE  \A x \in Exec : mem'[x].runData = mem[x].runData
  <2>1. ASSUME NEW x \in Exec, x # e PROVE mem'[x] = mem[x]
    BY <1>3, <2>1, Variables
  <2>2. mem'[e].runData = mem[e].runData
    BY <1>3, Variables DEF RunExecutionData
  <2>3. QED
    BY <2>1, <2>2
<1> HIDE DEF n
<1>4. CASE PushSingle(e, p)
  <2>1. \E stack, sources :
          mem' \in {[mem EXCEPT ![e].stack = stack, ![e].sources[n] = sources],
                    [mem EXCEPT ![e].sources[n] = sources]}
    BY <1>4 DEF PushSingle, n
  <2>2. \A x \in Exec : mem'[x].runData = mem[x].runData
    BY <1>3, <2>1
  <2>3. UNCHANGED pc
    BY <1>4 DEF PushSingle
  <2>4. QED
    BY <1>2, <2>2, <2>3, QuietWish
<1>5. ASSUME NEW cs \in FirstConnections(n), PushMulti(e, n, cs)
      PROVE  Wishes'
  <2>1. CASE Panic(e)
    BY <1>2, <2>1, PanicWish
  <2>2. CASE UNCHANGED pc /\ \E stack, sources :
               mem' \in {[mem EXCEPT ![e].stack = stack, ![e].sources[n] = sources],
                         [mem EXCEPT ![e].sources[n] = sources]}
    BY <1>2, <1>3, <2>2, QuietWish
  <2>3. QED
    BY <1>5, <2>1, <2>2 DEF PushMulti
<1>6. QED
  BY <1>1, <1>4, <1>5 DEF n

(* The end: with the row read and written it is gone iff it should be.     *)
LEMMA FinishWish ==
  ASSUME "db" \notin Faults, TypeInv, Wishes, NEW e \in Exec, Finish(e)
  PROVE  Wishes'
<1>1. PICK outcome \in StoreOutcomes(e) :
        \/ Panic(e) /\ UNCHANGED row
        \/ /\ outcome # "unreadable" /\ row[e].data # None
           /\ pc' = [pc EXCEPT ![e] = "over"]
           /\ UNCHANGED mem
           /\ row' = [row EXCEPT ![e] =
                SaveFinal(@, outcome, pc[e] = "loop", mem[e].error, e \in needDelete)]
  BY DEF Finish
<1>2. UNCHANGED needDelete
  BY DEF Finish
<1>3. CASE Panic(e) /\ UNCHANGED row
  BY <1>2, <1>3, PanicWish
<1>4. CASE /\ outcome # "unreadable" /\ row[e].data # None
           /\ pc' = [pc EXCEPT ![e] = "over"]
           /\ UNCHANGED mem
           /\ row' = [row EXCEPT ![e] =
                SaveFinal(@, outcome, pc[e] = "loop", mem[e].error, e \in needDelete)]
  <2>1. outcome = "both" /\ row[e] # None
    BY <1>4, Outcomes DEF StoreOutcomes
  <2>2. row[e] \in Row /\ (e \in needDelete <=> Asked(mem[e]))
    <3>1. pc[e] \in {"loop", "broken"}
      BY DEF Finish, AtPop
    <3>2. QED
      BY <2>1, <3>1, Variables DEF Wishes, WishInv
  <2>3. mem[e].error \in BOOLEAN
    BY MemType DEF RunExecutionData
  <2> DEFINE delete == e \in needDelete
             finished == pc[e] = "loop"
  <2>4. delete \in BOOLEAN /\ finished \in BOOLEAN
    OBVIOUS
  <2>5. row' = [row EXCEPT ![e] = SaveFinal(row[e], "both", finished, mem[e].error, delete)]
    BY <1>4, <2>1, Variables
  <2> HIDE DEF delete, finished
  <2>6. row'[e] = None <=> delete
    BY <1>4, <2>2, <2>3, <2>4, <2>5, Variables, FinalRemovesIffAsked
  <2>7. pc'[e] = "over" /\ mem'[e] = mem[e] /\ Aside(e)
    BY <1>2, <1>4, <2>5, Variables DEF Aside
  <2>8. WishInv(e)'
    BY <2>2, <2>6, <2>7 DEF WishInv, Asked, delete
  <2>9. QED
    BY <2>7, <2>8, OneWish
<1>5. QED
  BY <1>1, <1>3, <1>4

LEMMA BeginWish ==
  ASSUME TypeInv, Wishes, NEW e \in Exec, NEW stack, NEW c, Begin(e, stack, c)
  PROVE  Wishes'
<1>1. /\ pc[e] = "idle" /\ pc' = [pc EXCEPT ![e] = "loop"]
      /\ mem' = [mem EXCEPT ![e] = [FreshData EXCEPT !.stack = stack]]
      /\ row' = [row EXCEPT ![e] = NewRow(None)]
      /\ UNCHANGED needDelete
  BY DEF Begin
<1>2. ~Asked([FreshData EXCEPT !.stack = stack])
  BY GraphAssumption DEF Asked, FreshData
<1>3. NewRow(None) # None
  <2>1. NewRow(None) \in Row
    BY DEF NewRow, Row
  <2>2. QED
    BY <2>1, NoneAssumption
<1>4. WishInv(e)'
  BY <1>1, <1>2, <1>3, Variables DEF Wishes, WishInv, Asked
<1>5. Aside(e)
  BY <1>1, Variables DEF Aside
<1>6. QED
  BY <1>4, <1>5, OneWish

LEMMA StepWish ==
  ASSUME Faults \cap {"db", "delete", "retry"} = {}, TypeInv, Wishes, [Next]_vars
  PROVE  Wishes'
<1>1. ASSUME NEW e \in Exec, StartAll(e) \/ \E n \in Webhooks : StartFrom(e, n)
      PROVE  Wishes'
  BY <1>1, BeginWish DEF StartAll, StartFrom
<1>2. ASSUME NEW e \in Exec, PopDisabled(e) PROVE Wishes'
  <2>1. \A x \in Exec : mem'[x].runData = mem[x].runData
    BY <1>2, Variables DEF PopDisabled, RunExecutionData
  <2>2. QED
    BY <1>2, <2>1, QuietWish DEF PopDisabled
<1>3. ASSUME NEW e \in Exec, ExecuteNode(e) PROVE Wishes'
  <2> DEFINE top == Head(mem[e].stack)
             run == Len(mem[e].runData[top.node]) + 1
  <2>1. /\ AtPop(e) /\ mem[e].stack # <<>>
        /\ needDelete' = IF top.node \in Deleters THEN needDelete \cup {e} ELSE needDelete
    BY <1>3 DEF ExecuteNode
  <2>2. top.node \in Node /\ top.inputs \in Seq(Item) /\ run \in Nat
    <3>1. \A x \in Node : Len(mem[e].runData[x]) + 1 \in Nat
      BY MemType
    <3>2. QED
      BY <2>1, <3>1, TopType
  <2>3. ASSUME NEW outputs \in Results(top.node, top.inputs, run), Record(e, top, TRUE, outputs)
        PROVE  Wishes'
    BY <2>1, <2>2, <2>3, ResultsType, RecordWish
  <2>4. ASSUME Record(e, top, FALSE, FailedOutputs(top.node, run)) PROVE Wishes'
    BY <2>1, <2>2, <2>4, ResultsType, RecordWish
  <2>5. ASSUME Panic(e), UNCHANGED row PROVE Wishes'
    BY <2>1, <2>5, PanicWish
  <2>6. QED
    BY <1>3, <2>3, <2>4, <2>5 DEF ExecuteNode
<1>4. ASSUME NEW e \in Exec, AddNodeToBeExecuted(e) \/ Finish(e) PROVE Wishes'
  BY <1>4, AddNodeWish, FinishWish
<1>5. ASSUME NEW e \in Exec, Cancel(e) PROVE Wishes'
  BY <1>5, QuietWish DEF Cancel
<1>6. CASE Crash
  <2>1. \A x \in Exec : IF x \in Alive THEN pc'[x] = "dead"
                                       ELSE pc'[x] = pc[x] /\ mem'[x] = mem[x]
    BY <1>6 DEF Crash
  <2>2. UNCHANGED <<needDelete, row>>
    BY <1>6 DEF Crash
  <2>3. QED
    BY <2>1, <2>2 DEF Wishes, WishInv, Asked
<1>7. CASE UNCHANGED vars
  BY <1>7, QuietWish DEF vars
<1>8. ASSUME NEW e \in Exec, NEW f \in Exec, Retry(e, f) \/ DeleteRow(e) PROVE FALSE
  BY <1>8 DEF Retry, DeleteRow
<1>9. QED
  BY <1>1, <1>2, <1>3, <1>4, <1>5, <1>6, <1>7, <1>8 DEF Next, Step

(* Delete Execution removes the row of the execution it ran in, also when  *)
(* a later node fails, and no execution that ran none loses its row, in    *)
(* every workflow with any number of executions, cancels and crashes, as   *)
(* long as nobody else deletes rows, the database works and nothing is     *)
(* retried (a retry forgets the wish).                                     *)
THEOREM DeletedExactlyIfAsked ==
  ASSUME Faults \cap {"db", "delete", "retry"} = {}
  PROVE  Spec => []DeletedIffAsked
<1>1. Init => Wishes
  BY DEF Init, Wishes, WishInv
<1>2. TypeInv /\ Wishes /\ [Next]_vars => Wishes'
  BY StepWish
<1>3. Wishes => DeletedIffAsked
  BY DEF Wishes, WishInv, Asked, DeletedIffAsked
<1>4. QED
  BY <1>1, <1>2, <1>3, TypeInvariant, PTL DEF Spec

-----------------------------------------------------------------------------
(* The row as a checkpoint.  The induction needs to know more than what is *)
(* saved: who pushed what is still pending, and that before the first save *)
(* only disabled nodes can have been popped.                               *)

ByLastOrDisabled(c, last) == c.src = last \/ c.src \in Disabled

(* stack is d.stack without some disabled nodes on its top, under nodes    *)
(* that were pushed since.                                                 *)
Behind(d, stack) ==
  \E popped \in 0 .. Len(d.stack), pushed \in 0 .. Len(stack) :
    /\ \A i \in 1 .. popped : d.stack[i].node \in Disabled
    /\ \A i \in 1 .. pushed : \E c \in Into(stack[i].node) : ByLastOrDisabled(c, d.last)
    /\ Len(d.stack) - popped = Len(stack) - pushed
    /\ \A i \in 1 .. Len(stack) - pushed : stack[pushed + i] = d.stack[popped + i]

Same(d, m) ==
  d.runData = m.runData /\ d.waiting = m.waiting /\ d.last = m.last /\ Behind(d, m.stack)

PushedBySaved(d, todo) == \A p \in todo : ByLastOrDisabled(p.conn, d.last)
PushedByDisabled(todo) == \A p \in todo : p.conn.src \in Disabled

Checkpoint(r, m, todo) ==
  /\ r.data = None => m.runData = FreshData.runData /\ PushedByDisabled(todo)
  /\ r.data # None => Same(r.data, m) /\ PushedBySaved(r.data, todo)

CheckInv(e) ==
  /\ pc[e] = "idle" => pending[e] = {}
  /\ pc[e] \in {"loop", "broken"} /\ row[e] # None /\ ctx[e] # "cancelled" =>
       Checkpoint(row[e], mem[e], pending[e])

Checks == \A e \in Exec : CheckInv(e)

(* The stack as it was saved, one popped from it, one pushed on it.        *)
LEMMA SavedStack ==
  ASSUME NEW d \in RunExecutionData
  PROVE  Behind(d, d.stack)
<1>1. d.stack \in Seq(Entry) /\ Len(d.stack) \in Nat
  BY DEF RunExecutionData
<1>2. 0 \in 0 .. Len(d.stack) /\ Len(d.stack) - 0 = Len(d.stack)
  BY <1>1
<1>3. QED
  BY <1>1, <1>2 DEF Behind

LEMMA PoppedStack ==
  ASSUME NEW d \in RunExecutionData, NEW stack \in Seq(Entry), stack # <<>>,
         Head(stack).node \in Disabled, Behind(d, stack)
  PROVE  Behind(d, Tail(stack))
<1>1. PICK popped \in 0 .. Len(d.stack), pushed \in 0 .. Len(stack) :
        /\ \A i \in 1 .. popped : d.stack[i].node \in Disabled
        /\ \A i \in 1 .. pushed : \E c \in Into(stack[i].node) : ByLastOrDisabled(c, d.last)
        /\ Len(d.stack) - popped = Len(stack) - pushed
        /\ \A i \in 1 .. Len(stack) - pushed : stack[pushed + i] = d.stack[popped + i]
  BY DEF Behind
<1>2. d.stack \in Seq(Entry) /\ Len(d.stack) \in Nat /\ Len(stack) \in Nat /\ Len(stack) > 0
  BY DEF RunExecutionData
<1>3. /\ Len(Tail(stack)) = Len(stack) - 1
      /\ \A i \in 1 .. Len(stack) - 1 : Tail(stack)[i] = stack[i + 1]
      /\ Head(stack) = stack[1]
  BY <1>2
<1> DEFINE rest == Tail(stack)
<1> HIDE DEF rest
<1>4. Len(rest) = Len(stack) - 1 /\ \A i \in 1 .. Len(stack) - 1 : rest[i] = stack[i + 1]
  BY <1>3 DEF rest
<1>5. CASE pushed > 0
  <2> DEFINE less == pushed - 1
  <2>1. less \in 0 .. Len(rest) /\ Len(d.stack) - popped = Len(rest) - less
    BY <1>1, <1>2, <1>4, <1>5
  <2>2. \A i \in 1 .. less : rest[i] = stack[i + 1] /\ i + 1 \in 1 .. pushed
    BY <1>2, <1>4, <1>5
  <2>3. \A i \in 1 .. less : \E c \in Into(rest[i].node) : ByLastOrDisabled(c, d.last)
    BY <1>1, <2>2
  <2>4. \A i \in 1 .. Len(rest) - less : rest[less + i] = d.stack[popped + i]
    <3>1. ASSUME NEW i \in 1 .. Len(rest) - less PROVE rest[less + i] = d.stack[popped + i]
      <4>1. less + i \in 1 .. Len(stack) - 1 /\ i \in 1 .. Len(stack) - pushed
            /\ less + i + 1 = pushed + i
        BY <1>2, <1>4, <1>5
      <4>2. rest[less + i] = stack[pushed + i]
        BY <1>4, <4>1
      <4>3. QED
        BY <1>1, <4>1, <4>2
    <3>2. QED
      BY <3>1
  <2> HIDE DEF less
  <2>5. Behind(d, rest)
    BY <1>1, <2>1, <2>3, <2>4 DEF Behind
  <2>6. QED
    BY <2>5 DEF rest
<1>6. CASE pushed = 0
  <2> DEFINE more == popped + 1
  <2>1. more \in 0 .. Len(d.stack) /\ Len(d.stack) - more = Len(rest) - 0 /\ 0 \in 0 .. Len(rest)
    BY <1>1, <1>2, <1>4, <1>6
  <2>2. d.stack[more] = stack[1]
    <3>1. 1 \in 1 .. Len(stack) - pushed /\ pushed + 1 = 1
      BY <1>2, <1>6
    <3>2. QED
      BY <1>1, <3>1
  <2>3. \A i \in 1 .. more : d.stack[i].node \in Disabled
    <3>1. \A i \in 1 .. more : i \in 1 .. popped \/ i = more
      OBVIOUS
    <3>2. QED
      BY <1>1, <1>3, <2>2, <3>1
  <2>4. \A i \in 1 .. Len(rest) - 0 : rest[0 + i] = d.stack[more + i]
    <3>1. ASSUME NEW i \in 1 .. Len(rest) - 0 PROVE rest[0 + i] = d.stack[more + i]
      <4>1. 0 + i = i /\ i \in 1 .. Len(stack) - 1 /\ i + 1 \in 1 .. Len(stack) - pushed
            /\ pushed + (i + 1) = i + 1 /\ popped + (i + 1) = more + i
        BY <1>2, <1>4, <1>6
      <4>2. rest[i] = stack[i + 1] /\ stack[pushed + (i + 1)] = d.stack[popped + (i + 1)]
        BY <1>1, <1>4, <4>1
      <4>3. QED
        BY <4>1, <4>2
    <3>2. QED
      BY <3>1
  <2>5. \A i \in 1 .. 0 : \E c \in Into(rest[i].node) : ByLastOrDisabled(c, d.last)
    OBVIOUS
  <2> HIDE DEF more
  <2>6. Behind(d, rest)
    BY <2>1, <2>3, <2>4, <2>5 DEF Behind
  <2>7. QED
    BY <2>6 DEF rest
<1>7. QED
  BY <1>5, <1>6

LEMMA PushedStack ==
  ASSUME NEW d \in RunExecutionData, NEW stack \in Seq(Entry), NEW entry \in Entry,
         NEW c \in Into(entry.node), ByLastOrDisabled(c, d.last), Behind(d, stack)
  PROVE  Behind(d, <<entry>> \o stack)
<1>1. PICK popped \in 0 .. Len(d.stack), pushed \in 0 .. Len(stack) :
        /\ \A i \in 1 .. popped : d.stack[i].node \in Disabled
        /\ \A i \in 1 .. pushed : \E x \in Into(stack[i].node) : ByLastOrDisabled(x, d.last)
        /\ Len(d.stack) - popped = Len(stack) - pushed
        /\ \A i \in 1 .. Len(stack) - pushed : stack[pushed + i] = d.stack[popped + i]
  BY DEF Behind
<1>2. d.stack \in Seq(Entry) /\ Len(d.stack) \in Nat /\ Len(stack) \in Nat
  BY DEF RunExecutionData
<1> DEFINE new == <<entry>> \o stack
           more == pushed + 1
<1>3. Len(new) = Len(stack) + 1 /\ new[1] = entry
  OBVIOUS
<1>4. \A i \in 2 .. Len(stack) + 1 : new[i] = stack[i - 1]
  OBVIOUS
<1> HIDE DEF new
<1>5. more \in 0 .. Len(new) /\ Len(d.stack) - popped = Len(new) - more
  <2>1. pushed \in Int /\ 0 <= pushed /\ pushed <= Len(stack)
    BY <1>2
  <2>2. more \in Int /\ 0 <= more /\ more <= Len(stack) + 1
    BY <1>2, <2>1
  <2>3. more \in 0 .. Len(stack) + 1
    BY <1>2, <2>2
  <2>4. Len(d.stack) - popped = Len(new) - more
    <3>1. popped \in Int /\ Len(new) = Len(stack) + 1 /\ Len(d.stack) - popped = Len(stack) - pushed
      BY <1>1, <1>2, <1>3
    <3>2. QED
      BY <1>2, <2>1, <3>1
  <2> HIDE DEF more
  <2>5. QED
    BY <1>3, <2>3, <2>4
<1>6. ASSUME NEW i \in 1 .. more
      PROVE  \E x \in Into(new[i].node) : ByLastOrDisabled(x, d.last)
  <2>1. CASE i = 1
    BY <1>3, <2>1
  <2>2. CASE i # 1
    <3>1. i \in 2 .. Len(stack) + 1 /\ i - 1 \in 1 .. pushed
      BY <1>2, <2>2
    <3>2. QED
      BY <1>1, <1>4, <3>1
  <2>3. QED
    BY <2>1, <2>2
<1>7. ASSUME NEW i \in 1 .. Len(new) - more PROVE new[more + i] = d.stack[popped + i]
  <2>1. more + i \in 2 .. Len(stack) + 1 /\ more + i - 1 = pushed + i
        /\ i \in 1 .. Len(stack) - pushed
    BY <1>2, <1>3
  <2>2. QED
    BY <1>1, <1>4, <2>1
<1> HIDE DEF more
<1>8. Behind(d, new)
  BY <1>1, <1>5, <1>6, <1>7 DEF Behind
<1>9. QED
  BY <1>8 DEF new

LEMMA BehindTails ==
  ASSUME NEW d \in RunExecutionData, NEW stack \in Seq(Entry), Behind(d, stack)
  PROVE  \E popped \in 0 .. Len(d.stack), pushed \in 0 .. Len(stack) :
           /\ \A i \in 1 .. popped : d.stack[i].node \in Disabled
           /\ \A i \in 1 .. pushed : \E c \in Into(stack[i].node) :
                c.src = d.last \/ c.src \in Disabled
           /\ SubSeq(d.stack, popped + 1, Len(d.stack)) = SubSeq(stack, pushed + 1, Len(stack))
<1>1. PICK popped \in 0 .. Len(d.stack), pushed \in 0 .. Len(stack) :
        /\ \A i \in 1 .. popped : d.stack[i].node \in Disabled
        /\ \A i \in 1 .. pushed : \E c \in Into(stack[i].node) : ByLastOrDisabled(c, d.last)
        /\ Len(d.stack) - popped = Len(stack) - pushed
        /\ \A i \in 1 .. Len(stack) - pushed : stack[pushed + i] = d.stack[popped + i]
  BY DEF Behind
<1>2. d.stack \in Seq(Entry) /\ Len(d.stack) \in Nat /\ Len(stack) \in Nat
  BY DEF RunExecutionData
<1> DEFINE left == SubSeq(d.stack, popped + 1, Len(d.stack))
           right == SubSeq(stack, pushed + 1, Len(stack))
           n == Len(stack) - pushed
<1>3. left = [i \in 1 .. n |-> d.stack[popped + i]]
  <2>1. \A i \in 1 .. Len(d.stack) - popped : popped + 1 + i - 1 = popped + i
    BY <1>2
  <2>2. left = [i \in 1 .. Len(d.stack) - popped |-> d.stack[popped + i]]
    BY <1>2, <2>1
  <2>3. QED
    BY <1>1, <2>2
<1>4. right = [i \in 1 .. n |-> stack[pushed + i]]
  <2>1. \A i \in 1 .. Len(stack) - pushed : pushed + 1 + i - 1 = pushed + i
    BY <1>2
  <2>2. QED
    BY <1>2, <2>1
<1> HIDE DEF left, right
<1>5. left = right
  BY <1>1, <1>3, <1>4
<1>6. QED
  BY <1>1, <1>5 DEF left, right, ByLastOrDisabled

-----------------------------------------------------------------------------
(* What a step of e leaves of another execution.                           *)
Apart(e) ==
  \A x \in Exec \ {e} : UNCHANGED <<pc[x], mem[x], row[x], ctx[x], pending[x]>>

LEMMA OneCheck ==
  ASSUME Checks, NEW e \in Exec, Apart(e), CheckInv(e)'
  PROVE  Checks'
BY DEF Checks, CheckInv, Apart

LEMMA MoreVariables ==
  ASSUME TypeInv
  PROVE  /\ pending \in [Exec -> SUBSET Pending]
         /\ ctx \in [Exec -> {"request", "live", "cancelled"}]
BY DEF TypeInv, TypeOK

(* A step after which e is no longer under way.                            *)
LEMMA OverCheck ==
  ASSUME TypeInv, Checks, NEW e \in Exec, NEW to \in {"dead", "over"}, pc' = [pc EXCEPT ![e] = to],
         NEW d, mem' = [mem EXCEPT ![e] = d], NEW r, row' = [row EXCEPT ![e] = r],
         NEW todo, pending' = [pending EXCEPT ![e] = todo], UNCHANGED ctx
  PROVE  Checks'
<1>1. Apart(e) /\ pc'[e] \in {"dead", "over"}
  BY Variables, MoreVariables DEF Apart
<1>2. CheckInv(e)'
  BY <1>1 DEF CheckInv
<1>3. QED
  BY <1>1, <1>2, OneCheck

LEMMA BeginCheck ==
  ASSUME TypeInv, Checks, NEW e \in Exec, NEW stack, NEW c, Begin(e, stack, c)
  PROVE  Checks'
<1>1. /\ pc[e] = "idle" /\ pc' = [pc EXCEPT ![e] = "loop"]
      /\ mem' = [mem EXCEPT ![e] = [FreshData EXCEPT !.stack = stack]]
      /\ ctx' = [ctx EXCEPT ![e] = c]
      /\ row' = [row EXCEPT ![e] = NewRow(None)]
      /\ UNCHANGED pending
  BY DEF Begin
<1>2. Apart(e)
  BY <1>1, Variables, MoreVariables DEF Apart
<1>3. pending'[e] = {} /\ row'[e].data = None /\ mem'[e].runData = FreshData.runData
      /\ pc'[e] = "loop"
  BY <1>1, Variables DEF Checks, CheckInv, NewRow, FreshData
<1>4. CheckInv(e)'
  BY <1>3 DEF CheckInv, Checkpoint, PushedByDisabled
<1>5. QED
  BY <1>2, <1>4, OneCheck

(* A step of the loop between two saves.                                   *)
LEMMA LoopCheck ==
  ASSUME TypeInv, Checks, NEW e \in Exec, pc[e] = "loop", UNCHANGED <<pc, row, ctx>>,
         NEW d \in RunExecutionData, mem' = [mem EXCEPT ![e] = d],
         d.runData = mem[e].runData, d.waiting = mem[e].waiting, d.last = mem[e].last,
         NEW todo, pending' = [pending EXCEPT ![e] = todo],
         row[e] # None /\ ctx[e] # "cancelled" =>
           IF row[e].data = None THEN PushedByDisabled(todo)
           ELSE Behind(row[e].data, d.stack) /\ PushedBySaved(row[e].data, todo)
  PROVE  Checks'
<1>1. Apart(e) /\ mem'[e] = d /\ pending'[e] = todo /\ UNCHANGED <<row[e], ctx[e], pc[e]>>
  BY Variables, MoreVariables DEF Apart
<1>2. CheckInv(e)
  BY DEF Checks
<1>3. ASSUME row[e] # None, ctx[e] # "cancelled" PROVE Checkpoint(row[e], d, todo)
  <2>1. Checkpoint(row[e], mem[e], pending[e])
    BY <1>2, <1>3 DEF CheckInv
  <2>2. CASE row[e].data = None
    BY <1>3, <2>1, <2>2 DEF Checkpoint
  <2>3. CASE row[e].data # None
    BY <1>3, <2>1, <2>3 DEF Checkpoint, Same
  <2>4. QED
    BY <2>2, <2>3
<1>4. CheckInv(e)'
  <2>1. ASSUME row'[e] # None, ctx'[e] # "cancelled" PROVE Checkpoint(row'[e], mem'[e], pending'[e])
    BY <1>1, <1>3, <2>1
  <2>2. QED
    BY <1>1, <2>1 DEF CheckInv
<1>5. QED
  BY <1>1, <1>4, OneCheck

LEMMA DataType ==
  ASSUME TypeInv, NEW e \in Exec, row[e] # None
  PROVE  row[e] \in Row /\ (row[e].data # None => row[e].data \in RunExecutionData)
BY Variables DEF Row

LEMMA PopDisabledCheck ==
  ASSUME TypeInv, Checks, NEW e \in Exec, PopDisabled(e)
  PROVE  Checks'
<1> DEFINE top == Head(mem[e].stack)
           d == [mem[e] EXCEPT !.stack = Tail(@)]
           todo == PassedOn(top.node, top.inputs)
<1>1. /\ pc[e] = "loop" /\ mem[e].stack # <<>> /\ top.node \in Disabled
      /\ pending' = [pending EXCEPT ![e] = todo]
      /\ mem' = [mem EXCEPT ![e] = d]
      /\ UNCHANGED <<pc, row, ctx>>
  BY Variables DEF PopDisabled, AtPop
<1>2. d \in RunExecutionData /\ d.stack = Tail(mem[e].stack)
      /\ d.runData = mem[e].runData /\ d.waiting = mem[e].waiting /\ d.last = mem[e].last
  <2>1. Tail(mem[e].stack) \in Seq(Entry)
    BY <1>1, MemType
  <2>2. QED
    BY <2>1, MemType DEF RunExecutionData
<1>3. PushedByDisabled(todo)
  BY <1>1 DEF PushedByDisabled, PassedOn
<1>4. ASSUME row[e] # None, ctx[e] # "cancelled", row[e].data # None
      PROVE  Behind(row[e].data, d.stack) /\ PushedBySaved(row[e].data, todo)
  <2>1. Behind(row[e].data, mem[e].stack)
    BY <1>1, <1>4 DEF Checks, CheckInv, Checkpoint, Same
  <2>2. Behind(row[e].data, Tail(mem[e].stack))
    BY <1>1, <1>4, <2>1, MemType, DataType, PoppedStack
  <2>3. PushedBySaved(row[e].data, todo)
    BY <1>3 DEF PushedBySaved, PushedByDisabled, ByLastOrDisabled
  <2>4. QED
    BY <1>2, <2>2, <2>3
<1> HIDE DEF top, d, todo
<1>5. QED
  BY <1>1, <1>2, <1>3, <1>4, LoopCheck

(* The save makes row and memory equal again.                              *)
LEMMA RecordCheck ==
  ASSUME "db" \notin Faults, TypeInv, EngineInv, Checks, NEW e \in Exec,
         AtPop(e), mem[e].stack # <<>>, NEW ok \in BOOLEAN, NEW outputs \in Seq(Item),
         Record(e, Head(mem[e].stack), ok, outputs), UNCHANGED ctx
  PROVE  Checks'
<1> DEFINE n == Head(mem[e].stack).node
           task == [ok |-> ok, inputs |-> Head(mem[e].stack).inputs, outputs |-> outputs]
           live == [mem[e] EXCEPT !.stack = Tail(@),
                                  !.waiting[n] = outputs,
                                  !.runData[n] = Append(@, task),
                                  !.error = @ \/ ~ok,
                                  !.last = n]
           todo == IF ok THEN Successors(n, outputs) ELSE {}
<1>1. n \in Node /\ task \in Task
  BY TopType DEF Task
<1>2. PICK outcome \in StoreOutcomes(e) :
        row' = [row EXCEPT ![e] = SaveProgress(@, outcome, n, task, live)]
  BY DEF Record
<1>3. /\ mem' = [mem EXCEPT ![e] = live]
      /\ pc' = [pc EXCEPT ![e] = IF ok THEN "loop" ELSE "broken"]
      /\ pending' = [pending EXCEPT ![e] = todo]
  BY DEF Record
<1>4. \A p \in todo : p.conn.src = n
  BY DEF Successors
<1> HIDE DEF n, task, todo
<1>5. live.runData = [mem[e].runData EXCEPT ![n] = Append(@, task)] /\ live.last = n
  BY <1>1, MemType DEF RunExecutionData
<1>6. live \in RunExecutionData
  <2>1. [mem[e].runData EXCEPT ![n] = Append(@, task)] \in [Node -> Seq(Task)]
    BY <1>1, MemType, RunDataExcept
  <2>2. [mem[e].waiting EXCEPT ![n] = outputs] \in [Node -> Seq(Item) \cup {None}]
    BY <1>1, MemType
  <2>3. Tail(mem[e].stack) \in Seq(Entry)
    BY MemType
  <2>4. QED
    BY <1>1, <2>1, <2>2, <2>3, MemType DEF RunExecutionData
<1> HIDE DEF live
<1>7. Apart(e) /\ mem'[e] = live /\ pending'[e] = todo /\ UNCHANGED ctx[e]
      /\ pc'[e] \in {"loop", "broken"} /\ row'[e] = SaveProgress(row[e], outcome, n, task, live)
  BY <1>2, <1>3, Variables, MoreVariables DEF Apart
<1>8. ASSUME row'[e] # None, ctx[e] # "cancelled" PROVE Checkpoint(row'[e], live, todo)
  <2>1. row[e] # None
    <3>1. SUFFICES ASSUME row[e] = None PROVE FALSE
      OBVIOUS
    <3>2. outcome = "unreadable"
      BY <1>2, <3>1 DEF StoreOutcomes
    <3>3. QED
      BY <1>7, <1>8, <3>1, <3>2 DEF SaveProgress
  <2>2. outcome = "both"
    BY <1>2, <1>8, <2>1 DEF StoreOutcomes
  <2>3. pc[e] = "loop" /\ row[e] \in Row /\ ~row[e].finished
    BY <2>1, DataType DEF AtPop, EngineInv, RowInv
  <2> DEFINE old == IF row[e].data = None THEN FreshData ELSE row[e].data
             new == [live EXCEPT !.runData = [old.runData EXCEPT ![n] = Append(@, task)],
                                 !.error = old.error,
                                 !.last = n]
  <2>4. row'[e] = [row[e] EXCEPT !.status = "running", !.data = new]
    BY <1>7, <2>1, <2>2, <2>3 DEF SaveProgress
  <2>5. old.runData = mem[e].runData
    <3>1. Checkpoint(row[e], mem[e], pending[e])
      BY <1>8, <2>1, <2>3 DEF Checks, CheckInv
    <3>2. QED
      BY <3>1 DEF Checkpoint, Same
  <2> HIDE DEF old
  <2>6. new \in RunExecutionData /\ new.runData = live.runData /\ new.waiting = live.waiting
        /\ new.last = live.last /\ new.stack = live.stack
    <3>1. [old.runData EXCEPT ![n] = Append(@, task)] = live.runData
      BY <1>5, <2>5
    <3>2. old.error \in BOOLEAN
      BY <2>1, DataType, FreshDataType DEF old, RunExecutionData
    <3>3. QED
      BY <1>1, <1>5, <1>6, <3>1, <3>2 DEF RunExecutionData
  <2> HIDE DEF new
  <2>7. row'[e].data = new /\ new # None
    BY <2>3, <2>4, <2>6, NoneAssumption DEF Row
  <2>8. Same(new, live)
    <3>1. Behind(new, new.stack)
      BY <2>6, SavedStack
    <3>2. QED
      BY <2>6, <3>1 DEF Same
  <2>9. PushedBySaved(new, todo)
    BY <1>4, <1>5, <2>6 DEF PushedBySaved, ByLastOrDisabled
  <2>10. QED
    BY <2>7, <2>8, <2>9 DEF Checkpoint
<1>9. CheckInv(e)'
  BY <1>7, <1>8 DEF CheckInv
<1>10. QED
  BY <1>7, <1>9, OneCheck

LEMMA PanicCheck ==
  ASSUME TypeInv, Checks, NEW e \in Exec, Panic(e), UNCHANGED <<row, ctx>>,
         NEW todo, pending' = [pending EXCEPT ![e] = todo]
  PROVE  Checks'
<1>1. row' = [row EXCEPT ![e] = row[e]]
  BY Variables
<1>2. QED
  BY <1>1, OverCheck DEF Panic

LEMMA AddNodeCheck ==
  ASSUME TypeInv, TypeInv', Checks, NEW e \in Exec, AddNodeToBeExecuted(e)
  PROVE  Checks'
<1>1. PICK p \in NextToAdd(e) :
        /\ pending' = [pending EXCEPT ![e] = @ \ {p}]
        /\ \/ PushSingle(e, p)
           \/ \E cs \in FirstConnections(p.conn.dst) : PushMulti(e, p.conn.dst, cs)
  BY DEF AddNodeToBeExecuted
<1>2. pc[e] = "loop" /\ UNCHANGED <<row, ctx>>
  BY DEF AddNodeToBeExecuted
<1> DEFINE n == p.conn.dst
           todo == pending[e] \ {p}
<1>3. p \in pending[e] /\ p \in Pending /\ p.conn \in Into(n) /\ n \in Node
  <2>1. p \in pending[e] /\ p \in Pending
    BY DEF NextToAdd, TypeInv, TypeOK
  <2>2. QED
    BY <2>1, GraphAssumption DEF Pending, Into
<1>4. pending' = [pending EXCEPT ![e] = todo]
  BY <1>1, MoreVariables
<1>5. ASSUME row[e] # None, ctx[e] # "cancelled"
      PROVE  /\ row[e].data = None => PushedByDisabled(todo)
             /\ row[e].data # None =>
                  /\ PushedBySaved(row[e].data, todo)
                  /\ ByLastOrDisabled(p.conn, row[e].data.last)
                  /\ Behind(row[e].data, mem[e].stack)
  <2>1. Checkpoint(row[e], mem[e], pending[e])
    BY <1>2, <1>5 DEF Checks, CheckInv
  <2>2. QED
    BY <1>3, <2>1 DEF Checkpoint, Same, PushedByDisabled, PushedBySaved
<1> HIDE DEF n, todo
<1>6. ASSUME NEW entry, entry.node = n, NEW sources, UNCHANGED pc,
             mem' = [mem EXCEPT ![e].stack = <<entry>> \o @, ![e].sources[n] = sources],
             entry \in Entry
      PROVE  Checks'
  <2> DEFINE d == [mem[e] EXCEPT !.stack = <<entry>> \o @, !.sources[n] = sources]
  <2>1. mem' = [mem EXCEPT ![e] = d] /\ mem'[e] = d
    BY <1>6, Variables
  <2>2. d \in RunExecutionData
    <3>1. mem'[e] \in RunExecutionData
      BY DEF TypeInv, TypeOK
    <3>2. QED
      BY <2>1, <3>1
  <2>3. d.stack = <<entry>> \o mem[e].stack /\ d.runData = mem[e].runData
        /\ d.waiting = mem[e].waiting /\ d.last = mem[e].last
    BY MemType DEF RunExecutionData
  <2>4. ASSUME row[e] # None, ctx[e] # "cancelled", row[e].data # None
        PROVE  Behind(row[e].data, d.stack)
    <3>1. /\ ByLastOrDisabled(p.conn, row[e].data.last)
          /\ Behind(row[e].data, mem[e].stack)
          /\ p.conn \in Into(entry.node)
          /\ row[e].data \in RunExecutionData /\ mem[e].stack \in Seq(Entry)
      BY <1>3, <1>5, <1>6, <2>4, DataType, MemType
    <3>2. Behind(row[e].data, <<entry>> \o mem[e].stack)
      BY <1>6, <3>1, PushedStack
    <3>3. QED
      BY <2>3, <3>2
  <2> HIDE DEF d
  <2>5. QED
    BY <1>2, <1>4, <1>5, <1>6, <2>1, <2>2, <2>3, <2>4, LoopCheck
<1>7. ASSUME NEW sources, UNCHANGED pc, mem' = [mem EXCEPT ![e].sources[n] = sources]
      PROVE  Checks'
  <2> DEFINE d == [mem[e] EXCEPT !.sources[n] = sources]
  <2>1. mem' = [mem EXCEPT ![e] = d] /\ mem'[e] = d
    BY <1>7, Variables
  <2>2. d \in RunExecutionData
    <3>1. mem'[e] \in RunExecutionData
      BY DEF TypeInv, TypeOK
    <3>2. QED
      BY <2>1, <3>1
  <2>3. d.stack = mem[e].stack /\ d.runData = mem[e].runData
        /\ d.waiting = mem[e].waiting /\ d.last = mem[e].last
    BY MemType DEF RunExecutionData
  <2> HIDE DEF d
  <2>4. QED
    BY <1>2, <1>4, <1>5, <1>7, <2>1, <2>2, <2>3, LoopCheck
<1>8. CASE PushSingle(e, p)
  <2> DEFINE entry == [node |-> n, inputs |-> <<p.item>>]
  <2>1. entry \in Entry /\ entry.node = n
    BY <1>3 DEF Entry, Pending
  <2>2. UNCHANGED pc /\
        mem' = [mem EXCEPT ![e].stack = <<entry>> \o @,
                           ![e].sources[n] = <<[src |-> p.conn.src, out |-> p.out]>>]
    BY <1>8 DEF PushSingle, n
  <2> HIDE DEF entry
  <2>3. QED
    BY <1>6, <2>1, <2>2
<1>9. ASSUME NEW cs \in FirstConnections(n), PushMulti(e, n, cs)
      PROVE  Checks'
  <2>1. CASE Panic(e)
    BY <1>2, <1>4, <2>1, PanicCheck
  <2>2. CASE UNCHANGED pc /\ \E srcs : mem' = [mem EXCEPT ![e].sources[n] = @ \o srcs]
    <3>1. PICK srcs : mem' = [mem EXCEPT ![e].sources[n] = mem[e].sources[n] \o srcs]
      BY <2>2, Variables
    <3>2. QED
      BY <1>7, <2>2, <3>1
  <2>3. CASE UNCHANGED pc /\ \E inputs, srcs :
               mem' = [mem EXCEPT ![e].stack = <<[node |-> n, inputs |-> inputs]>> \o @,
                                  ![e].sources[n] = @ \o srcs]
    <3>1. PICK inputs, srcs :
            mem' = [mem EXCEPT ![e].stack = <<[node |-> n, inputs |-> inputs]>> \o @,
                               ![e].sources[n] = mem[e].sources[n] \o srcs]
      BY <2>3, Variables
    <3> DEFINE entry == [node |-> n, inputs |-> inputs]
    <3>2. entry \in Entry
      <4>1. mem'[e].stack = <<entry>> \o mem[e].stack
        BY <3>1, Variables DEF RunExecutionData
      <4>2. mem'[e].stack \in Seq(Entry)
        BY DEF TypeInv, TypeOK, RunExecutionData
      <4>3. mem[e].stack \in Seq(Entry)
        BY MemType
      <4> HIDE DEF entry
      <4>4. 1 \in DOMAIN (<<entry>> \o mem[e].stack) /\ (<<entry>> \o mem[e].stack)[1] = entry
        BY <4>3
      <4>5. QED
        BY <4>1, <4>2, <4>4
    <3>3. entry.node = n
      OBVIOUS
    <3> HIDE DEF entry
    <3>4. mem' = [mem EXCEPT ![e].stack = <<entry>> \o @,
                             ![e].sources[n] = mem[e].sources[n] \o srcs]
      BY <3>1 DEF entry
    <3>5. QED
      BY <1>6, <2>3, <3>2, <3>3, <3>4
  <2>4. QED
    BY <1>9, <2>1, <2>2, <2>3 DEF PushMulti
<1>10. QED
  BY <1>1, <1>8, <1>9 DEF n

LEMMA FinishCheck ==
  ASSUME TypeInv, Checks, NEW e \in Exec, Finish(e)
  PROVE  Checks'
<1>1. UNCHANGED ctx /\ pending' = [pending EXCEPT ![e] = pending[e]]
  BY MoreVariables DEF Finish
<1>2. CASE Panic(e) /\ UNCHANGED row
  BY <1>1, <1>2, PanicCheck
<1>3. CASE /\ pc' = [pc EXCEPT ![e] = "over"]
           /\ UNCHANGED mem
           /\ \E r : row' = [row EXCEPT ![e] = r]
  <2>1. mem' = [mem EXCEPT ![e] = mem[e]]
    BY <1>3, Variables
  <2>2. QED
    BY <1>1, <1>3, <2>1, OverCheck
<1>4. QED
  BY <1>2, <1>3 DEF Finish

(* A retry continues from the data of the row it copies.                   *)
LEMMA RetryCheck ==
  ASSUME TypeInv, TypeInv', Checks, NEW e \in Exec, NEW f \in Exec, Retry(e, f)
  PROVE  Checks'
<1>1. UNCHANGED <<pending, ctx>> /\ pc[f] = "idle" /\ pending[f] = {}
  BY DEF Retry, Checks, CheckInv
<1>2. CASE /\ row' = [row EXCEPT ![f] = NewRow(None)]
           /\ pc' = [pc EXCEPT ![f] = "dead"]
           /\ UNCHANGED mem
  <2>1. mem' = [mem EXCEPT ![f] = mem[f]] /\ pending' = [pending EXCEPT ![f] = pending[f]]
    BY <1>1, <1>2, Variables, MoreVariables
  <2>2. QED
    BY <1>1, <1>2, <2>1, OverCheck
<1>3. ASSUME NEW d, row' = [row EXCEPT ![f] = NewRow(d)], pc' = [pc EXCEPT ![f] = "loop"],
             mem' = [mem EXCEPT ![f] = d]
      PROVE  Checks'
  <2>1. Apart(f) /\ row'[f] = NewRow(d) /\ mem'[f] = d /\ pending'[f] = {} /\ pc'[f] = "loop"
    BY <1>1, <1>3, Variables, MoreVariables DEF Apart
  <2>2. d \in RunExecutionData
    <3>1. mem'[f] \in RunExecutionData
      BY DEF TypeInv, TypeOK
    <3>2. QED
      BY <2>1, <3>1
  <2>3. Checkpoint(NewRow(d), d, {})
    <3>1. NewRow(d).data = d /\ d # None
      BY <2>2, NoneAssumption DEF NewRow
    <3>2. Same(d, d)
      BY <2>2, SavedStack DEF Same
    <3>3. QED
      BY <3>1, <3>2 DEF Checkpoint, PushedBySaved
  <2>4. CheckInv(f)'
    BY <2>1, <2>3 DEF CheckInv
  <2>5. QED
    BY <2>1, <2>4, OneCheck
<1>4. QED
  BY <1>2, <1>3 DEF Retry

LEMMA StepCheck ==
  ASSUME "db" \notin Faults, TypeInv, TypeInv', EngineInv, Checks, [Next]_vars
  PROVE  Checks'
<1>1. ASSUME NEW e \in Exec, StartAll(e) \/ \E n \in Webhooks : StartFrom(e, n)
      PROVE  Checks'
  BY <1>1, BeginCheck DEF StartAll, StartFrom
<1>2. ASSUME NEW e \in Exec, ExecuteNode(e) PROVE Checks'
  <2> DEFINE top == Head(mem[e].stack)
             run == Len(mem[e].runData[top.node]) + 1
  <2>1. AtPop(e) /\ mem[e].stack # <<>> /\ UNCHANGED ctx
    BY <1>2 DEF ExecuteNode
  <2>2. top.node \in Node /\ top.inputs \in Seq(Item) /\ run \in Nat
    <3>1. \A x \in Node : Len(mem[e].runData[x]) + 1 \in Nat
      BY MemType
    <3>2. QED
      BY <2>1, <3>1, TopType
  <2>3. ASSUME NEW outputs \in Results(top.node, top.inputs, run), Record(e, top, TRUE, outputs)
        PROVE  Checks'
    BY <2>1, <2>2, <2>3, ResultsType, RecordCheck
  <2>4. ASSUME Record(e, top, FALSE, FailedOutputs(top.node, run)) PROVE Checks'
    BY <2>1, <2>2, <2>4, ResultsType, RecordCheck
  <2>5. ASSUME Panic(e), UNCHANGED <<pending, row>> PROVE Checks'
    <3>1. pending' = [pending EXCEPT ![e] = pending[e]]
      BY <2>5, MoreVariables
    <3>2. QED
      BY <2>1, <2>5, <3>1, PanicCheck
  <2>6. QED
    BY <1>2, <2>3, <2>4, <2>5 DEF ExecuteNode
<1>3. ASSUME NEW e \in Exec, PopDisabled(e) \/ AddNodeToBeExecuted(e) \/ Finish(e)
      PROVE  Checks'
  BY <1>3, PopDisabledCheck, AddNodeCheck, FinishCheck
<1>4. ASSUME NEW e \in Exec, Cancel(e) PROVE Checks'
  <2>1. UNCHANGED <<pc, mem, pending, row>> /\ ctx' = [ctx EXCEPT ![e] = "cancelled"]
    BY <1>4 DEF Cancel
  <2>2. Apart(e) /\ ctx'[e] = "cancelled"
    BY <2>1, MoreVariables DEF Apart
  <2>3. CheckInv(e)'
    BY <2>1, <2>2 DEF Checks, CheckInv
  <2>4. QED
    BY <2>2, <2>3, OneCheck
<1>5. ASSUME NEW e \in Exec, DeleteRow(e) PROVE Checks'
  <2>1. UNCHANGED <<pc, mem, pending, ctx>> /\ row' = [row EXCEPT ![e] = None]
    BY <1>5 DEF DeleteRow
  <2>2. Apart(e) /\ row'[e] = None
    BY <2>1, Variables DEF Apart
  <2>3. CheckInv(e)'
    BY <2>1, <2>2 DEF Checks, CheckInv
  <2>4. QED
    BY <2>2, <2>3, OneCheck
<1>6. CASE Crash
  <2>1. pc' = [x \in Exec |-> IF x \in Alive THEN "dead" ELSE pc[x]]
        /\ pending' = [x \in Exec |-> {}]
    BY <1>6 DEF Crash
  <2>2. \A x \in Exec : pc'[x] \notin {"loop", "broken"} /\ pending'[x] = {}
    BY <2>1 DEF Alive
  <2>3. QED
    BY <2>2 DEF Checks, CheckInv
<1>7. CASE UNCHANGED vars
  BY <1>7 DEF vars, Checks, CheckInv
<1>8. QED
  BY <1>1, <1>2, <1>3, <1>4, <1>5, <1>6, <1>7, RetryCheck DEF Next, Step

LEMMA CheckInvariant ==
  ASSUME "db" \notin Faults
  PROVE  Spec => []Checks
<1>1. Init => Checks
  BY DEF Init, Checks, CheckInv
<1>2. TypeInv /\ TypeInv' /\ EngineInv /\ Checks /\ [Next]_vars => Checks'
  BY StepCheck
<1>3. QED
  BY <1>1, <1>2, TypeInvariant, EngineInvariant, PTL DEF Spec

(* While an execution runs undisturbed its row is a checkpoint: it holds   *)
(* exactly the runs and results in memory and a stack from which only      *)
(* disabled nodes were popped since, in every workflow, whatever is        *)
(* deleted, cancelled, retried or dies around it, as long as the saves     *)
(* themselves work.                                                        *)
THEOREM RowsAreCheckpoints ==
  ASSUME "db" \notin Faults
  PROVE  Spec => []RowIsCheckpoint
<1>1. TypeInv /\ Checks => RowIsCheckpoint
  <2>1. SUFFICES ASSUME TypeInv, Checks, NEW e \in Alive, Saved(e), ctx[e] # "cancelled"
                 PROVE  LET d == row[e].data
                            stack == mem[e].stack
                        IN  /\ d.runData = mem[e].runData
                            /\ d.waiting = mem[e].waiting
                            /\ d.last = mem[e].last
                            /\ \E popped \in 0 .. Len(d.stack), pushed \in 0 .. Len(stack) :
                                 /\ \A i \in 1 .. popped : d.stack[i].node \in Disabled
                                 /\ \A i \in 1 .. pushed : \E c \in Into(stack[i].node) :
                                      c.src = d.last \/ c.src \in Disabled
                                 /\ SubSeq(d.stack, popped + 1, Len(d.stack))
                                      = SubSeq(stack, pushed + 1, Len(stack))
    BY DEF RowIsCheckpoint
  <2>2. e \in Exec /\ pc[e] \in {"loop", "broken"}
    BY DEF Alive
  <2>3. Same(row[e].data, mem[e])
    BY <2>1, <2>2 DEF Checks, CheckInv, Checkpoint, Saved
  <2>4. row[e].data \in RunExecutionData /\ mem[e].stack \in Seq(Entry)
    BY <2>1, <2>2, DataType, MemType DEF Saved
  <2>5. QED
    BY <2>3, <2>4, BehindTails DEF Same
<1>2. QED
  BY <1>1, TypeInvariant, CheckInvariant, PTL
=============================================================================
