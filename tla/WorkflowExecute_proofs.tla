----------------------- MODULE WorkflowExecute_proofs -----------------------
(***************************************************************************)
(* Proofs about WorkflowExecute, for every workflow graph, every set of    *)
(* executions and every choice of faults.                                  *)
(***************************************************************************)
EXTENDS WorkflowExecute, FiniteSetTheorems, SequenceTheorems, TLAPS

-----------------------------------------------------------------------------
(* Types of the operators the actions are built from.                      *)

(* The outputs of a run are a list of items.                               *)
LEMMA OutputsType ==
  ASSUME NEW n \in Node, NEW run \in Nat, NEW shape \in Seq(Kinds)
  PROVE  Outputs(n, run, shape) \in Seq(Item)
  <1>1. ASSUME NEW i \in 1 .. Len(shape)
        PROVE  [kind |-> shape[i], node |-> n, run |-> run, out |-> i - 1] \in Item
    BY DEF Item
  <1>2. DOMAIN shape = 1 .. Len(shape) /\ Len(shape) \in Nat
    OBVIOUS
  <1>. QED
    BY <1>1, <1>2 DEF Outputs

(* A successful or failed Execute yields a list of items.                  *)
LEMMA ResultsType ==
  ASSUME NEW n \in Node, NEW run \in Nat, NEW inputs \in Seq(Item)
  PROVE  /\ \A outputs \in Results(n, inputs, run) : outputs \in Seq(Item)
         /\ FailedOutputs(n, run) \in Seq(Item)
  <1>1. ASSUME NEW i \in DOMAIN inputs
        PROVE  <<inputs[i].kind>> \in Seq(Kinds)
    <2>1. inputs[i] \in Item
      OBVIOUS
    <2>2. inputs[i].kind \in Kinds
      BY <2>1 DEF Item
    <2>. QED
      BY <2>2
  <1>2. Shapes[n] \subseteq Seq(Kinds)
    BY GraphAssumption
  <1>3. <<"nil">> \in Seq(Kinds)
    BY DEF Kinds
  <1>4. FailedOutputs(n, run) \in Seq(Item)
    <2>1. Outputs(n, run, <<"nil">>) \in Seq(Item)
      BY <1>3, OutputsType
    <2>2. <<>> \in Seq(Item)
      OBVIOUS
    <2>. QED
      BY <2>1, <2>2 DEF FailedOutputs
  <1>5. ASSUME NEW outputs \in Results(n, inputs, run)
        PROVE  outputs \in Seq(Item)
    <2>1. CASE n \in Responders
      <3>1. PICK i \in DOMAIN inputs : outputs = Outputs(n, run, <<inputs[i].kind>>)
        BY <1>5, <2>1 DEF Results
      <3>. QED
        BY <1>1, <3>1, OutputsType
    <2>2. CASE n \notin Responders
      <3>1. PICK shape \in Shapes[n] : outputs = Outputs(n, run, shape)
        BY <1>5, <2>2 DEF Results
      <3>. QED
        BY <1>2, <3>1, OutputsType
    <2>. QED
      BY <2>1, <2>2
  <1>. QED
    BY <1>4, <1>5

(* What a node forwards is a set of successors with their items.           *)
LEMMA SuccessorsType ==
  ASSUME NEW n \in Node, NEW items \in Seq(Item)
  PROVE  Successors(n, items) \subseteq Pending /\ PassedOn(n, items) \subseteq Pending
  <1>1. ASSUME NEW c \in Conn, c.out < Len(items)
        PROVE  items[c.out + 1] \in Item
    <2>1. c.out \in Nat
      BY GraphAssumption
    <2>. QED
      BY <1>1, <2>1
  <1>2. ASSUME NEW c \in Conn, c.out < Len(items), NEW out \in {0, c.out}
        PROVE  [conn |-> c, item |-> items[c.out + 1], out |-> out] \in Pending
    <2>1. c.out \in Nat
      BY GraphAssumption
    <2>. QED
      BY <1>1, <1>2, <2>1 DEF Pending
  <1>3. Successors(n, items) \subseteq Pending
    BY <1>2 DEF Successors
  <1>4. PassedOn(n, items) \subseteq Pending
    BY <1>2 DEF PassedOn
  <1>. QED
    BY <1>3, <1>4

(* Empty run data are run data.                                            *)
LEMMA FreshDataType == FreshData \in RunExecutionData
  BY DEF FreshData, RunExecutionData

(* One component of run data may be replaced by another of its type.       *)
LEMMA RunDataExcept ==
  ASSUME NEW d \in RunExecutionData, NEW n \in Node, NEW task \in Task
  PROVE  [d.runData EXCEPT ![n] = Append(@, task)] \in [Node -> Seq(Task)]
  BY DEF RunExecutionData

(* saveExecutionProgress writes a row or leaves a missing one missing.     *)
LEMMA SaveProgressType ==
  ASSUME NEW r \in Row \cup {None}, NEW outcome, r = None => outcome = "unreadable",
         NEW n \in Node, NEW task \in Task, NEW live \in RunExecutionData
  PROVE  SaveProgress(r, outcome, n, task, live) \in Row \cup {None}
  <1>. DEFINE old == IF r.data = None THEN FreshData ELSE r.data
              new == [live EXCEPT !.runData = [old.runData EXCEPT ![n] = Append(@, task)],
                                  !.error = old.error,
                                  !.last = n]
  <1>1. CASE outcome \in {"unreadable", "unwritten"}
    BY <1>1 DEF SaveProgress
  <1>2. CASE outcome \notin {"unreadable", "unwritten"}
    <2>1. r \in Row
      BY <1>2
    <2>2. old \in RunExecutionData
      BY <2>1, FreshDataType DEF Row
    <2>3. [old.runData EXCEPT ![n] = Append(@, task)] \in [Node -> Seq(Task)]
      BY <2>2, RunDataExcept
    <2>4. new \in RunExecutionData
      <3>. HIDE DEF old
      <3>. QED
        BY <2>2, <2>3 DEF RunExecutionData
    <2>5. [r EXCEPT !.status = "running"] \in Row
      BY <2>1 DEF Row
    <2>6. [r EXCEPT !.status = "running", !.data = new] \in Row
      <3>. HIDE DEF new
      <3>. QED
        BY <2>1, <2>4 DEF Row
    <2>. QED
      BY <1>2, <2>1, <2>5, <2>6 DEF SaveProgress
  <1>. QED
    BY <1>1, <1>2

(* saveWorkflowAfterExecutionData writes or removes the row.               *)
LEMMA SaveFinalType ==
  ASSUME NEW r \in Row, r.data # None, NEW outcome,
         NEW finished \in BOOLEAN, NEW error \in BOOLEAN, NEW delete \in BOOLEAN
  PROVE  SaveFinal(r, outcome, finished, error, delete) \in Row \cup {None}
  <1>1. r.data \in RunExecutionData
    BY DEF Row
  <1>2. ASSUME NEW b \in BOOLEAN
        PROVE  [r.data EXCEPT !.error = b] \in RunExecutionData
    BY <1>1 DEF RunExecutionData
  <1>3. r.data.error \in BOOLEAN
    BY <1>1 DEF RunExecutionData
  <1>4. ASSUME NEW data \in RunExecutionData, NEW status \in {"failed", "success"}
        PROVE  [r EXCEPT !.status = status, !.finished = finished, !.data = data] \in Row
    BY DEF Row
  <1>. QED
    BY <1>2, <1>3, <1>4 DEF SaveFinal

(* The first connections of a node are a list of its connections.          *)
LEMMA FirstConnectionsType ==
  ASSUME NEW n \in Node, NEW cs \in FirstConnections(n)
  PROVE  cs \in Seq(Conn)
  <1>1. IsFiniteSet(Into(n)) /\ Into(n) \subseteq Conn
    BY GraphAssumption, FS_Subset DEF Into
  <1>2. IsFiniteSet(ConnectedInputs(n))
    <2>. DEFINE input == [c \in Into(n) |-> c.in]
    <2>1. input \in Surjection(Into(n), ConnectedInputs(n))
      BY DEF ConnectedInputs, Surjection
    <2>. QED
      BY <1>1, <2>1, FS_Surjection
  <1>3. Cardinality(ConnectedInputs(n)) \in Nat
    BY <1>2, FS_CardinalityType
  <1>4. cs \in [1 .. Cardinality(ConnectedInputs(n)) -> Into(n)]
    BY DEF FirstConnections
  <1>. QED
    BY <1>1, <1>3, <1>4

(* Where it can be rebuilt, the input of a node to retry is a list of      *)
(* items and the retried run data are run data.                            *)
LEMMA RebuiltType ==
  ASSUME NEW d \in RunExecutionData, NEW n \in Node, CanRebuild(d, n)
  PROVE  Rebuilt(d, n) \in Seq(Item)
  <1>. DEFINE S == d.sources[n]
  <1>1. S \in Seq(Source)
    BY DEF RunExecutionData
  <1>2. ASSUME NEW k \in DOMAIN S
        PROVE  (IF d.waiting[S[k].src] \in {None, <<>>}
                THEN [kind |-> "empty", node |-> S[k].src, run |-> 0, out |-> S[k].out]
                ELSE d.waiting[S[k].src][S[k].out + 1]) \in Item
    <2>. HIDE DEF S
    <2>1. S[k].src \in Node /\ S[k].out \in Nat
      <3>1. S[k] \in Source
        BY <1>1
      <3>. QED
        BY <3>1 DEF Source
    <2>2. d.waiting[S[k].src] \in Seq(Item) \cup {None}
      BY <2>1 DEF RunExecutionData
    <2>3. d.waiting[S[k].src] \in {None, <<>>} \/ S[k].out < Len(d.waiting[S[k].src])
      BY DEF CanRebuild, S
    <2>4. CASE d.waiting[S[k].src] \in {None, <<>>}
      BY <2>1, <2>4 DEF Item, Kinds
    <2>5. CASE d.waiting[S[k].src] \notin {None, <<>>}
      BY <2>1, <2>2, <2>3, <2>5
    <2>. QED
      BY <2>4, <2>5
  <1>. HIDE DEF S
  <1>3. DOMAIN S = 1 .. Len(S) /\ Len(S) \in Nat
    BY <1>1
  <1>4. Rebuilt(d, n) =
          [k \in DOMAIN S |->
             IF d.waiting[S[k].src] \in {None, <<>>}
             THEN [kind |-> "empty", node |-> S[k].src, run |-> 0, out |-> S[k].out]
             ELSE d.waiting[S[k].src][S[k].out + 1]]
    BY DEF Rebuilt, S
  <1>. QED
    BY <1>2, <1>3, <1>4

(* The data a retry starts from is well typed.                             *)
LEMMA RetryDataType ==
  ASSUME NEW d \in RunExecutionData, d.last \in Node, CanRebuild(d, d.last)
  PROVE  RetryData(d) \in RunExecutionData
  <1>. DEFINE entry == [node |-> d.last, inputs |-> Rebuilt(d, d.last)]
  <1>1. entry \in Entry
    BY RebuiltType DEF Entry
  <1>2. <<entry>> \o d.stack \in Seq(Entry)
    BY <1>1 DEF RunExecutionData
  <1>3. d.runData[d.last] \in Seq(Task)
    BY DEF RunExecutionData
  <1>4. WithoutFailure(d.runData[d.last]) \in Seq(Task)
    BY <1>3 DEF WithoutFailure, Front
  <1>5. [d.runData EXCEPT ![d.last] = WithoutFailure(@)] \in [Node -> Seq(Task)]
    BY <1>4 DEF RunExecutionData
  <1>. QED
    BY <1>2, <1>5 DEF RetryData, RunExecutionData

-----------------------------------------------------------------------------
(* Type correctness.  To retry an execution the engine reads the node it   *)
(* stopped at from the row, so the induction also needs that saved data    *)
(* always name one.                                                        *)

Named(r) == (r # None /\ r.data # None) => r.data.last \in Node

TypeInv ==
  /\ TypeOK
  /\ \A e \in Exec : Named(row[e])

(* Saving progress or the end leaves a named last node.                    *)
LEMMA SaveProgressNamed ==
  ASSUME NEW r \in Row \cup {None}, Named(r), NEW outcome, r = None => outcome = "unreadable",
         NEW n \in Node, NEW task \in Task, NEW live \in RunExecutionData
  PROVE  Named(SaveProgress(r, outcome, n, task, live))
  <1>. DEFINE old == IF r.data = None THEN FreshData ELSE r.data
              runData == [old.runData EXCEPT ![n] = Append(@, task)]
              new == [live EXCEPT !.runData = runData, !.error = old.error, !.last = n]
  <1>1. new.last = n
    <2>. HIDE DEF old, runData
    <2>. QED
      BY DEF RunExecutionData
  <1>2. r \in Row => /\ [r EXCEPT !.status = "running", !.data = new].data = new
                      /\ [r EXCEPT !.status = "running"].data = r.data
    <2>. HIDE DEF new
    <2>. QED
      BY DEF Row
  <1>. HIDE DEF new
  <1>3. CASE outcome \in {"unreadable", "unwritten"}
    BY <1>3 DEF SaveProgress
  <1>4. CASE outcome \notin {"unreadable", "unwritten"}
    <2>1. r \in Row /\ r # None
      BY <1>4, NoneAssumption
    <2>2. SaveProgress(r, outcome, n, task, live) \in
            {r, [r EXCEPT !.status = "running"], [r EXCEPT !.status = "running", !.data = new]}
      BY <1>4 DEF SaveProgress, new, old, runData
    <2>. QED
      BY <1>1, <1>2, <2>1, <2>2 DEF Named
  <1>. QED
    BY <1>3, <1>4

(* saveWorkflowAfterExecutionData yields one of the three statuses it names.*)
LEMMA SaveFinalNamed ==
  ASSUME NEW r \in Row, r # None, r.data # None, Named(r), NEW outcome,
         NEW finished \in BOOLEAN, NEW error \in BOOLEAN, NEW delete \in BOOLEAN
  PROVE  Named(SaveFinal(r, outcome, finished, error, delete))
  <1>1. r.data \in RunExecutionData
    BY DEF Row
  <1>2. ASSUME NEW b, NEW status
        PROVE  [r EXCEPT !.status = status, !.finished = finished,
                         !.data.error = b].data.last = r.data.last
    BY <1>1 DEF Row, RunExecutionData
  <1>. QED
    BY <1>2 DEF SaveFinal, Named

(* A new execution starts well typed.                                      *)
LEMMA BeginType ==
  ASSUME TypeInv, NEW e \in Exec, NEW stack \in Seq(Entry), NEW c \in {"request", "live"},
         Begin(e, stack, c)
  PROVE  TypeInv'
  <1>1. [FreshData EXCEPT !.stack = stack] \in RunExecutionData
    BY FreshDataType DEF RunExecutionData
  <1>2. NewRow(None) \in Row /\ NewRow(None).data = None
    BY DEF NewRow, Row
  <1>. QED
    BY <1>1, <1>2 DEF Begin, TypeInv, TypeOK, Named

(* Popping a disabled node and executing an enabled one.                   *)
LEMMA PopDisabledType ==
  ASSUME TypeInv, NEW e \in Exec, PopDisabled(e)
  PROVE  TypeInv'
  <1>. DEFINE top == Head(mem[e].stack)
  <1>1. mem[e] \in RunExecutionData /\ mem[e].stack \in Seq(Entry) /\ mem[e].stack # <<>>
    BY DEF PopDisabled, TypeInv, TypeOK, RunExecutionData
  <1>2. top \in Entry /\ Tail(mem[e].stack) \in Seq(Entry)
    BY <1>1
  <1>3. PassedOn(top.node, top.inputs) \subseteq Pending
    BY <1>2, SuccessorsType DEF Entry
  <1>4. [mem[e] EXCEPT !.stack = Tail(@)] \in RunExecutionData
    BY <1>1, <1>2 DEF RunExecutionData
  <1>. QED
    BY <1>3, <1>4 DEF PopDisabled, TypeInv, TypeOK

(* Recording the result of a node keeps the types.                         *)
LEMMA RecordType ==
  ASSUME TypeInv, NEW e \in Exec, AtPop(e), mem[e].stack # <<>>,
         NEW ok \in BOOLEAN, NEW outputs \in Seq(Item),
         Record(e, Head(mem[e].stack), ok, outputs),
         needDelete' \in SUBSET Exec, UNCHANGED ctx
  PROVE  TypeInv'
  <1>. DEFINE n == Head(mem[e].stack).node
              task == [ok |-> ok, inputs |-> Head(mem[e].stack).inputs, outputs |-> outputs]
              live == [mem[e] EXCEPT !.stack = Tail(@),
                                     !.waiting[n] = outputs,
                                     !.runData[n] = Append(@, task),
                                     !.error = @ \/ ~ok,
                                     !.last = n]
  <1>1. mem[e] \in RunExecutionData /\ mem[e].stack \in Seq(Entry)
    BY DEF TypeInv, TypeOK, RunExecutionData
  <1>2. n \in Node /\ task \in Task /\ Tail(mem[e].stack) \in Seq(Entry)
    <2>1. Head(mem[e].stack) \in Entry /\ Tail(mem[e].stack) \in Seq(Entry)
      BY <1>1
    <2>. QED
      BY <2>1 DEF Entry, Task
  <1>3. live \in RunExecutionData
    <2>. HIDE DEF n, task
    <2>1. [mem[e].runData EXCEPT ![n] = Append(@, task)] \in [Node -> Seq(Task)]
      BY <1>1, <1>2, RunDataExcept
    <2>2. [mem[e].waiting EXCEPT ![n] = outputs] \in [Node -> Seq(Item) \cup {None}]
      BY <1>1, <1>2 DEF RunExecutionData
    <2>. QED
      BY <1>1, <1>2, <2>1, <2>2 DEF RunExecutionData
  <1>4. Successors(n, outputs) \subseteq Pending
    BY <1>2, SuccessorsType
  <1>5. PICK outcome \in StoreOutcomes(e) :
          row' = [row EXCEPT ![e] = SaveProgress(@, outcome, n, task, live)]
    BY DEF Record
  <1>6. row[e] = None => outcome = "unreadable"
    BY <1>5 DEF StoreOutcomes
  <1>7. /\ mem' = [mem EXCEPT ![e] = live]
        /\ pc' = [pc EXCEPT ![e] = IF ok THEN "loop" ELSE "broken"]
        /\ pending' = [pending EXCEPT ![e] = IF ok THEN Successors(n, outputs) ELSE {}]
    BY DEF Record
  <1>. HIDE DEF n, task, live
  <1>8. row[e] \in Row \cup {None} /\ Named(row[e])
    BY DEF TypeInv, TypeOK
  <1>9. /\ SaveProgress(row[e], outcome, n, task, live) \in Row \cup {None}
        /\ Named(SaveProgress(row[e], outcome, n, task, live))
    BY <1>2, <1>3, <1>6, <1>8, SaveProgressType, SaveProgressNamed
  <1>10. row' \in [Exec -> Row \cup {None}] /\ \A x \in Exec : Named(row'[x])
    BY <1>5, <1>9 DEF TypeInv, TypeOK
  <1>. QED
    BY <1>3, <1>4, <1>7, <1>10 DEF TypeInv, TypeOK

(* Executing a node keeps the types, whether it fails or not.              *)
LEMMA ExecuteNodeType ==
  ASSUME TypeInv, NEW e \in Exec, ExecuteNode(e)
  PROVE  TypeInv'
  <1>. DEFINE top == Head(mem[e].stack)
              n == top.node
              run == Len(mem[e].runData[n]) + 1
  <1>1. AtPop(e) /\ mem[e].stack # <<>> /\ UNCHANGED ctx
    BY DEF ExecuteNode
  <1>2. needDelete' \in SUBSET Exec
    BY DEF ExecuteNode, TypeInv, TypeOK
  <1>3. n \in Node /\ top.inputs \in Seq(Item) /\ run \in Nat
    <2>1. mem[e].stack \in Seq(Entry) /\ mem[e].runData \in [Node -> Seq(Task)]
      BY DEF TypeInv, TypeOK, RunExecutionData
    <2>2. top \in Entry
      BY <1>1, <2>1
    <2>3. n \in Node /\ top.inputs \in Seq(Item)
      BY <2>2 DEF Entry
    <2>4. \A x \in Node : Len(mem[e].runData[x]) + 1 \in Nat
      BY <2>1
    <2>. QED
      BY <2>3, <2>4
  <1>4. ASSUME NEW outputs \in Results(n, top.inputs, run), Record(e, top, TRUE, outputs)
        PROVE  TypeInv'
    BY <1>1, <1>2, <1>3, <1>4, ResultsType, RecordType
  <1>5. ASSUME Record(e, top, FALSE, FailedOutputs(n, run))
        PROVE  TypeInv'
    BY <1>1, <1>2, <1>3, <1>5, ResultsType, RecordType
  <1>6. ASSUME Panic(e), UNCHANGED <<pending, row>>
        PROVE  TypeInv'
    BY <1>1, <1>2, <1>6, FreshDataType DEF Panic, TypeInv, TypeOK
  <1>. QED
    BY <1>4, <1>5, <1>6 DEF ExecuteNode

(* Pushing a successor with one or with several inputs.                    *)
LEMMA PushSingleType ==
  ASSUME TypeInv, NEW e \in Exec, NEW p \in Pending, PushSingle(e, p)
  PROVE  mem' \in [Exec -> RunExecutionData]
  <1>. DEFINE n == p.conn.dst
              entry == [node |-> n, inputs |-> <<p.item>>]
              source == [src |-> p.conn.src, out |-> p.out]
  <1>1. p.conn \in Conn /\ p.item \in Item /\ p.out \in Nat
    BY DEF Pending
  <1>2. p.conn.src \in Node /\ p.conn.dst \in Node
    BY <1>1, GraphAssumption
  <1>3. entry \in Entry /\ source \in Source
    BY <1>1, <1>2 DEF Entry, Source
  <1>4. mem[e] \in RunExecutionData
    BY DEF TypeInv, TypeOK
  <1>5. mem' = [mem EXCEPT ![e].stack = <<entry>> \o @, ![e].sources[n] = <<source>>]
    BY DEF PushSingle
  <1>. HIDE DEF entry, source
  <1>6. [mem[e] EXCEPT !.stack = <<entry>> \o @, !.sources[n] = <<source>>] \in RunExecutionData
    <2>1. <<entry>> \o mem[e].stack \in Seq(Entry)
      BY <1>3, <1>4 DEF RunExecutionData
    <2>2. [mem[e].sources EXCEPT ![n] = <<source>>] \in [Node -> Seq(Source)]
      BY <1>2, <1>3, <1>4 DEF RunExecutionData
    <2>. QED
      BY <1>4, <2>1, <2>2 DEF RunExecutionData
  <1>. QED
    BY <1>5, <1>6 DEF TypeInv, TypeOK

(* Filling an input of a node with several inputs keeps the types.         *)
LEMMA PushMultiType ==
  ASSUME TypeInv, NEW e \in Exec, NEW n \in Node, NEW cs \in FirstConnections(n),
         PushMulti(e, n, cs), pc[e] = "loop"
  PROVE  /\ mem' \in [Exec -> RunExecutionData]
         /\ pc' \in {pc, [pc EXCEPT ![e] = "dead"]}
  <1>. DEFINE result(k) == mem[e].waiting[cs[k].src]
              Usable(k) == result(k) # None /\ cs[k].out < Len(result(k))
              sources(r) == [k \in 1 .. r |-> [src |-> cs[k].src, out |-> cs[k].out]]
              inputs == [k \in DOMAIN cs |-> result(k)[cs[k].out + 1]]
              entry == [node |-> n, inputs |-> inputs]
  <1>1. cs \in Seq(Conn) /\ Len(cs) \in Nat /\ DOMAIN cs = 1 .. Len(cs)
    BY FirstConnectionsType
  <1>2. ASSUME NEW k \in 1 .. Len(cs)
        PROVE  cs[k].src \in Node /\ cs[k].out \in Nat
    <2>1. cs[k] \in Conn
      BY <1>1
    <2>. QED
      BY <2>1, GraphAssumption
  <1>3. mem[e] \in RunExecutionData
    BY DEF TypeInv, TypeOK
  <1>4. PICK ready \in 0 .. Len(cs) :
          /\ \A k \in 1 .. ready : Usable(k)
          /\ \/ /\ ready = Len(cs)
                /\ mem' = [mem EXCEPT ![e].stack = <<entry>> \o @,
                                      ![e].sources[n] = @ \o sources(ready)]
                /\ UNCHANGED pc
             \/ /\ mem' = [mem EXCEPT ![e].sources[n] = @ \o sources(ready)]
                /\ UNCHANGED pc
             \/ Panic(e)
    BY DEF PushMulti
  <1>5. mem[e].sources[n] \o sources(ready) \in Seq(Source)
    <2>1. \A k \in 1 .. ready : [src |-> cs[k].src, out |-> cs[k].out] \in Source
      BY <1>1, <1>2 DEF Source
    <2>2. sources(ready) \in Seq(Source)
      BY <1>1, <2>1
    <2>3. mem[e].sources[n] \in Seq(Source)
      BY <1>3 DEF RunExecutionData
    <2>. QED
      BY <2>2, <2>3
  <1>6. ready = Len(cs) => entry \in Entry
    <2>1. ASSUME ready = Len(cs), NEW k \in 1 .. Len(cs)
          PROVE  result(k)[cs[k].out + 1] \in Item
      <3>1. result(k) \in Seq(Item) /\ cs[k].out < Len(result(k))
        BY <1>2, <1>3, <1>4, <2>1 DEF RunExecutionData
      <3>. QED
        BY <1>2, <3>1
    <2>2. ready = Len(cs) => inputs \in Seq(Item)
      BY <1>1, <2>1
    <2>. QED
      BY <2>2 DEF Entry
  <1>. DEFINE srcs == mem[e].sources[n] \o sources(ready)
  <1>. HIDE DEF entry, sources
  <1>7. [mem[e].sources EXCEPT ![n] = srcs] \in [Node -> Seq(Source)]
    BY <1>3, <1>5 DEF RunExecutionData
  <1>8. [mem[e] EXCEPT !.sources[n] = srcs] \in RunExecutionData
    BY <1>3, <1>7 DEF RunExecutionData
  <1>9. entry \in Entry =>
          [mem[e] EXCEPT !.stack = <<entry>> \o @, !.sources[n] = srcs] \in RunExecutionData
    <2>1. entry \in Entry => <<entry>> \o mem[e].stack \in Seq(Entry)
      BY <1>3 DEF RunExecutionData
    <2>. QED
      BY <1>3, <1>7, <2>1 DEF RunExecutionData
  <1>10. CASE ready = Len(cs) /\ UNCHANGED pc
              /\ mem' = [mem EXCEPT ![e].stack = <<entry>> \o @,
                                    ![e].sources[n] = @ \o sources(ready)]
    BY <1>6, <1>9, <1>10 DEF TypeInv, TypeOK
  <1>11. CASE UNCHANGED pc /\ mem' = [mem EXCEPT ![e].sources[n] = @ \o sources(ready)]
    BY <1>8, <1>11 DEF TypeInv, TypeOK
  <1>12. CASE Panic(e)
    BY <1>12, FreshDataType DEF Panic, TypeInv, TypeOK
  <1>. QED
    BY <1>4, <1>10, <1>11, <1>12

(* Adding a node to the stack keeps the types.                             *)
LEMMA AddNodeToBeExecutedType ==
  ASSUME TypeInv, NEW e \in Exec, AddNodeToBeExecuted(e)
  PROVE  TypeInv'
  <1>1. PICK p \in NextToAdd(e) :
          /\ pending' = [pending EXCEPT ![e] = @ \ {p}]
          /\ \/ PushSingle(e, p)
             \/ \E cs \in FirstConnections(p.conn.dst) : PushMulti(e, p.conn.dst, cs)
    BY DEF AddNodeToBeExecuted
  <1>2. p \in Pending
    BY DEF NextToAdd, TypeInv, TypeOK
  <1>3. p.conn.dst \in Node
    BY <1>2, GraphAssumption DEF Pending
  <1>4. mem' \in [Exec -> RunExecutionData] /\ pc' \in {pc, [pc EXCEPT ![e] = "dead"]}
    <2>1. CASE PushSingle(e, p)
      BY <1>2, <2>1, PushSingleType DEF PushSingle
    <2>2. ASSUME NEW cs \in FirstConnections(p.conn.dst), PushMulti(e, p.conn.dst, cs)
          PROVE  mem' \in [Exec -> RunExecutionData] /\ pc' \in {pc, [pc EXCEPT ![e] = "dead"]}
      <3>1. pc[e] = "loop"
        BY DEF AddNodeToBeExecuted
      <3>. QED
        BY <1>3, <2>2, <3>1, PushMultiType
    <2>. QED
      BY <1>1, <2>1, <2>2
  <1>. QED
    BY <1>1, <1>4 DEF AddNodeToBeExecuted, TypeInv, TypeOK

(* The end of an execution.                                                *)
LEMMA FinishType ==
  ASSUME TypeInv, NEW e \in Exec, Finish(e)
  PROVE  TypeInv'
  <1>1. PICK outcome \in StoreOutcomes(e) :
          \/ Panic(e) /\ UNCHANGED row
          \/ /\ outcome # "unreadable" /\ row[e].data # None
             /\ pc' = [pc EXCEPT ![e] = "over"]
             /\ UNCHANGED mem
             /\ row' = [row EXCEPT ![e] =
                  SaveFinal(@, outcome, pc[e] = "loop", mem[e].error, e \in needDelete)]
    BY DEF Finish
  <1>2. UNCHANGED <<pending, needDelete, ctx>>
    BY DEF Finish
  <1>3. CASE Panic(e) /\ UNCHANGED row
    BY <1>2, <1>3, FreshDataType DEF Panic, TypeInv, TypeOK
  <1>4. CASE /\ outcome # "unreadable" /\ row[e].data # None
             /\ pc' = [pc EXCEPT ![e] = "over"]
             /\ UNCHANGED mem
             /\ row' = [row EXCEPT ![e] =
                  SaveFinal(@, outcome, pc[e] = "loop", mem[e].error, e \in needDelete)]
    <2>. DEFINE finished == pc[e] = "loop"
                delete == e \in needDelete
                final == SaveFinal(row[e], outcome, finished, mem[e].error, delete)
    <2>1. row[e] # None
      BY <1>4 DEF StoreOutcomes
    <2>2. row[e] \in Row /\ Named(row[e])
      BY <2>1 DEF TypeInv, TypeOK
    <2>3. mem[e].error \in BOOLEAN
      BY DEF TypeInv, TypeOK, RunExecutionData
    <2>4. final \in Row \cup {None} /\ Named(final)
      <3>1. finished \in BOOLEAN /\ delete \in BOOLEAN
        OBVIOUS
      <3>. HIDE DEF finished, delete
      <3>. QED
        BY <1>4, <2>1, <2>2, <2>3, <3>1, SaveFinalType, SaveFinalNamed
    <2>5. row' = [row EXCEPT ![e] = final]
      BY <1>4
    <2>. HIDE DEF final
    <2>. QED
      BY <1>2, <1>4, <2>4, <2>5 DEF TypeInv, TypeOK
  <1>. QED
    BY <1>1, <1>3, <1>4

(* A retry keeps the types.                                                *)
LEMMA RetryType ==
  ASSUME TypeInv, NEW e \in Exec, NEW f \in Exec, Retry(e, f)
  PROVE  TypeInv'
  <1>1. row[e] \in Row /\ UNCHANGED <<pending, needDelete, ctx>>
    BY DEF Retry, TypeInv, TypeOK
  <1>2. CASE /\ row' = [row EXCEPT ![f] = NewRow(None)]
             /\ pc' = [pc EXCEPT ![f] = "dead"]
             /\ UNCHANGED mem
    <2>1. NewRow(None) \in Row /\ NewRow(None).data = None
      BY DEF NewRow, Row
    <2>. QED
      BY <1>1, <1>2, <2>1 DEF TypeInv, TypeOK, Named
  <1>3. CASE /\ row[e].data # None
             /\ CanRebuild(row[e].data, row[e].data.last)
             /\ row' = [row EXCEPT ![f] = NewRow(RetryData(row[e].data))]
             /\ pc' = [pc EXCEPT ![f] = "loop"]
             /\ mem' = [mem EXCEPT ![f] = RetryData(row[e].data)]
    <2>. DEFINE d == RetryData(row[e].data)
    <2>1. row[e] # None
      BY DEF Retry
    <2>2. row[e].data \in RunExecutionData /\ row[e].data.last \in Node
      BY <1>1, <1>3, <2>1 DEF Row, TypeInv, Named
    <2>3. d \in RunExecutionData
      BY <1>3, <2>2, RetryDataType
    <2>4. d.last \in Node
      BY <2>2 DEF RetryData, RunExecutionData
    <2>. HIDE DEF d
    <2>5. NewRow(d) \in Row /\ NewRow(d).data = d
      BY <2>3 DEF NewRow, Row
    <2>6. /\ row' = [row EXCEPT ![f] = NewRow(d)]
          /\ mem' = [mem EXCEPT ![f] = d]
      BY <1>3 DEF d
    <2>. QED
      BY <1>1, <1>3, <2>3, <2>4, <2>5, <2>6 DEF TypeInv, TypeOK, Named
  <1>. QED
    BY <1>2, <1>3 DEF Retry

(* Every step keeps the types.                                             *)
LEMMA TypeStep ==
  ASSUME TypeInv, [Next]_vars
  PROVE  TypeInv'
  <1>1. ASSUME NEW e \in Exec, StartAll(e)
        PROVE  TypeInv'
    <2>. DEFINE stack == [i \in DOMAIN Starters |-> [node |-> Starters[i], inputs |-> <<>>]]
    <2>1. /\ Starters \in Seq(Node) /\ DOMAIN Starters = 1 .. Len(Starters)
          /\ Len(Starters) \in Nat
      BY GraphAssumption
    <2>2. \A i \in 1 .. Len(Starters) : [node |-> Starters[i], inputs |-> <<>>] \in Entry
      BY <2>1 DEF Entry
    <2>3. stack \in Seq(Entry)
      BY <2>1, <2>2
    <2>4. Begin(e, stack, "request")
      BY <1>1 DEF StartAll
    <2>. HIDE DEF stack
    <2>. QED
      BY <2>3, <2>4, BeginType
  <1>2. ASSUME NEW e \in Exec, NEW n \in Webhooks, StartFrom(e, n)
        PROVE  TypeInv'
    <2>. DEFINE stack == <<[node |-> n, inputs |-> <<>>]>>
    <2>1. stack \in Seq(Entry)
      BY GraphAssumption DEF Entry
    <2>2. Begin(e, stack, "live")
      BY <1>2 DEF StartFrom
    <2>. HIDE DEF stack
    <2>. QED
      BY <2>1, <2>2, BeginType
  <1>3. ASSUME NEW e \in Exec, Step(e)
        PROVE  TypeInv'
    BY <1>3, PopDisabledType, ExecuteNodeType, AddNodeToBeExecutedType, FinishType DEF Step
  <1>4. ASSUME NEW e \in Exec, Cancel(e)
        PROVE  TypeInv'
    BY <1>4 DEF Cancel, TypeInv, TypeOK
  <1>5. ASSUME NEW e \in Exec, DeleteRow(e)
        PROVE  TypeInv'
    BY <1>5 DEF DeleteRow, TypeInv, TypeOK, Named
  <1>6. ASSUME NEW e \in Exec, NEW f \in Exec, Retry(e, f)
        PROVE  TypeInv'
    BY <1>6, RetryType
  <1>7. ASSUME Crash
        PROVE  TypeInv'
    BY <1>7, FreshDataType DEF Crash, TypeInv, TypeOK
  <1>8. ASSUME UNCHANGED vars
        PROVE  TypeInv'
    BY <1>8 DEF vars, TypeInv, TypeOK
  <1>. QED
    BY <1>1, <1>2, <1>3, <1>4, <1>5, <1>6, <1>7, <1>8 DEF Next

(* The initial state is well typed.                                        *)
LEMMA TypeInit == Init => TypeInv
  BY FreshDataType DEF Init, TypeInv, TypeOK, Named

(* Every reachable state is well typed.                                    *)
LEMMA TypeInvariant == Spec => []TypeInv
  BY TypeInit, TypeStep, PTL DEF Spec

(* The engine, the rows and the retries keep to their declared types: no   *)
(* handler ever builds an entry, an item or a row of another shape.        *)
THEOREM TypeCorrect == Spec => []TypeOK
  <1>1. TypeInv => TypeOK
    BY DEF TypeInv
  <1>. QED
    BY <1>1, TypeInvariant, PTL

-----------------------------------------------------------------------------
(* FinishedIsClean.  It is not inductive: that the row of a success holds  *)
(* no failure depends on what the loop knows while it runs (the error in   *)
(* memory is set exactly when it broke off, no saved run has failed yet)   *)
(* and on retry finding a failure nowhere but in the last run of the last  *)
(* node, the one it takes out.                                             *)

AllOk(d) == \A n \in Node : \A i \in DOMAIN d.runData[n] : d.runData[n][i].ok

OnlyLastFailed(d) ==
  \A n \in Node : \A i \in DOMAIN d.runData[n] :
    d.runData[n][i].ok \/ (n = d.last /\ i = Len(d.runData[n]))

ErrorInv(e) ==
  /\ pc[e] = "idle" => row[e] = None
  /\ pc[e] = "loop" => ~mem[e].error
  /\ pc[e] = "broken" => mem[e].error

RowInv(p, r) ==
  r # None =>
    /\ r.finished <=> r.status = "success"
    /\ r.finished => r.data # None /\ ~r.data.error /\ AllOk(r.data)
    /\ r.data # None => OnlyLastFailed(r.data)
    /\ p \in {"loop", "broken"} =>
         /\ r.status \in {"new", "running"}
         /\ r.data # None => ~r.data.error
    /\ (p = "loop" /\ r.data # None) => AllOk(r.data)

EngineInv == \A e \in Exec : ErrorInv(e) /\ RowInv(pc[e], row[e])

(* Saving a run adds its outcome to a clean row and nothing else.          *)
LEMMA SaveProgressClean ==
  ASSUME NEW r \in Row \cup {None}, RowInv("loop", r), NEW outcome,
         r = None => outcome = "unreadable",
         NEW n \in Node, NEW task \in Task, NEW live \in RunExecutionData
  PROVE  /\ RowInv("broken", SaveProgress(r, outcome, n, task, live))
         /\ task.ok => RowInv("loop", SaveProgress(r, outcome, n, task, live))
  <1>1. CASE outcome \in {"unreadable", "unwritten"}
    BY <1>1 DEF SaveProgress, RowInv
  <1>2. CASE outcome \notin {"unreadable", "unwritten"}
    <2>. DEFINE old == IF r.data = None THEN FreshData ELSE r.data
                runData == [old.runData EXCEPT ![n] = Append(@, task)]
                new == [live EXCEPT !.runData = runData, !.error = old.error, !.last = n]
    <2>1. r \in Row /\ r # None
      BY <1>2, NoneAssumption
    <2>2. old \in RunExecutionData /\ ~old.error /\ AllOk(old)
      <3>1. CASE r.data = None
        BY <3>1, FreshDataType DEF FreshData, AllOk
      <3>2. CASE r.data # None
        BY <2>1, <3>2 DEF RowInv, Row
      <3>. QED
        BY <3>1, <3>2
    <2>. HIDE DEF old
    <2>3. ASSUME NEW m \in Node, NEW i \in DOMAIN runData[m]
          PROVE  runData[m][i].ok \/ (runData[m][i] = task /\ m = n /\ i = Len(runData[m]))
      <3>1. old.runData \in [Node -> Seq(Task)]
        BY <2>2 DEF RunExecutionData
      <3>2. CASE m # n
        BY <2>2, <2>3, <3>1, <3>2 DEF AllOk
      <3>3. CASE m = n
        <4>1. old.runData[n] \in Seq(Task) /\ runData[m] = Append(old.runData[n], task)
          BY <3>1, <3>3
        <4>2. i \in 1 .. Len(old.runData[n]) + 1
          BY <2>3, <4>1
        <4>3. CASE i = Len(old.runData[n]) + 1
          BY <3>3, <4>1, <4>3
        <4>4. CASE i \in 1 .. Len(old.runData[n])
          <5>1. runData[m][i] = old.runData[n][i]
            BY <4>1, <4>4
          <5>2. old.runData[n][i].ok
            BY <2>2, <4>1, <4>4 DEF AllOk
          <5>. QED
            BY <5>1, <5>2
        <4>. QED
          BY <4>1, <4>2, <4>3, <4>4
      <3>. QED
        BY <3>2, <3>3
    <2>4. new.runData = runData /\ new.error = old.error /\ new.last = n
      <3>. HIDE DEF runData
      <3>. QED
        BY DEF RunExecutionData
    <2>. HIDE DEF new, runData
    <2>5. OnlyLastFailed(new) /\ ~new.error
      BY <2>2, <2>3, <2>4 DEF OnlyLastFailed
    <2>6. task.ok => AllOk(new)
      BY <2>3, <2>4 DEF AllOk
    <2>7. ~r.finished
      BY <2>1 DEF RowInv
    <2>8. /\ [r EXCEPT !.status = "running"].finished = r.finished
          /\ [r EXCEPT !.status = "running"].status = "running"
          /\ [r EXCEPT !.status = "running"].data = r.data
          /\ [r EXCEPT !.status = "running", !.data = new].finished = r.finished
          /\ [r EXCEPT !.status = "running", !.data = new].status = "running"
          /\ [r EXCEPT !.status = "running", !.data = new].data = new
      BY <2>1 DEF Row
    <2>9. SaveProgress(r, outcome, n, task, live) \in
            {[r EXCEPT !.status = "running"], [r EXCEPT !.status = "running", !.data = new]}
      BY <1>2, <2>7 DEF SaveProgress, new, old, runData
    <2>10. /\ RowInv("broken", [r EXCEPT !.status = "running"])
           /\ RowInv("loop", [r EXCEPT !.status = "running"])
      BY <2>1, <2>7, <2>8 DEF RowInv
    <2>11. /\ RowInv("broken", [r EXCEPT !.status = "running", !.data = new])
           /\ task.ok => RowInv("loop", [r EXCEPT !.status = "running", !.data = new])
      BY <2>5, <2>6, <2>7, <2>8 DEF RowInv
    <2>. QED
      BY <2>9, <2>10, <2>11
  <1>. QED
    BY <1>1, <1>2

(* The final save gives a row whose verdict agrees with its data.          *)
LEMMA SaveFinalClean ==
  ASSUME NEW r \in Row, r # None, r.data # None, NEW outcome,
         NEW p \in {"loop", "broken"}, RowInv(p, r),
         NEW error \in BOOLEAN, error <=> p = "broken", NEW delete \in BOOLEAN
  PROVE  RowInv("over", SaveFinal(r, outcome, p = "loop", error, delete))
  <1>1. r.data \in RunExecutionData
    BY DEF Row
  <1>2. ASSUME NEW b \in {error, r.data.error}, NEW status \in {"failed", "success"},
               status = "failed" <=> error
        PROVE  RowInv("over", [r EXCEPT !.status = status, !.finished = p = "loop",
                                        !.data.error = b])
    <2>. DEFINE data == [r.data EXCEPT !.error = b]
                final == [r EXCEPT !.status = status, !.finished = p = "loop", !.data = data]
    <2>1. data.error = b /\ data.runData = r.data.runData /\ data.last = r.data.last
      BY <1>1 DEF RunExecutionData
    <2>2. data # None
      <3>1. r.data.error \in BOOLEAN
        BY <1>1 DEF RunExecutionData
      <3>2. data \in RunExecutionData
        BY <1>1, <3>1 DEF RunExecutionData
      <3>. QED
        BY <3>2, NoneAssumption
    <2>. HIDE DEF data
    <2>3. final.status = status /\ final.finished = (p = "loop") /\ final.data = data
      BY DEF Row
    <2>. HIDE DEF final
    <2>4. OnlyLastFailed(data) /\ ~r.data.error /\ (p = "loop" => AllOk(data) /\ ~b)
      BY <2>1 DEF RowInv, OnlyLastFailed, AllOk
    <2>5. final.finished <=> status = "success"
      BY <1>2, <2>3
    <2>6. RowInv("over", final)
      BY <2>1, <2>2, <2>3, <2>4, <2>5 DEF RowInv
    <2>. QED
      BY <2>6 DEF final, data
  <1>3. CASE outcome = "unwritten"
    BY <1>3 DEF SaveFinal, RowInv
  <1>4. CASE outcome # "unwritten" /\ delete
    BY <1>4 DEF SaveFinal, RowInv
  <1>5. CASE outcome # "unwritten" /\ ~delete
    <2>. DEFINE status == IF error THEN "failed" ELSE "success"
                b == IF outcome = "both" THEN error ELSE r.data.error
    <2>1. SaveFinal(r, outcome, p = "loop", error, delete) =
            [r EXCEPT !.status = status, !.finished = p = "loop", !.data.error = b]
      BY <1>5 DEF SaveFinal
    <2>2. b \in {error, r.data.error} /\ status \in {"failed", "success"}
          /\ (status = "failed" <=> error)
      OBVIOUS
    <2>. HIDE DEF b, status
    <2>. QED
      BY <1>2, <2>1, <2>2
  <1>. QED
    BY <1>3, <1>4, <1>5

(* Retry starts from data without a failure.                               *)
LEMMA RetryDataClean ==
  ASSUME NEW d \in RunExecutionData, d.last \in Node, OnlyLastFailed(d)
  PROVE  AllOk(RetryData(d)) /\ ~RetryData(d).error
  <1>. DEFINE tasks == d.runData[d.last]
              runData == [d.runData EXCEPT ![d.last] = WithoutFailure(@)]
  <1>1. d.runData \in [Node -> Seq(Task)] /\ tasks \in Seq(Task)
    BY DEF RunExecutionData
  <1>2. RetryData(d).runData = runData /\ RetryData(d).error = FALSE
    BY DEF RetryData, RunExecutionData
  <1>3. ASSUME NEW i \in DOMAIN WithoutFailure(tasks)
        PROVE  WithoutFailure(tasks)[i].ok
    <2>. HIDE DEF tasks
    <2>1. \A j \in DOMAIN tasks : tasks[j].ok \/ j = Len(tasks)
      BY DEF OnlyLastFailed, tasks
    <2>2. CASE tasks # <<>> /\ ~Last(tasks).ok
      <3>1. WithoutFailure(tasks) = SubSeq(tasks, 1, Len(tasks) - 1) /\ Len(tasks) \in Nat \ {0}
        BY <1>1, <2>2 DEF WithoutFailure, Front
      <3>2. i \in 1 .. Len(tasks) - 1 /\ WithoutFailure(tasks)[i] = tasks[i]
        BY <1>1, <1>3, <3>1
      <3>. QED
        BY <1>1, <2>1, <3>1, <3>2
    <2>3. CASE tasks = <<>> \/ Last(tasks).ok
      <3>1. WithoutFailure(tasks) = tasks
        BY <2>3 DEF WithoutFailure
      <3>. QED
        BY <1>1, <1>3, <2>1, <2>3, <3>1 DEF Last
    <2>. QED
      BY <2>2, <2>3
  <1>4. AllOk(RetryData(d))
    BY <1>1, <1>2, <1>3 DEF AllOk, OnlyLastFailed
  <1>. QED
    BY <1>2, <1>4

(* The steps of a goroutine keep the invariant.                            *)
LEMMA RecordInv ==
  ASSUME TypeInv, EngineInv, NEW e \in Exec, AtPop(e), mem[e].stack # <<>>,
         NEW ok \in BOOLEAN, NEW outputs \in Seq(Item),
         Record(e, Head(mem[e].stack), ok, outputs)
  PROVE  EngineInv'
  <1>. DEFINE n == Head(mem[e].stack).node
              task == [ok |-> ok, inputs |-> Head(mem[e].stack).inputs, outputs |-> outputs]
              live == [mem[e] EXCEPT !.stack = Tail(@),
                                     !.waiting[n] = outputs,
                                     !.runData[n] = Append(@, task),
                                     !.error = @ \/ ~ok,
                                     !.last = n]
  <1>1. mem[e] \in RunExecutionData /\ mem[e].stack \in Seq(Entry)
    BY DEF TypeInv, TypeOK, RunExecutionData
  <1>2. n \in Node /\ task \in Task /\ Tail(mem[e].stack) \in Seq(Entry)
    <2>1. Head(mem[e].stack) \in Entry /\ Tail(mem[e].stack) \in Seq(Entry)
      BY <1>1
    <2>. QED
      BY <2>1 DEF Entry, Task
  <1>3. live \in RunExecutionData /\ live.error = (mem[e].error \/ ~ok)
    <2>. HIDE DEF n, task
    <2>1. [mem[e].runData EXCEPT ![n] = Append(@, task)] \in [Node -> Seq(Task)]
      BY <1>1, <1>2, RunDataExcept
    <2>2. [mem[e].waiting EXCEPT ![n] = outputs] \in [Node -> Seq(Item) \cup {None}]
      BY <1>1, <1>2 DEF RunExecutionData
    <2>. QED
      BY <1>1, <1>2, <2>1, <2>2 DEF RunExecutionData
  <1>4. PICK outcome \in StoreOutcomes(e) :
          row' = [row EXCEPT ![e] = SaveProgress(@, outcome, n, task, live)]
    BY DEF Record
  <1>5. row[e] = None => outcome = "unreadable"
    BY <1>4 DEF StoreOutcomes
  <1>6. /\ mem' = [mem EXCEPT ![e] = live]
        /\ pc' = [pc EXCEPT ![e] = IF ok THEN "loop" ELSE "broken"]
    BY DEF Record
  <1>7. task.ok = ok
    OBVIOUS
  <1>. HIDE DEF n, task, live
  <1>8. row[e] \in Row \cup {None} /\ pc[e] = "loop" /\ ErrorInv(e) /\ RowInv("loop", row[e])
    BY DEF TypeInv, TypeOK, AtPop, EngineInv
  <1>9. /\ RowInv("broken", SaveProgress(row[e], outcome, n, task, live))
        /\ ok => RowInv("loop", SaveProgress(row[e], outcome, n, task, live))
    BY <1>2, <1>3, <1>5, <1>7, <1>8, SaveProgressClean
  <1>10. /\ pc \in [Exec -> {"idle", "loop", "broken", "over", "dead"}]
         /\ mem \in [Exec -> RunExecutionData]
         /\ row \in [Exec -> Row \cup {None}]
    BY DEF TypeInv, TypeOK
  <1>11. ErrorInv(e)' /\ RowInv(pc[e], row[e])'
    BY <1>3, <1>4, <1>6, <1>8, <1>9, <1>10 DEF ErrorInv
  <1>12. ASSUME NEW x \in Exec, x # e
         PROVE  ErrorInv(x)' /\ RowInv(pc[x], row[x])'
    BY <1>4, <1>6, <1>10, <1>12 DEF EngineInv, ErrorInv
  <1>. QED
    BY <1>11, <1>12 DEF EngineInv

(* A panic keeps the engine invariant.                                     *)
LEMMA PanicInv ==
  ASSUME TypeInv, EngineInv, NEW e \in Exec, Panic(e), pc[e] \in {"loop", "broken"}, UNCHANGED row
  PROVE  EngineInv'
  BY DEF Panic, EngineInv, ErrorInv, RowInv, TypeInv, TypeOK

(* Saving the final status keeps the engine invariant.                     *)
LEMMA FinishInv ==
  ASSUME TypeInv, EngineInv, NEW e \in Exec, Finish(e)
  PROVE  EngineInv'
  <1>1. pc[e] \in {"loop", "broken"}
    BY DEF Finish, AtPop
  <1>2. PICK outcome \in StoreOutcomes(e) :
          \/ Panic(e) /\ UNCHANGED row
          \/ /\ outcome # "unreadable" /\ row[e].data # None
             /\ pc' = [pc EXCEPT ![e] = "over"]
             /\ UNCHANGED mem
             /\ row' = [row EXCEPT ![e] =
                  SaveFinal(@, outcome, pc[e] = "loop", mem[e].error, e \in needDelete)]
    BY DEF Finish
  <1>3. CASE Panic(e) /\ UNCHANGED row
    BY <1>1, <1>3, PanicInv
  <1>4. CASE /\ outcome # "unreadable" /\ row[e].data # None
             /\ pc' = [pc EXCEPT ![e] = "over"]
             /\ UNCHANGED mem
             /\ row' = [row EXCEPT ![e] =
                  SaveFinal(@, outcome, pc[e] = "loop", mem[e].error, e \in needDelete)]
    <2>. DEFINE delete == e \in needDelete
                final == SaveFinal(row[e], outcome, pc[e] = "loop", mem[e].error, delete)
    <2>1. row[e] # None
      BY <1>4 DEF StoreOutcomes
    <2>2. row[e] \in Row /\ ErrorInv(e) /\ RowInv(pc[e], row[e])
      BY <2>1 DEF TypeInv, TypeOK, EngineInv
    <2>3. mem[e].error \in BOOLEAN /\ (mem[e].error <=> pc[e] = "broken")
      BY <1>1, <2>2 DEF TypeInv, TypeOK, RunExecutionData, ErrorInv
    <2>4. RowInv("over", final)
      <3>1. delete \in BOOLEAN
        OBVIOUS
      <3>. HIDE DEF delete
      <3>. QED
        BY SMTT(30), <1>1, <1>4, <2>1, <2>2, <2>3, <3>1, SaveFinalClean
    <2>5. row' = [row EXCEPT ![e] = final]
      BY <1>4
    <2>6. /\ pc \in [Exec -> {"idle", "loop", "broken", "over", "dead"}]
          /\ row \in [Exec -> Row \cup {None}]
      BY DEF TypeInv, TypeOK
    <2>. HIDE DEF final
    <2>. QED
      BY <1>4, <2>4, <2>5, <2>6 DEF EngineInv, ErrorInv
  <1>. QED
    BY <1>2, <1>3, <1>4

(* A step that leaves pc, the rows and the error in memory alone.          *)
LEMMA QuietInv ==
  ASSUME TypeInv, EngineInv, UNCHANGED <<pc, row>>,
         \A x \in Exec : mem'[x].error = mem[x].error
  PROVE  EngineInv'
  BY DEF EngineInv, ErrorInv

(* Adding a node to the stack keeps the engine invariant.                  *)
LEMMA AddNodeInv ==
  ASSUME TypeInv, EngineInv, NEW e \in Exec, AddNodeToBeExecuted(e)
  PROVE  EngineInv'
  <1>1. PICK p \in NextToAdd(e) :
          \/ PushSingle(e, p)
          \/ \E cs \in FirstConnections(p.conn.dst) : PushMulti(e, p.conn.dst, cs)
    BY DEF AddNodeToBeExecuted
  <1>2. UNCHANGED row /\ pc[e] = "loop"
    BY DEF AddNodeToBeExecuted
  <1>. DEFINE n == p.conn.dst
  <1>3. ASSUME NEW stack, NEW sources,
               mem' \in {[mem EXCEPT ![e].stack = stack, ![e].sources[n] = sources],
                         [mem EXCEPT ![e].sources[n] = sources]}
        PROVE  \A x \in Exec : mem'[x].error = mem[x].error
    <2>1. mem \in [Exec -> RunExecutionData]
      BY DEF TypeInv, TypeOK
    <2>2. ASSUME NEW x \in Exec, x # e
          PROVE  mem'[x] = mem[x]
      BY <1>3, <2>1, <2>2
    <2>3. mem'[e].error = mem[e].error
      BY <1>3, <2>1 DEF RunExecutionData
    <2>. QED
      BY <2>2, <2>3
  <1>. HIDE DEF n
  <1>4. CASE PushSingle(e, p)
    <2>1. \E stack, sources :
            mem' \in {[mem EXCEPT ![e].stack = stack, ![e].sources[n] = sources],
                      [mem EXCEPT ![e].sources[n] = sources]}
      BY <1>4 DEF PushSingle, n
    <2>2. \A x \in Exec : mem'[x].error = mem[x].error
      BY <1>3, <2>1
    <2>. QED
      BY <1>2, <1>4, <2>2, QuietInv DEF PushSingle
  <1>5. ASSUME NEW cs \in FirstConnections(n), PushMulti(e, n, cs)
        PROVE  EngineInv'
    <2>1. CASE Panic(e)
      BY <1>2, <2>1, PanicInv
    <2>2. CASE UNCHANGED pc /\ \E stack, sources :
                 mem' \in {[mem EXCEPT ![e].stack = stack, ![e].sources[n] = sources],
                           [mem EXCEPT ![e].sources[n] = sources]}
      <3>1. \A x \in Exec : mem'[x].error = mem[x].error
        BY <1>3, <2>2
      <3>. QED
        BY <1>2, <2>2, <3>1, QuietInv
    <2>. QED
      BY <1>5, <2>1, <2>2 DEF PushMulti
  <1>. QED
    BY <1>1, <1>4, <1>5 DEF n

(* A retry keeps the engine invariant.                                     *)
LEMMA RetryInv ==
  ASSUME TypeInv, EngineInv, NEW e \in Exec, NEW f \in Exec, Retry(e, f)
  PROVE  EngineInv'
  <1>1. row[e] \in Row /\ row[e] # None /\ RowInv(pc[e], row[e]) /\ Named(row[e])
    BY DEF Retry, TypeInv, TypeOK, EngineInv
  <1>2. /\ pc \in [Exec -> {"idle", "loop", "broken", "over", "dead"}]
        /\ mem \in [Exec -> RunExecutionData]
        /\ row \in [Exec -> Row \cup {None}]
    BY DEF TypeInv, TypeOK
  <1>3. CASE /\ row' = [row EXCEPT ![f] = NewRow(None)]
             /\ pc' = [pc EXCEPT ![f] = "dead"]
             /\ UNCHANGED mem
    <2>1. RowInv("dead", NewRow(None))
      BY DEF RowInv, NewRow
    <2>. QED
      BY <1>2, <1>3, <2>1 DEF EngineInv, ErrorInv
  <1>4. CASE /\ row[e].data # None
             /\ row' = [row EXCEPT ![f] = NewRow(RetryData(row[e].data))]
             /\ pc' = [pc EXCEPT ![f] = "loop"]
             /\ mem' = [mem EXCEPT ![f] = RetryData(row[e].data)]
    <2>. DEFINE d == RetryData(row[e].data)
    <2>1. row[e].data \in RunExecutionData /\ row[e].data.last \in Node
          /\ OnlyLastFailed(row[e].data)
      BY <1>1, <1>4 DEF Row, Named, RowInv
    <2>2. AllOk(d) /\ ~d.error
      BY <2>1, RetryDataClean
    <2>3. /\ row' = [row EXCEPT ![f] = NewRow(d)]
          /\ mem' = [mem EXCEPT ![f] = d]
      BY <1>4
    <2>. HIDE DEF d
    <2>4. RowInv("loop", NewRow(d))
      BY <2>2 DEF RowInv, NewRow, AllOk, OnlyLastFailed
    <2>. QED
      BY <1>2, <1>4, <2>2, <2>3, <2>4 DEF EngineInv, ErrorInv
  <1>. QED
    BY <1>3, <1>4 DEF Retry

(* Leaving the starters for the loop keeps the engine invariant.           *)
LEMMA BeginInv ==
  ASSUME TypeInv, EngineInv, NEW e \in Exec, NEW stack, NEW c, Begin(e, stack, c)
  PROVE  EngineInv'
  <1>1. RowInv("loop", NewRow(None))
    BY DEF RowInv, NewRow
  <1>2. [FreshData EXCEPT !.stack = stack].error = FALSE
    BY DEF FreshData
  <1>. QED
    BY <1>1, <1>2 DEF Begin, EngineInv, ErrorInv, TypeInv, TypeOK

(* Every step keeps the engine invariant.                                  *)
LEMMA EngineStep ==
  ASSUME TypeInv, EngineInv, [Next]_vars
  PROVE  EngineInv'
  <1>1. ASSUME NEW e \in Exec, StartAll(e) \/ \E n \in Webhooks : StartFrom(e, n)
        PROVE  EngineInv'
    BY <1>1, BeginInv DEF StartAll, StartFrom
  <1>2. ASSUME NEW e \in Exec, PopDisabled(e)
        PROVE  EngineInv'
    <2>1. \A x \in Exec : mem'[x].error = mem[x].error
      BY <1>2 DEF PopDisabled, TypeInv, TypeOK, RunExecutionData
    <2>. QED
      BY <1>2, <2>1, QuietInv DEF PopDisabled
  <1>3. ASSUME NEW e \in Exec, ExecuteNode(e)
        PROVE  EngineInv'
    <2>. DEFINE top == Head(mem[e].stack)
                run == Len(mem[e].runData[top.node]) + 1
    <2>1. AtPop(e) /\ mem[e].stack # <<>> /\ pc[e] = "loop"
      BY <1>3 DEF ExecuteNode, AtPop
    <2>2. top.node \in Node /\ top.inputs \in Seq(Item) /\ run \in Nat
      <3>1. mem[e].stack \in Seq(Entry) /\ mem[e].runData \in [Node -> Seq(Task)]
        BY DEF TypeInv, TypeOK, RunExecutionData
      <3>2. top \in Entry
        BY <2>1, <3>1
      <3>3. top.node \in Node /\ top.inputs \in Seq(Item)
        BY <3>2 DEF Entry
      <3>4. \A x \in Node : Len(mem[e].runData[x]) + 1 \in Nat
        BY <3>1
      <3>. QED
        BY <3>3, <3>4
    <2>3. ASSUME NEW outputs \in Results(top.node, top.inputs, run), Record(e, top, TRUE, outputs)
          PROVE  EngineInv'
      BY <2>1, <2>2, <2>3, ResultsType, RecordInv
    <2>4. ASSUME Record(e, top, FALSE, FailedOutputs(top.node, run))
          PROVE  EngineInv'
      BY <2>1, <2>2, <2>4, ResultsType, RecordInv
    <2>5. ASSUME Panic(e), UNCHANGED row
          PROVE  EngineInv'
      BY <2>1, <2>5, PanicInv
    <2>. QED
      BY <1>3, <2>3, <2>4, <2>5 DEF ExecuteNode
  <1>4. ASSUME NEW e \in Exec, AddNodeToBeExecuted(e) \/ Finish(e)
        PROVE  EngineInv'
    BY <1>4, AddNodeInv, FinishInv
  <1>5. ASSUME NEW e \in Exec, Cancel(e)
        PROVE  EngineInv'
    BY <1>5, QuietInv DEF Cancel
  <1>6. ASSUME NEW e \in Exec, DeleteRow(e)
        PROVE  EngineInv'
    BY <1>6 DEF DeleteRow, EngineInv, ErrorInv, RowInv, TypeInv, TypeOK
  <1>7. ASSUME Crash
        PROVE  EngineInv'
    BY <1>7 DEF Crash, Alive, EngineInv, ErrorInv, RowInv, TypeInv, TypeOK
  <1>8. ASSUME UNCHANGED vars
        PROVE  EngineInv'
    BY <1>8, QuietInv DEF vars
  <1>. QED
    BY <1>1, <1>2, <1>3, <1>4, <1>5, <1>6, <1>7, <1>8, RetryInv DEF Next, Step

(* The engine invariant holds of every reachable state.                    *)
LEMMA EngineInvariant == Spec => []EngineInv
  <1>1. Init => EngineInv
    BY DEF Init, EngineInv, ErrorInv, RowInv
  <1>. QED
    BY <1>1, EngineStep, TypeInvariant, PTL DEF Spec

(* A finished row is a clean one, in every workflow, with any number of    *)
(* executions, failures, retries, cancellations and half-done saves.       *)
THEOREM FinishedRowsAreClean == Spec => []FinishedIsClean
  <1>1. EngineInv => FinishedIsClean
    BY DEF EngineInv, RowInv, FinishedIsClean, AllOk
  <1>. QED
    BY <1>1, EngineInvariant, PTL

-----------------------------------------------------------------------------
(* RowLifecycle: the rows implement ExecutionLifecycle.  Every step of the *)
(* engine leaves the lives of all executions alone or is one step of one   *)
(* of them.                                                                *)

lives == [e \in Exec |-> Life(e)]

(* One life that moves on as the abstract specification allows.            *)
LEMMA LifeStep ==
  ASSUME NEW e \in Exec,
         \A x \in Exec \ {e} : Life(x)' = Life(x),
         \/ Life(e)' = Life(e)
         \/ Life(e) = "absent" /\ Life(e)' = "new"
         \/ /\ Life(e) \in {"new", "running"}
            /\ Life(e)' \in {"running", "success", "failed", "removed"}
         \/ Life(e) \in {"success", "failed"} /\ Life(e)' = "removed"
  PROVE  [Lifecycle!Next]_lives
  <1>1. CASE Life(e)' = Life(e)
    <2>1. lives' = lives
      BY <1>1 DEF lives
    <2>. QED
      BY <2>1
  <1>2. CASE Life(e)' # Life(e)
    <2>1. lives' = [lives EXCEPT ![e] = Life(e)'] /\ lives[e] = Life(e)
      BY DEF lives
    <2>2. Lifecycle!Create(e) \/ Lifecycle!Progress(e) \/ Lifecycle!Conclude(e)
            \/ Lifecycle!Remove(e)
      BY <1>2, <2>1 DEF lives, Lifecycle!Create, Lifecycle!Progress, Lifecycle!Conclude,
         Lifecycle!Remove, Lifecycle!Open, Lifecycle!Verdict
    <2>. QED
      BY <2>2 DEF Lifecycle!Next
  <1>. QED
    BY <1>1, <1>2

(* Steps that leave the rows alone and start or end no execution.          *)
LEMMA LifeQuiet ==
  ASSUME UNCHANGED row, \A x \in Exec : pc'[x] = "idle" <=> pc[x] = "idle"
  PROVE  [Lifecycle!Next]_lives
  <1>1. \A x \in Exec : Life(x)' = Life(x)
    BY DEF Life
  <1>2. lives' = lives
    BY <1>1 DEF lives
  <1>. QED
    BY <1>2

(* A new row begins a life.                                                *)
LEMMA LifeBegins ==
  ASSUME TypeInv, EngineInv, NEW e \in Exec, pc[e] = "idle",
         NEW p \in {"loop", "dead"}, pc' = [pc EXCEPT ![e] = p],
         NEW d \in RunExecutionData \cup {None}, row' = [row EXCEPT ![e] = NewRow(d)]
  PROVE  [Lifecycle!Next]_lives
  <1>1. /\ pc \in [Exec -> {"idle", "loop", "broken", "over", "dead"}]
        /\ row \in [Exec -> Row \cup {None}]
    BY DEF TypeInv, TypeOK
  <1>2. NewRow(d) # None /\ NewRow(d).status = "new"
    <2>1. NewRow(d) \in Row
      BY DEF NewRow, Row
    <2>. QED
      BY <2>1, NoneAssumption DEF NewRow
  <1>3. Life(e) = "absent" /\ Life(e)' = "new"
    BY <1>1, <1>2 DEF Life, EngineInv, ErrorInv
  <1>4. \A x \in Exec \ {e} : Life(x)' = Life(x)
    BY <1>1 DEF Life
  <1>. QED
    BY <1>3, <1>4, LifeStep

(* What a progress save can make of a row.                                 *)
LEMMA SaveShapes ==
  ASSUME NEW r, NEW outcome, NEW n, NEW task, NEW live
  PROVE  \E data : SaveProgress(r, outcome, n, task, live) \in
            {r, [r EXCEPT !.status = "running"],
             [r EXCEPT !.status = "running", !.data = data]}
  <1>. DEFINE old == IF r.data = None THEN FreshData ELSE r.data
              new == [live EXCEPT !.runData = [old.runData EXCEPT ![n] = Append(@, task)],
                                  !.error = old.error, !.last = n]
  <1>1. SaveProgress(r, outcome, n, task, live) \in
          {r, [r EXCEPT !.status = "running"], [r EXCEPT !.status = "running", !.data = new]}
    BY DEF SaveProgress
  <1>. HIDE DEF new
  <1>. QED
    BY <1>1

(* A save moves an open row on; the last one may also remove it.           *)
LEMMA LifeRecord ==
  ASSUME TypeInv, EngineInv, NEW e \in Exec, pc[e] = "loop",
         NEW top, NEW ok \in BOOLEAN, NEW outputs, Record(e, top, ok, outputs)
  PROVE  [Lifecycle!Next]_lives
  <1>1. /\ pc \in [Exec -> {"idle", "loop", "broken", "over", "dead"}]
        /\ row \in [Exec -> Row \cup {None}]
    BY DEF TypeInv, TypeOK
  <1>2. PICK outcome, n, task, live :
          /\ outcome \in StoreOutcomes(e)
          /\ row' = [row EXCEPT ![e] = SaveProgress(@, outcome, n, task, live)]
    BY DEF Record
  <1>. DEFINE r == SaveProgress(row[e], outcome, n, task, live)
  <1>3. row'[e] = r /\ \A x \in Exec \ {e} : row'[x] = row[x]
    BY <1>1, <1>2
  <1>4. pc'[e] # "idle" /\ \A x \in Exec \ {e} : pc'[x] = pc[x]
    BY <1>1 DEF Record
  <1>5. \A x \in Exec \ {e} : Life(x)' = Life(x)
    BY <1>3, <1>4 DEF Life
  <1>6. CASE r = row[e]
    <2>1. Life(e)' = Life(e)
      BY <1>3, <1>4, <1>6 DEF Life
    <2>. QED
      BY <1>5, <2>1, LifeStep
  <1>7. CASE r # row[e]
    <2>1. row[e] \in Row /\ row[e] # None /\ Life(e) \in {"new", "running"}
      <3>1. outcome \notin {"unreadable", "unwritten"}
        BY <1>7 DEF SaveProgress
      <3>2. row[e] \in Row /\ row[e] # None
        BY <1>1, <1>2, <3>1, NoneAssumption DEF StoreOutcomes
      <3>. QED
        BY <3>2 DEF EngineInv, RowInv, Life
    <2>2. \/ r = [row[e] EXCEPT !.status = "running"]
          \/ \E data : r = [row[e] EXCEPT !.status = "running", !.data = data]
      <3>1. PICK data : SaveProgress(row[e], outcome, n, task, live) \in
                {row[e], [row[e] EXCEPT !.status = "running"],
                 [row[e] EXCEPT !.status = "running", !.data = data]}
        BY SaveShapes
      <3>2. r \in {row[e], [row[e] EXCEPT !.status = "running"],
                   [row[e] EXCEPT !.status = "running", !.data = data]}
        BY <3>1
      <3>. HIDE DEF r
      <3>. QED
        BY <1>7, <3>2
    <2>3. r.status = "running"
      BY <2>1, <2>2 DEF Row
    <2>4. Life(e)' \in {"running", "removed"}
      BY <1>3, <1>4, <2>3 DEF Life
    <2>. QED
      BY <1>5, <2>1, <2>4, LifeStep
  <1>. QED
    BY <1>6, <1>7

(* The final save is a step of the lifecycle of a row.                     *)
LEMMA LifeFinish ==
  ASSUME TypeInv, EngineInv, NEW e \in Exec, Finish(e)
  PROVE  [Lifecycle!Next]_lives
  <1>1. /\ pc \in [Exec -> {"idle", "loop", "broken", "over", "dead"}]
        /\ row \in [Exec -> Row \cup {None}]
        /\ pc[e] \in {"loop", "broken"}
    BY DEF TypeInv, TypeOK, Finish, AtPop
  <1>2. CASE Panic(e) /\ UNCHANGED row
    BY <1>1, <1>2, LifeQuiet DEF Panic
  <1>3. ASSUME NEW outcome \in StoreOutcomes(e), NEW finished, NEW error, NEW delete,
               outcome # "unreadable", pc' = [pc EXCEPT ![e] = "over"],
               row' = [row EXCEPT ![e] = SaveFinal(@, outcome, finished, error, delete)]
        PROVE  [Lifecycle!Next]_lives
    <2>. DEFINE r == SaveFinal(row[e], outcome, finished, error, delete)
    <2>1. row[e] \in Row /\ row[e] # None
      BY <1>1, <1>3 DEF StoreOutcomes
    <2>2. Life(e) \in {"new", "running"}
      BY <1>1, <2>1 DEF EngineInv, RowInv, Life
    <2>3. \A x \in Exec \ {e} : Life(x)' = Life(x)
      BY <1>1, <1>3 DEF Life
    <2>4. row'[e] = r /\ pc'[e] = "over"
      BY <1>1, <1>3
    <2>5. CASE r = row[e]
      BY <1>1, <2>3, <2>4, <2>5, LifeStep DEF Life
    <2>6. CASE r = None
      BY <2>2, <2>3, <2>4, <2>6, LifeStep DEF Life
    <2>7. CASE r # row[e] /\ r # None
      <3>. DEFINE status == IF error THEN "failed" ELSE "success"
                  b == IF outcome = "both" THEN error ELSE row[e].data.error
      <3>1. r = [row[e] EXCEPT !.status = status, !.finished = finished, !.data.error = b]
        BY <2>7 DEF SaveFinal
      <3>2. status \in {"failed", "success"}
        OBVIOUS
      <3>. HIDE DEF r, status, b
      <3>3. r.status = status
        BY <2>1, <3>1 DEF Row
      <3>. QED
        BY <2>2, <2>3, <2>4, <2>7, <3>2, <3>3, LifeStep DEF Life
    <2>. QED
      BY <2>5, <2>6, <2>7
  <1>. QED
    BY <1>2, <1>3 DEF Finish

(* Every step of the engine is a step of the lifecycle or a stutter.       *)
LEMMA LifecycleStep ==
  ASSUME TypeInv, EngineInv, [Next]_vars
  PROVE  [Lifecycle!Next]_lives
  <1>0. pc \in [Exec -> {"idle", "loop", "broken", "over", "dead"}]
    BY DEF TypeInv, TypeOK
  <1>1. ASSUME NEW e \in Exec, StartAll(e) \/ \E n \in Webhooks : StartFrom(e, n)
        PROVE  [Lifecycle!Next]_lives
    <2>1. /\ pc[e] = "idle" /\ pc' = [pc EXCEPT ![e] = "loop"]
          /\ row' = [row EXCEPT ![e] = NewRow(None)]
      BY <1>1 DEF StartAll, StartFrom, Begin
    <2>. QED
      BY <2>1, LifeBegins
  <1>2. ASSUME NEW e \in Exec, NEW f \in Exec, Retry(e, f)
        PROVE  [Lifecycle!Next]_lives
    <2>1. row[e] \in Row /\ Named(row[e]) /\ row[e] # None /\ pc[f] = "idle"
      BY <1>2 DEF Retry, TypeInv, TypeOK
    <2>2. CASE row' = [row EXCEPT ![f] = NewRow(None)] /\ pc' = [pc EXCEPT ![f] = "dead"]
      BY <2>1, <2>2, LifeBegins
    <2>3. CASE /\ row[e].data # None /\ CanRebuild(row[e].data, row[e].data.last)
               /\ row' = [row EXCEPT ![f] = NewRow(RetryData(row[e].data))]
               /\ pc' = [pc EXCEPT ![f] = "loop"]
      <3>1. RetryData(row[e].data) \in RunExecutionData
        BY <2>1, <2>3, RetryDataType DEF Row, Named
      <3>. QED
        BY <2>1, <2>3, <3>1, LifeBegins
    <2>. QED
      BY <1>2, <2>2, <2>3 DEF Retry
  <1>3. ASSUME NEW e \in Exec, ExecuteNode(e)
        PROVE  [Lifecycle!Next]_lives
    <2>1. pc[e] = "loop"
      BY <1>3 DEF ExecuteNode, AtPop
    <2>2. \/ \E top, outputs : Record(e, top, TRUE, outputs) \/ Record(e, top, FALSE, outputs)
          \/ Panic(e) /\ UNCHANGED row
      BY <1>3 DEF ExecuteNode
    <2>3. CASE Panic(e) /\ UNCHANGED row
      BY <1>0, <2>1, <2>3, LifeQuiet DEF Panic
    <2>. QED
      BY <2>1, <2>2, <2>3, LifeRecord
  <1>4. ASSUME NEW e \in Exec, PopDisabled(e) \/ Cancel(e)
        PROVE  [Lifecycle!Next]_lives
    BY <1>4, LifeQuiet DEF PopDisabled, Cancel
  <1>5. ASSUME NEW e \in Exec, AddNodeToBeExecuted(e)
        PROVE  [Lifecycle!Next]_lives
    <2>1. UNCHANGED row /\ pc[e] = "loop"
      BY <1>5 DEF AddNodeToBeExecuted
    <2>2. UNCHANGED pc \/ Panic(e)
      <3>1. PICK p : PushSingle(e, p) \/ \E n, cs : PushMulti(e, n, cs)
        BY <1>5 DEF AddNodeToBeExecuted
      <3>2. CASE PushSingle(e, p)
        BY <3>2 DEF PushSingle
      <3>3. ASSUME NEW n, NEW cs, PushMulti(e, n, cs)
            PROVE  UNCHANGED pc \/ Panic(e)
        BY <3>3 DEF PushMulti
      <3>. QED
        BY <3>1, <3>2, <3>3
    <2>. QED
      BY <1>0, <2>1, <2>2, LifeQuiet DEF Panic
  <1>6. ASSUME NEW e \in Exec, DeleteRow(e)
        PROVE  [Lifecycle!Next]_lives
    <2>1. row[e] \in Row /\ row[e] # None /\ UNCHANGED pc /\ pc[e] # "idle"
      BY <1>6 DEF DeleteRow, TypeInv, TypeOK, EngineInv, ErrorInv
    <2>2. row'[e] = None /\ \A x \in Exec \ {e} : row'[x] = row[x]
      BY <1>6 DEF DeleteRow, TypeInv, TypeOK
    <2>3. Life(e) \in {"new", "running", "success", "failed"} /\ Life(e)' = "removed"
      BY <2>1, <2>2 DEF Life, Row
    <2>4. \A x \in Exec \ {e} : Life(x)' = Life(x)
      BY <2>1, <2>2 DEF Life
    <2>. QED
      BY <2>3, <2>4, LifeStep
  <1>7. ASSUME Crash
        PROVE  [Lifecycle!Next]_lives
    BY <1>0, <1>7, LifeQuiet DEF Crash, Alive
  <1>8. ASSUME UNCHANGED vars
        PROVE  [Lifecycle!Next]_lives
    BY <1>8, LifeQuiet DEF vars
  <1>. QED
    BY <1>1, <1>2, <1>3, <1>4, <1>5, <1>6, <1>7, <1>8, LifeFinish DEF Next, Step

(* The rows of the executions implement the abstract lifecycle: created    *)
(* once, progress only while open, one verdict, never back once removed.   *)
THEOREM RowsImplementLifecycle == Spec => RowLifecycle
  <1>1. Init => Lifecycle!Init
    BY DEF Init, Lifecycle!Init, Life
  <1>2. TypeInv /\ EngineInv /\ [Next]_vars => [Lifecycle!Next]_[e \in Exec |-> Life(e)]
    BY LifecycleStep DEF lives
  <1>. QED
    BY <1>1, <1>2, TypeInvariant, EngineInvariant, PTL
       DEF Spec, RowLifecycle, Lifecycle!Spec

=============================================================================
