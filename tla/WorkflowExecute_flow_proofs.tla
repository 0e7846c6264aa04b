-------------------- MODULE WorkflowExecute_flow_proofs --------------------
(***************************************************************************)
(* Proofs about the way data takes through a workflow: no output of a      *)
(* finished execution is lost, a retry gives the failed node the input it  *)
(* failed on, and the successors of a node wait in canvas order.           *)
(***************************************************************************)
EXTENDS WorkflowExecute_data_proofs

-----------------------------------------------------------------------------
(* What a list holds, when something is pushed, popped or appended.        *)

Held(list) == {list[i] : i \in DOMAIN list}

LEMMA HeldPush ==
  ASSUME NEW S, NEW list \in Seq(S), NEW x \in S
  PROVE  Held(<<x>> \o list) = {x} \cup Held(list)
<1> DEFINE new == <<x>> \o list
<1>1. DOMAIN new = 1 .. Len(list) + 1 /\ DOMAIN list = 1 .. Len(list) /\ Len(list) \in Nat
  OBVIOUS
<1>2. new[1] = x /\ \A i \in 2 .. Len(list) + 1 : new[i] = list[i - 1]
  OBVIOUS
<1> HIDE DEF new
<1>3. ASSUME NEW i \in DOMAIN new PROVE new[i] = x \/ \E j \in DOMAIN list : new[i] = list[j]
  <2>1. CASE i = 1  BY <1>2, <2>1
  <2>2. CASE i # 1
    <3>1. i \in 2 .. Len(list) + 1 /\ i - 1 \in DOMAIN list  BY <1>1, <2>2
    <3>2. QED  BY <1>2, <3>1
  <2>3. QED  BY <2>1, <2>2
<1>4. ASSUME NEW j \in DOMAIN list PROVE \E i \in DOMAIN new : list[j] = new[i]
  <2>1. j + 1 \in 2 .. Len(list) + 1 /\ j + 1 \in DOMAIN new /\ (j + 1) - 1 = j  BY <1>1
  <2>2. QED  BY <1>2, <2>1
<1>5. 1 \in DOMAIN new
  BY <1>1
<1>6. Held(new) = {x} \cup Held(list)
  BY <1>2, <1>3, <1>4, <1>5 DEF Held
<1>7. QED
  BY <1>6 DEF new

LEMMA HeldPop ==
  ASSUME NEW S, NEW list \in Seq(S), list # <<>>
  PROVE  Held(list) = {Head(list)} \cup Held(Tail(list)) /\ Head(list) \in S
<1> DEFINE rest == Tail(list)
<1>1. /\ Head(list) = list[1] /\ list[1] \in S
      /\ DOMAIN rest = 1 .. Len(list) - 1 /\ DOMAIN list = 1 .. Len(list)
      /\ Len(list) \in Nat /\ Len(list) > 0
  OBVIOUS
<1>2. \A i \in 1 .. Len(list) - 1 : rest[i] = list[i + 1]
  OBVIOUS
<1> HIDE DEF rest
<1>3. \A i \in DOMAIN rest : i + 1 \in DOMAIN list /\ rest[i] = list[i + 1]
  BY <1>1, <1>2
<1>4. ASSUME NEW i \in DOMAIN list, i # 1 PROVE i - 1 \in DOMAIN rest /\ list[i] = rest[i - 1]
  <2>1. i - 1 \in 1 .. Len(list) - 1 /\ (i - 1) + 1 = i
    BY <1>1, <1>4
  <2>2. QED
    BY <1>1, <1>2, <2>1
<1>5. 1 \in DOMAIN list
  BY <1>1
<1>6. Held(list) = {list[1]} \cup Held(rest)
  BY <1>3, <1>4, <1>5 DEF Held
<1>7. QED
  BY <1>1, <1>6 DEF rest

(* Two places of a list after a push or a pop: x and one that was there,   *)
(* or two that were.                                                       *)
Beside(x, list, new) ==
  \A i, j \in DOMAIN new : i < j =>
    \/ new[i] = x /\ new[j] \in Held(list)
    \/ \E k, l \in DOMAIN list : k < l /\ new[i] = list[k] /\ new[j] = list[l]

LEMMA PlacesPush ==
  ASSUME NEW S, NEW list \in Seq(S), NEW x \in S
  PROVE  Beside(x, list, <<x>> \o list)
<1> DEFINE new == <<x>> \o list
<1>1. DOMAIN new = 1 .. Len(list) + 1 /\ DOMAIN list = 1 .. Len(list) /\ Len(list) \in Nat
  OBVIOUS
<1>2. new[1] = x /\ \A m \in 2 .. Len(list) + 1 : new[m] = list[m - 1]
  OBVIOUS
<1> HIDE DEF new
<1>3. ASSUME NEW i \in DOMAIN new, NEW j \in DOMAIN new, i < j
      PROVE  \/ new[i] = x /\ new[j] \in Held(list)
             \/ \E k, l \in DOMAIN list : k < l /\ new[i] = list[k] /\ new[j] = list[l]
  <2>1. j \in 2 .. Len(list) + 1 /\ j - 1 \in DOMAIN list /\ new[j] = list[j - 1]
    BY <1>1, <1>2, <1>3
  <2>2. CASE i = 1
    BY <1>2, <2>1, <2>2 DEF Held
  <2>3. CASE i # 1
    <3>1. i \in 2 .. Len(list) + 1 /\ i - 1 \in DOMAIN list /\ i - 1 < j - 1
      BY <1>1, <1>3, <2>3
    <3>2. new[i] = list[i - 1]
      BY <1>2, <3>1
    <3>3. QED
      BY <2>1, <3>1, <3>2
  <2>4. QED
    BY <2>2, <2>3
<1>4. Beside(x, list, new)
  BY <1>3 DEF Beside
<1>5. QED
  BY <1>4 DEF new

Within(list, rest) ==
  \A i, j \in DOMAIN rest : i < j =>
    \E k, l \in DOMAIN list : k < l /\ rest[i] = list[k] /\ rest[j] = list[l]

Under(list, x, rest) ==
  \A y \in Held(rest) : \E k, l \in DOMAIN list : k < l /\ x = list[k] /\ y = list[l]

LEMMA PlacesPop ==
  ASSUME NEW S, NEW list \in Seq(S), list # <<>>
  PROVE  Within(list, Tail(list)) /\ Under(list, Head(list), Tail(list))
<1> DEFINE rest == Tail(list)
<1>1. /\ Head(list) = list[1] /\ DOMAIN rest = 1 .. Len(list) - 1
      /\ DOMAIN list = 1 .. Len(list) /\ Len(list) \in Nat /\ Len(list) > 0
  OBVIOUS
<1>2. \A i \in 1 .. Len(list) - 1 : rest[i] = list[i + 1]
  OBVIOUS
<1> HIDE DEF rest
<1>3. \A i \in DOMAIN rest : i + 1 \in DOMAIN list /\ rest[i] = list[i + 1] /\ 1 < i + 1
  BY <1>1, <1>2
<1>4. \A i, j \in DOMAIN rest : i < j => i + 1 < j + 1
  BY <1>1
<1>5. 1 \in DOMAIN list
  BY <1>1
<1>6. \A y \in Held(rest) : \E i \in DOMAIN rest : y = rest[i]
  BY DEF Held
<1>7. Within(list, rest)
  BY <1>3, <1>4 DEF Within
<1>8. Under(list, Head(list), rest)
  BY <1>1, <1>3, <1>5, <1>6 DEF Under
<1>9. QED
  BY <1>7, <1>8 DEF rest

LEMMA HeldAppend ==
  ASSUME NEW S, NEW list \in Seq(S), NEW x \in S
  PROVE  /\ Held(Append(list, x)) = Held(list) \cup {x}
         /\ Last(Append(list, x)) = x /\ Append(list, x) # <<>>
<1> DEFINE new == Append(list, x)
<1>1. DOMAIN new = 1 .. Len(list) + 1 /\ DOMAIN list = 1 .. Len(list) /\ Len(list) \in Nat
      /\ Len(new) = Len(list) + 1
  OBVIOUS
<1>2. new[Len(list) + 1] = x /\ \A i \in 1 .. Len(list) : new[i] = list[i]
  OBVIOUS
<1>3. Len(<<>>) = 0
  OBVIOUS
<1> HIDE DEF new
<1>4. Len(list) + 1 \in DOMAIN new /\ \A i \in DOMAIN new : i = Len(list) + 1 \/ i \in DOMAIN list
  BY <1>1
<1>5. \A i \in DOMAIN list : i \in DOMAIN new
  BY <1>1
<1>6. Held(new) = Held(list) \cup {x}
  BY <1>1, <1>2, <1>4, <1>5 DEF Held
<1>7. Last(new) = x /\ new # <<>>
  BY <1>1, <1>2, <1>3 DEF Last
<1>8. QED
  BY <1>6, <1>7 DEF new

LEMMA HeldEmpty == Held(<<>>) = {}
BY DEF Held

-----------------------------------------------------------------------------
(* What the steps of the loop do to the data of an execution.              *)

PopsTo(d, m) ==
  /\ d.stack # <<>> /\ m.stack = Tail(d.stack)
  /\ m.runData = d.runData /\ m.waiting = d.waiting /\ m.sources = d.sources

RunsTo(d, m, task) ==
  LET n == Head(d.stack).node
  IN  /\ d.stack # <<>> /\ m.stack = Tail(d.stack) /\ task.inputs = Head(d.stack).inputs
      /\ m.runData = [d.runData EXCEPT ![n] = Append(@, task)]
      /\ m.waiting = [d.waiting EXCEPT ![n] = task.outputs]
      /\ m.last = n /\ m.sources = d.sources

PushesTo(d, m, entry) ==
  /\ m.stack = <<entry>> \o d.stack
  /\ m.runData = d.runData /\ m.waiting = d.waiting /\ m.last = d.last

SkipsTo(d, m) ==
  /\ m.stack = d.stack
  /\ m.runData = d.runData /\ m.waiting = d.waiting /\ m.last = d.last

(* d holds what m does, but for the error.                                 *)
Copies(d, m) == SkipsTo(m, d) /\ d.sources = m.sources

Added(p) == [node |-> p.conn.dst, inputs |-> <<p.item>>]

(* Every input is one of the results a source of n left.                   *)
Gathered(d, entry) ==
  \A k \in DOMAIN entry.inputs : \E c \in Into(entry.node) :
    d.waiting[c.src] # None /\ entry.inputs[k] \in Held(d.waiting[c.src])

LEMMA PopShape ==
  ASSUME TypeInv, NEW e \in Exec, PopDisabled(e)
  PROVE  /\ Apart(e) /\ pc[e] = "loop" /\ pc'[e] = "loop" /\ pending[e] = {}
         /\ row'[e] = row[e] /\ PopsTo(mem[e], mem'[e]) /\ mem'[e].last = mem[e].last
         /\ Head(mem[e].stack).node \in Disabled
         /\ pending'[e] = PassedOn(Head(mem[e].stack).node, Head(mem[e].stack).inputs)
<1> DEFINE m == [mem[e] EXCEPT !.stack = Tail(@)]
<1>1. /\ mem[e].stack # <<>> /\ Head(mem[e].stack).node \in Disabled
      /\ AtPop(e) /\ UNCHANGED <<pc, row, ctx>> /\ mem' = [mem EXCEPT ![e] = m]
      /\ pending' = [pending EXCEPT ![e] =
                       PassedOn(Head(mem[e].stack).node, Head(mem[e].stack).inputs)]
  BY Variables DEF PopDisabled
<1>2. m.stack = Tail(mem[e].stack) /\ m.runData = mem[e].runData /\ m.last = mem[e].last
      /\ m.waiting = mem[e].waiting /\ m.sources = mem[e].sources
  BY MemType DEF RunExecutionData
<1> HIDE DEF m
<1>3. Apart(e) /\ mem'[e] = m /\ UNCHANGED <<pc[e], row[e]>>
      /\ pending'[e] = PassedOn(Head(mem[e].stack).node, Head(mem[e].stack).inputs)
  BY <1>1, Variables, MoreVariables DEF Apart
<1>4. QED
  BY <1>1, <1>2, <1>3 DEF PopsTo, AtPop

LEMMA RecordShape ==
  ASSUME TypeInv, NEW e \in Exec, AtPop(e), mem[e].stack # <<>>,
         NEW ok \in BOOLEAN, NEW outputs \in Seq(Item),
         Record(e, Head(mem[e].stack), ok, outputs), UNCHANGED ctx,
         NEW task, task = [ok |-> ok, inputs |-> Head(mem[e].stack).inputs, outputs |-> outputs]
  PROVE  /\ Apart(e) /\ RunsTo(mem[e], mem'[e], task) /\ task \in Task
         /\ pc'[e] = IF ok THEN "loop" ELSE "broken"
         /\ pending'[e] = IF ok THEN Successors(Head(mem[e].stack).node, outputs) ELSE {}
<1> DEFINE n == Head(mem[e].stack).node
           live == [mem[e] EXCEPT !.stack = Tail(@),
                                  !.waiting[n] = outputs,
                                  !.runData[n] = Append(@, task),
                                  !.error = @ \/ ~ok,
                                  !.last = n]
<1>1. n \in Node /\ task \in Task /\ task.inputs = Head(mem[e].stack).inputs
      /\ task.outputs = outputs
  BY TopType DEF Task
<1>2. /\ mem' = [mem EXCEPT ![e] = live]
      /\ \E r : row' = [row EXCEPT ![e] = r]
      /\ pc' = [pc EXCEPT ![e] = IF ok THEN "loop" ELSE "broken"]
      /\ pending' = [pending EXCEPT ![e] = IF ok THEN Successors(n, outputs) ELSE {}]
  BY DEF Record
<1>3. /\ live.stack = Tail(mem[e].stack) /\ live.last = n /\ live.sources = mem[e].sources
      /\ live.runData = [mem[e].runData EXCEPT ![n] = Append(@, task)]
      /\ live.waiting = [mem[e].waiting EXCEPT ![n] = outputs]
  BY <1>1, MemType DEF RunExecutionData
<1> HIDE DEF live
<1>4. Apart(e) /\ mem'[e] = live
      /\ pc'[e] = (IF ok THEN "loop" ELSE "broken")
      /\ pending'[e] = IF ok THEN Successors(n, outputs) ELSE {}
  BY <1>2, Variables, MoreVariables DEF Apart
<1>5. QED
  BY <1>1, <1>3, <1>4 DEF RunsTo

(* A save that works leaves the memory of the execution in its row.        *)
LEMMA RecordSaves ==
  ASSUME "db" \notin Faults, TypeInv, EngineInv, Checks, NEW e \in Exec,
         AtPop(e), mem[e].stack # <<>>, NEW ok \in BOOLEAN, NEW outputs \in Seq(Item),
         Record(e, Head(mem[e].stack), ok, outputs)
  PROVE  \/ row'[e] = row[e]
         \/ /\ row'[e] # None /\ ~row'[e].finished
            /\ row'[e].data # None /\ Copies(row'[e].data, mem'[e])
<1> DEFINE n == Head(mem[e].stack).node
           task == [ok |-> ok, inputs |-> Head(mem[e].stack).inputs, outputs |-> outputs]
           live == [mem[e] EXCEPT !.stack = Tail(@),
                                  !.waiting[n] = outputs,
                                  !.runData[n] = Append(@, task),
                                  !.error = @ \/ ~ok,
                                  !.last = n]
           old == IF row[e].data = None THEN FreshData ELSE row[e].data
           new == [live EXCEPT !.runData = [old.runData EXCEPT ![n] = Append(@, task)],
                               !.error = old.error,
                               !.last = n]
<1>1. n \in Node /\ task \in Task
  BY TopType DEF Task
<1>2. PICK outcome \in StoreOutcomes(e) :
        row' = [row EXCEPT ![e] = SaveProgress(@, outcome, n, task, live)]
  BY DEF Record
<1>3. mem' = [mem EXCEPT ![e] = live]
  BY DEF Record
<1>4. row'[e] = SaveProgress(row[e], outcome, n, task, live) /\ mem'[e] = live
  BY <1>2, <1>3, Variables
<1> HIDE DEF n, task
<1>5. live.runData = [mem[e].runData EXCEPT ![n] = Append(@, task)] /\ live.last = n
  BY <1>1, MemType DEF RunExecutionData
<1>6. live \in RunExecutionData
  <2>1. [mem[e].runData EXCEPT ![n] = Append(@, task)] \in [Node -> Seq(Task)]
    BY <1>1, MemType, RunDataExcept
  <2>2. [mem[e].waiting EXCEPT ![n] = outputs] \in [Node -> Seq(Item) \cup {None}]
    BY <1>1, MemType
  <2>3. Tail(mem[e].stack) \in Seq(Entry)
    BY MemType
  <2>4. QED
    BY <1>1, <2>1, <2>2, <2>3, MemType DEF RunExecutionData
<1> HIDE DEF live
<1>7. CASE outcome = "unreadable"
  BY <1>4, <1>7 DEF SaveProgress
<1>8. CASE outcome # "unreadable"
  <2>1. outcome = "both" /\ row[e] # None /\ ctx[e] # "cancelled"
    BY <1>2, <1>8 DEF StoreOutcomes
  <2>2. pc[e] = "loop" /\ row[e] \in Row /\ ~row[e].finished
    BY <2>1, DataType DEF AtPop, EngineInv, RowInv
  <2>3. row'[e] = [row[e] EXCEPT !.status = "running", !.data = new]
    BY <1>4, <2>1, <2>2 DEF SaveProgress
  <2>4. old.runData = mem[e].runData
    <3>1. Checkpoint(row[e], mem[e], pending[e])
      BY <2>1, <2>2 DEF Checks, CheckInv
    <3>2. QED
      BY <3>1 DEF Checkpoint, Same
  <2>5. old.error \in BOOLEAN
    BY <2>1, DataType, FreshDataType DEF RunExecutionData
  <2> HIDE DEF old
  <2>6. new \in RunExecutionData /\ Copies(new, live)
    <3>1. [old.runData EXCEPT ![n] = Append(@, task)] = live.runData
      BY <1>5, <2>4
    <3>2. QED
      BY <1>1, <1>5, <1>6, <2>5, <3>1 DEF RunExecutionData, Copies, SkipsTo
  <2> HIDE DEF new
  <2>7. row'[e].data = new /\ new # None /\ ~row'[e].finished /\ row'[e] # None
    <3>1. row'[e].data = new /\ ~row'[e].finished
      BY <2>2, <2>3 DEF Row
    <3>2. row'[e] \in Row
      BY <2>2, <2>3, <2>6 DEF Row
    <3>3. QED
      BY <2>6, <3>1, <3>2, NoneAssumption
  <2>8. QED
    BY <1>4, <2>6, <2>7
<1>9. QED
  BY <1>7, <1>8

LEMMA AddNodeShape ==
  ASSUME TypeInv, NEW e \in Exec, AddNodeToBeExecuted(e)
  PROVE  \E p \in NextToAdd(e) :
    /\ Apart(e) /\ pc[e] = "loop" /\ row'[e] = row[e] /\ p \in Pending
    /\ p \in pending[e] /\ pending'[e] = pending[e] \ {p}
    /\ \/ /\ SingleInput(p.conn.dst) /\ pc'[e] = "loop"
          /\ PushesTo(mem[e], mem'[e], Added(p)) /\ Added(p) \in Entry
          /\ mem'[e].sources = [mem[e].sources EXCEPT ![p.conn.dst] =
                                  <<[src |-> p.conn.src, out |-> p.out]>>]
       \/ /\ ~SingleInput(p.conn.dst) /\ pc'[e] = "loop"
          /\ \/ SkipsTo(mem[e], mem'[e])
             \/ \E entry \in Entry : /\ entry.node = p.conn.dst /\ Gathered(mem[e], entry)
                                     /\ PushesTo(mem[e], mem'[e], entry)
       \/ pc'[e] = "dead" /\ mem'[e] = FreshData
<1>1. PICK p \in NextToAdd(e) :
        /\ pending' = [pending EXCEPT ![e] = @ \ {p}]
        /\ IF SingleInput(p.conn.dst)
           THEN PushSingle(e, p)
           ELSE \E cs \in FirstConnections(p.conn.dst) : PushMulti(e, p.conn.dst, cs)
  BY DEF AddNodeToBeExecuted
<1>2. pc[e] = "loop" /\ UNCHANGED <<row, ctx>>
  BY DEF AddNodeToBeExecuted
<1> DEFINE n == p.conn.dst
<1>3. p \in pending[e] /\ p \in Pending /\ n \in Node /\ p.item \in Item
  <2>1. p \in pending[e] /\ p \in Pending
    BY DEF NextToAdd, TypeInv, TypeOK
  <2>2. QED
    BY <2>1, GraphAssumption DEF Pending
<1> SUFFICES
      /\ Apart(e)
      /\ \/ /\ SingleInput(n) /\ pc'[e] = "loop"
            /\ PushesTo(mem[e], mem'[e], Added(p)) /\ Added(p) \in Entry
            /\ mem'[e].sources = [mem[e].sources EXCEPT ![n] =
                                    <<[src |-> p.conn.src, out |-> p.out]>>]
         \/ /\ ~SingleInput(n) /\ pc'[e] = "loop"
            /\ \/ SkipsTo(mem[e], mem'[e])
               \/ \E entry \in Entry : /\ entry.node = n /\ Gathered(mem[e], entry)
                                       /\ PushesTo(mem[e], mem'[e], entry)
         \/ pc'[e] = "dead" /\ mem'[e] = FreshData
  BY <1>1, <1>2, <1>3, Variables, MoreVariables
<1>4. ASSUME NEW d, NEW to, mem' = [mem EXCEPT ![e] = d], pc' = [pc EXCEPT ![e] = to]
      PROVE  Apart(e) /\ mem'[e] = d /\ pc'[e] = to
  BY <1>1, <1>2, <1>4, Variables, MoreVariables DEF Apart
<1>5. ASSUME NEW d, mem' = [mem EXCEPT ![e] = d], UNCHANGED pc
      PROVE  Apart(e) /\ mem'[e] = d /\ pc'[e] = "loop"
  BY <1>1, <1>2, <1>5, Variables, MoreVariables DEF Apart
<1> HIDE DEF n
<1>6. ASSUME NEW entry, NEW sources, UNCHANGED pc,
             mem' = [mem EXCEPT ![e].stack = <<entry>> \o @, ![e].sources[n] = sources]
      PROVE  /\ Apart(e) /\ pc'[e] = "loop" /\ PushesTo(mem[e], mem'[e], entry)
             /\ mem'[e].sources = [mem[e].sources EXCEPT ![n] = sources]
  <2> DEFINE d == [mem[e] EXCEPT !.stack = <<entry>> \o @, !.sources[n] = sources]
  <2>1. mem' = [mem EXCEPT ![e] = d]
    BY <1>6, Variables
  <2>2. d.stack = <<entry>> \o mem[e].stack /\ d.runData = mem[e].runData
        /\ d.waiting = mem[e].waiting /\ d.last = mem[e].last
        /\ d.sources = [mem[e].sources EXCEPT ![n] = sources]
    BY MemType DEF RunExecutionData
  <2> HIDE DEF d
  <2>3. QED
    BY <1>5, <1>6, <2>1, <2>2 DEF PushesTo
<1>7. ASSUME NEW sources, mem' = [mem EXCEPT ![e].sources[n] = sources], UNCHANGED pc
      PROVE  Apart(e) /\ pc'[e] = "loop" /\ SkipsTo(mem[e], mem'[e])
  <2> DEFINE d == [mem[e] EXCEPT !.sources[n] = sources]
  <2>1. mem' = [mem EXCEPT ![e] = d]
    BY <1>7, Variables
  <2>2. d.stack = mem[e].stack /\ d.runData = mem[e].runData
        /\ d.waiting = mem[e].waiting /\ d.last = mem[e].last
    BY MemType DEF RunExecutionData
  <2> HIDE DEF d
  <2>3. QED
    BY <1>5, <1>7, <2>1, <2>2 DEF SkipsTo
<1>8. CASE SingleInput(n)
  <2>1. PushSingle(e, p)
    BY <1>1, <1>8 DEF n
  <2>2. Added(p) \in Entry
    BY <1>3 DEF Added, Entry, n
  <2>3. UNCHANGED pc /\
        mem' = [mem EXCEPT ![e].stack = <<Added(p)>> \o @,
                           ![e].sources[n] = <<[src |-> p.conn.src, out |-> p.out]>>]
    BY <2>1 DEF PushSingle, n, Added
  <2>4. QED
    BY <1>6, <1>8, <2>2, <2>3
<1>9. CASE ~SingleInput(n)
  <2>1. PICK cs \in FirstConnections(n) : PushMulti(e, n, cs)
    BY <1>1, <1>9 DEF n
  <2> DEFINE result(k) == mem[e].waiting[cs[k].src]
             inputs == [k \in DOMAIN cs |-> result(k)[cs[k].out + 1]]
             srcs(r) == [k \in 1 .. r |-> [src |-> cs[k].src, out |-> cs[k].out]]
             entry == [node |-> n, inputs |-> inputs]
  <2>2. PICK ready \in 0 .. Len(cs) :
          /\ \A k \in 1 .. ready : result(k) # None /\ cs[k].out < Len(result(k))
          /\ \/ /\ ready = Len(cs) /\ UNCHANGED pc
                /\ mem' = [mem EXCEPT ![e].stack = <<entry>> \o @,
                                      ![e].sources[n] = @ \o srcs(ready)]
             \/ mem' = [mem EXCEPT ![e].sources[n] = @ \o srcs(ready)] /\ UNCHANGED pc
             \/ Panic(e)
    BY <2>1 DEF PushMulti
  <2>3. CASE Panic(e)
    BY <1>4, <2>3 DEF Panic
  <2>4. CASE mem' = [mem EXCEPT ![e].sources[n] = @ \o srcs(ready)] /\ UNCHANGED pc
    <3>1. mem' = [mem EXCEPT ![e].sources[n] = mem[e].sources[n] \o srcs(ready)]
      BY <2>4, Variables
    <3>2. QED
      BY <1>7, <1>9, <2>4, <3>1
  <2>5. CASE /\ ready = Len(cs) /\ UNCHANGED pc
             /\ mem' = [mem EXCEPT ![e].stack = <<entry>> \o @,
                                   ![e].sources[n] = @ \o srcs(ready)]
    <3>1. cs \in Seq(Conn) /\ Len(cs) \in Nat /\ DOMAIN cs = 1 .. Len(cs)
          /\ \A k \in DOMAIN cs : cs[k] \in Into(n)
      <4>1. cs \in Seq(Conn) /\ n \in Node
        BY <1>3, <2>1, FirstConnectionsType DEF n
      <4>2. cs \in [1 .. Cardinality(ConnectedInputs(n)) -> Into(n)]
        BY DEF FirstConnections
      <4>3. \A k \in DOMAIN cs : cs[k] \in Into(n)
        BY <4>2
      <4>4. QED
        BY <4>1, <4>3
    <3>2. ASSUME NEW k \in DOMAIN cs
          PROVE  /\ cs[k] \in Into(n) /\ mem[e].waiting[cs[k].src] # None
                 /\ inputs[k] \in Held(mem[e].waiting[cs[k].src]) /\ inputs[k] \in Item
      <4> DEFINE w == mem[e].waiting[cs[k].src]
                 j == cs[k].out + 1
      <4>1. cs[k] \in Into(n) /\ cs[k].src \in Node /\ cs[k].out \in Nat
        BY <3>1, GraphAssumption DEF Into
      <4>2. w # None /\ cs[k].out < Len(w)
        BY <2>2, <2>5, <3>1
      <4>3. w \in Seq(Item)
        BY <4>1, <4>2, MemType
      <4>4. inputs[k] = w[j]
        OBVIOUS
      <4>5. j \in DOMAIN w
        BY <4>1, <4>2, <4>3
      <4> HIDE DEF w, j, inputs
      <4>6. w[j] \in Item /\ w[j] \in Held(w)
        BY <4>3, <4>5 DEF Held
      <4>7. QED
        BY <4>1, <4>2, <4>4, <4>6 DEF w
    <3>3. DOMAIN inputs = DOMAIN cs /\ inputs = [k \in 1 .. Len(cs) |-> inputs[k]]
      BY <3>1
    <3> HIDE DEF inputs
    <3>4. inputs \in Seq(Item)
      BY <3>1, <3>2, <3>3
    <3>5. entry \in Entry /\ entry.node = n /\ entry.inputs = inputs
      BY <1>3, <3>4 DEF Entry
    <3>6. mem' = [mem EXCEPT ![e].stack = <<entry>> \o @,
                             ![e].sources[n] = mem[e].sources[n] \o srcs(ready)]
      BY <2>5, Variables
    <3> HIDE DEF entry
    <3>7. Gathered(mem[e], entry)
      BY <3>2, <3>3, <3>5 DEF Gathered
    <3>8. QED
      BY <1>6, <1>9, <2>5, <3>5, <3>6, <3>7
  <2>6. QED
    BY <2>2, <2>3, <2>4, <2>5
<1>10. QED
  BY <1>8, <1>9

LEMMA BeginShape ==
  ASSUME TypeInv, NEW e \in Exec, NEW stack, NEW c, Begin(e, stack, c)
  PROVE  /\ Apart(e) /\ pc[e] = "idle" /\ pc'[e] = "loop" /\ pending'[e] = pending[e]
         /\ mem'[e] = [FreshData EXCEPT !.stack = stack]
         /\ mem'[e].stack = stack
         /\ mem'[e].runData = FreshData.runData /\ mem'[e].waiting = FreshData.waiting
         /\ mem'[e].sources = FreshData.sources
         /\ row'[e] = NewRow(None)
BY Variables, MoreVariables DEF Begin, Apart, FreshData

LEMMA FinishShape ==
  ASSUME "db" \notin Faults, TypeInv, NEW e \in Exec, Finish(e)
  PROVE  /\ Apart(e) /\ pending'[e] = pending[e]
         /\ \/ pc'[e] = "dead" /\ mem'[e] = FreshData /\ row'[e] = row[e]
            \/ /\ pc'[e] = "over" /\ mem'[e] = mem[e]
               /\ pc[e] = "broken" \/ (AtPop(e) /\ mem[e].stack = <<>>)
               /\ row[e] # None /\ ctx[e] # "cancelled" /\ row[e].data # None
               /\ \/ row'[e] = None
                  \/ /\ row'[e] # None /\ row'[e].finished = (pc[e] = "loop")
                     /\ row'[e].data # None /\ Copies(row'[e].data, row[e].data)
<1>1. /\ UNCHANGED <<pending, ctx>>
      /\ pc[e] = "broken" \/ (AtPop(e) /\ mem[e].stack = <<>>)
  BY DEF Finish
<1>2. CASE Panic(e) /\ UNCHANGED row
  BY <1>1, <1>2, Variables, MoreVariables DEF Apart, Panic
<1>3. ASSUME NEW outcome \in StoreOutcomes(e), outcome # "unreadable", row[e].data # None,
             pc' = [pc EXCEPT ![e] = "over"], UNCHANGED mem,
             row' = [row EXCEPT ![e] =
                SaveFinal(@, outcome, pc[e] = "loop", mem[e].error, e \in needDelete)]
      PROVE  /\ Apart(e) /\ pc'[e] = "over" /\ mem'[e] = mem[e]
             /\ row[e] # None /\ ctx[e] # "cancelled"
             /\ \/ row'[e] = None
                \/ /\ row'[e] # None /\ row'[e].finished = (pc[e] = "loop")
                   /\ row'[e].data # None /\ Copies(row'[e].data, row[e].data)
  <2>1. outcome = "both" /\ row[e] # None /\ ctx[e] # "cancelled"
    BY <1>3 DEF StoreOutcomes
  <2>2. row[e] \in Row /\ row[e].data \in RunExecutionData
    BY <1>3, <2>1, DataType
  <2> DEFINE finished == pc[e] = "loop"
             status == IF mem[e].error THEN "failed" ELSE "success"
             data == [row[e].data EXCEPT !.error = mem[e].error]
             final == [row[e] EXCEPT !.status = status, !.finished = finished, !.data = data]
  <2>3. row'[e] = SaveFinal(row[e], "both", finished, mem[e].error, e \in needDelete)
    BY <1>3, <2>1, Variables
  <2>4. row'[e] = None \/ row'[e] = final
    BY <2>3 DEF SaveFinal
  <2>5. mem[e].error \in BOOLEAN
    BY MemType DEF RunExecutionData
  <2>6. data \in RunExecutionData /\ Copies(data, row[e].data)
    BY <2>2, <2>5 DEF RunExecutionData, Copies, SkipsTo
  <2> HIDE DEF data
  <2>7. data # None
    BY <2>6, NoneAssumption
  <2>8. final.finished = finished /\ final.data = data
    BY <2>2 DEF Row
  <2>9. final # None
    <3>1. status \in {"failed", "success"} /\ finished \in BOOLEAN
      OBVIOUS
    <3> HIDE DEF status, finished
    <3>2. final \in Row
      BY <2>2, <2>6, <3>1 DEF Row
    <3>3. QED
      BY <3>2, NoneAssumption
  <2>10. Apart(e) /\ pc'[e] = "over" /\ mem'[e] = mem[e]
    BY <1>1, <1>3, Variables, MoreVariables DEF Apart
  <2> HIDE DEF final, finished
  <2>11. QED
    BY <2>1, <2>4, <2>6, <2>7, <2>8, <2>9, <2>10 DEF finished
<1>4. QED
  BY <1>1, <1>2, <1>3 DEF Finish

(* The new execution f of a retry.                                         *)
LEMMA RetryShape ==
  ASSUME TypeInv, TypeInv', NEW e \in Exec, NEW f \in Exec, Retry(e, f)
  PROVE  /\ Apart(f) /\ pc[f] = "idle" /\ pending'[f] = pending[f]
         /\ row[e] # None /\ row'[f] # None /\ ~row'[f].finished
         /\ \/ pc'[f] = "dead" /\ row'[f].data = None /\ mem'[f] = mem[f]
            \/ /\ pc'[f] = "loop" /\ row[e].data # None /\ row'[f].data # None
               /\ CanRebuild(row[e].data, row[e].data.last)
               /\ row'[f].data = RetryData(row[e].data)
               /\ mem'[f] = RetryData(row[e].data) /\ RetryData(row[e].data) \in RunExecutionData
<1>1. /\ UNCHANGED <<pending, ctx>> /\ pc[f] = "idle" /\ row[e] # None
      /\ \/ /\ row' = [row EXCEPT ![f] = NewRow(None)]
            /\ pc' = [pc EXCEPT ![f] = "dead"]
            /\ UNCHANGED mem
         \/ /\ row[e].data # None
            /\ CanRebuild(row[e].data, row[e].data.last)
            /\ row' = [row EXCEPT ![f] = NewRow(RetryData(row[e].data))]
            /\ pc' = [pc EXCEPT ![f] = "loop"]
            /\ mem' = [mem EXCEPT ![f] = RetryData(row[e].data)]
  BY DEF Retry
<1>2. ASSUME NEW d PROVE NewRow(d).data = d /\ ~NewRow(d).finished
  BY DEF NewRow
<1>3. CASE /\ row' = [row EXCEPT ![f] = NewRow(None)]
           /\ pc' = [pc EXCEPT ![f] = "dead"]
           /\ UNCHANGED mem
  <2>1. NewRow(None) \in Row
    BY DEF NewRow, Row
  <2>2. NewRow(None) # None
    BY <2>1, NoneAssumption
  <2>3. QED
    BY <1>1, <1>2, <1>3, <2>2, Variables, MoreVariables DEF Apart
<1>4. ASSUME row[e].data # None, CanRebuild(row[e].data, row[e].data.last),
             NEW d, d = RetryData(row[e].data), row' = [row EXCEPT ![f] = NewRow(d)],
             pc' = [pc EXCEPT ![f] = "loop"], mem' = [mem EXCEPT ![f] = d]
      PROVE  /\ Apart(f) /\ pc'[f] = "loop" /\ row'[f] = NewRow(d) /\ mem'[f] = d
             /\ d \in RunExecutionData /\ d # None /\ NewRow(d) # None
  <2>1. Apart(f) /\ pc'[f] = "loop" /\ row'[f] = NewRow(d) /\ mem'[f] = d
    BY <1>1, <1>4, Variables, MoreVariables DEF Apart
  <2>2. d \in RunExecutionData
    <3>1. mem'[f] \in RunExecutionData
      BY DEF TypeInv, TypeOK
    <3>2. QED
      BY <2>1, <3>1
  <2>3. NewRow(d) \in Row
    BY <2>2 DEF NewRow, Row
  <2>4. QED
    BY <2>1, <2>2, <2>3, NoneAssumption
<1>5. QED
  BY <1>1, <1>2, <1>3, <1>4, MoreVariables

-----------------------------------------------------------------------------
(* Siblings in canvas order.  What the stack needs to stay in order: the   *)
(* successors still to be added were pushed by a run that has pushed       *)
(* nothing before, for every entry names a run that was recorded; and what *)
(* a disabled node hands on names no run of its own.                       *)

(* An input that a disabled node leads to has no enabled source besides.   *)
NoBypass ==
  \A c, d \in Conn : (c.dst = d.dst /\ c.src \in Disabled) => d.src \in Disabled

Real(items) == \A k \in DOMAIN items : items[k].node \notin Disabled

(* The runs an entry was pushed by have been recorded.                     *)
Counted(d, entry) == \A r \in PushedBy(entry) : r[2] <= Len(d.runData[r[1]])

InOrder(x, y) == PushedBy(x) \cap PushedBy(y) # {} => Rank[x.node] <= Rank[y.node]

InLine(stack) == \A i, j \in DOMAIN stack : i < j => InOrder(stack[i], stack[j])

Queued(d, p) ==
  /\ p.item.node \notin Disabled /\ Counted(d, Added(p))
  /\ \A entry \in Held(d.stack) : InOrder(Added(p), entry)

Lined(d, todo) ==
  /\ InLine(d.stack)
  /\ \A entry \in Held(d.stack) : Real(entry.inputs) /\ Counted(d, entry)
  /\ \A n \in Node : d.waiting[n] # None => Real(d.waiting[n])
  /\ \A p \in todo : Queued(d, p)

OrderAt(e) ==
  /\ pc[e] = "idle" => pending[e] = {}
  /\ pc[e] = "loop" => Lined(mem[e], pending[e])
  /\ InLine(mem[e].stack)

OrderInv == \A e \in Exec : OrderAt(e)

LEMMA OneOrder ==
  ASSUME OrderInv, NEW e \in Exec, Apart(e), OrderAt(e)'
  PROVE  OrderInv'
<1>1. \A x \in Exec \ {e} : OrderAt(x)'
  BY DEF OrderInv, OrderAt, Apart
<1>2. QED
  BY <1>1 DEF OrderInv

(* The outputs of a run carry its number.                                  *)
LEMMA ResultsRun ==
  ASSUME NEW n \in Node, NEW inputs, NEW run
  PROVE  /\ \A outputs \in Results(n, inputs, run) : \A i \in DOMAIN outputs : outputs[i].run = run
         /\ \A i \in DOMAIN FailedOutputs(n, run) : FailedOutputs(n, run)[i].run = run
<1>1. ASSUME NEW shape PROVE \A i \in DOMAIN Outputs(n, run, shape) : Outputs(n, run, shape)[i].run = run
  BY DEF Outputs
<1>2. \A i \in DOMAIN <<>> : <<>>[i].run = run
  OBVIOUS
<1>3. QED
  BY <1>1, <1>2 DEF Results, FailedOutputs

(* Who pushed an entry of one input, and who one of several.               *)
LEMMA PushedByAdded ==
  ASSUME NEW p \in Pending
  PROVE  /\ PushedBy(Added(p)) \subseteq {<<p.item.node, p.item.run>>}
         /\ p.conn.src \in Disabled /\ p.item.node \notin Disabled /\ NoBypass =>
              PushedBy(Added(p)) = {}
<1>1. Added(p).node = p.conn.dst /\ Added(p).inputs = <<p.item>> /\ Added(p).inputs[1] = p.item
  BY DEF Added
<1>2. \A r \in PushedBy(Added(p)) : \E c \in Conn :
        c.dst = p.conn.dst /\ c.src = p.item.node /\ r = <<p.item.node, p.item.run>>
  BY <1>1 DEF PushedBy
<1>3. p.conn \in Conn
  BY DEF Pending
<1>4. QED
  BY <1>2, <1>3 DEF NoBypass

LEMMA PushedByMany ==
  ASSUME NEW entry, ~SingleInput(entry.node)
  PROVE  PushedBy(entry) = {}
BY DEF PushedBy

(* A stack from which the first entry was taken is in line.                *)
LEMMA InLineTail ==
  ASSUME NEW stack \in Seq(Entry), stack # <<>>, InLine(stack)
  PROVE  InLine(Tail(stack))
BY PlacesPop DEF Within, InLine

LEMMA LinedPop ==
  ASSUME NoBypass, NEW d \in RunExecutionData, NEW m \in RunExecutionData, PopsTo(d, m),
         Head(d.stack).node \in Disabled, Lined(d, {})
  PROVE  Lined(m, PassedOn(Head(d.stack).node, Head(d.stack).inputs))
<1> DEFINE top == Head(d.stack)
<1>1. d.stack \in Seq(Entry) /\ d.stack # <<>> /\ m.stack = Tail(d.stack)
  BY DEF PopsTo, RunExecutionData
<1>2. Held(d.stack) = {top} \cup Held(m.stack) /\ top \in Entry
  BY <1>1, HeldPop
<1>3. InLine(m.stack)
  BY <1>1, InLineTail DEF Lined
<1>4. \A entry \in Held(m.stack) : Real(entry.inputs) /\ Counted(m, entry)
  BY <1>2 DEF Lined, PopsTo, Counted
<1>5. ASSUME NEW p \in PassedOn(top.node, top.inputs) PROVE Queued(m, p)
  <2>1. top.node \in Node /\ top.inputs \in Seq(Item) /\ Real(top.inputs)
    BY <1>2 DEF Lined, Entry
  <2>2. p \in Pending
    BY <2>1, SuccessorsType
  <2>3. p.conn.src = top.node /\ p.conn.out < Len(top.inputs) /\ p.item = top.inputs[p.conn.out + 1]
    BY DEF PassedOn
  <2>4. p.conn.out \in Nat
    BY <2>2, GraphAssumption DEF Pending
  <2>5. p.item.node \notin Disabled
    <3>1. p.conn.out + 1 \in DOMAIN top.inputs
      BY <2>1, <2>3, <2>4
    <3>2. QED
      BY <2>1, <2>3, <3>1 DEF Real
  <2>6. PushedBy(Added(p)) = {}
    BY <2>2, <2>3, <2>5, PushedByAdded
  <2>7. QED
    BY <2>5, <2>6 DEF Queued, Counted, InOrder
<1>6. QED
  BY <1>3, <1>4, <1>5 DEF Lined, PopsTo

LEMMA LenAppend ==
  ASSUME NEW S, NEW list \in Seq(S), NEW x \in S
  PROVE  Len(Append(list, x)) = Len(list) + 1 /\ Len(list) \in Nat
OBVIOUS

LEMMA LinedRun ==
  ASSUME NEW d \in RunExecutionData, NEW m \in RunExecutionData, NEW task \in Task,
         RunsTo(d, m, task), Lined(d, {}), NEW n, n = Head(d.stack).node, n \notin Disabled,
         Own(n, task.outputs),
         \A i \in DOMAIN task.outputs : task.outputs[i].run = Len(d.runData[n]) + 1
  PROVE  Lined(m, Successors(n, task.outputs))
<1>1. d.stack \in Seq(Entry) /\ d.stack # <<>> /\ m.stack = Tail(d.stack)
  BY DEF RunsTo, RunExecutionData
<1>2. Held(m.stack) \subseteq Held(d.stack) /\ n \in Node
  <2>1. Held(d.stack) = {Head(d.stack)} \cup Held(m.stack) /\ Head(d.stack) \in Entry
    BY <1>1, HeldPop
  <2>2. QED
    BY <2>1 DEF Entry
<1>3. InLine(m.stack)
  BY <1>1, InLineTail DEF Lined
<1>4. m.runData = [d.runData EXCEPT ![n] = Append(@, task)]
      /\ m.waiting = [d.waiting EXCEPT ![n] = task.outputs]
      /\ d.runData \in [Node -> Seq(Task)]
      /\ d.waiting \in [Node -> Seq(Item) \cup {None}]
  BY DEF RunsTo, RunExecutionData
<1>5. /\ Len(m.runData[n]) = Len(d.runData[n]) + 1 /\ Len(d.runData[n]) \in Nat
      /\ \A x \in Node : Len(d.runData[x]) <= Len(m.runData[x]) /\ Len(d.runData[x]) \in Int
                         /\ Len(m.runData[x]) \in Int
  <2>1. ASSUME NEW x \in Node, x # n
        PROVE  m.runData[x] = d.runData[x] /\ Len(d.runData[x]) \in Nat
    BY <1>2, <1>4, <2>1
  <2>2. m.runData[n] = Append(d.runData[n], task) /\ d.runData[n] \in Seq(Task)
    BY <1>2, <1>4
  <2>3. Len(m.runData[n]) = Len(d.runData[n]) + 1 /\ Len(d.runData[n]) \in Nat
    <3>1. /\ Len(Append(d.runData[n], task)) = Len(d.runData[n]) + 1
          /\ Len(d.runData[n]) \in Nat
      BY <2>2, LenAppend
    <3>2. QED
      BY <2>2, <3>1
  <2>4. QED
    BY <2>1, <2>3
<1>6. ASSUME NEW entry \in Held(m.stack)
      PROVE  /\ Real(entry.inputs) /\ Counted(m, entry)
             /\ <<n, Len(d.runData[n]) + 1>> \notin PushedBy(entry)
  <2>1. Real(entry.inputs) /\ Counted(d, entry)
    BY <1>2 DEF Lined
  <2>2. ASSUME NEW r \in PushedBy(entry) PROVE r[2] \in Nat /\ r[1] \in Node /\ r[2] <= Len(m.runData[r[1]])
    <3>1. PICK c \in Conn : r = <<c.src, entry.inputs[1].run>> /\ entry.inputs # <<>>
      BY DEF PushedBy
    <3>2. entry \in Entry
      BY <1>1, <1>2, HeldPop DEF Held
    <3>3. entry.inputs[1] \in Item
      BY <3>1, <3>2 DEF Entry
    <3>4. r[1] = c.src /\ r[2] = entry.inputs[1].run
      BY <3>1
    <3>5. r[1] \in Node /\ r[2] \in Nat
      BY <3>3, <3>4, GraphAssumption DEF Item
    <3>6. r[2] <= Len(d.runData[r[1]])
      BY <2>1 DEF Counted
    <3>7. QED
      BY <1>5, <3>5, <3>6
  <2>3. <<n, Len(d.runData[n]) + 1>> \notin PushedBy(entry)
    <3> DEFINE r == <<n, Len(d.runData[n]) + 1>>
    <3>1. r[1] = n /\ r[2] = Len(d.runData[n]) + 1
      OBVIOUS
    <3> HIDE DEF r
    <3>2. r \notin PushedBy(entry)
      BY <1>5, <2>1, <3>1 DEF Counted
    <3>3. QED
      BY <3>2 DEF r
  <2>4. QED
    BY <2>1, <2>2, <2>3 DEF Counted
<1>7. ASSUME NEW x \in Node, m.waiting[x] # None PROVE Real(m.waiting[x])
  <2>1. CASE x = n
    <3>1. m.waiting[x] = task.outputs /\ task.outputs # None
      BY <1>2, <1>4, <1>7, <2>1
    <3>2. QED
      BY <3>1 DEF Own, Real
  <2>2. CASE x # n
    BY <1>4, <1>7, <2>2 DEF Lined
  <2>3. QED
    BY <2>1, <2>2
<1>8. ASSUME NEW p \in Successors(n, task.outputs) PROVE Queued(m, p)
  <2>1. task.outputs \in Seq(Item) /\ task.outputs # None
    BY NoneAssumption DEF Task
  <2>2. p \in Pending
    BY <1>2, <2>1, SuccessorsType
  <2>3. p.conn.src = n /\ p.conn.out < Len(task.outputs) /\ p.item = task.outputs[p.conn.out + 1]
    BY DEF Successors
  <2>4. p.conn.out + 1 \in DOMAIN task.outputs
    <3>1. p.conn.out \in Nat
      BY <2>2, GraphAssumption DEF Pending
    <3>2. QED
      BY <2>1, <2>3, <3>1
  <2>5. p.item.node = n /\ p.item.run = Len(d.runData[n]) + 1
    BY <2>1, <2>3, <2>4 DEF Own
  <2>6. PushedBy(Added(p)) \subseteq {<<n, Len(d.runData[n]) + 1>>}
    BY <2>2, <2>5, PushedByAdded
  <2>7. Counted(m, Added(p))
    <3>1. ASSUME NEW r \in PushedBy(Added(p)) PROVE r[2] <= Len(m.runData[r[1]])
      <4>1. r[1] = n /\ r[2] = Len(d.runData[n]) + 1
        BY <2>6
      <4>2. QED
        BY <1>5, <4>1
    <3>2. QED
      BY <3>1 DEF Counted
  <2>8. \A entry \in Held(m.stack) : InOrder(Added(p), entry)
    BY <1>6, <2>6 DEF InOrder
  <2>9. QED
    BY <2>5, <2>7, <2>8 DEF Queued
<1>9. QED
  BY <1>3, <1>6, <1>7, <1>8 DEF Lined

(* An entry pushed on the stack, before which the rest is to be added.     *)
LEMMA LinedPush ==
  ASSUME NEW d \in RunExecutionData, NEW m \in RunExecutionData, NEW entry \in Entry,
         NEW todo, NEW rest, rest \subseteq todo, Lined(d, todo), PushesTo(d, m, entry),
         Real(entry.inputs), Counted(d, entry),
         \A x \in Held(d.stack) : InOrder(entry, x),
         \A q \in rest : InOrder(Added(q), entry)
  PROVE  Lined(m, rest)
<1> DEFINE new == m.stack
<1>1. /\ d.stack \in Seq(Entry) /\ new = <<entry>> \o d.stack
      /\ m.runData = d.runData /\ m.waiting = d.waiting
  BY DEF PushesTo, RunExecutionData
<1> HIDE DEF new
<1>2. Held(new) = {entry} \cup Held(d.stack)
  BY <1>1, HeldPush
<1>3. Beside(entry, d.stack, <<entry>> \o d.stack)
  BY <1>1, PlacesPush
<1>4. InLine(m.stack)
  <2>1. Beside(entry, d.stack, new)
    BY <1>1, <1>3
  <2>2. QED
    BY <2>1 DEF Beside, InLine, Lined, new
<1>5. \A x \in Held(m.stack) : Real(x.inputs) /\ Counted(m, x)
  BY <1>1, <1>2 DEF Lined, Counted, new
<1>6. \A q \in rest : Queued(m, q)
  BY <1>1, <1>2 DEF Lined, Queued, Counted, new
<1>7. QED
  BY <1>1, <1>4, <1>5, <1>6 DEF Lined

LEMMA AddNodeOrder ==
  ASSUME TypeInv, TypeInv', OrderInv, NEW e \in Exec, AddNodeToBeExecuted(e)
  PROVE  OrderInv'
<1>1. PICK p \in NextToAdd(e) :
        /\ Apart(e) /\ pc[e] = "loop" /\ row'[e] = row[e] /\ p \in Pending
        /\ p \in pending[e] /\ pending'[e] = pending[e] \ {p}
        /\ \/ /\ SingleInput(p.conn.dst) /\ pc'[e] = "loop"
              /\ PushesTo(mem[e], mem'[e], Added(p)) /\ Added(p) \in Entry
           \/ /\ ~SingleInput(p.conn.dst) /\ pc'[e] = "loop"
              /\ \/ SkipsTo(mem[e], mem'[e])
                 \/ \E entry \in Entry : /\ entry.node = p.conn.dst /\ Gathered(mem[e], entry)
                                         /\ PushesTo(mem[e], mem'[e], entry)
           \/ pc'[e] = "dead" /\ mem'[e] = FreshData
  BY AddNodeShape
<1> DEFINE rest == pending[e] \ {p}
<1>2. Lined(mem[e], pending[e]) /\ rest \subseteq pending[e]
  BY <1>1 DEF OrderInv, OrderAt
<1>3. mem[e] \in RunExecutionData /\ mem'[e] \in RunExecutionData
  BY DEF TypeInv, TypeOK
<1>4. ASSUME pc'[e] = "loop", Lined(mem'[e], rest) PROVE OrderInv'
  <2>1. OrderAt(e)'
    BY <1>1, <1>4 DEF OrderAt, Lined
  <2>2. QED
    BY <1>1, <2>1, OneOrder
<1>5. CASE pc'[e] = "dead" /\ mem'[e] = FreshData
  <2>1. OrderAt(e)'
    BY <1>5 DEF OrderAt, InLine, FreshData
  <2>2. QED
    BY <1>1, <2>1, OneOrder
<1>6. CASE /\ SingleInput(p.conn.dst) /\ pc'[e] = "loop"
           /\ PushesTo(mem[e], mem'[e], Added(p)) /\ Added(p) \in Entry
  <2>1. Queued(mem[e], p)
    BY <1>1, <1>2 DEF Lined
  <2>2. Real(Added(p).inputs)
    BY <2>1 DEF Real, Queued, Added
  <2>3. \A q \in rest : InOrder(Added(q), Added(p))
    BY DEF NextToAdd, InOrder, Added
  <2>4. Lined(mem'[e], rest)
    BY <1>2, <1>3, <1>6, <2>1, <2>2, <2>3, LinedPush DEF Queued
  <2>5. QED
    BY <1>4, <1>6, <2>4
<1>7. CASE ~SingleInput(p.conn.dst) /\ pc'[e] = "loop" /\ SkipsTo(mem[e], mem'[e])
  <2>1. Lined(mem'[e], rest)
    BY <1>2, <1>7 DEF Lined, SkipsTo, Queued, Counted
  <2>2. QED
    BY <1>4, <1>7, <2>1
<1>8. ASSUME ~SingleInput(p.conn.dst), pc'[e] = "loop", NEW entry \in Entry,
             entry.node = p.conn.dst, Gathered(mem[e], entry), PushesTo(mem[e], mem'[e], entry)
      PROVE  OrderInv'
  <2>1. PushedBy(entry) = {}
    BY <1>8, PushedByMany
  <2>2. Real(entry.inputs)
    <3>1. ASSUME NEW k \in DOMAIN entry.inputs PROVE entry.inputs[k].node \notin Disabled
      <4>1. PICK c \in Into(entry.node) :
              mem[e].waiting[c.src] # None /\ entry.inputs[k] \in Held(mem[e].waiting[c.src])
        BY <1>8 DEF Gathered
      <4>2. c.src \in Node
        BY GraphAssumption DEF Into
      <4>3. QED
        BY <1>2, <4>1, <4>2 DEF Lined, Real, Held
    <3>2. QED
      BY <3>1 DEF Real
  <2>3. Counted(mem[e], entry) /\ (\A x : InOrder(entry, x) /\ InOrder(x, entry))
    BY <2>1 DEF Counted, InOrder
  <2>4. Lined(mem'[e], rest)
    BY <1>2, <1>3, <1>8, <2>2, <2>3, LinedPush
  <2>5. QED
    BY <1>4, <1>8, <2>4
<1>9. QED
  BY <1>1, <1>5, <1>6, <1>7, <1>8

LEMMA BeginOrder ==
  ASSUME TypeInv, OrderInv, NEW e \in Exec, StartAll(e) \/ \E n \in Webhooks : StartFrom(e, n)
  PROVE  OrderInv'
<1>1. PICK stack, c : /\ Begin(e, stack, c)
                      /\ \A i \in DOMAIN stack : stack[i].inputs = <<>>
  <2>1. CASE StartAll(e)
    <3> DEFINE stack == [i \in DOMAIN Starters |-> [node |-> Starters[i], inputs |-> <<>>]]
    <3>1. \A i \in DOMAIN stack : stack[i].inputs = <<>>
      OBVIOUS
    <3>2. QED
      BY <2>1, <3>1 DEF StartAll
  <2>2. ASSUME NEW n \in Webhooks, StartFrom(e, n)
        PROVE  \E stack, c : Begin(e, stack, c) /\ \A i \in DOMAIN stack : stack[i].inputs = <<>>
    <3> DEFINE stack == <<[node |-> n, inputs |-> <<>>]>>
    <3>1. \A i \in DOMAIN stack : stack[i].inputs = <<>>
      OBVIOUS
    <3>2. QED
      BY <2>2, <3>1 DEF StartFrom
  <2>3. QED
    BY <2>1, <2>2
<1>2. /\ Apart(e) /\ pc[e] = "idle" /\ pc'[e] = "loop" /\ pending'[e] = pending[e]
      /\ mem'[e].stack = stack /\ mem'[e].waiting = FreshData.waiting
  BY <1>1, BeginShape
<1>3. \A i \in DOMAIN stack : PushedBy(stack[i]) = {} /\ Real(stack[i].inputs)
  BY <1>1 DEF PushedBy, Real
<1>4. pending'[e] = {}
  BY <1>2 DEF OrderInv, OrderAt
<1>5. InLine(stack) /\ \A entry \in Held(stack) : Real(entry.inputs) /\ PushedBy(entry) = {}
  BY <1>3 DEF InLine, InOrder, Held
<1>6. Lined(mem'[e], {})
  BY <1>2, <1>5 DEF Lined, Counted, FreshData
<1>7. OrderAt(e)'
  BY <1>2, <1>4, <1>5, <1>6 DEF OrderAt
<1>8. QED
  BY <1>2, <1>7, OneOrder

LEMMA ExecuteOrder ==
  ASSUME TypeInv, TypeInv', OrderInv, NEW e \in Exec, ExecuteNode(e)
  PROVE  OrderInv'
<1> DEFINE top == Head(mem[e].stack)
           n == top.node
           run == Len(mem[e].runData[n]) + 1
<1>1. /\ AtPop(e) /\ mem[e].stack # <<>> /\ UNCHANGED ctx /\ n \notin Disabled
      /\ \/ \E outputs \in Results(n, top.inputs, run) : Record(e, top, TRUE, outputs)
         \/ Record(e, top, FALSE, FailedOutputs(n, run))
         \/ Panic(e) /\ UNCHANGED <<pending, row>>
  BY DEF ExecuteNode
<1>2. n \in Node /\ top.inputs \in Seq(Item) /\ run \in Nat
  <2>1. \A x \in Node : Len(mem[e].runData[x]) + 1 \in Nat
    BY MemType
  <2>2. QED
    BY <1>1, <2>1, TopType
<1>3. ASSUME NEW ok \in BOOLEAN, NEW outputs \in Seq(Item), Record(e, top, ok, outputs),
             Own(n, outputs), \A i \in DOMAIN outputs : outputs[i].run = run
      PROVE  OrderInv'
  <2> DEFINE task == [ok |-> ok, inputs |-> top.inputs, outputs |-> outputs]
  <2>1. task.outputs = outputs
    OBVIOUS
  <2> HIDE DEF task
  <2>2. /\ Apart(e) /\ RunsTo(mem[e], mem'[e], task) /\ task \in Task
        /\ pc'[e] = (IF ok THEN "loop" ELSE "broken")
        /\ pending'[e] = IF ok THEN Successors(n, outputs) ELSE {}
    BY <1>1, <1>3, RecordShape DEF task
  <2>3. Lined(mem[e], {})
    BY <1>1 DEF OrderInv, OrderAt, AtPop
  <2>4. mem[e] \in RunExecutionData /\ mem'[e] \in RunExecutionData
    BY DEF TypeInv, TypeOK
  <2>5. Lined(mem'[e], Successors(n, outputs))
    BY <1>1, <1>3, <2>1, <2>2, <2>3, <2>4, LinedRun
  <2>6. OrderAt(e)'
    BY <2>2, <2>5 DEF OrderAt, Lined
  <2>7. QED
    BY <2>2, <2>6, OneOrder
<1>4. ASSUME Panic(e), UNCHANGED <<pending, row>> PROVE OrderInv'
  <2>1. Apart(e) /\ pc'[e] = "dead" /\ mem'[e] = FreshData
    BY <1>1, <1>4, Variables DEF Panic, Apart
  <2>2. OrderAt(e)'
    BY <2>1 DEF OrderAt, InLine, FreshData
  <2>3. QED
    BY <2>1, <2>2, OneOrder
<1> HIDE DEF run, n, top
<1>5. ASSUME NEW outputs \in Results(n, top.inputs, run)
      PROVE  /\ outputs \in Seq(Item) /\ Own(n, outputs)
             /\ \A i \in DOMAIN outputs : outputs[i].run = run
  BY <1>2, ResultsType, ResultsOwn, ResultsRun
<1>6. LET outputs == FailedOutputs(n, run)
      IN  /\ outputs \in Seq(Item) /\ Own(n, outputs)
          /\ \A i \in DOMAIN outputs : outputs[i].run = run
  BY <1>2, ResultsType, ResultsOwn, ResultsRun
<1>7. QED
  BY <1>1, <1>3, <1>4, <1>5, <1>6

LEMMA StepOrder ==
  ASSUME "retry" \notin Faults, NoBypass, TypeInv, TypeInv', OrderInv, [Next]_vars
  PROVE  OrderInv'
<1>1. ASSUME NEW e \in Exec, StartAll(e) \/ \E n \in Webhooks : StartFrom(e, n)
      PROVE  OrderInv'
  BY <1>1, BeginOrder
<1>2. ASSUME NEW e \in Exec, PopDisabled(e) PROVE OrderInv'
  <2>1. /\ Apart(e) /\ pc[e] = "loop" /\ pc'[e] = "loop" /\ pending[e] = {}
        /\ PopsTo(mem[e], mem'[e]) /\ Head(mem[e].stack).node \in Disabled
        /\ pending'[e] = PassedOn(Head(mem[e].stack).node, Head(mem[e].stack).inputs)
    BY <1>2, PopShape
  <2>2. mem[e] \in RunExecutionData /\ mem'[e] \in RunExecutionData
    BY DEF TypeInv, TypeOK
  <2>3. Lined(mem'[e], pending'[e])
    BY <2>1, <2>2, LinedPop DEF OrderInv, OrderAt
  <2>4. OrderAt(e)'
    BY <2>1, <2>3 DEF OrderAt, Lined
  <2>5. QED
    BY <2>1, <2>4, OneOrder
<1>3. ASSUME NEW e \in Exec, Finish(e) PROVE OrderInv'
  <2>1. UNCHANGED pending /\ (UNCHANGED mem \/ mem' = [mem EXCEPT ![e] = FreshData])
        /\ (pc' = [pc EXCEPT ![e] = "dead"] \/ pc' = [pc EXCEPT ![e] = "over"])
    BY <1>3 DEF Finish, Panic
  <2>2. InLine(FreshData.stack)
    BY DEF FreshData, InLine
  <2>3. ASSUME NEW x \in Exec PROVE OrderAt(x)'
    BY <2>1, <2>2, Variables DEF OrderInv, OrderAt
  <2>4. QED
    BY <2>3 DEF OrderInv
<1>4. ASSUME NEW e \in Exec, Cancel(e) \/ DeleteRow(e) PROVE OrderInv'
  BY <1>4 DEF Cancel, DeleteRow, OrderInv, OrderAt
<1>5. CASE Crash
  <2>1. InLine(FreshData.stack)
    BY DEF FreshData, InLine
  <2>2. ASSUME NEW x \in Exec
        PROVE  /\ mem'[x].stack \in {mem[x].stack, FreshData.stack} /\ pending'[x] = {}
               /\ pc'[x] # "loop"
    BY <1>5 DEF Crash, Alive
  <2>3. QED
    BY <2>1, <2>2 DEF OrderInv, OrderAt
<1>6. CASE UNCHANGED vars
  BY <1>6 DEF vars, OrderInv, OrderAt
<1>7. ASSUME NEW e \in Exec, NEW f \in Exec, Retry(e, f) PROVE FALSE
  BY <1>7 DEF Retry
<1>8. QED
  BY <1>1, <1>2, <1>3, <1>4, <1>5, <1>6, <1>7, AddNodeOrder, ExecuteOrder DEF Next, Step

(* Of two nodes that wait on the stack because of the same run, the one    *)
(* nearer to the top left runs first, in every workflow in which no input  *)
(* has both a disabled and an enabled source, whatever fails around the    *)
(* execution.  A disabled node hands on what it got from further up, so    *)
(* next to an enabled source of the same run it would let a successor in   *)
(* at any place.                                                           *)
THEOREM SiblingsKeepOrder ==
  ASSUME "retry" \notin Faults, NoBypass
  PROVE  Spec => []SiblingsInCanvasOrder
<1>1. Init => OrderInv
  BY DEF Init, OrderInv, OrderAt, InLine, FreshData
<1>2. TypeInv /\ TypeInv' /\ OrderInv /\ [Next]_vars => OrderInv'
  BY StepOrder
<1>3. OrderInv => SiblingsInCanvasOrder
  BY DEF OrderInv, OrderAt, InLine, InOrder, SiblingsInCanvasOrder
<1>4. QED
  BY <1>1, <1>2, <1>3, TypeInvariant, PTL DEF Spec

-----------------------------------------------------------------------------
(* What a node of a forest waits for.  In a forest a node has one source,  *)
(* which is enabled, and is not behind itself.                             *)

(* The nodes behind n: the least set that holds the successors of n and    *)
(* those of its members.                                                   *)
Closed(S, n) == \A c \in Conn : c.src = n \/ c.src \in S => c.dst \in S
Desc(n) == {m \in Node : \A S \in SUBSET Node : Closed(S, n) => m \in S}

Forest ==
  /\ \A c, d \in Conn : c.dst = d.dst => c = d
  /\ \A c \in Conn : c.in = 0 /\ c.src \notin Disabled
  /\ \A n \in Range(Starters) \cup Webhooks : Into(n) = {}
  /\ \A n \in Node : n \notin Desc(n)

LEMMA DescClosed ==
  ASSUME NEW n, NEW c \in Conn, c.src = n \/ c.src \in Desc(n)
  PROVE  c.dst \in Desc(n)
<1>1. c.dst \in Node
  BY GraphAssumption
<1>2. ASSUME NEW S \in SUBSET Node, Closed(S, n) PROVE c.dst \in S
  <2>1. c.src = n \/ c.src \in S
    BY <1>2 DEF Desc
  <2>2. QED
    BY <1>2, <2>1 DEF Closed
<1>3. QED
  BY <1>1, <1>2 DEF Desc

(* What is behind a successor of n is behind n.                            *)
LEMMA DescOfChild ==
  ASSUME NEW n, NEW c \in Conn, c.src = n
  PROVE  Desc(c.dst) \subseteq Desc(n)
<1>1. Closed(Desc(n), n)
  BY DescClosed DEF Closed
<1>2. Closed(Desc(n), c.dst)
  BY <1>1, DescClosed DEF Closed
<1>3. Desc(n) \in SUBSET Node
  BY DEF Desc
<1>4. ASSUME NEW m \in Desc(c.dst) PROVE m \in Desc(n)
  BY <1>2, <1>3 DEF Desc
<1>5. QED
  BY <1>4

(* A node is behind n only by one of its sources.                          *)
LEMMA DescInto ==
  ASSUME NEW n, NEW m \in Desc(n)
  PROVE  \E c \in Into(m) : c.src = n \/ c.src \in Desc(n)
<1>1. SUFFICES ASSUME \A c \in Into(m) : c.src # n /\ c.src \notin Desc(n) PROVE FALSE
  OBVIOUS
<1> DEFINE S == Desc(n) \ {m}
<1>2. S \in SUBSET Node
  BY DEF Desc
<1>3. ASSUME NEW c \in Conn, c.src = n \/ c.src \in S PROVE c.dst \in S
  <2>1. c.dst \in Desc(n)
    BY <1>3, DescClosed
  <2>2. c.dst # m
    BY <1>1, <1>3 DEF Into
  <2>3. QED
    BY <2>1, <2>2
<1> HIDE DEF S
<1>4. Closed(S, n)
  BY <1>3 DEF Closed
<1>5. m \in S
  BY <1>2, <1>4 DEF Desc
<1>6. QED
  BY <1>5 DEF S

(* Neither of two successors of one node is behind the other.              *)
LEMMA Siblings ==
  ASSUME Forest, NEW c \in Conn, NEW d \in Conn, c.src = d.src
  PROVE  c.dst \notin Desc(d.dst)
<1>1. SUFFICES ASSUME c.dst \in Desc(d.dst) PROVE FALSE
  OBVIOUS
<1>2. PICK x \in Into(c.dst) : x.src = d.dst \/ x.src \in Desc(d.dst)
  BY <1>1, DescInto
<1>3. x = c
  BY <1>2 DEF Forest, Into
<1>4. c.src \in Desc(c.src)
  <2>1. CASE c.src = d.dst
    BY <2>1, DescClosed
  <2>2. CASE c.src \in Desc(d.dst)
    BY <2>2, DescOfChild
  <2>3. QED
    BY <1>2, <1>3, <2>1, <2>2
<1>5. c.src \in Node
  BY GraphAssumption
<1>6. QED
  BY <1>4, <1>5 DEF Forest

LEMMA ForestSources ==
  ASSUME Forest, NEW c \in Conn
  PROVE  /\ SingleInput(c.dst) /\ Into(c.dst) = {c} /\ c.src \notin Disabled
         /\ c.src \in Node /\ c.dst \in Node /\ c.out \in Nat
         /\ c.dst \in Desc(c.src) /\ c.dst # c.src
<1>1. Into(c.dst) = {c} /\ c.src \notin Disabled /\ c.in = 0
  BY DEF Forest, Into
<1>2. c.src \in Node /\ c.dst \in Node /\ c.out \in Nat
  BY GraphAssumption
<1>3. c.dst \in Desc(c.src)
  BY DescClosed
<1>4. QED
  BY <1>1, <1>2, <1>3 DEF Forest, SingleInput

-----------------------------------------------------------------------------
(* The retry of a node in a forest.  Where its input came from is written  *)
(* down when it is pushed and looked up when it is retried; between the    *)
(* two nothing may run that the input came from.  So the stack never holds *)
(* a node under one that is behind it.                                     *)

(* The result c leads from is there, and the source of c.dst says so.      *)
Linked(d, c) ==
  /\ d.sources[c.dst] = <<[src |-> c.src, out |-> c.out]>>
  /\ d.waiting[c.src] # None /\ c.out < Len(d.waiting[c.src])

Carries(d, c, inputs) == Linked(d, c) /\ inputs = <<d.waiting[c.src][c.out + 1]>>

NoneBelow(stack, n) == \A entry \in Held(stack) : entry.node \notin Desc(n)

Ordered(stack) == \A i, j \in DOMAIN stack : i < j => stack[j].node \notin Desc(stack[i].node)

Filled(d) == \A entry \in Held(d.stack) : \A c \in Into(entry.node) : Carries(d, c, entry.inputs)

Rooted(d) == \A n \in Node : Into(n) = {} => d.sources[n] = <<>>

Expected(d, p) ==
  /\ d.waiting[p.conn.src] # None /\ p.conn.out < Len(d.waiting[p.conn.src])
  /\ p.item = d.waiting[p.conn.src][p.conn.out + 1] /\ p.out = p.conn.out
  /\ p.conn.src = d.last
  /\ NoneBelow(d.stack, p.conn.dst)

Tidy(d, todo) ==
  Ordered(d.stack) /\ Filled(d) /\ Rooted(d) /\ \A p \in todo : Expected(d, p)

(* A node that failed did so on the input a retry rebuilds.                *)
Restartable(d) ==
  /\ d.last \in Node
  /\ Ordered(d.stack) /\ Filled(d) /\ Rooted(d) /\ NoneBelow(d.stack, d.last)
  /\ \A c \in Into(d.last) :
       /\ Linked(d, c)
       /\ (d.runData[d.last] # <<>> /\ ~Last(d.runData[d.last]).ok) =>
            Carries(d, c, Last(d.runData[d.last]).inputs)

RestartAt(e) ==
  /\ pc[e] = "loop" => Tidy(mem[e], pending[e])
  /\ Saved(e) => Restartable(row[e].data)

RestartInv == \A e \in Exec : RestartAt(e)

LEMMA OneRetry ==
  ASSUME RestartInv, NEW e \in Exec, Apart(e), RestartAt(e)'
  PROVE  RestartInv'
<1>1. \A x \in Exec \ {e} : RestartAt(x)'
  BY DEF RestartInv, RestartAt, Apart, Saved
<1>2. QED
  BY <1>1 DEF RestartInv

LEMMA CopyRestartable ==
  ASSUME NEW d, NEW m, Copies(d, m), Restartable(m)
  PROVE  Restartable(d)
BY DEF Copies, SkipsTo, Restartable, Filled, Rooted, Linked, Carries

LEMMA RebuiltLinked ==
  ASSUME NEW d, NEW c \in Conn, Linked(d, c)
  PROVE  Rebuilt(d, c.dst) = <<d.waiting[c.src][c.out + 1]>>
<1> DEFINE S == d.sources[c.dst]
<1>1. S = <<[src |-> c.src, out |-> c.out]>> /\ c.out \in Nat
  BY GraphAssumption DEF Linked
<1>2. d.waiting[c.src] \notin {None, <<>>}
  <2>1. d.waiting[c.src] # None /\ c.out < Len(d.waiting[c.src])
    BY DEF Linked
  <2>2. Len(<<>>) = 0
    OBVIOUS
  <2>3. QED
    BY <1>1, <2>1, <2>2
<1>3. Rebuilt(d, c.dst) =
        [k \in DOMAIN S |->
           IF d.waiting[S[k].src] \in {None, <<>>}
           THEN [kind |-> "empty", node |-> S[k].src, run |-> 0, out |-> S[k].out]
           ELSE d.waiting[S[k].src][S[k].out + 1]]
  BY DEF Rebuilt
<1> HIDE DEF S
<1>4. DOMAIN S = 1 .. 1 /\ \A k \in 1 .. 1 : S[k].src = c.src /\ S[k].out = c.out
  BY <1>1
<1>5. Rebuilt(d, c.dst) = [k \in 1 .. 1 |-> d.waiting[c.src][c.out + 1]]
  BY <1>2, <1>3, <1>4
<1>6. QED
  BY <1>5

LEMMA TidyPop ==
  ASSUME NEW d \in RunExecutionData, NEW m, PopsTo(d, m), Tidy(d, {})
  PROVE  Tidy(m, {})
<1> DEFINE rest == Tail(d.stack)
<1>1. d.stack \in Seq(Entry) /\ d.stack # <<>> /\ m.stack = rest
  BY DEF PopsTo, RunExecutionData
<1>2. Held(m.stack) \subseteq Held(d.stack)
  BY <1>1, HeldPop
<1>3. Within(d.stack, rest)
  BY <1>1, PlacesPop
<1> HIDE DEF rest
<1>4. Ordered(m.stack)
  BY <1>1, <1>3 DEF Tidy, Ordered, Within
<1>5. QED
  BY <1>2, <1>4 DEF Tidy, PopsTo, Filled, Rooted, Carries, Linked

(* The run of the node on top: what is behind it is not below it.          *)
LEMMA TidyRun ==
  ASSUME Forest, NEW d \in RunExecutionData, NEW m \in RunExecutionData, NEW task \in Task,
         RunsTo(d, m, task), Tidy(d, {})
  PROVE  Tidy(m, Successors(Head(d.stack).node, task.outputs)) /\ Restartable(m)
<1> DEFINE top == Head(d.stack)
           n == top.node
           rest == Tail(d.stack)
<1>1. d.stack \in Seq(Entry) /\ d.stack # <<>> /\ m.stack = rest /\ task.inputs = top.inputs
      /\ m.last = n /\ m.sources = d.sources
      /\ m.runData = [d.runData EXCEPT ![n] = Append(@, task)]
      /\ m.waiting = [d.waiting EXCEPT ![n] = task.outputs]
      /\ d.runData \in [Node -> Seq(Task)] /\ d.waiting \in [Node -> Seq(Item) \cup {None}]
  BY DEF RunsTo, RunExecutionData
<1>2. Held(d.stack) = {top} \cup Held(rest) /\ n \in Node
  <2>1. Held(d.stack) = {top} \cup Held(rest) /\ top \in Entry
    BY <1>1, HeldPop
  <2>2. QED
    BY <2>1 DEF Entry
<1>3. Within(d.stack, rest) /\ Under(d.stack, top, rest)
  BY <1>1, PlacesPop
<1>4. task.outputs \in Seq(Item) /\ task.outputs # None
  BY NoneAssumption DEF Task
<1>5. Last(m.runData[n]) = task
  <2>1. m.runData[n] = Append(d.runData[n], task) /\ d.runData[n] \in Seq(Task)
    BY <1>1, <1>2
  <2>2. QED
    BY <2>1, HeldAppend
<1>6. m.waiting[n] = task.outputs /\ \A x \in Node \ {n} : m.waiting[x] = d.waiting[x]
  BY <1>1, <1>2
<1> HIDE DEF rest, n, top
<1>7. Ordered(m.stack)
  BY <1>1, <1>3 DEF Tidy, Ordered, Within
<1>8. NoneBelow(m.stack, n)
  BY <1>1, <1>3 DEF Tidy, Ordered, NoneBelow, Under, n
<1>9. ASSUME NEW c \in Conn, c.src # n, NEW inputs, Carries(d, c, inputs)
       PROVE  Carries(m, c, inputs)
  BY <1>1, <1>6, <1>9, ForestSources DEF Carries, Linked
<1>10. Filled(m)
  <2>1. SUFFICES ASSUME NEW entry \in Held(m.stack), NEW c \in Into(entry.node)
                 PROVE  Carries(m, c, entry.inputs)
    BY DEF Filled
  <2>2. Carries(d, c, entry.inputs) /\ c \in Conn /\ c.dst = entry.node
    BY <1>1, <1>2 DEF Tidy, Filled, Into
  <2>3. c.src # n
    BY <1>8, <2>2, DescClosed DEF NoneBelow
  <2>4. QED
    BY <1>9, <2>2, <2>3
<1>11. Rooted(m)
  BY <1>1 DEF Tidy, Rooted
<1>12. ASSUME NEW p \in Successors(n, task.outputs) PROVE Expected(m, p)
  <2>1. p.conn \in Conn /\ p.conn.src = n /\ p.conn.out < Len(task.outputs)
        /\ p.item = task.outputs[p.conn.out + 1] /\ p.out = p.conn.out
    BY DEF Successors
  <2>2. NoneBelow(m.stack, p.conn.dst)
    BY <1>8, <2>1, DescOfChild DEF NoneBelow
  <2>3. QED
    BY <1>1, <1>4, <1>6, <2>1, <2>2 DEF Expected
<1>13. ASSUME NEW c \in Into(n) PROVE Carries(m, c, Last(m.runData[n]).inputs)
  <2>1. c \in Conn /\ c.dst = n /\ c.src # n
    BY ForestSources DEF Into
  <2>2. Carries(d, c, top.inputs)
    BY <1>2 DEF Tidy, Filled, n
  <2>3. QED
    BY <1>1, <1>5, <1>9, <2>1, <2>2
<1>14. Restartable(m)
  BY <1>1, <1>2, <1>7, <1>8, <1>10, <1>11, <1>13 DEF Restartable, Carries
<1>15. QED
  BY <1>7, <1>10, <1>11, <1>12, <1>14 DEF Tidy, n, top

(* A successor is pushed: it is not behind what else is to be pushed.      *)
LEMMA TidyPush ==
  ASSUME Forest, NEW d \in RunExecutionData, NEW m \in RunExecutionData,
         NEW todo \in SUBSET Pending, NEW p \in todo, Added(p) \in Entry,
         PushesTo(d, m, Added(p)), Tidy(d, todo),
         m.sources = [d.sources EXCEPT ![p.conn.dst] = <<[src |-> p.conn.src, out |-> p.out]>>]
  PROVE  Tidy(m, todo \ {p})
<1> DEFINE entry == Added(p)
           n == p.conn.dst
<1>1. /\ d.stack \in Seq(Entry) /\ m.stack = <<entry>> \o d.stack
      /\ m.waiting = d.waiting /\ m.last = d.last
      /\ d.sources \in [Node -> Seq(Source)]
  BY DEF PushesTo, RunExecutionData
<1>2. entry.node = n /\ entry.inputs = <<p.item>> /\ entry \in Entry
  BY DEF Added
<1>3. p.conn \in Conn /\ n \in Node /\ Into(n) = {p.conn}
  BY ForestSources DEF Pending
<1>4. m.sources[n] = <<[src |-> p.conn.src, out |-> p.out]>>
      /\ \A x \in Node \ {n} : m.sources[x] = d.sources[x]
  BY <1>1, <1>3
<1>5. Expected(d, p)
  BY DEF Tidy
<1> HIDE DEF entry, n
<1>6. Held(m.stack) = {entry} \cup Held(d.stack) /\ Beside(entry, d.stack, m.stack)
  <2>1. Held(<<entry>> \o d.stack) = {entry} \cup Held(d.stack)
        /\ Beside(entry, d.stack, <<entry>> \o d.stack)
    BY <1>1, <1>2, HeldPush, PlacesPush
  <2>2. QED
    BY <1>1, <2>1
<1>7. Ordered(m.stack)
  BY <1>2, <1>5, <1>6 DEF Beside, Ordered, Tidy, Expected, NoneBelow, n
<1>8. Carries(m, p.conn, entry.inputs)
  BY <1>1, <1>2, <1>4, <1>5 DEF Expected, Carries, Linked, n
<1>9. ASSUME NEW x \in Held(d.stack), NEW c \in Into(x.node) PROVE Carries(m, c, x.inputs)
  <2>1. Carries(d, c, x.inputs) /\ c \in Conn /\ c.dst \in Node
    BY ForestSources DEF Tidy, Filled, Into
  <2>2. m.sources[c.dst] = d.sources[c.dst]
    <3>1. CASE c.dst = n
      <4>1. c = p.conn
        BY <1>3, <2>1, <3>1 DEF Into
      <4>2. QED
        BY <1>4, <1>5, <2>1, <3>1, <4>1 DEF Carries, Linked, Expected
    <3>2. CASE c.dst # n
      BY <1>4, <2>1, <3>2
    <3>3. QED
      BY <3>1, <3>2
  <2>3. QED
    BY <1>1, <2>1, <2>2 DEF Carries, Linked
<1>10. Filled(m)
  BY <1>2, <1>3, <1>6, <1>8, <1>9 DEF Filled
<1>11. Rooted(m)
  BY <1>3, <1>4 DEF Rooted, Tidy
<1>12. ASSUME NEW q \in todo \ {p} PROVE Expected(m, q)
  <2>1. Expected(d, q) /\ q.conn \in Conn
    BY DEF Tidy, Pending
  <2>2. n \notin Desc(q.conn.dst)
    BY <1>3, <1>5, <2>1, Siblings DEF Expected, n
  <2>3. QED
    BY <1>1, <1>2, <1>6, <2>1, <2>2 DEF Expected, NoneBelow
<1>13. QED
  BY <1>7, <1>10, <1>11, <1>12 DEF Tidy

(* The data a retry starts from: the restarted node, back on top, carries  *)
(* its input again.                                                        *)
LEMMA TidyRetry ==
  ASSUME Forest, NEW d \in RunExecutionData, Restartable(d), CanRebuild(d, d.last),
         OnlyLastFailed(d), RetryData(d) \in RunExecutionData
  PROVE  Tidy(RetryData(d), {}) /\ Restartable(RetryData(d))
<1> DEFINE m == RetryData(d)
           n == d.last
           entry == [node |-> n, inputs |-> Rebuilt(d, n)]
<1>1. n \in Node /\ d.stack \in Seq(Entry)
  BY DEF Restartable, RunExecutionData
<1>2. entry \in Entry /\ entry.node = n /\ entry.inputs = Rebuilt(d, n)
  BY <1>1, RebuiltType DEF Entry
<1>3. m.stack = <<entry>> \o d.stack /\ m.waiting = d.waiting /\ m.sources = d.sources
      /\ m.last = n /\ m.runData[n] \in Seq(Task)
  <2>1. m.stack = <<entry>> \o d.stack /\ m.waiting = d.waiting /\ m.sources = d.sources
        /\ m.last = n
    BY DEF RetryData, RunExecutionData
  <2>2. m.runData[n] \in Seq(Task)
    BY <1>1 DEF RunExecutionData
  <2>3. QED
    BY <2>1, <2>2
<1>4. AllOk(m)
  BY <1>1, RetryDataClean
<1> HIDE DEF m, entry, n
<1>5. Held(m.stack) = {entry} \cup Held(d.stack) /\ Beside(entry, d.stack, m.stack)
  <2>1. Held(<<entry>> \o d.stack) = {entry} \cup Held(d.stack)
        /\ Beside(entry, d.stack, <<entry>> \o d.stack)
    BY <1>1, <1>2, HeldPush, PlacesPush
  <2>2. QED
    BY <1>3, <2>1
<1>6. Ordered(m.stack) /\ NoneBelow(m.stack, n)
  <2>1. n \notin Desc(n)
    BY <1>1 DEF Forest
  <2>2. NoneBelow(d.stack, n) /\ Ordered(d.stack)
    BY DEF Restartable, n
  <2>3. QED
    BY <1>2, <1>5, <2>1, <2>2 DEF Beside, Ordered, NoneBelow
<1>7. ASSUME NEW c \in Into(n) PROVE Carries(m, c, entry.inputs)
  <2>1. Linked(d, c) /\ c \in Conn /\ c.dst = n
    BY DEF Restartable, Into, n
  <2>2. Rebuilt(d, n) = <<d.waiting[c.src][c.out + 1]>>
    BY <2>1, RebuiltLinked
  <2>3. QED
    BY <1>2, <1>3, <2>1, <2>2 DEF Carries, Linked
<1>8. Filled(m)
  <2>1. ASSUME NEW x \in Held(d.stack), NEW c \in Into(x.node) PROVE Carries(m, c, x.inputs)
    BY <1>3 DEF Filled, Restartable, Carries, Linked
  <2>2. QED
    BY <1>2, <1>5, <1>7, <2>1 DEF Filled
<1>9. Rooted(m)
  BY <1>3 DEF Rooted, Restartable
<1>10. m.runData[n] # <<>> => Last(m.runData[n]).ok
  <2>1. ASSUME m.runData[n] # <<>> PROVE Len(m.runData[n]) \in DOMAIN m.runData[n]
    BY <1>3, <2>1
  <2>2. QED
    BY <1>1, <1>4, <2>1 DEF AllOk, Last
<1>11. QED
  BY <1>1, <1>3, <1>6, <1>7, <1>8, <1>9, <1>10 DEF Tidy, Restartable, Carries, m

(* The steps of the engine.                                                *)
LEMMA FreshTidy ==
  ASSUME Forest, NEW d, NEW S \in SUBSET Node, \A n \in S : Into(n) = {},
         \A i \in DOMAIN d.stack : d.stack[i].node \in S, d.sources = FreshData.sources
  PROVE  Tidy(d, {})
<1>1. \A n : \A m \in S : m \notin Desc(n)
  BY DescInto
<1>2. Ordered(d.stack)
  BY <1>1 DEF Ordered
<1>3. Filled(d)
  BY DEF Filled, Held
<1>4. Rooted(d)
  BY DEF Rooted, FreshData
<1>5. QED
  BY <1>2, <1>3, <1>4 DEF Tidy

LEMMA BeginRetry ==
  ASSUME Forest, TypeInv, Checks, RestartInv, NEW e \in Exec,
         StartAll(e) \/ \E n \in Webhooks : StartFrom(e, n)
  PROVE  RestartInv'
<1> DEFINE S == Range(Starters) \cup Webhooks
<1>1. PICK stack, c : Begin(e, stack, c) /\ \A i \in DOMAIN stack : stack[i].node \in S
  <2>1. CASE StartAll(e)
    <3> DEFINE stack == [i \in DOMAIN Starters |-> [node |-> Starters[i], inputs |-> <<>>]]
    <3>1. \A i \in DOMAIN stack : stack[i].node \in S
      BY DEF Range
    <3>2. QED
      BY <2>1, <3>1 DEF StartAll
  <2>2. ASSUME NEW n \in Webhooks, StartFrom(e, n)
        PROVE  \E stack, c : Begin(e, stack, c) /\ \A i \in DOMAIN stack : stack[i].node \in S
    <3> DEFINE stack == <<[node |-> n, inputs |-> <<>>]>>
    <3>1. \A i \in DOMAIN stack : stack[i].node \in S
      OBVIOUS
    <3>2. QED
      BY <2>2, <3>1 DEF StartFrom
  <2>3. QED
    BY <2>1, <2>2
<1>2. /\ Apart(e) /\ pc[e] = "idle" /\ pc'[e] = "loop" /\ pending'[e] = pending[e]
      /\ mem'[e].stack = stack /\ mem'[e].sources = FreshData.sources
      /\ row'[e].data = None
  <2>1. NewRow(None).data = None
    BY DEF NewRow
  <2>2. QED
    BY <1>1, <2>1, BeginShape
<1>3. pending'[e] = {}
  BY <1>2 DEF Checks, CheckInv
<1>4. S \in SUBSET Node /\ \A n \in S : Into(n) = {}
  BY GraphAssumption DEF Forest, Range
<1>5. Tidy(mem'[e], {})
  BY <1>1, <1>2, <1>4, FreshTidy
<1>6. RestartAt(e)'
  BY <1>2, <1>3, <1>5 DEF RestartAt, Saved
<1>7. QED
  BY <1>2, <1>6, OneRetry

LEMMA ExecuteRetry ==
  ASSUME "db" \notin Faults, Forest, TypeInv, TypeInv', EngineInv, Checks, RestartInv,
         NEW e \in Exec, ExecuteNode(e)
  PROVE  RestartInv'
<1> DEFINE top == Head(mem[e].stack)
           n == top.node
           run == Len(mem[e].runData[n]) + 1
<1>1. /\ AtPop(e) /\ mem[e].stack # <<>> /\ UNCHANGED ctx
      /\ \/ \E outputs \in Results(n, top.inputs, run) : Record(e, top, TRUE, outputs)
         \/ Record(e, top, FALSE, FailedOutputs(n, run))
         \/ Panic(e) /\ UNCHANGED <<pending, row>>
  BY DEF ExecuteNode
<1>2. n \in Node /\ top.inputs \in Seq(Item) /\ run \in Nat
  <2>1. \A x \in Node : Len(mem[e].runData[x]) + 1 \in Nat
    BY MemType
  <2>2. QED
    BY <1>1, <2>1, TopType
<1>3. ASSUME NEW ok \in BOOLEAN, NEW outputs \in Seq(Item), Record(e, top, ok, outputs)
      PROVE  RestartInv'
  <2> DEFINE task == [ok |-> ok, inputs |-> top.inputs, outputs |-> outputs]
  <2>1. task.outputs = outputs
    OBVIOUS
  <2> HIDE DEF task
  <2>2. /\ Apart(e) /\ RunsTo(mem[e], mem'[e], task) /\ task \in Task
        /\ pc'[e] = (IF ok THEN "loop" ELSE "broken")
        /\ pending'[e] = IF ok THEN Successors(n, outputs) ELSE {}
    BY <1>1, <1>3, RecordShape DEF task
  <2>3. Tidy(mem[e], {})
    BY <1>1 DEF RestartInv, RestartAt, AtPop
  <2>4. mem[e] \in RunExecutionData /\ mem'[e] \in RunExecutionData
    BY DEF TypeInv, TypeOK
  <2>5. Tidy(mem'[e], Successors(n, outputs)) /\ Restartable(mem'[e])
    BY <2>1, <2>2, <2>3, <2>4, TidyRun
  <2>6. row'[e] = row[e] \/ (row'[e].data # None /\ Copies(row'[e].data, mem'[e]))
    BY <1>1, <1>3, RecordSaves
  <2>7. RestartAt(e)'
    BY <2>2, <2>5, <2>6, CopyRestartable DEF RestartInv, RestartAt, Saved
  <2>8. QED
    BY <2>2, <2>7, OneRetry
<1>4. ASSUME Panic(e), UNCHANGED <<pending, row>> PROVE RestartInv'
  <2>1. Apart(e) /\ pc'[e] = "dead" /\ row'[e] = row[e]
    BY <1>1, <1>4, Variables DEF Panic, Apart
  <2>2. RestartAt(e)'
    BY <2>1 DEF RestartInv, RestartAt, Saved
  <2>3. QED
    BY <2>1, <2>2, OneRetry
<1> HIDE DEF run, n, top
<1>5. QED
  BY <1>1, <1>2, <1>3, <1>4, ResultsType

LEMMA AddNodeRetry ==
  ASSUME Forest, TypeInv, TypeInv', RestartInv, NEW e \in Exec, AddNodeToBeExecuted(e)
  PROVE  RestartInv'
<1>1. PICK p \in NextToAdd(e) :
        /\ Apart(e) /\ pc[e] = "loop" /\ row'[e] = row[e] /\ p \in Pending
        /\ p \in pending[e] /\ pending'[e] = pending[e] \ {p}
        /\ \/ /\ SingleInput(p.conn.dst) /\ pc'[e] = "loop"
              /\ PushesTo(mem[e], mem'[e], Added(p)) /\ Added(p) \in Entry
              /\ mem'[e].sources = [mem[e].sources EXCEPT ![p.conn.dst] =
                                      <<[src |-> p.conn.src, out |-> p.out]>>]
           \/ ~SingleInput(p.conn.dst)
           \/ pc'[e] = "dead"
  BY AddNodeShape
<1>2. SingleInput(p.conn.dst)
  BY <1>1, ForestSources DEF Pending
<1>3. mem[e] \in RunExecutionData /\ mem'[e] \in RunExecutionData /\ pending[e] \in SUBSET Pending
  BY DEF TypeInv, TypeOK
<1>4. ASSUME pc'[e] = "loop" PROVE Tidy(mem'[e], pending'[e])
  BY <1>1, <1>2, <1>3, <1>4, TidyPush DEF RestartInv, RestartAt
<1>5. RestartAt(e)'
  BY <1>1, <1>4 DEF RestartInv, RestartAt, Saved
<1>6. QED
  BY <1>1, <1>5, OneRetry

LEMMA FinishRetry ==
  ASSUME "db" \notin Faults, TypeInv, RestartInv, NEW e \in Exec, Finish(e)
  PROVE  RestartInv'
<1>1. /\ Apart(e) /\ pc'[e] # "loop"
      /\ \/ row'[e] = row[e]
         \/ row'[e] = None
         \/ row[e] # None /\ row[e].data # None /\ Copies(row'[e].data, row[e].data)
  BY FinishShape
<1>2. RestartAt(e)'
  BY <1>1, CopyRestartable DEF RestartInv, RestartAt, Saved
<1>3. QED
  BY <1>1, <1>2, OneRetry

LEMMA RetryRetry ==
  ASSUME Forest, TypeInv, TypeInv', EngineInv, Checks, RestartInv,
         NEW e \in Exec, NEW f \in Exec, Retry(e, f)
  PROVE  RestartInv'
<1>1. /\ Apart(f) /\ pc[f] = "idle" /\ pending'[f] = pending[f] /\ row[e] # None
      /\ \/ pc'[f] = "dead" /\ row'[f].data = None
         \/ /\ row[e].data # None
            /\ CanRebuild(row[e].data, row[e].data.last)
            /\ row'[f].data = RetryData(row[e].data)
            /\ mem'[f] = RetryData(row[e].data) /\ RetryData(row[e].data) \in RunExecutionData
  BY RetryShape
<1>2. CASE pc'[f] = "dead" /\ row'[f].data = None
  <2>1. RestartAt(f)'
    BY <1>2 DEF RestartAt, Saved
  <2>2. QED
    BY <1>1, <2>1, OneRetry
<1>3. CASE /\ row[e].data # None
           /\ CanRebuild(row[e].data, row[e].data.last)
           /\ row'[f].data = RetryData(row[e].data)
           /\ mem'[f] = RetryData(row[e].data) /\ RetryData(row[e].data) \in RunExecutionData
  <2> DEFINE d == row[e].data
  <2>1. d \in RunExecutionData /\ Restartable(d) /\ OnlyLastFailed(d)
    BY <1>1, <1>3, DataType DEF RestartInv, RestartAt, Saved, EngineInv, RowInv
  <2> HIDE DEF d
  <2>2. Tidy(RetryData(d), {}) /\ Restartable(RetryData(d))
    BY <1>3, <2>1, TidyRetry DEF d
  <2>3. pending'[f] = {}
    BY <1>1 DEF Checks, CheckInv
  <2>4. RestartAt(f)'
    BY <1>3, <2>2, <2>3 DEF RestartAt, d
  <2>5. QED
    BY <1>1, <2>4, OneRetry
<1>4. QED
  BY <1>1, <1>2, <1>3

LEMMA StepRetry ==
  ASSUME "db" \notin Faults, Forest, TypeInv, TypeInv', EngineInv, Checks, RestartInv, [Next]_vars
  PROVE  RestartInv'
<1>1. ASSUME NEW e \in Exec, StartAll(e) \/ \E n \in Webhooks : StartFrom(e, n)
      PROVE  RestartInv'
  BY <1>1, BeginRetry
<1>2. ASSUME NEW e \in Exec, PopDisabled(e) PROVE RestartInv'
  <2> DEFINE top == Head(mem[e].stack)
  <2>1. /\ Apart(e) /\ pc[e] = "loop" /\ pc'[e] = "loop" /\ pending[e] = {}
        /\ row'[e] = row[e] /\ PopsTo(mem[e], mem'[e]) /\ top.node \in Disabled
        /\ pending'[e] = PassedOn(top.node, top.inputs)
    BY <1>2, PopShape
  <2>2. pending'[e] = {}
    BY <2>1, ForestSources DEF PassedOn
  <2>3. mem[e] \in RunExecutionData
    BY DEF TypeInv, TypeOK
  <2>4. Tidy(mem'[e], {})
    BY <2>1, <2>3, TidyPop DEF RestartInv, RestartAt
  <2>5. RestartAt(e)'
    BY <2>1, <2>2, <2>4 DEF RestartInv, RestartAt, Saved
  <2>6. QED
    BY <2>1, <2>5, OneRetry
<1>3. ASSUME NEW e \in Exec, ExecuteNode(e) \/ AddNodeToBeExecuted(e) \/ Finish(e)
      PROVE  RestartInv'
  BY <1>3, ExecuteRetry, AddNodeRetry, FinishRetry
<1>4. ASSUME NEW e \in Exec, Cancel(e) PROVE RestartInv'
  BY <1>4 DEF Cancel, RestartInv, RestartAt, Saved
<1>5. ASSUME NEW e \in Exec, DeleteRow(e) PROVE RestartInv'
  <2>1. UNCHANGED <<pc, mem, pending>>
        /\ \A x \in Exec : row'[x] = row[x] \/ row'[x] = None
    BY <1>5, Variables DEF DeleteRow
  <2>2. QED
    BY <2>1 DEF RestartInv, RestartAt, Saved
<1>6. CASE Crash
  <2>1. \A x \in Exec : pc'[x] # "loop" /\ row'[x] = row[x]
    BY <1>6 DEF Crash, Alive
  <2>2. QED
    BY <2>1 DEF RestartInv, RestartAt, Saved
<1>7. CASE UNCHANGED vars
  BY <1>7 DEF vars, RestartInv, RestartAt, Saved
<1>8. QED
  BY <1>1, <1>2, <1>3, <1>4, <1>5, <1>6, <1>7, RetryRetry DEF Next, Step

LEMMA RestartInvariant ==
  ASSUME "db" \notin Faults, Forest
  PROVE  Spec => []RestartInv
<1>1. Init => RestartInv
  BY DEF Init, RestartInv, RestartAt, Saved
<1>2. TypeInv /\ TypeInv' /\ EngineInv /\ Checks /\ RestartInv /\ [Next]_vars => RestartInv'
  BY StepRetry
<1>3. QED
  BY <1>1, <1>2, TypeInvariant, EngineInvariant, CheckInvariant, PTL DEF Spec

(* Where a retry can start it gives the failed node the very input it      *)
(* failed on, in every workflow that is a forest without a disabled inner  *)
(* node, after any number of retries of retries, crashes, cancels and      *)
(* deletions, as long as the saves work.                                   *)
THEOREM RetriesRestoreInput ==
  ASSUME "db" \notin Faults, Forest
  PROVE  Spec => []RetryRestoresInput
<1>1. TypeInv /\ RestartInv => RetryRestoresInput
  <2>1. SUFFICES ASSUME RestartInv, NEW e \in Exec, Saved(e),
                        NEW d, d = row[e].data, NEW tasks, tasks = d.runData[d.last],
                        tasks # <<>>, ~Last(tasks).ok, CanRebuild(d, d.last)
                 PROVE  Rebuilt(d, d.last) = Last(tasks).inputs
    BY DEF RetryRestoresInput
  <2>2. Restartable(d)
    BY <2>1 DEF RestartInv, RestartAt
  <2>3. Into(d.last) # {}
    BY <2>1, <2>2 DEF CanRebuild, Restartable, Rooted
  <2>4. PICK c \in Into(d.last) : Carries(d, c, Last(tasks).inputs)
    BY <2>1, <2>2, <2>3 DEF Restartable
  <2>5. c \in Conn /\ c.dst = d.last
    BY DEF Into
  <2>6. QED
    BY <2>4, <2>5, RebuiltLinked DEF Carries
<1>2. QED
  BY <1>1, TypeInvariant, RestartInvariant, PTL

-----------------------------------------------------------------------------
(* Nothing is lost.  What the latest run of a node put out is in the       *)
(* waiting map, unless the node is to run again; and what is in the        *)
(* waiting map has been consumed, lies on the stack or is about to be      *)
(* added.  In a row the two may fail for the node that was saved last:     *)
(* `redo`, which a retry starts from.                                      *)

OnStack(d, n) == \E entry \in Held(d.stack) : entry.node = n

HasOutput(outputs, c) ==
  outputs # None /\ c.out < Len(outputs) /\ outputs[c.out + 1].kind # "nil"

(* The connections NothingLost is about.                                   *)
Delivers(c) == SingleInput(c.dst) /\ c.dst \notin Disabled

Untouched(d) == \A n \in Disabled : d.waiting[n] = None /\ d.runData[n] = <<>>

Latest(d, redo) ==
  \A n \in Node \ redo : d.runData[n] # <<>> =>
    OnStack(d, n) \/ d.waiting[n] = Last(d.runData[n]).outputs

Consumed(d, n, item) == \E task \in Held(d.runData[n]) : task.inputs = <<item>>

Arrives(d, todo, c, item) ==
  \/ OnStack(d, c.src)
  \/ Consumed(d, c.dst, item)
  \/ [node |-> c.dst, inputs |-> <<item>>] \in Held(d.stack)
  \/ \E p \in todo : p.conn = c /\ p.item = item

Kept(d, todo, redo) ==
  \A c \in Conn : Delivers(c) /\ HasOutput(d.waiting[c.src], c) =>
    \/ c.src \in redo \/ c.dst \in redo
    \/ Arrives(d, todo, c, d.waiting[c.src][c.out + 1])

Safe(d, todo, redo) == Untouched(d) /\ Latest(d, redo) /\ Kept(d, todo, redo)

(* What NothingLost says of the data of a finished execution.              *)
Settled(d) ==
  \A c \in Conn : Delivers(c) /\ d.runData[c.src] # <<>> =>
    LET outputs == Last(d.runData[c.src]).outputs
    IN  HasOutput(outputs, c) => Consumed(d, c.dst, outputs[c.out + 1])

FlowAt(e) ==
  /\ pc[e] = "loop" => Safe(mem[e], pending[e], {})
  /\ Saved(e) => Safe(row[e].data, {}, {row[e].data.last})
  /\ Saved(e) /\ row[e].finished => Settled(row[e].data)

FlowInv == \A e \in Exec : FlowAt(e)

LEMMA OneFlow ==
  ASSUME FlowInv, NEW e \in Exec, Apart(e), FlowAt(e)'
  PROVE  FlowInv'
<1>1. \A x \in Exec \ {e} : FlowAt(x)'
  BY DEF FlowInv, FlowAt, Apart, Saved
<1>2. QED
  BY <1>1 DEF FlowInv

(* The parts of the data Safe looks at.                                    *)
LEMMA CopySafe ==
  ASSUME NEW d, NEW m, SkipsTo(m, d), NEW redo, Safe(m, {}, redo)
  PROVE  Safe(d, {}, redo)
BY DEF SkipsTo, Safe, Untouched, Latest, Kept, Arrives, Consumed, OnStack

LEMMA SafePop ==
  ASSUME NEW d \in RunExecutionData, NEW m, PopsTo(d, m), NEW todo,
         Head(d.stack).node \in Disabled, Safe(d, {}, {})
  PROVE  Safe(m, todo, {})
<1> DEFINE top == Head(d.stack)
<1>1. /\ d.stack \in Seq(Entry) /\ d.stack # <<>> /\ m.stack = Tail(d.stack)
      /\ m.runData = d.runData /\ m.waiting = d.waiting
  BY DEF PopsTo, RunExecutionData
<1>2. Held(d.stack) = {top} \cup Held(m.stack)
  BY <1>1, HeldPop
<1> HIDE DEF top
<1>3. \A n \in Node \ Disabled : OnStack(d, n) => OnStack(m, n)
  BY <1>2 DEF OnStack, top
<1>4. Untouched(m)
  BY <1>1 DEF Safe, Untouched
<1>5. Latest(m, {})
  BY <1>1, <1>3, <1>4 DEF Safe, Latest, Untouched
<1>6. ASSUME NEW c \in Conn, Delivers(c), HasOutput(m.waiting[c.src], c)
      PROVE  Arrives(m, todo, c, m.waiting[c.src][c.out + 1])
  <2> DEFINE item == m.waiting[c.src][c.out + 1]
             entry == [node |-> c.dst, inputs |-> <<item>>]
  <2>1. Arrives(d, {}, c, item)
    BY <1>1, <1>6 DEF Safe, Kept
  <2>2. c.src \in Node \ Disabled
    BY <1>4, <1>6, GraphAssumption DEF Untouched, HasOutput
  <2>3. entry.node \notin Disabled
    BY <1>6 DEF Delivers
  <2> HIDE DEF item
  <2>4. entry \in Held(d.stack) => entry \in Held(m.stack)
    BY <1>2, <2>3 DEF top
  <2>5. QED
    BY <1>1, <1>3, <2>1, <2>2, <2>4 DEF Arrives, Consumed, item
<1>7. QED
  BY <1>4, <1>5, <1>6 DEF Safe, Kept

LEMMA SafeRun ==
  ASSUME NEW d \in RunExecutionData, NEW m \in RunExecutionData, NEW task \in Task,
         RunsTo(d, m, task), NEW n, n = Head(d.stack).node, n \notin Disabled, Safe(d, {}, {})
  PROVE  Safe(m, Successors(n, task.outputs), {}) /\ Safe(m, {}, {n})
<1> DEFINE top == Head(d.stack)
           todo == Successors(n, task.outputs)
<1>1. /\ d.stack \in Seq(Entry) /\ d.stack # <<>> /\ m.stack = Tail(d.stack)
      /\ task.inputs = top.inputs
      /\ m.runData = [d.runData EXCEPT ![n] = Append(@, task)]
      /\ m.waiting = [d.waiting EXCEPT ![n] = task.outputs]
      /\ d.runData \in [Node -> Seq(Task)] /\ d.waiting \in [Node -> Seq(Item) \cup {None}]
  BY DEF RunsTo, RunExecutionData
<1>2. Held(d.stack) = {top} \cup Held(m.stack) /\ n \in Node
  <2>1. Held(d.stack) = {top} \cup Held(m.stack) /\ top \in Entry
    BY <1>1, HeldPop
  <2>2. QED
    BY <2>1 DEF Entry
<1>3. /\ Held(m.runData[n]) = Held(d.runData[n]) \cup {task}
      /\ Last(m.runData[n]) = task
  <2>1. m.runData[n] = Append(d.runData[n], task) /\ d.runData[n] \in Seq(Task)
    BY <1>1, <1>2
  <2>2. \A list \in Seq(Task) : /\ Held(Append(list, task)) = Held(list) \cup {task}
                                 /\ Last(Append(list, task)) = task
    BY HeldAppend
  <2>3. QED
    BY <2>1, <2>2
<1>4. /\ m.waiting[n] = task.outputs
      /\ \A x \in Node \ {n} : m.waiting[x] = d.waiting[x] /\ m.runData[x] = d.runData[x]
  BY <1>1, <1>2
<1> HIDE DEF top, todo
<1>5. \A x \in Node \ {n} : OnStack(d, x) => OnStack(m, x)
  BY <1>2 DEF OnStack, top
<1>6. Untouched(m)
  <2>1. \A x \in Disabled : x \in Node \ {n}
    BY GraphAssumption
  <2>2. QED
    BY <1>4, <2>1 DEF Safe, Untouched
<1>7. Latest(m, {})
  BY <1>3, <1>4, <1>5 DEF Safe, Latest
<1>8. ASSUME NEW c \in Conn, c.src # n, Delivers(c), HasOutput(m.waiting[c.src], c)
      PROVE  Arrives(m, {}, c, m.waiting[c.src][c.out + 1])
  <2> DEFINE item == m.waiting[c.src][c.out + 1]
             entry == [node |-> c.dst, inputs |-> <<item>>]
  <2>1. c.src \in Node /\ c.dst \in Node
    BY GraphAssumption
  <2>2. m.waiting[c.src] = d.waiting[c.src]
    BY <1>4, <1>8, <2>1
  <2>3. Arrives(d, {}, c, item)
    BY <1>8, <2>2 DEF Safe, Kept
  <2>4. entry.node = c.dst /\ entry.inputs = <<item>>
    OBVIOUS
  <2> HIDE DEF item
  <2>5. Consumed(d, c.dst, item) => Consumed(m, c.dst, item)
    BY <1>3, <1>4, <2>1 DEF Consumed
  <2>6. entry \in Held(d.stack) => entry \in Held(m.stack) \/ Consumed(m, c.dst, item)
    BY ZenonT(40), <1>1, <1>2, <1>3, <2>4 DEF Consumed, top
  <2>7. QED
    BY <1>5, <1>8, <2>1, <2>3, <2>5, <2>6 DEF Arrives, item
<1>9. ASSUME NEW c \in Conn, c.src = n, HasOutput(m.waiting[c.src], c)
      PROVE  Arrives(m, todo, c, m.waiting[c.src][c.out + 1])
  <2> DEFINE p == [conn |-> c, item |-> task.outputs[c.out + 1], out |-> c.out]
  <2>1. p \in todo
    BY <1>4, <1>9 DEF todo, Successors, HasOutput
  <2>2. p.conn = c /\ p.item = m.waiting[c.src][c.out + 1]
    BY <1>4, <1>9
  <2> HIDE DEF p
  <2>3. QED
    BY <2>1, <2>2 DEF Arrives
<1>10. Kept(m, todo, {})
  BY <1>8, <1>9 DEF Kept, Arrives
<1>11. Kept(m, {}, {n})
  BY <1>8 DEF Kept
<1>12. QED
  BY <1>6, <1>7, <1>10, <1>11 DEF Safe, Latest, todo

(* A successor with one input is pushed with what it waits for; one with   *)
(* several is none of the nodes NothingLost is about.                      *)
LEMMA SafePush ==
  ASSUME NEW d \in RunExecutionData, NEW m, NEW todo, NEW p \in todo, NEW entry \in Entry,
         PushesTo(d, m, entry), SingleInput(p.conn.dst) => entry = Added(p), Safe(d, todo, {})
  PROVE  Safe(m, todo \ {p}, {})
<1>1. d.stack \in Seq(Entry) /\ m.stack = <<entry>> \o d.stack
      /\ m.runData = d.runData /\ m.waiting = d.waiting
  BY DEF PushesTo, RunExecutionData
<1>2. Held(m.stack) = {entry} \cup Held(d.stack)
  BY <1>1, HeldPush
<1>3. Untouched(m) /\ Latest(m, {})
  BY <1>1, <1>2 DEF Safe, Untouched, Latest, OnStack
<1>4. ASSUME NEW c \in Conn, Delivers(c), HasOutput(m.waiting[c.src], c)
      PROVE  Arrives(m, todo \ {p}, c, m.waiting[c.src][c.out + 1])
  <2> DEFINE item == m.waiting[c.src][c.out + 1]
  <2>1. Arrives(d, todo, c, item)
    BY <1>1, <1>4 DEF Safe, Kept
  <2> HIDE DEF item
  <2>2. CASE p.conn = c /\ p.item = item
    <3>1. entry = [node |-> c.dst, inputs |-> <<item>>]
      BY <1>4, <2>2 DEF Delivers, Added
    <3>2. QED
      BY <1>2, <3>1 DEF Arrives, item
  <2>3. CASE ~(p.conn = c /\ p.item = item)
    BY <1>1, <1>2, <2>1, <2>3 DEF Arrives, OnStack, Consumed, item
  <2>4. QED
    BY <2>2, <2>3
<1>5. QED
  BY <1>3, <1>4 DEF Safe, Kept

LEMMA SafeSkip ==
  ASSUME NEW d, NEW m, NEW todo, NEW p \in todo, ~SingleInput(p.conn.dst),
         SkipsTo(d, m), Safe(d, todo, {})
  PROVE  Safe(m, todo \ {p}, {})
<1>1. m.stack = d.stack /\ m.runData = d.runData /\ m.waiting = d.waiting
  BY DEF SkipsTo
<1>2. Untouched(m) /\ Latest(m, {})
  BY <1>1 DEF Safe, Untouched, Latest, OnStack
<1>3. ASSUME NEW c \in Conn, Delivers(c), NEW item, Arrives(d, todo, c, item)
      PROVE  Arrives(m, todo \ {p}, c, item)
  BY <1>1, <1>3 DEF Arrives, OnStack, Consumed, Delivers
<1>4. QED
  BY <1>1, <1>2, <1>3 DEF Safe, Kept

(* The node a retry restarts is back on the stack, with what it waits for. *)
LEMMA SafeRetry ==
  ASSUME NEW d \in RunExecutionData, Restartable(d), CanRebuild(d, d.last),
         Safe(d, {}, {d.last}), NEW redo
  PROVE  Safe(RetryData(d), {}, redo)
<1> DEFINE m == RetryData(d)
           n == d.last
           entry == [node |-> n, inputs |-> Rebuilt(d, n)]
<1>1. n \in Node /\ d.stack \in Seq(Entry) /\ d.runData \in [Node -> Seq(Task)]
  BY DEF Restartable, RunExecutionData
<1>2. entry \in Entry /\ entry.node = n
  BY <1>1, RebuiltType DEF Entry
<1>3. m.stack = <<entry>> \o d.stack /\ m.waiting = d.waiting
      /\ m.runData = [d.runData EXCEPT ![n] = WithoutFailure(@)]
  BY DEF RetryData, RunExecutionData
<1> HIDE DEF m
<1>4. Held(m.stack) = {entry} \cup Held(d.stack)
  <2> HIDE DEF entry
  <2>1. QED
    BY <1>1, <1>2, <1>3, HeldPush
<1>5. OnStack(m, n) /\ \A x : OnStack(d, x) => OnStack(m, x)
  BY <1>2, <1>4 DEF OnStack
<1>6. \A x \in Node \ {n} : m.runData[x] = d.runData[x]
  BY <1>1, <1>3
<1>7. Untouched(m)
  <2>1. d.runData[n] = <<>> => m.runData[n] = <<>>
    BY <1>1, <1>3 DEF WithoutFailure
  <2>2. QED
    BY <1>3, <1>6, <2>1, GraphAssumption DEF Safe, Untouched
<1>8. Latest(m, {})
  <2>1. ASSUME NEW x \in Node, m.runData[x] # <<>>
        PROVE  OnStack(m, x) \/ m.waiting[x] = Last(m.runData[x]).outputs
    <3>1. CASE x = n
      BY <1>5, <3>1
    <3>2. CASE x # n
      BY <1>3, <1>5, <1>6, <2>1, <3>2 DEF Safe, Latest
    <3>3. QED
      BY <3>1, <3>2
  <2>2. QED
    BY <2>1 DEF Latest
<1>9. ASSUME NEW c \in Conn, Delivers(c), HasOutput(m.waiting[c.src], c)
      PROVE  Arrives(m, {}, c, m.waiting[c.src][c.out + 1])
  <2>1. c.src \in Node /\ c.dst \in Node /\ m.waiting[c.src] = d.waiting[c.src]
    BY <1>3, GraphAssumption
  <2> DEFINE item == d.waiting[c.src][c.out + 1]
  <2>2. CASE c.src = n
    BY <1>5, <2>2 DEF Arrives
  <2>3. CASE c.dst = n
    <3>1. Linked(d, c)
      BY <2>3 DEF Restartable, Into
    <3>2. entry = [node |-> c.dst, inputs |-> <<item>>]
      BY <2>3, <3>1, RebuiltLinked
    <3> HIDE DEF entry
    <3>3. [node |-> c.dst, inputs |-> <<item>>] \in Held(m.stack)
      BY <1>4, <3>2
    <3>4. QED
      BY <2>1, <3>3 DEF Arrives
  <2>4. CASE c.src # n /\ c.dst # n
    <3>1. Arrives(d, {}, c, item)
      BY <1>9, <2>1, <2>4 DEF Safe, Kept
    <3> HIDE DEF item
    <3>2. Consumed(d, c.dst, item) => Consumed(m, c.dst, item)
      BY <1>6, <2>1, <2>4 DEF Consumed
    <3>3. Arrives(m, {}, c, item)
      BY <1>4, <1>5, <3>1, <3>2 DEF Arrives
    <3>4. QED
      BY <2>1, <3>3 DEF item
  <2>5. QED
    BY <2>2, <2>3, <2>4
<1>10. QED
  BY <1>7, <1>8, <1>9 DEF Safe, Latest, Kept, m

(* Nothing is left to run: what the latest runs put out has been consumed. *)
LEMMA SafeSettled ==
  ASSUME NEW d, d.stack = <<>>, Safe(d, {}, {})
  PROVE  Settled(d)
<1>1. \A n : ~OnStack(d, n)
  BY HeldEmpty DEF OnStack
<1>2. SUFFICES ASSUME NEW c \in Conn, Delivers(c), d.runData[c.src] # <<>>,
                      NEW outputs, outputs = Last(d.runData[c.src]).outputs,
                      HasOutput(outputs, c)
               PROVE  Consumed(d, c.dst, outputs[c.out + 1])
  BY DEF Settled
<1>3. d.waiting[c.src] = outputs
  BY <1>1, <1>2, GraphAssumption DEF Safe, Latest
<1>4. Arrives(d, {}, c, outputs[c.out + 1])
  BY <1>2, <1>3 DEF Safe, Kept
<1>5. QED
  BY <1>1, <1>4, HeldEmpty DEF Arrives


LEMMA FreshSafe ==
  ASSUME NEW d, d.runData = FreshData.runData, d.waiting = FreshData.waiting
  PROVE  Safe(d, {}, {})
<1>1. \A n \in Node : d.runData[n] = <<>> /\ d.waiting[n] = None
  BY DEF FreshData
<1>2. QED
  BY <1>1, GraphAssumption DEF Safe, Untouched, Latest, Kept, HasOutput

LEMMA BeginFlow ==
  ASSUME TypeInv, Checks, FlowInv, NEW e \in Exec, NEW stack, NEW c, Begin(e, stack, c)
  PROVE  FlowInv'
<1>1. NewRow(None).data = None
  BY DEF NewRow
<1>2. /\ Apart(e) /\ pc[e] = "idle" /\ pending'[e] = pending[e] /\ row'[e].data = None
      /\ mem'[e].runData = FreshData.runData /\ mem'[e].waiting = FreshData.waiting
  BY <1>1, BeginShape
<1>3. pending'[e] = {}
  BY <1>2 DEF Checks, CheckInv
<1>4. Safe(mem'[e], {}, {})
  BY <1>2, FreshSafe
<1>5. FlowAt(e)'
  BY <1>2, <1>3, <1>4 DEF FlowAt, Saved
<1>6. QED
  BY <1>2, <1>5, OneFlow

LEMMA ExecuteFlow ==
  ASSUME "db" \notin Faults, TypeInv, TypeInv', EngineInv, Checks, FlowInv,
         NEW e \in Exec, ExecuteNode(e)
  PROVE  FlowInv'
<1> DEFINE top == Head(mem[e].stack)
           n == top.node
           run == Len(mem[e].runData[n]) + 1
<1>1. /\ AtPop(e) /\ mem[e].stack # <<>> /\ UNCHANGED ctx /\ n \notin Disabled
      /\ \/ \E outputs \in Results(n, top.inputs, run) : Record(e, top, TRUE, outputs)
         \/ Record(e, top, FALSE, FailedOutputs(n, run))
         \/ Panic(e) /\ UNCHANGED <<pending, row>>
  BY DEF ExecuteNode
<1>2. n \in Node /\ top.inputs \in Seq(Item) /\ run \in Nat
  <2>1. \A x \in Node : Len(mem[e].runData[x]) + 1 \in Nat
    BY MemType
  <2>2. QED
    BY <1>1, <2>1, TopType
<1>3. ASSUME NEW ok \in BOOLEAN, NEW outputs \in Seq(Item), Record(e, top, ok, outputs)
      PROVE  FlowInv'
  <2> DEFINE task == [ok |-> ok, inputs |-> top.inputs, outputs |-> outputs]
  <2>1. task.outputs = outputs
    OBVIOUS
  <2> HIDE DEF task
  <2>2. /\ Apart(e) /\ RunsTo(mem[e], mem'[e], task) /\ task \in Task
        /\ pc'[e] = (IF ok THEN "loop" ELSE "broken")
        /\ pending'[e] = IF ok THEN Successors(n, outputs) ELSE {}
    BY <1>1, <1>3, RecordShape DEF task
  <2>3. Safe(mem[e], {}, {})
    BY <1>1 DEF FlowInv, FlowAt, AtPop
  <2>4. mem[e] \in RunExecutionData /\ mem'[e] \in RunExecutionData
    BY DEF TypeInv, TypeOK
  <2>5. Safe(mem'[e], Successors(n, outputs), {}) /\ Safe(mem'[e], {}, {n})
    BY <1>1, <2>1, <2>2, <2>3, <2>4, SafeRun
  <2>6. mem'[e].last = n
    BY <2>2 DEF RunsTo
  <2>7. ASSUME row'[e] = row[e] PROVE FlowAt(e)'
    BY <2>2, <2>5, <2>7 DEF FlowInv, FlowAt, Saved
  <2>8. ASSUME ~row'[e].finished, row'[e].data # None, Copies(row'[e].data, mem'[e])
        PROVE  FlowAt(e)'
    <3>1. SkipsTo(mem'[e], row'[e].data) /\ row'[e].data.last = n
      BY <2>6, <2>8 DEF Copies, SkipsTo
    <3>2. Safe(row'[e].data, {}, {row'[e].data.last})
      BY <2>5, <3>1, CopySafe
    <3>3. QED
      BY <2>2, <2>5, <2>8, <3>2 DEF FlowAt, Saved
  <2>9. FlowAt(e)'
    BY <1>1, <1>3, <2>7, <2>8, RecordSaves
  <2>10. QED
    BY <2>2, <2>9, OneFlow
<1>4. ASSUME Panic(e), UNCHANGED <<pending, row>> PROVE FlowInv'
  <2>1. Apart(e) /\ pc'[e] = "dead" /\ row'[e] = row[e]
    BY <1>1, <1>4, Variables DEF Panic, Apart
  <2>2. FlowAt(e)'
    BY <2>1 DEF FlowInv, FlowAt, Saved
  <2>3. QED
    BY <2>1, <2>2, OneFlow
<1> HIDE DEF run, n, top
<1>5. QED
  BY <1>1, <1>2, <1>3, <1>4, ResultsType

LEMMA AddNodeFlow ==
  ASSUME TypeInv, FlowInv, NEW e \in Exec, AddNodeToBeExecuted(e)
  PROVE  FlowInv'
<1>1. PICK p \in NextToAdd(e) :
        /\ Apart(e) /\ pc[e] = "loop" /\ row'[e] = row[e]
        /\ p \in pending[e] /\ pending'[e] = pending[e] \ {p}
        /\ \/ PushesTo(mem[e], mem'[e], Added(p)) /\ Added(p) \in Entry
           \/ /\ ~SingleInput(p.conn.dst)
              /\ \/ SkipsTo(mem[e], mem'[e])
                 \/ \E entry \in Entry : PushesTo(mem[e], mem'[e], entry)
           \/ pc'[e] = "dead"
  BY AddNodeShape
<1>2. mem[e] \in RunExecutionData /\ Safe(mem[e], pending[e], {})
  BY <1>1, MemType DEF FlowInv, FlowAt
<1>3. ASSUME pc'[e] = "loop" PROVE Safe(mem'[e], pending'[e], {})
  <2>1. CASE PushesTo(mem[e], mem'[e], Added(p)) /\ Added(p) \in Entry
    BY <1>1, <1>2, <2>1, SafePush
  <2>2. CASE ~SingleInput(p.conn.dst) /\ SkipsTo(mem[e], mem'[e])
    BY <1>1, <1>2, <2>2, SafeSkip
  <2>3. ASSUME ~SingleInput(p.conn.dst), NEW entry \in Entry, PushesTo(mem[e], mem'[e], entry)
        PROVE  Safe(mem'[e], pending'[e], {})
    BY <1>1, <1>2, <2>3, SafePush
  <2>4. QED
    BY <1>1, <1>3, <2>1, <2>2, <2>3
<1>4. FlowAt(e)'
  BY <1>1, <1>3 DEF FlowInv, FlowAt, Saved
<1>5. QED
  BY <1>1, <1>4, OneFlow

(* The one step that sets Finished: the stack is empty and nothing is left *)
(* to add, and the row holds the runs that are in memory.                  *)
LEMMA FinishFlow ==
  ASSUME "db" \notin Faults, TypeInv, Checks, FlowInv, NEW e \in Exec, Finish(e)
  PROVE  FlowInv'
<1>1. Apart(e) /\ pc'[e] # "loop"
  BY FinishShape
<1>2. CASE row'[e] = row[e] \/ row'[e] = None
  <2>1. FlowAt(e)'
    BY <1>1, <1>2 DEF FlowInv, FlowAt, Saved
  <2>2. QED
    BY <1>1, <2>1, OneFlow
<1>3. CASE /\ pc[e] = "broken" \/ (AtPop(e) /\ mem[e].stack = <<>>)
           /\ row[e] # None /\ ctx[e] # "cancelled" /\ row[e].data # None
           /\ row'[e].finished = (pc[e] = "loop")
           /\ row'[e].data # None /\ Copies(row'[e].data, row[e].data)
  <2> DEFINE d == row'[e].data
  <2>1. SkipsTo(row[e].data, d) /\ d.last = row[e].data.last /\ d.runData = row[e].data.runData
    BY <1>3 DEF Copies, SkipsTo
  <2>2. Safe(row[e].data, {}, {d.last})
    BY <1>3, <2>1 DEF FlowInv, FlowAt, Saved
  <2>3. Safe(d, {}, {d.last})
    <3> HIDE DEF d
    <3>1. QED
      BY <2>1, <2>2, CopySafe
  <2>4. ASSUME pc[e] = "loop" PROVE Settled(d)
    <3>1. pending[e] = {} /\ mem[e].stack = <<>>
      BY <1>3, <2>4 DEF AtPop
    <3>2. Settled(mem[e])
      BY <2>4, <3>1, SafeSettled DEF FlowInv, FlowAt
    <3>3. Checkpoint(row[e], mem[e], pending[e])
      BY <1>3, <2>4 DEF Checks, CheckInv
    <3>4. row[e].data.runData = mem[e].runData
      BY <1>3, <3>3 DEF Checkpoint, Same
    <3> HIDE DEF d
    <3>5. QED
      BY <2>1, <3>2, <3>4 DEF Settled, Consumed
  <2>5. FlowAt(e)'
    BY <1>1, <1>3, <2>3, <2>4 DEF FlowAt, Saved
  <2>6. QED
    BY <1>1, <2>5, OneFlow
<1>4. QED
  BY <1>2, <1>3, FinishShape

LEMMA RetryFlow ==
  ASSUME RestartInv, TypeInv, TypeInv', Checks, FlowInv,
         NEW e \in Exec, NEW f \in Exec, Retry(e, f)
  PROVE  FlowInv'
<1>1. /\ Apart(f) /\ pc[f] = "idle" /\ pending'[f] = pending[f] /\ row[e] # None
      /\ ~row'[f].finished
      /\ \/ pc'[f] = "dead" /\ row'[f].data = None
         \/ /\ row[e].data # None
            /\ CanRebuild(row[e].data, row[e].data.last)
            /\ row'[f].data = RetryData(row[e].data) /\ mem'[f] = RetryData(row[e].data)
  BY RetryShape
<1>2. CASE pc'[f] = "dead" /\ row'[f].data = None
  <2>1. FlowAt(f)'
    BY <1>2 DEF FlowAt, Saved
  <2>2. QED
    BY <1>1, <2>1, OneFlow
<1>3. CASE /\ row[e].data # None
           /\ CanRebuild(row[e].data, row[e].data.last)
           /\ row'[f].data = RetryData(row[e].data) /\ mem'[f] = RetryData(row[e].data)
  <2> DEFINE d == row[e].data
  <2>1. d \in RunExecutionData /\ Restartable(d) /\ Safe(d, {}, {d.last})
    BY <1>1, <1>3, DataType DEF RestartInv, RestartAt, FlowInv, FlowAt, Saved
  <2> HIDE DEF d
  <2>2. \A redo : Safe(RetryData(d), {}, redo)
    BY <1>3, <2>1, SafeRetry DEF d
  <2>3. pending'[f] = {}
    BY <1>1 DEF Checks, CheckInv
  <2>4. FlowAt(f)'
    BY <1>1, <1>3, <2>2, <2>3 DEF FlowAt, d
  <2>5. QED
    BY <1>1, <2>4, OneFlow
<1>4. QED
  BY <1>1, <1>2, <1>3

LEMMA StepFlow ==
  ASSUME "db" \notin Faults, "retry" \in Faults => RestartInv,
         TypeInv, TypeInv', EngineInv, Checks, FlowInv, [Next]_vars
  PROVE  FlowInv'
<1>1. ASSUME NEW e \in Exec, StartAll(e) \/ \E n \in Webhooks : StartFrom(e, n)
      PROVE  FlowInv'
  BY <1>1, BeginFlow DEF StartAll, StartFrom
<1>2. ASSUME NEW e \in Exec, PopDisabled(e) PROVE FlowInv'
  <2>1. /\ Apart(e) /\ pc[e] = "loop" /\ pending[e] = {} /\ row'[e] = row[e]
        /\ PopsTo(mem[e], mem'[e]) /\ Head(mem[e].stack).node \in Disabled
    BY <1>2, PopShape
  <2>2. mem[e] \in RunExecutionData /\ Safe(mem[e], {}, {})
    BY <2>1, MemType DEF FlowInv, FlowAt
  <2>3. Safe(mem'[e], pending'[e], {})
    BY <2>1, <2>2, SafePop
  <2>4. FlowAt(e)'
    BY <2>1, <2>3 DEF FlowInv, FlowAt, Saved
  <2>5. QED
    BY <2>1, <2>4, OneFlow
<1>3. ASSUME NEW e \in Exec, ExecuteNode(e) \/ AddNodeToBeExecuted(e) \/ Finish(e)
      PROVE  FlowInv'
  BY <1>3, ExecuteFlow, AddNodeFlow, FinishFlow
<1>4. ASSUME NEW e \in Exec, Cancel(e) PROVE FlowInv'
  BY <1>4 DEF Cancel, FlowInv, FlowAt, Saved
<1>5. ASSUME NEW e \in Exec, DeleteRow(e) PROVE FlowInv'
  <2>1. UNCHANGED <<pc, mem, pending>>
        /\ \A x \in Exec : row'[x] = row[x] \/ row'[x] = None
    BY <1>5, Variables DEF DeleteRow
  <2>2. QED
    BY <2>1 DEF FlowInv, FlowAt, Saved
<1>6. CASE Crash
  <2>1. \A x \in Exec : pc'[x] # "loop" /\ row'[x] = row[x]
    BY <1>6 DEF Crash, Alive
  <2>2. QED
    BY <2>1 DEF FlowInv, FlowAt, Saved
<1>7. CASE UNCHANGED vars
  BY <1>7 DEF vars, FlowInv, FlowAt, Saved
<1>8. ASSUME NEW e \in Exec, NEW f \in Exec, Retry(e, f) PROVE FlowInv'
  BY <1>8, RetryFlow DEF Retry
<1>9. QED
  BY <1>1, <1>2, <1>3, <1>4, <1>5, <1>6, <1>7, <1>8 DEF Next, Step

(* What a retry needs to know, where there are retries.                    *)
LEMMA RestartsWhereRetried ==
  ASSUME "db" \notin Faults, "retry" \in Faults => Forest
  PROVE  Spec => []("retry" \in Faults => RestartInv)
<1>1. CASE "retry" \in Faults
  <2>1. Spec => []RestartInv
    BY <1>1, RestartInvariant
  <2>2. RestartInv => ("retry" \in Faults => RestartInv)
    OBVIOUS
  <2>3. QED
    BY <2>1, <2>2, PTL
<1>2. CASE "retry" \notin Faults
  <2>1. "retry" \in Faults => RestartInv
    BY <1>2
  <2>2. QED
    BY <2>1, PTL
<1>3. QED
  BY <1>1, <1>2

(* Nothing the engine forwarded is lost: when an execution has finished,   *)
(* what the latest run of a node put out was consumed by every enabled     *)
(* single-input node it leads to, in every workflow (cycles, merges and    *)
(* disabled nodes included), whatever is cancelled, deleted or dies on the *)
(* way, as long as the saves work; and where executions are retried too,   *)
(* in every workflow that is a forest.                                     *)
THEOREM NothingIsLost ==
  ASSUME "db" \notin Faults, "retry" \in Faults => Forest
  PROVE  Spec => []NothingLost
<1>1. Init => FlowInv
  BY DEF Init, FlowInv, FlowAt, Saved
<1>2. TypeInv /\ TypeInv' /\ EngineInv /\ Checks /\ FlowInv
        /\ ("retry" \in Faults => RestartInv) /\ [Next]_vars => FlowInv'
  BY StepFlow
<1>3. TypeInv /\ FlowInv => NothingLost
  <2> SUFFICES ASSUME TypeInv, FlowInv, NEW e \in Exec, Saved(e) /\ row[e].finished,
                      NEW c \in Conn,
                      /\ SingleInput(c.dst) /\ c.dst \notin Disabled
                      /\ row[e].data.runData[c.src] # <<>>
                      /\ c.out < Len(Last(row[e].data.runData[c.src]).outputs)
                      /\ Last(row[e].data.runData[c.src]).outputs[c.out + 1].kind # "nil"
               PROVE  \E i \in DOMAIN row[e].data.runData[c.dst] :
                        row[e].data.runData[c.dst][i].inputs =
                          <<Last(row[e].data.runData[c.src]).outputs[c.out + 1]>>
    BY Zenon DEF NothingLost
  <2> DEFINE d == row[e].data
             tasks == d.runData[c.src]
             outputs == Last(tasks).outputs
  <2>1. /\ SingleInput(c.dst) /\ c.dst \notin Disabled /\ tasks # <<>>
        /\ c.out < Len(outputs) /\ outputs[c.out + 1].kind # "nil"
    OBVIOUS
  <2>2. Settled(d)
    BY DEF FlowInv, FlowAt
  <2>3. d \in RunExecutionData
    BY DataType DEF Saved
  <2> HIDE DEF d
  <2>4. outputs # None
    <3>1. c.src \in Node
      BY GraphAssumption
    <3>2. tasks \in Seq(Task)
      BY <2>1, <2>3, <3>1 DEF RunExecutionData
    <3> HIDE DEF tasks
    <3>3. Last(tasks) \in Task
      <4>1. Len(tasks) \in DOMAIN tasks
        BY <2>1, <3>2
      <4>2. tasks[Len(tasks)] \in Task
        BY <3>2, <4>1
      <4>3. QED
        BY <4>2 DEF Last
    <3>4. QED
      BY <2>1, <3>3, NoneAssumption DEF Task
  <2>5. HasOutput(outputs, c) /\ Delivers(c)
    BY <2>1, <2>4 DEF HasOutput, Delivers
  <2>6. Consumed(d, c.dst, outputs[c.out + 1])
    BY <2>1, <2>2, <2>5 DEF Settled
  <2>7. QED
    BY <2>6 DEF Consumed, Held, d
<1>4. QED
  BY <1>1, <1>2, <1>3, TypeInvariant, EngineInvariant, CheckInvariant,
     RestartsWhereRetried, PTL DEF Spec

=============================================================================
