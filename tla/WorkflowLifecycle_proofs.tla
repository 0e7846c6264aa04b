---------------------- MODULE WorkflowLifecycle_proofs ----------------------
(***************************************************************************)
(* Proofs about WorkflowLifecycle, for any workflows, definitions, numbers *)
(* of concurrent requests, faults and crashes.                             *)
(***************************************************************************)
EXTENDS WorkflowLifecycle, FiniteSetTheorems, TLAPS

(* The queries of WorkflowStore keep the foreign key; in particular the    *)
(* only one that inserts a registration is used where MayInsert holds.     *)
LEMMA TablesUnchanged ==
  ASSUME HookHasWorkflow, UNCHANGED tables
  PROVE  HookHasWorkflow'
BY DEF HookHasWorkflow, Exists, tables

LEMMA CreateKeeps ==
  ASSUME NEW w, NEW active, NEW d, HookHasWorkflow, CreateWorkflowEntity(w, active, d)
  PROVE  HookHasWorkflow'
BY DEF HookHasWorkflow, Exists, CreateWorkflowEntity

LEMMA DeleteKeeps ==
  ASSUME NEW w, HookHasWorkflow, DeleteWorkflowEntity(w)
  PROVE  HookHasWorkflow'
BY DEF HookHasWorkflow, Exists, DeleteWorkflowEntity

LEMMA InsertKeeps ==
  ASSUME NEW h, HookHasWorkflow, MayInsert(h), CreateWebhookEntity(h)
  PROVE  HookHasWorkflow'
BY DEF HookHasWorkflow, Exists, MayInsert, CreateWebhookEntity

(* A query that changes a row keeps which rows there are.                  *)
LEMMA RowsKept ==
  ASSUME NEW w, NEW active, NEW d, NEW static, HookHasWorkflow,
         \/ UpdateWorkflowEntity(w, active, d)
         \/ UpdateWorkflowEntityActive(w, active)
         \/ UpdateWorkflowEntityStaticDataByID(w, static)
  PROVE  HookHasWorkflow'
<1>1. DOMAIN row' = DOMAIN row /\ hook' = hook
  BY DEF UpdateWorkflowEntity, UpdateWorkflowEntityActive, UpdateWorkflowEntityStaticDataByID
<1>2. QED
  BY <1>1 DEF HookHasWorkflow, Exists

-----------------------------------------------------------------------------
LEMMA InitHooks == Init => HookHasWorkflow
<1>1. SUFFICES ASSUME Init, NEW h \in hook PROVE Exists(h.workflow)
  BY DEF HookHasWorkflow
<1>2. PICK w \in ListAllActiveWorkflowEntities : h \in Production(w)
  BY <1>1 DEF Init
<1>3. PICK n \in WebhooksOf(row[w].def) : h = HookFor(w, n, FALSE)
  BY <1>2 DEF Production
<1>4. QED
  BY <1>3 DEF HookFor, ListAllActiveWorkflowEntities, Exists

(* The steps of a process that touch neither table.                        *)
LEMMA ReadOnlySteps ==
  ASSUME NEW p,
         \/ Load(p) \/ Reload(p)
         \/ SetupStart(p) \/ SetupTerminate(p) \/ SetupExecute(p)
         \/ TerminateStart(p) \/ Terminate(p)
         \/ ReadWorkflow(p, "register") \/ ReadWorkflow(p, "unregister")
         \/ ExpireStart(p) \/ ExpireTerminate(p) \/ ExpireExecute(p)
         \/ UnregisterAllWebhooks(p) \/ RegisterAllWebhooks(p)
         \/ TerminateAllTemporalWorkflows(p) \/ SetupAllTemporalWorkflows(p)
  PROVE  UNCHANGED tables
<1>1. CASE Load(p)  BY <1>1 DEF Load
<1>2. CASE Reload(p)  BY <1>2 DEF Reload
<1>3. CASE SetupStart(p)  BY <1>3 DEF SetupStart
<1>4. CASE SetupTerminate(p)  BY <1>4 DEF SetupTerminate
<1>5. CASE SetupExecute(p)  BY <1>5 DEF SetupExecute
<1>6. CASE TerminateStart(p)  BY <1>6 DEF TerminateStart
<1>7. CASE Terminate(p)  BY <1>7 DEF Terminate
<1>8. CASE ReadWorkflow(p, "register") \/ ReadWorkflow(p, "unregister")
  BY <1>8 DEF ReadWorkflow
<1>9. CASE ExpireStart(p)  BY <1>9 DEF ExpireStart
<1>10. CASE ExpireTerminate(p)  BY <1>10 DEF ExpireTerminate
<1>11. CASE ExpireExecute(p)  BY <1>11 DEF ExpireExecute
<1>12. CASE UnregisterAllWebhooks(p)  BY <1>12 DEF UnregisterAllWebhooks
<1>13. CASE RegisterAllWebhooks(p)  BY <1>13 DEF RegisterAllWebhooks
<1>14. CASE TerminateAllTemporalWorkflows(p)  BY <1>14 DEF TerminateAllTemporalWorkflows
<1>15. CASE SetupAllTemporalWorkflows(p)  BY <1>15 DEF SetupAllTemporalWorkflows
<1>16. QED
  BY <1>1, <1>2, <1>3, <1>4, <1>5, <1>6, <1>7, <1>8, <1>9, <1>10, <1>11, <1>12, <1>13, <1>14,
     <1>15

(* The steps that write: each is one query, or none where it fails.        *)
LEMMA WritingSteps ==
  ASSUME NEW p, HookHasWorkflow,
         \/ SetActive(p) \/ Update(p) \/ DeleteRow(p)
         \/ SaveHook(p) \/ DeleteHook(p) \/ UpdateStaticData(p) \/ DeleteAll(p)
  PROVE  HookHasWorkflow'
<1>1. CASE SetActive(p)
  <2>1. \/ UpdateWorkflowEntityActive(Here(p).w, proc[p].op = "activate")
        \/ UNCHANGED tables
    BY <1>1 DEF SetActive
  <2>2. QED  BY <2>1, RowsKept, TablesUnchanged
<1>2. CASE Update(p)
  <2>1. \/ UpdateWorkflowEntity(Here(p).w, proc[p].new.active, proc[p].new.def)
        \/ UNCHANGED tables
    BY <1>2 DEF Update
  <2>2. QED  BY <2>1, RowsKept, TablesUnchanged
<1>3. CASE DeleteRow(p)
  <2>1. DeleteWorkflowEntity(Here(p).w) \/ UNCHANGED tables
    BY <1>3 DEF DeleteRow
  <2>2. QED  BY <2>1, DeleteKeeps, TablesUnchanged
<1>4. CASE SaveHook(p)
  <2>1. \/ MayInsert(CurrentHook(p)) /\ CreateWebhookEntity(CurrentHook(p))
        \/ UNCHANGED tables
    BY <1>4 DEF SaveHook
  <2>2. QED  BY <2>1, InsertKeeps, TablesUnchanged
<1>5. CASE DeleteHook(p)
  BY <1>5 DEF DeleteHook, DeleteWebhookEntityByWorkflowId_Path_Method, HookHasWorkflow, Exists
<1>6. CASE UpdateStaticData(p)
  <2>1. \/ UpdateWorkflowEntityStaticDataByID(Here(p).w, StaticData(p))
        \/ UNCHANGED tables
    BY <1>6 DEF UpdateStaticData
  <2>2. QED  BY <2>1, RowsKept, TablesUnchanged
<1>7. CASE DeleteAll(p)
  BY <1>7 DEF DeleteAll, DeleteAllWebhookEntities, HookHasWorkflow
<1>8. QED
  BY <1>1, <1>2, <1>3, <1>4, <1>5, <1>6, <1>7

LEMMA NextKeepsHooks == HookHasWorkflow /\ [Next]_vars => HookHasWorkflow'
<1>1. SUFFICES ASSUME HookHasWorkflow, [Next]_vars PROVE HookHasWorkflow'
  OBVIOUS
<1>2. ASSUME NEW p, NEW op, NEW w, Request(p, op, w) PROVE HookHasWorkflow'
  <2>1. UNCHANGED tables  BY <1>2 DEF Request
  <2>2. QED  BY <1>1, <2>1, TablesUnchanged
<1>3. ASSUME NEW w, NEW active, NEW d, CreateWorkflow(w, active, d) PROVE HookHasWorkflow'
  <2>1. CreateWorkflowEntity(w, active, d)  BY <1>3 DEF CreateWorkflow
  <2>2. QED  BY <1>1, <2>1, CreateKeeps
<1>4. ASSUME NEW p, Step(p) PROVE HookHasWorkflow'
  BY <1>1, <1>4, ReadOnlySteps, WritingSteps, TablesUnchanged DEF Step
<1>5. ASSUME NEW w, Wake(w) PROVE HookHasWorkflow'
  <2>1. UNCHANGED tables  BY <1>5 DEF Wake
  <2>2. QED  BY <1>1, <2>1, TablesUnchanged
<1>6. ASSUME NEW p, Fault(p) PROVE HookHasWorkflow'
  <2>1. UNCHANGED tables  BY <1>6 DEF Fault
  <2>2. QED  BY <1>1, <2>1, TablesUnchanged
<1>7. CASE Crash
  <2>1. UNCHANGED tables  BY <1>7 DEF Crash
  <2>2. QED  BY <1>1, <2>1, TablesUnchanged
<1>8. CASE UNCHANGED vars
  <2>1. UNCHANGED tables  BY <1>8 DEF vars
  <2>2. QED  BY <1>1, <2>1, TablesUnchanged
<1>9. QED
  BY <1>1, <1>2, <1>3, <1>4, <1>5, <1>6, <1>7, <1>8 DEF Next

(* No registration outlives its workflow, whatever requests, start-ups,    *)
(* activities, failed queries and crashes interleave: a handler that read  *)
(* the workflow before it was deleted cannot register a webhook of it any  *)
(* more (SaveWebhookEntity), and deleting takes the registrations along.   *)
THEOREM NoOrphanedWebhooks == Spec => []HookHasWorkflow
<1>1. Init => HookHasWorkflow  BY InitHooks
<1>2. HookHasWorkflow /\ [Next]_vars => HookHasWorkflow'  BY NextKeepsHooks
<1>3. QED  BY <1>1, <1>2, PTL DEF Spec
-----------------------------------------------------------------------------
(* Sequences.                                                              *)

LEMMA NonEmptySeq ==
  ASSUME NEW S, NEW s \in Seq(S), s # <<>>
  PROVE  /\ Len(s) \in Nat /\ Len(s) > 0 /\ DOMAIN s = 1 .. Len(s)
         /\ Len(s) = 1 \/ (Len(s) > 1 /\ Len(s) # 1)
         /\ Head(s) = s[1] /\ Head(s) \in S
         /\ Tail(s) \in Seq(S) /\ Len(Tail(s)) = Len(s) - 1
         /\ \A i \in 1 .. Len(s) - 1 : Tail(s)[i] = s[i + 1]
<1>1. Len(s) # 0
  OBVIOUS
<1>2. Len(s) \in Nat /\ Len(s) > 0 /\ DOMAIN s = 1 .. Len(s)
  BY <1>1
<1>3. QED
  BY <1>2

LEMMA LongTail ==
  ASSUME NEW S, NEW s \in Seq(S), Len(s) > 1
  PROVE  s # <<>> /\ Tail(s) # <<>>
<1>1. s # <<>>
  OBVIOUS
<1> DEFINE t == Tail(s)
           n == Len(s)
<1>2. n \in Nat /\ Len(t) = n - 1 /\ n > 1
  BY <1>1, NonEmptySeq
<1> HIDE DEF t, n
<1>3. n - 1 # 0
  BY <1>2
<1>4. t # <<>>
  BY <1>2, <1>3
<1>5. QED
  BY <1>1, <1>4 DEF t

(* The sequence u is s followed by t.                                      *)
Joined(s, t, u) ==
  /\ Len(s) \in Nat /\ Len(t) \in Nat /\ Len(u) = Len(s) + Len(t)
  /\ \A i \in 1 .. Len(s) : u[i] = s[i]
  /\ \A i \in 1 .. Len(t) : u[Len(s) + i] = t[i]

LEMMA ConcatSeq ==
  ASSUME NEW S, NEW s \in Seq(S), NEW t \in Seq(S)
  PROVE  s \o t \in Seq(S) /\ Joined(s, t, s \o t)
BY DEF Joined

(* The sequence u is s, t and r in a row.                                  *)
JoinedThree(s, t, r, u) ==
  /\ Len(s) \in Nat /\ Len(t) \in Nat /\ Len(r) \in Nat
  /\ Len(u) = Len(s) + Len(t) + Len(r)
  /\ \A i \in 1 .. Len(s) : u[i] = s[i]
  /\ \A i \in 1 .. Len(t) : u[Len(s) + i] = t[i]
  /\ \A i \in 1 .. Len(r) : u[Len(s) + Len(t) + i] = r[i]

LEMMA JoinThree ==
  ASSUME NEW s, NEW t, NEW r, NEW f, NEW u, Joined(s, t, f), Joined(f, r, u)
  PROVE  JoinedThree(s, t, r, u)
<1>1. /\ Len(s) \in Nat /\ Len(t) \in Nat /\ Len(r) \in Nat
      /\ Len(f) = Len(s) + Len(t) /\ Len(u) = Len(s) + Len(t) + Len(r)
  BY DEF Joined
<1>2. ASSUME NEW i \in 1 .. Len(s) PROVE u[i] = s[i]
  BY <1>1 DEF Joined
<1>3. ASSUME NEW i \in 1 .. Len(t) PROVE u[Len(s) + i] = t[i]
  <2>1. Len(s) + i \in 1 .. Len(f)
    BY <1>1
  <2>2. QED
    BY <2>1 DEF Joined
<1>4. \A i \in 1 .. Len(r) : u[Len(s) + Len(t) + i] = r[i]
  BY <1>1 DEF Joined
<1>5. QED
  BY <1>1, <1>2, <1>3, <1>4 DEF JoinedThree

LEMMA RangeOfTail ==
  ASSUME NEW S, NEW s \in Seq(S), s # <<>>
  PROVE  /\ Range(Tail(s)) \subseteq Range(s)
         /\ Range(s) = Range(Tail(s)) \cup {Head(s)}
         /\ Len(s) = 1 => Tail(s) = <<>>
<1>1. DOMAIN Tail(s) = 1 .. Len(s) - 1
  BY NonEmptySeq
<1>2. ASSUME NEW x \in Range(Tail(s)) PROVE x \in Range(s)
  <2>1. PICK i \in 1 .. Len(s) - 1 : x = Tail(s)[i]
    BY <1>1 DEF Range
  <2>2. i + 1 \in 1 .. Len(s) /\ x = s[i + 1]
    BY <2>1, NonEmptySeq
  <2>3. QED
    BY <2>2, NonEmptySeq DEF Range
<1>3. Head(s) \in Range(s)
  BY NonEmptySeq DEF Range
<1>4. ASSUME NEW x \in Range(s), x # Head(s) PROVE x \in Range(Tail(s))
  <2>1. PICK i \in 1 .. Len(s) : x = s[i]
    BY NonEmptySeq DEF Range
  <2>2. i # 1
    BY <1>4, <2>1, NonEmptySeq
  <2>3. i - 1 \in 1 .. Len(s) - 1 /\ Tail(s)[i - 1] = s[(i - 1) + 1]
    BY <2>2, NonEmptySeq
  <2>4. Tail(s)[i - 1] = x
    BY <2>1, <2>3
  <2>5. QED
    BY <1>1, <2>3, <2>4 DEF Range
<1>5. Len(s) = 1 => Tail(s) = <<>>
  <2>1. \A t \in Seq(S) : Len(t) = 0 => t = <<>>
    OBVIOUS
  <2>2. Tail(s) \in Seq(S)
    BY NonEmptySeq
  <2>3. Len(s) = 1 => Len(Tail(s)) = 0
    BY NonEmptySeq
  <2>4. QED
    BY <2>1, <2>2, <2>3
<1>6. QED
  BY <1>2, <1>3, <1>4, <1>5

-----------------------------------------------------------------------------
(* The types of the variables.                                             *)

Loaded == [active : BOOLEAN, def : Definition, static : Definition \cup {None}]
HandlerCalls == {"load", "reload", "setActive", "update", "remove", "setup", "terminate",
                 "register", "unregister", "expire"}
StartCalls == {"unregisterAll", "deleteAll", "registerAll", "terminateAll", "setupAll"}
WorkflowCall == [do : HandlerCalls, w : Workflow, test : BOOLEAN]
Calls == WorkflowCall \cup [do : StartCalls, w : {None}, test : {FALSE}]
Processes ==
  [op : Ops \cup {"idle", "start", "expire"}, todo : Seq(Calls),
   at : {"start", "terminate", "execute", "hooks", "static"},
   left : Seq(AllWebhooks),
   new : [active : BOOLEAN, def : Definition] \cup {None},
   seen : [Workflow -> Loaded \cup {None}],
   copy : Loaded \cup {None}]

RowType == DOMAIN row \subseteq Workflow /\ row \in [DOMAIN row -> Loaded]
ProcType ==
  /\ proc \in [Proc -> Processes]
  /\ expiry \in [Workflow -> {"none", "sleeping", "active"}]
  /\ tries \in [Workflow -> Nat]
TypeInv ==
  /\ RowType /\ ProcType
  /\ hook \subseteq {HookFor(w, h, t) : w \in Workflow, h \in AllWebhooks, t \in BOOLEAN}
  /\ fresh \subseteq Workflow
  /\ schedule \in [Workflow -> Crons]
  /\ armed \in [Workflow -> {"on", "edited", "off", "lost"}]
  /\ disturbed \subseteq Workflow

(* Processes at rest, at start-up and expiring test webhooks.              *)
Starting == [Idle EXCEPT !.op = "start", !.todo = StartProgram]
Expiring(w) == [Idle EXCEPT !.op = "expire", !.todo = ExpiryProgram(w)]

LEMMA IdleType == Idle \in Processes /\ Idle.todo = <<>> /\ Idle.at = "start"
<1>1. <<>> \in Seq(Calls) /\ <<>> \in Seq(AllWebhooks)
  OBVIOUS
<1>2. [w \in Workflow |-> None] \in [Workflow -> Loaded \cup {None}]
  OBVIOUS
<1>3. QED
  BY <1>1, <1>2 DEF Idle, Processes

LEMMA StartingType ==
  /\ Starting \in Processes
  /\ Starting.todo = StartProgram /\ Starting.at = "start" /\ Starting.op = "start"
<1>1. StartProgram \in Seq(Calls)
  BY DEF StartProgram, Calls, StartCalls, Do, Call
<1>2. QED
  BY <1>1, IdleType DEF Starting, Processes

LEMMA ExpiringType ==
  ASSUME NEW w \in Workflow
  PROVE  /\ Expiring(w) \in Processes
         /\ Expiring(w).todo = <<Call("unregister", w, TRUE)>>
         /\ Expiring(w).at = "start" /\ Expiring(w).op = "expire"
<1>1. ExpiryProgram(w) \in Seq(Calls)
  BY DEF ExpiryProgram, Calls, WorkflowCall, HandlerCalls, Call
<1>2. QED
  BY <1>1, IdleType DEF Expiring, Processes, ExpiryProgram

(* How a call ends: the process rests, or the activity is tried again.     *)
LEMMA EndProcess ==
  ASSUME ProcType, NEW p \in Proc, NEW ok \in BOOLEAN, End(p, ok)
  PROVE  /\ ProcType'
         /\ \A q \in Proc \ {p} : proc'[q] = proc[q]
         /\ proc'[p] = Idle \/ (~ok /\ p \in Workflow /\ proc'[p] = Expiring(p))
<1>1. \/ proc' = [proc EXCEPT ![p] = Idle] /\ UNCHANGED <<expiry, tries>>
      \/ /\ proc' = [proc EXCEPT ![p] = Expiring(p)]
         /\ tries' = [tries EXCEPT ![p] = @ + 1]
         /\ p \in Workflow /\ ~ok /\ expiry' = expiry
      \/ /\ proc' = [proc EXCEPT ![p] = Idle]
         /\ expiry' = [expiry EXCEPT ![p] = "none"]
         /\ tries' = [tries EXCEPT ![p] = 0]
  BY DEF End, Expiring
<1>2. ASSUME NEW next \in Processes, proc' = [proc EXCEPT ![p] = next]
      PROVE  /\ proc' \in [Proc -> Processes] /\ proc'[p] = next
             /\ \A q \in Proc \ {p} : proc'[q] = proc[q]
  BY <1>2 DEF ProcType
<1>3. proc' = [proc EXCEPT ![p] = Idle] \/ (p \in Workflow /\ ~ok /\ proc' = [proc EXCEPT ![p] = Expiring(p)])
  BY <1>1
<1>4. /\ proc' \in [Proc -> Processes]
      /\ \A q \in Proc \ {p} : proc'[q] = proc[q]
      /\ proc'[p] = Idle \/ (~ok /\ p \in Workflow /\ proc'[p] = Expiring(p))
  BY <1>2, <1>3, IdleType, ExpiringType
<1>5. expiry' \in [Workflow -> {"none", "sleeping", "active"}] /\ tries' \in [Workflow -> Nat]
  BY <1>1 DEF ProcType
<1>6. QED
  BY <1>4, <1>5 DEF ProcType

LEMMA ReturnProcess ==
  ASSUME ProcType, NEW p \in Proc, proc[p].todo # <<>>,
         NEW seen \in [Workflow -> Loaded \cup {None}], ReturnWith(p, seen)
  PROVE  /\ ProcType'
         /\ \A q \in Proc \ {p} : proc'[q] = proc[q]
         /\ \/ Len(proc[p].todo) = 1 /\ proc'[p] = Idle
            \/ /\ Len(proc[p].todo) > 1
               /\ proc'[p] = [proc[p] EXCEPT !.todo = Tail(@), !.at = "start",
                                             !.left = <<>>, !.copy = None, !.seen = seen]
<1>1. proc[p].todo \in Seq(Calls)
  BY DEF ProcType, Processes
<1>2. Len(proc[p].todo) = 1 \/ (Len(proc[p].todo) > 1 /\ Len(proc[p].todo) # 1)
  BY <1>1, NonEmptySeq
<1>3. CASE Len(proc[p].todo) = 1
  <2>1. End(p, TRUE)  BY <1>3 DEF ReturnWith
  <2>2. QED  BY <1>3, <2>1, EndProcess
<1>4. CASE Len(proc[p].todo) > 1 /\ Len(proc[p].todo) # 1
  <2> DEFINE next == [proc[p] EXCEPT !.todo = Tail(@), !.at = "start",
                                     !.left = <<>>, !.copy = None, !.seen = seen]
  <2>1. proc' = [proc EXCEPT ![p] = next] /\ UNCHANGED <<expiry, tries>>
    BY <1>4 DEF ReturnWith
  <2>2. Tail(proc[p].todo) \in Seq(Calls) /\ <<>> \in Seq(AllWebhooks)
    BY <1>1
  <2>3. next \in Processes
    BY ZenonT(40), <2>2 DEF ProcType, Processes
  <2>4. QED
    BY <1>4, <2>1, <2>3 DEF ProcType
<1>5. QED
  BY <1>2, <1>3, <1>4

(* The process r with other calls left to make.                            *)
Expanded(r, todo, seen) == [r EXCEPT !.todo = todo, !.seen = seen]

LEMMA ExpandedFields ==
  ASSUME NEW r \in Processes, NEW todo \in Seq(Calls), NEW seen \in [Workflow -> Loaded \cup {None}]
  PROVE  /\ Expanded(r, todo, seen) \in Processes
         /\ Expanded(r, todo, seen).todo = todo /\ Expanded(r, todo, seen).seen = seen
         /\ Expanded(r, todo, seen).op = r.op /\ Expanded(r, todo, seen).at = r.at
         /\ Expanded(r, todo, seen).new = r.new
BY DEF Expanded, Processes

LEMMA ExpandProcess ==
  ASSUME ProcType, NEW p \in Proc, proc[p].todo # <<>>,
         NEW calls \in Seq(Calls), NEW seen \in [Workflow -> Loaded \cup {None}],
         Expand(p, calls, seen), NEW todo, todo = calls \o Tail(proc[p].todo)
  PROVE  /\ ProcType'
         /\ \A q \in Proc \ {p} : proc'[q] = proc[q]
         /\ \/ todo = <<>> /\ proc'[p] = Idle
            \/ todo # <<>> /\ proc'[p] = Expanded(proc[p], todo, seen)
<1>1. proc[p].todo \in Seq(Calls) /\ todo \in Seq(Calls)
  BY DEF ProcType, Processes
<1>2. CASE todo = <<>>
  <2>1. End(p, TRUE)  BY <1>2 DEF Expand
  <2>2. QED  BY <1>2, <2>1, EndProcess
<1>3. CASE todo # <<>>
  <2> DEFINE next == Expanded(proc[p], todo, seen)
  <2>1. proc' = [proc EXCEPT ![p] = next] /\ UNCHANGED <<expiry, tries>>
    BY <1>3 DEF Expand, ProcType, Processes, Expanded
  <2>2. next \in Processes
    BY <1>1, ExpandedFields DEF ProcType
  <2> HIDE DEF next
  <2>3. proc' \in [Proc -> Processes] /\ proc'[p] = next /\ \A q \in Proc \ {p} : proc'[q] = proc[q]
    BY <2>1, <2>2 DEF ProcType
  <2>4. QED
    BY <1>3, <2>1, <2>3 DEF ProcType, next
<1>4. QED
  BY <1>2, <1>3

(* An error: start-up begins again or goes on, a run goes on, every other  *)
(* process ends.                                                           *)
LEMMA FailProcess ==
  ASSUME ProcType, NEW p \in Proc, proc[p].todo # <<>>, Fail(p)
  PROVE  /\ ProcType'
         /\ \A q \in Proc \ {p} : proc'[q] = proc[q]
         /\ \/ p = Main /\ Here(p).do \in {"registerAll", "setupAll"} /\ proc'[p] = Starting
            \/ /\ IF p = Main THEN Here(p).do \notin {"registerAll", "setupAll"}
                  ELSE Here(p).do = "expire"
               /\ Return(p)
            \/ /\ p # Main /\ Here(p).do # "expire" /\ End(p, FALSE)
               /\ \/ proc'[p] = Idle
                  \/ p \in Workflow /\ proc'[p] = Expiring(p)
<1>1. CASE p = Main /\ Here(p).do \in {"registerAll", "setupAll"}
  <2>1. proc' = [proc EXCEPT ![p] = Starting] /\ UNCHANGED <<expiry, tries>>
    BY <1>1 DEF Fail, Starting
  <2>2. QED
    BY <1>1, <2>1, StartingType DEF ProcType
<1>2. CASE \/ p = Main /\ Here(p).do \notin {"registerAll", "setupAll"}
           \/ p # Main /\ Here(p).do = "expire"
  <2>1. Return(p)
    BY <1>2 DEF Fail
  <2>2. proc[p].seen \in [Workflow -> Loaded \cup {None}]
    BY DEF ProcType, Processes
  <2>3. QED
    BY <1>2, <2>1, <2>2, ReturnProcess DEF Return
<1>3. CASE p # Main /\ Here(p).do # "expire"
  <2>1. End(p, FALSE)
    BY <1>3 DEF Fail
  <2>2. QED
    BY <1>3, <2>1, EndProcess
<1>4. QED
  BY <1>1, <1>2, <1>3

-----------------------------------------------------------------------------
(* The shape of a process: what it may still have to call, and where in a  *)
(* call it may be.                                                         *)

(* The call d comes right after c in the program of op.                    *)
After(op, c, d) ==
  /\ op = "activate" =>
       /\ ~c.test /\ ~d.test
       /\ \/ c.do = "setActive" /\ d.do = "setup"
          \/ c.do = "setup" /\ d.do = "register"
          \/ c.do = "register" /\ d.do = "reload"
  /\ op = "deactivate" =>
       /\ ~c.test /\ ~d.test
       /\ \/ c.do = "setActive" /\ d.do = "terminate"
          \/ c.do = "terminate" /\ d.do = "unregister"
          \/ c.do = "unregister" /\ d.do = "reload"
  /\ op = "update" =>
       /\ ~c.test /\ ~d.test
       /\ \/ c.do = "terminate" /\ d.do = "unregister"
          \/ c.do = "unregister" /\ d.do = "update"
          \/ c.do = "update" /\ d.do = "setup"
          \/ c.do = "setup" /\ d.do = "register"
  /\ op = "delete" =>
       \/ c.do = "terminate" /\ ~c.test /\ d.do = "unregister" /\ ~d.test
       \/ c.do = "unregister" /\ ~c.test /\ d.do = "unregister" /\ d.test
       \/ c.do = "unregister" /\ c.test /\ d.do = "remove"
  /\ op = "run" => c.do = "register" /\ c.test /\ d.do = "expire"
  /\ op \notin {"deleteTest", "expire"}

(* The call c may be the last of op.                                       *)
MayEnd(op, c) ==
  \/ op # "expire" /\ c.do = "load"
  \/ op \in {"activate", "deactivate"} /\ c.do = "reload"
  \/ op = "update" /\ c.do \in {"update", "register"} /\ ~c.test
  \/ op = "delete" /\ c.do = "remove"
  \/ op = "run" /\ c.do = "expire"
  \/ op \in {"deleteTest", "expire"} /\ c.do = "unregister" /\ c.test

(* What may be left to do of op for w.                                     *)
LeftOf(op, w, todo) ==
  /\ todo \in Seq(WorkflowCall) /\ todo # <<>>
  /\ \A i \in 1 .. Len(todo) : todo[i].w = w
  /\ \A i \in 1 .. Len(todo) - 1 : After(op, todo[i], todo[i + 1])
  /\ MayEnd(op, todo[Len(todo)])
  /\ op = "update" /\ Len(todo) > 1 => todo[Len(todo)].do = "register"

Programs == Ops \cup {"expire"}

LEMMA LeftCalls ==
  ASSUME NEW op \in Programs, NEW w \in Workflow, NEW todo, LeftOf(op, w, todo)
  PROVE  /\ Head(todo).w = w /\ Head(todo) \in WorkflowCall
         /\ Len(todo) = 1 \/ (Len(todo) > 1 /\ Len(todo) # 1)
         /\ Len(todo) = 1 => MayEnd(op, Head(todo))
         /\ Len(todo) > 1 => /\ LeftOf(op, w, Tail(todo))
                             /\ After(op, Head(todo), Head(Tail(todo)))
                             /\ Len(Tail(todo)) = Len(todo) - 1
                             /\ Len(todo) > 2 => Len(Tail(todo)) > 1
<1>1. todo \in Seq(WorkflowCall) /\ todo # <<>>
  BY DEF LeftOf
<1>2. /\ Len(todo) \in Nat /\ Len(todo) > 0
      /\ Len(todo) = 1 \/ (Len(todo) > 1 /\ Len(todo) # 1)
      /\ Head(todo) = todo[1] /\ Head(todo) \in WorkflowCall
      /\ Tail(todo) \in Seq(WorkflowCall) /\ Len(Tail(todo)) = Len(todo) - 1
      /\ \A i \in 1 .. Len(todo) - 1 : Tail(todo)[i] = todo[i + 1]
  BY <1>1, NonEmptySeq
<1>3. Head(todo).w = w
  BY <1>2 DEF LeftOf
<1>4. Len(todo) = 1 => MayEnd(op, Head(todo))
  BY <1>2 DEF LeftOf
<1>5. ASSUME Len(todo) > 1
      PROVE  LeftOf(op, w, Tail(todo)) /\ After(op, Head(todo), Head(Tail(todo)))
  <2> DEFINE tail == Tail(todo)
  <2>1. tail # <<>>
    <3>1. Len(tail) # 0
      BY <1>2, <1>5
    <3> HIDE DEF tail
    <3>2. QED  BY <3>1
  <2>2. Head(tail) = tail[1]
    BY <1>2, <2>1, NonEmptySeq
  <2>3. tail[1] = todo[2]
    BY <1>2, <1>5
  <2>4. After(op, todo[1], todo[2])
    BY <1>2, <1>5 DEF LeftOf
  <2>5. \A i \in 1 .. Len(tail) : tail[i].w = w
    BY <1>2 DEF LeftOf
  <2>6. ASSUME NEW i \in 1 .. Len(tail) - 1 PROVE After(op, tail[i], tail[i + 1])
    <3>1. tail[i] = todo[i + 1] /\ tail[i + 1] = todo[(i + 1) + 1]
      BY <1>2, <2>6
    <3>2. i + 1 \in 1 .. Len(todo) - 1
      BY <1>2, <2>6
    <3>3. QED
      BY <3>1, <3>2 DEF LeftOf
  <2>7. tail[Len(tail)] = todo[Len(todo)]
    BY <1>2, <1>5
  <2>8. Len(tail) > 1 => Len(todo) > 1
    BY <1>5
  <2>9. LeftOf(op, w, tail)
    BY <1>2, <1>5, <2>1, <2>5, <2>6, <2>7 DEF LeftOf
  <2>10. QED
    BY <1>2, <2>2, <2>3, <2>4, <2>9
<1>6. QED
  BY <1>2, <1>3, <1>4, <1>5

LEMMA ShortSeqs ==
  ASSUME NEW S
  PROVE  /\ \A a \in S : <<a>> \in Seq(S)
         /\ \A a, b \in S : <<a, b>> \in Seq(S)
         /\ \A a, b, c, d \in S : <<a, b, c, d>> \in Seq(S)
         /\ \A a, b, c, d, e \in S : <<a, b, c, d, e>> \in Seq(S)
<1>1. \A a \in S : <<a>> \in Seq(S)
  OBVIOUS
<1>2. \A a, b \in S : <<a, b>> \in Seq(S)
  OBVIOUS
<1>3. \A a, b, c, d \in S : <<a, b, c, d>> \in Seq(S)
  OBVIOUS
<1>4. \A a, b, c, d, e \in S : <<a, b, c, d, e>> \in Seq(S)
  OBVIOUS
<1>5. QED
  BY <1>1, <1>2, <1>3, <1>4

(* The programs the handlers go on with.                                   *)
LEMMA AfterLoadFits ==
  ASSUME NEW op \in Ops, NEW w \in Workflow, NEW e \in Loaded, AfterLoad(op, w, e) # <<>>
  PROVE  LeftOf(op, w, AfterLoad(op, w, e))
<1> DEFINE todo == AfterLoad(op, w, e)
<1>1. todo \in Seq(WorkflowCall)
  <2>1. \A do \in HandlerCalls, test \in BOOLEAN : Call(do, w, test) \in WorkflowCall
    BY DEF Call, WorkflowCall
  <2>2. /\ Do("setActive", w) \in WorkflowCall /\ Do("setup", w) \in WorkflowCall
        /\ Do("register", w) \in WorkflowCall /\ Do("reload", w) \in WorkflowCall
        /\ Do("terminate", w) \in WorkflowCall /\ Do("unregister", w) \in WorkflowCall
        /\ Do("update", w) \in WorkflowCall /\ Do("remove", w) \in WorkflowCall
        /\ Do("expire", w) \in WorkflowCall /\ Call("unregister", w, TRUE) \in WorkflowCall
        /\ Call("register", w, TRUE) \in WorkflowCall
    BY <2>1 DEF Do, HandlerCalls
  <2>3. e.active \in BOOLEAN
    BY DEF Loaded
  <2>4. <<Do("setActive", w), Do("setup", w), Do("register", w), Do("reload", w)>>
          \in Seq(WorkflowCall)
    BY <2>2, ShortSeqs, Zenon
  <2>5. <<Do("setActive", w), Do("terminate", w), Do("unregister", w), Do("reload", w)>>
          \in Seq(WorkflowCall)
    BY <2>2, ShortSeqs, Zenon
  <2>6. <<Do("terminate", w), Do("unregister", w), Do("update", w), Do("setup", w),
          Do("register", w)>> \in Seq(WorkflowCall)
    BY <2>2, ShortSeqs, Zenon
  <2>7. <<Do("terminate", w), Do("unregister", w), Call("unregister", w, TRUE), Do("remove", w)>>
          \in Seq(WorkflowCall)
    BY <2>2, ShortSeqs, Zenon
  <2>8. <<Call("register", w, TRUE), Do("expire", w)>> \in Seq(WorkflowCall)
    BY <2>2, ShortSeqs, Zenon
  <2>9. <<Do("update", w)>> \in Seq(WorkflowCall)
    BY <2>2, ShortSeqs, Zenon
  <2>10. <<Call("unregister", w, TRUE)>> \in Seq(WorkflowCall)
    BY <2>2, ShortSeqs, Zenon
  <2>11. \/ todo = <<Do("setActive", w), Do("setup", w), Do("register", w), Do("reload", w)>>
         \/ todo = <<Do("setActive", w), Do("terminate", w), Do("unregister", w), Do("reload", w)>>
         \/ todo = <<Do("terminate", w), Do("unregister", w), Do("update", w), Do("setup", w),
                    Do("register", w)>>
         \/ todo = <<Do("update", w)>>
         \/ todo = <<Do("terminate", w), Do("unregister", w), Call("unregister", w, TRUE),
                    Do("remove", w)>>
         \/ todo = <<Call("register", w, TRUE), Do("expire", w)>>
         \/ todo = <<Call("unregister", w, TRUE)>>
    BY <2>3 DEF AfterLoad, Ops
  <2> HIDE DEF todo
  <2>12. QED
    BY <2>4, <2>5, <2>6, <2>7, <2>8, <2>9, <2>10, <2>11, Zenon
<1>2. CASE op = "activate"
  BY <1>1, <1>2 DEF AfterLoad, LeftOf, After, MayEnd, Do, Call
<1>3. CASE op = "deactivate"
  BY <1>1, <1>3 DEF AfterLoad, LeftOf, After, MayEnd, Do, Call
<1>4. CASE op = "update" /\ e.active
  BY <1>1, <1>4 DEF AfterLoad, LeftOf, After, MayEnd, Do, Call
<1>5. CASE op = "update" /\ ~e.active
  BY <1>1, <1>5 DEF AfterLoad, LeftOf, After, MayEnd, Do, Call
<1>6. CASE op = "delete"
  <2>1. todo = <<Do("terminate", w), Do("unregister", w), Call("unregister", w, TRUE), Do("remove", w)>>
    BY <1>6 DEF AfterLoad
  <2>2. Len(todo) = 4 /\ todo # <<>>
    BY <2>1
  <2>3. \A i \in 1 .. 4 : todo[i].w = w
    BY <2>1 DEF Do, Call
  <2>4. \A i \in 1 .. 3 : After("delete", todo[i], todo[i + 1])
    BY <2>1 DEF After, Do, Call
  <2>5. MayEnd("delete", todo[4])
    BY <2>1 DEF MayEnd, Do, Call
  <2>6. LeftOf("delete", w, todo)
    <3> HIDE DEF todo
    <3>1. Len(todo) - 1 = 3
      BY <2>2
    <3>2. QED
      BY <1>1, <2>2, <2>3, <2>4, <2>5, <3>1 DEF LeftOf
  <2>7. QED
    BY <1>6, <2>6
<1>7. CASE op = "run"
  BY <1>1, <1>7 DEF AfterLoad, LeftOf, After, MayEnd, Do, Call
<1>8. CASE op = "deleteTest"
  BY <1>1, <1>8 DEF AfterLoad, LeftOf, After, MayEnd, Do, Call
<1>9. QED
  BY <1>2, <1>3, <1>4, <1>5, <1>6, <1>7, <1>8 DEF Ops, Loaded

-----------------------------------------------------------------------------
(* Start-up goes through seven stages.  In stage k it still has n calls    *)
(* Pass[k], one for each workflow concerned, and then those of Sequel from *)
(* place k on; the last stage has none.                                    *)
Sequel == <<"unregisterAll", "deleteAll", "registerAll", "terminateAll", "terminateAll", "setupAll">>
Pass == <<"none", "unregister", "none", "register", "terminate", "terminate", "setup">>

Stage(k, n, todo) ==
  /\ k = 1 => n = 0 /\ todo = StartProgram
  /\ k > 1 => /\ Len(todo) = n + 7 - k
              /\ \A i \in 1 .. Len(todo) : i > n => todo[i] = Do(Sequel[k - 1 + i - n], None)
              /\ \A i \in 1 .. n : /\ todo[i].do = Pass[k] /\ todo[i].w \in Workflow
                                   /\ k > 2 => ~todo[i].test
  /\ k = 7 => n > 0

LEMMA StageOne == StartProgram \in Seq(Calls) /\ StartProgram # <<>> /\ Stage(1, 0, StartProgram)
<1>1. StartProgram \in Seq(Calls)
  BY DEF StartProgram, Calls, StartCalls, Do, Call
<1>2. QED
  BY <1>1 DEF Stage, StartProgram

LEMMA StageHead ==
  ASSUME NEW k \in 1 .. 7, NEW n \in Nat, NEW todo \in Seq(Calls), todo # <<>>, Stage(k, n, todo)
  PROVE  /\ n = 0 => k < 7 /\ Head(todo) = Do(Sequel[k], None)
         /\ n > 0 => /\ k \in {2, 4, 5, 6, 7} /\ Head(todo).do = Pass[k]
                     /\ Head(todo).w \in Workflow
                     /\ k > 2 => ~Head(todo).test
<1>1. Len(todo) \in Nat /\ Len(todo) > 0 /\ Head(todo) = todo[1] /\ Head(todo) \in Calls
  BY NonEmptySeq
<1>2. CASE k = 1
  BY <1>2 DEF Stage, StartProgram, Sequel
<1>3. CASE k > 1 /\ n = 0
  <2>1. k < 7 /\ 1 \in 1 .. Len(todo)
    BY <1>1, <1>3 DEF Stage
  <2>2. todo[1] = Do(Sequel[k - 1 + 1 - n], None)
    BY <1>1, <1>3, <2>1 DEF Stage
  <2>3. k - 1 + 1 - n = k
    BY <1>3
  <2>4. QED
    BY <1>1, <1>3, <2>1, <2>2, <2>3
<1>4. CASE k > 1 /\ n > 0
  <2>1. todo[1].do = Pass[k] /\ todo[1].w \in Workflow /\ (k > 2 => ~todo[1].test)
    BY <1>4 DEF Stage
  <2>2. todo[1].do # "none"
    BY <1>1 DEF Calls, WorkflowCall, HandlerCalls, StartCalls
  <2>3. k # 3
    BY <2>1, <2>2 DEF Pass
  <2>4. QED
    BY <1>1, <1>4, <2>1, <2>3
<1>5. QED
  BY <1>2, <1>3, <1>4

LEMMA StageTail ==
  ASSUME NEW k \in 1 .. 7, NEW n \in Nat, NEW todo \in Seq(Calls), Stage(k, n, todo), Len(todo) > 1
  PROVE  /\ n > 0 => Stage(k, n - 1, Tail(todo))
         /\ n = 0 => Stage(IF k = 1 THEN 3 ELSE k + 1, 0, Tail(todo)) /\ k < 6
<1>1. /\ Len(todo) \in Nat /\ Len(Tail(todo)) = Len(todo) - 1
      /\ \A i \in 1 .. Len(todo) - 1 : Tail(todo)[i] = todo[i + 1]
  <2>1. todo # <<>>
    OBVIOUS
  <2>2. QED
    BY <2>1, NonEmptySeq
<1> DEFINE tail == Tail(todo)
<1>2. Len(tail) = Len(todo) - 1 /\ \A i \in 1 .. Len(todo) - 1 : tail[i] = todo[i + 1]
  BY <1>1
<1> HIDE DEF tail
<1>3. CASE k = 1
  <2>1. todo = StartProgram /\ n = 0
    BY <1>3 DEF Stage
  <2>2. Len(tail) = 4 /\ \A i \in 1 .. 4 : tail[i] = StartProgram[i + 1]
    BY <1>2, <2>1 DEF StartProgram
  <2>3. \A i \in 1 .. 4 : StartProgram[i + 1] = Do(Sequel[i + 2], None)
    BY DEF StartProgram, Sequel
  <2>4. Stage(3, 0, tail)
    BY <2>2, <2>3 DEF Stage
  <2>5. QED
    BY <1>3, <2>1, <2>4 DEF tail
<1>4. CASE k > 1 /\ n > 0
  <2>1. Len(tail) = (n - 1) + 7 - k
    BY <1>1, <1>2, <1>4 DEF Stage
  <2>2. ASSUME NEW i \in 1 .. Len(tail), i > n - 1
        PROVE  tail[i] = Do(Sequel[k - 1 + i - (n - 1)], None)
    <3>1. i + 1 \in 1 .. Len(todo) /\ i + 1 > n /\ tail[i] = todo[i + 1]
      BY <1>1, <1>2, <2>2
    <3>2. k - 1 + (i + 1) - n = k - 1 + i - (n - 1)
      OBVIOUS
    <3>3. todo[i + 1] = Do(Sequel[k - 1 + (i + 1) - n], None)
      BY <1>4, <3>1 DEF Stage
    <3>4. QED
      BY <3>1, <3>2, <3>3
  <2>3. ASSUME NEW i \in 1 .. n - 1
        PROVE  tail[i].do = Pass[k] /\ tail[i].w \in Workflow /\ (k > 2 => ~tail[i].test)
    <3>1. i + 1 \in 1 .. n
      OBVIOUS
    <3>2. i \in 1 .. Len(todo) - 1
      BY <1>1, <1>4 DEF Stage
    <3>3. QED
      BY SMTT(30), <1>2, <1>4, <3>1, <3>2 DEF Stage
  <2>4. k = 7 => n - 1 > 0
    BY <1>1, <1>4 DEF Stage
  <2>5. Stage(k, n - 1, tail)
    BY <1>4, <2>1, <2>2, <2>3, <2>4 DEF Stage
  <2>6. QED
    BY <1>4, <2>5 DEF tail
<1>5. CASE k > 1 /\ n = 0
  <2>1. Len(tail) = 7 - (k + 1) /\ k < 6
    BY <1>1, <1>2, <1>5 DEF Stage
  <2>2. ASSUME NEW i \in 1 .. Len(tail)
        PROVE  tail[i] = Do(Sequel[(k + 1) - 1 + i - 0], None)
    <3>1. i + 1 \in 1 .. Len(todo) /\ i + 1 > n /\ tail[i] = todo[i + 1]
      BY <1>1, <1>2, <1>5
    <3>2. k - 1 + (i + 1) - n = (k + 1) - 1 + i - 0
      BY <1>5
    <3>3. todo[i + 1] = Do(Sequel[k - 1 + (i + 1) - n], None)
      BY <1>5, <3>1 DEF Stage
    <3>4. QED
      BY <3>1, <3>2, <3>3
  <2>3. Stage(k + 1, 0, tail)
    BY <1>5, <2>1, <2>2 DEF Stage
  <2>4. QED
    BY <1>5, <2>1, <2>3 DEF tail
<1>6. QED
  BY <1>3, <1>4, <1>5

(* The calls of the next stage take the place of the one that lists them.  *)
LEMMA StageNext ==
  ASSUME NEW k \in 1 .. 6, NEW n \in Nat, NEW l \in Nat, NEW m \in Nat, l + m = 6 - k,
         NEW next, Len(next) = n + l + m, Len(next) # 0,
         \A i \in 1 .. n : /\ next[i].do = Pass[k + 1] /\ next[i].w \in Workflow
                           /\ k > 1 => ~next[i].test,
         \A i \in 1 .. l : next[n + i] = Do(Sequel[k + i], None),
         \A i \in 1 .. m : next[n + l + i] = Do(Sequel[k + l + i], None)
  PROVE  Stage(k + 1, n, next)
<1>1. Len(next) = n + 7 - (k + 1)
  OBVIOUS
<1>2. ASSUME NEW i \in 1 .. Len(next), i > n
      PROVE  next[i] = Do(Sequel[(k + 1) - 1 + i - n], None)
  <2>1. CASE i <= n + l
    <3> DEFINE j == i - n
    <3>1. j \in 1 .. l /\ n + j = i /\ k + j = (k + 1) - 1 + i - n
      BY <1>2, <2>1
    <3>2. QED
      BY <3>1
  <2>2. CASE i > n + l
    <3> DEFINE j == i - n - l
    <3>1. j \in 1 .. m /\ n + l + j = i /\ k + l + j = (k + 1) - 1 + i - n
      BY <1>2, <2>2
    <3>2. QED
      BY <3>1
  <2>3. QED
    BY <2>1, <2>2
<1>3. k + 1 = 7 => n > 0
  OBVIOUS
<1>4. QED
  BY <1>1, <1>2, <1>3 DEF Stage

(* The calls of stage k + 1, one for each workflow concerned.              *)
Listed(k, calls) ==
  \A i \in 1 .. Len(calls) : /\ calls[i].do = Pass[k + 1] /\ calls[i].w \in Workflow
                             /\ k > 1 => ~calls[i].test

(* What comes after them: the stage before them left `tail`.               *)
Rest(k) == IF k = 1 THEN <<Do("deleteAll", None)>> ELSE <<>>
Continued(k, rest, tail) ==
  /\ Len(rest) + Len(tail) = 6 - k
  /\ \A i \in 1 .. Len(rest) : rest[i] = Do(Sequel[k + i], None)
  /\ \A i \in 1 .. Len(tail) : tail[i] = Do(Sequel[k + Len(rest) + i], None)

LEMMA StageRest ==
  ASSUME NEW k \in 1 .. 6, NEW todo \in Seq(Calls), todo # <<>>, Stage(k, 0, todo)
  PROVE  /\ Rest(k) \in Seq(Calls) /\ Tail(todo) \in Seq(Calls)
         /\ Continued(k, Rest(k), Tail(todo))
<1> DEFINE tail == Tail(todo)
<1>1. /\ Len(todo) \in Nat /\ tail \in Seq(Calls) /\ Len(tail) = Len(todo) - 1
      /\ \A i \in 1 .. Len(todo) - 1 : tail[i] = todo[i + 1]
  BY NonEmptySeq
<1> HIDE DEF tail
<1>2. CASE k = 1
  <2>1. todo = StartProgram
    BY <1>2 DEF Stage
  <2>2. Len(tail) = 4 /\ \A i \in 1 .. 4 : tail[i] = StartProgram[i + 1]
    BY <1>1, <2>1 DEF StartProgram
  <2>3. \A i \in 1 .. 4 : StartProgram[i + 1] = Do(Sequel[1 + 1 + i], None)
    BY DEF StartProgram, Sequel
  <2> DEFINE rest == <<Do("deleteAll", None)>>
  <2>4. rest \in Seq(Calls)
    BY DEF Calls, StartCalls, Do, Call
  <2>5. Len(rest) = 1 /\ \A i \in 1 .. 1 : rest[i] = Do(Sequel[1 + i], None)
    BY DEF Sequel
  <2> HIDE DEF rest
  <2>6. Continued(1, rest, tail)
    BY <2>2, <2>3, <2>5 DEF Continued
  <2>7. QED
    BY <1>1, <1>2, <2>4, <2>6 DEF tail, rest, Rest
<1>3. CASE k > 1
  <2>1. Len(todo) = 7 - k /\ Len(tail) = 6 - k
    BY <1>1, <1>3 DEF Stage
  <2>2. ASSUME NEW i \in 1 .. Len(tail) PROVE tail[i] = Do(Sequel[k + 0 + i], None)
    <3>1. i + 1 \in 1 .. Len(todo) /\ i + 1 > 0 /\ tail[i] = todo[i + 1]
      BY <1>1, <2>1
    <3>2. todo[i + 1] = Do(Sequel[k - 1 + (i + 1) - 0], None)
      BY <1>3, <3>1 DEF Stage
    <3>3. k - 1 + (i + 1) - 0 = k + 0 + i
      BY <2>1
    <3>4. QED
      BY <3>1, <3>2, <3>3
  <2> DEFINE rest == <<>>
  <2>3. rest \in Seq(Calls) /\ Len(rest) = 0
    OBVIOUS
  <2> HIDE DEF rest
  <2>4. Continued(k, rest, tail)
    BY <2>1, <2>2, <2>3 DEF Continued
  <2>5. QED
    BY <1>1, <1>3, <2>3, <2>4 DEF tail, rest, Rest
<1>4. QED
  BY <1>2, <1>3

LEMMA StageJoined ==
  ASSUME NEW k \in 1 .. 6, NEW calls, NEW rest, NEW tail, NEW next,
         JoinedThree(calls, rest, tail, next), Len(next) # 0,
         Listed(k, calls), Continued(k, rest, tail)
  PROVE  /\ Len(calls) \in Nat /\ Stage(k + 1, Len(calls), next)
         /\ \A i \in 1 .. Len(calls) : next[i] = calls[i]
<1>1. /\ Len(calls) \in Nat /\ Len(rest) \in Nat /\ Len(tail) \in Nat
      /\ Len(next) = Len(calls) + Len(rest) + Len(tail)
      /\ \A i \in 1 .. Len(calls) : next[i] = calls[i]
      /\ \A i \in 1 .. Len(rest) : next[Len(calls) + i] = rest[i]
      /\ \A i \in 1 .. Len(tail) : next[Len(calls) + Len(rest) + i] = tail[i]
  BY DEF JoinedThree
<1>2. /\ \A i \in 1 .. Len(calls) : /\ next[i].do = Pass[k + 1] /\ next[i].w \in Workflow
                                    /\ k > 1 => ~next[i].test
      /\ \A i \in 1 .. Len(rest) : next[Len(calls) + i] = Do(Sequel[k + i], None)
      /\ \A i \in 1 .. Len(tail) :
           next[Len(calls) + Len(rest) + i] = Do(Sequel[k + Len(rest) + i], None)
  BY <1>1 DEF Listed, Continued
<1>3. Len(rest) + Len(tail) = 6 - k
  BY DEF Continued
<1>4. QED
  BY <1>1, <1>2, <1>3, StageNext

LEMMA StageExpand ==
  ASSUME NEW k \in 1 .. 6, NEW todo \in Seq(Calls), todo # <<>>, Stage(k, 0, todo),
         NEW calls \in Seq(Calls), Listed(k, calls)
  PROVE  LET next == (calls \o Rest(k)) \o Tail(todo)
         IN  /\ next \in Seq(Calls)
             /\ next # <<>> => /\ Len(calls) \in Nat /\ Stage(k + 1, Len(calls), next)
                               /\ \A i \in 1 .. Len(calls) : next[i] = calls[i]
<1> DEFINE rest == Rest(k)
           tail == Tail(todo)
<1>1. rest \in Seq(Calls) /\ tail \in Seq(Calls) /\ Continued(k, rest, tail)
  BY StageRest
<1> HIDE DEF rest, tail
<1> DEFINE f == calls \o rest
           next == f \o tail
<1>2. f \in Seq(Calls) /\ Joined(calls, rest, f)
  BY <1>1, ConcatSeq
<1> HIDE DEF f
<1>3. next \in Seq(Calls) /\ Joined(f, tail, next)
  BY <1>1, <1>2, ConcatSeq
<1> HIDE DEF next
<1>4. JoinedThree(calls, rest, tail, next)
  BY <1>2, <1>3, JoinThree
<1>5. ASSUME next # <<>>
      PROVE  /\ Len(calls) \in Nat /\ Stage(k + 1, Len(calls), next)
             /\ \A i \in 1 .. Len(calls) : next[i] = calls[i]
  <2>1. Len(next) # 0
    BY <1>3, <1>5
  <2>2. QED
    BY <1>1, <1>4, <2>1, StageJoined
<1>6. QED
  BY <1>3, <1>5 DEF next, f, tail, rest

-----------------------------------------------------------------------------
(* A process as a whole.                                                   *)

(* Where it may be in its call.                                            *)
InCall(r) ==
  r.todo # <<>> =>
    /\ r.at = "terminate" => Head(r.todo).do \in {"setup", "terminate", "expire"}
    /\ r.at = "execute" => Head(r.todo).do \in {"setup", "expire"}
    /\ r.at \in {"hooks", "static"} => Head(r.todo).do \in {"register", "unregister"}
    /\ r.at = "hooks" => r.left # <<>>
    /\ r.at = "static" => r.left = <<>>
    /\ r.at \in {"hooks", "static"} => r.copy \in Loaded

(* It has read the workflows it sets up a schedule for.                    *)
HasSeen(r) ==
  \A i \in DOMAIN r.todo : r.todo[i].do = "setup" => r.seen[r.todo[i].w] \in Loaded

Shaped(p, r) ==
  /\ InCall(r) /\ HasSeen(r)
  /\ r.op = "update" => r.new \in [active : BOOLEAN, def : Definition]
  /\ p \in Slot => r = Idle \/ (r.op \in Ops /\ \E w \in Workflow : LeftOf(r.op, w, r.todo))
  /\ p \in Workflow => r = Idle \/ (r.op = "expire" /\ LeftOf("expire", p, r.todo))
  /\ p = Main => \/ r = Idle
                 \/ r.op = "start" /\ r.todo # <<>> /\ \E k \in 1 .. 7, n \in Nat : Stage(k, n, r.todo)
Shape == \A p \in Proc : Shaped(p, proc[p])

Occupied(p, r, w) ==
  \/ p = Main /\ r # Idle
  \/ \E i \in DOMAIN r.todo : r.todo[i].w = w

LEMMA BusyIsOccupied ==
  ASSUME NEW p, NEW w
  PROVE  /\ Busy(p, w) <=> Occupied(p, proc[p], w)
         /\ Busy(p, w)' <=> Occupied(p, proc'[p], w)
BY DEF Busy, Occupied

LEMMA ProcNames ==
  /\ Main \in Proc /\ Main \notin Slot /\ Main \notin Workflow
  /\ Slot \subseteq Proc /\ Workflow \subseteq Proc
  /\ \A p \in Proc : p = Main \/ (p \in Slot /\ p \notin Workflow /\ p # Main)
                              \/ (p \in Workflow /\ p \notin Slot /\ p # Main)
BY LifecycleAssumption DEF Proc

LEMMA IdleShaped ==
  ASSUME NEW p \in Proc
  PROVE  Shaped(p, Idle) /\ \A w : ~Occupied(p, Idle, w)
<1>1. Idle.todo = <<>> /\ Idle.op = "idle"
  BY DEF Idle
<1>2. \A w : ~Occupied(p, Idle, w)
  BY <1>1 DEF Occupied
<1>3. QED
  BY <1>1, <1>2 DEF Shaped, InCall, HasSeen

(* A request or an activity is about one workflow, the one of its call.    *)
LEMMA SlotOccupied ==
  ASSUME NEW p \in Proc, p # Main, NEW r \in Processes, Shaped(p, r), r.todo # <<>>
  PROVE  /\ r.op \in Programs /\ Head(r.todo).w \in Workflow
         /\ LeftOf(r.op, Head(r.todo).w, r.todo)
         /\ \A w : Occupied(p, r, w) <=> w = Head(r.todo).w
         /\ p \in Workflow => r.op = "expire" /\ Head(r.todo).w = p
         /\ p \in Slot => r.op \in Ops
<1>1. r # Idle
  BY DEF Idle
<1>2. PICK w \in Workflow : r.op \in Programs /\ LeftOf(r.op, w, r.todo) /\ (p \in Workflow => w = p /\ r.op = "expire")
                            /\ (p \in Slot => r.op \in Ops)
  BY <1>1, ProcNames DEF Shaped, Programs
<1>3. Head(r.todo).w = w
  BY <1>2, LeftCalls
<1>4. r.todo \in Seq(WorkflowCall) /\ DOMAIN r.todo = 1 .. Len(r.todo) /\ Len(r.todo) > 0 /\ Len(r.todo) \in Nat
  BY <1>2, NonEmptySeq DEF LeftOf
<1>5. \A i \in DOMAIN r.todo : r.todo[i].w = w
  BY <1>2, <1>4 DEF LeftOf
<1>6. 1 \in DOMAIN r.todo
  BY <1>4
<1>7. \A v : Occupied(p, r, v) <=> v = w
  BY <1>5, <1>6 DEF Occupied
<1>8. QED
  BY <1>2, <1>3, <1>7

LEMMA MainOccupied ==
  ASSUME NEW r \in Processes, Shaped(Main, r)
  PROVE  /\ \A w : Occupied(Main, r, w) <=> r # Idle
         /\ r # Idle <=> r.todo # <<>>
<1>1. Idle.todo = <<>>
  BY DEF Idle
<1>2. r # Idle => r.todo # <<>>
  BY DEF Shaped
<1>3. QED
  BY <1>1, <1>2 DEF Occupied

LEMMA AtRest ==
  ASSUME NEW p \in Proc, NEW r \in Processes, Shaped(p, r)
  PROVE  r # Idle <=> r.todo # <<>>
<1>1. Idle.todo = <<>>
  BY DEF Idle
<1>2. r # Idle => r.todo # <<>>
  BY ProcNames DEF Shaped, LeftOf
<1>3. QED
  BY <1>1, <1>2

LEMMA ExpiringShaped ==
  ASSUME NEW w \in Workflow
  PROVE  Shaped(w, Expiring(w)) /\ \A v : Occupied(w, Expiring(w), v) <=> v = w
<1> DEFINE r == Expiring(w)
<1>1. r \in Processes /\ r.todo = <<Call("unregister", w, TRUE)>> /\ r.at = "start" /\ r.op = "expire"
  BY ExpiringType
<1> HIDE DEF r
<1> DEFINE c == Call("unregister", w, TRUE)
<1>2. c.do = "unregister" /\ c.w = w /\ c.test /\ c \in WorkflowCall
  BY DEF Call, WorkflowCall, HandlerCalls
<1>3. r.todo = <<c>>
  BY <1>1
<1> HIDE DEF c
<1>4. /\ r.todo \in Seq(WorkflowCall) /\ r.todo # <<>>
      /\ Len(r.todo) = 1 /\ DOMAIN r.todo = {1} /\ r.todo[1] = c
  BY <1>2, <1>3
<1>5. LeftOf("expire", w, r.todo)
  BY <1>2, <1>4 DEF LeftOf, MayEnd
<1>6. InCall(r) /\ HasSeen(r)
  BY <1>1, <1>2, <1>4 DEF InCall, HasSeen
<1>7. Shaped(w, r)
  BY <1>1, <1>5, <1>6, ProcNames DEF Shaped
<1>8. \A v : Occupied(w, r, v) <=> v = w
  BY <1>2, <1>4, ProcNames DEF Occupied
<1>9. QED
  BY <1>7, <1>8 DEF r

LEMMA StartingShaped == Shaped(Main, Starting) /\ Starting # Idle
<1> DEFINE r == Starting
<1>1. r \in Processes /\ r.todo = StartProgram /\ r.at = "start" /\ r.op = "start"
  BY StartingType
<1> HIDE DEF r
<1>2. HasSeen(r)
  BY <1>1 DEF HasSeen, StartProgram, Do, Call
<1>3. r.todo # <<>> /\ Stage(1, 0, r.todo) /\ 0 \in Nat /\ 1 \in 1 .. 7
  BY <1>1, StageOne
<1>4. Shaped(Main, r)
  BY <1>1, <1>2, <1>3, ProcNames DEF Shaped, InCall
<1>5. r # Idle
  BY <1>3 DEF Idle
<1>6. QED
  BY <1>4, <1>5 DEF r

-----------------------------------------------------------------------------
(* The moves of a process.                                                 *)

Moved(p) ==
  /\ ProcType'
  /\ \A q \in Proc \ {p} : proc'[q] = proc[q]
  /\ Shaped(p, proc'[p])
  /\ \A w : Occupied(p, proc'[p], w) => Occupied(p, proc[p], w)

Returned(r, seen) ==
  [r EXCEPT !.todo = Tail(@), !.at = "start", !.left = <<>>, !.copy = None, !.seen = seen]

Seen == [Workflow -> Loaded \cup {None}]
KeepsSeen(r, seen) == \A w \in Workflow : r.seen[w] \in Loaded => seen[w] \in Loaded

LEMMA TypedProcess ==
  ASSUME ProcType, NEW p \in Proc
  PROVE  /\ proc[p] \in Processes /\ proc[p].todo \in Seq(Calls) /\ proc[p].seen \in Seen
         /\ proc[p].left \in Seq(AllWebhooks)
         /\ proc[p].todo # <<>> => Here(p) \in Calls
<1>1. /\ proc[p] \in Processes /\ proc[p].todo \in Seq(Calls) /\ proc[p].seen \in Seen
      /\ proc[p].left \in Seq(AllWebhooks)
  BY DEF ProcType, Processes, Seen
<1>2. QED
  BY <1>1, NonEmptySeq DEF Here

(* With its calls goes what a process is concerned with and has seen.      *)
LEMMA TailKeeps ==
  ASSUME NEW p \in Proc, NEW r \in Processes, r.todo # <<>>, r # Idle,
         NEW todo, todo = Tail(r.todo)
  PROVE  /\ \A i \in DOMAIN todo : \E j \in DOMAIN r.todo : todo[i] = r.todo[j]
         /\ \A w : (\E i \in DOMAIN todo : todo[i].w = w) => Occupied(p, r, w)
<1>1. r.todo \in Seq(Calls)
  BY DEF Processes
<1>2. /\ Len(r.todo) \in Nat /\ DOMAIN r.todo = 1 .. Len(r.todo)
      /\ todo \in Seq(Calls) /\ Len(todo) = Len(r.todo) - 1
      /\ \A i \in 1 .. Len(r.todo) - 1 : todo[i] = r.todo[i + 1]
  BY <1>1, NonEmptySeq
<1>3. DOMAIN todo = 1 .. Len(r.todo) - 1
  BY <1>2
<1>4. ASSUME NEW i \in DOMAIN todo PROVE \E j \in DOMAIN r.todo : todo[i] = r.todo[j]
  <2>1. i + 1 \in DOMAIN r.todo /\ todo[i] = r.todo[i + 1]
    BY <1>2, <1>3
  <2>2. QED
    BY <2>1
<1>5. QED
  BY <1>4 DEF Occupied

LEMMA ReturnedShaped ==
  ASSUME NEW p \in Proc, NEW r \in Processes, Shaped(p, r), r.todo # <<>>, Len(r.todo) > 1,
         NEW seen \in Seen, KeepsSeen(r, seen),
         NEW next \in Processes, next = Returned(r, seen)
  PROVE  /\ Shaped(p, next) /\ next.op = r.op /\ next.at = "start"
         /\ \A w : Occupied(p, next, w) => Occupied(p, r, w)
<1>1. /\ next.op = r.op /\ next.todo = Tail(r.todo) /\ next.at = "start" /\ next.seen = seen
      /\ next.new = r.new
  BY DEF Returned, Processes
<1>2. r # Idle
  BY DEF Idle
<1>3. r.todo \in Seq(Calls)
  BY DEF Processes
<1>4. /\ \A i \in DOMAIN next.todo : \E j \in DOMAIN r.todo : next.todo[i] = r.todo[j]
      /\ \A w : (\E i \in DOMAIN next.todo : next.todo[i].w = w) => Occupied(p, r, w)
  BY <1>1, <1>2, TailKeeps
<1>5. InCall(next)
  BY <1>1 DEF InCall
<1>6. HasSeen(next)
  <2>1. \A j \in DOMAIN r.todo : r.todo[j] \in Calls
    BY <1>3
  <2>2. \A c \in Calls : c.do = "setup" => c.w \in Workflow
    BY DEF Calls, WorkflowCall, StartCalls
  <2>3. QED
    BY <1>1, <1>4, <2>1, <2>2 DEF HasSeen, KeepsSeen, Shaped
<1>7. p \in Slot => next.op \in Ops /\ \E w \in Workflow : LeftOf(next.op, w, next.todo)
  <2>1. SUFFICES ASSUME p \in Slot PROVE next.op \in Ops /\ \E w \in Workflow : LeftOf(next.op, w, next.todo)
    OBVIOUS
  <2>2. PICK w \in Workflow : r.op \in Ops /\ LeftOf(r.op, w, r.todo)
    BY <1>2, <2>1 DEF Shaped
  <2>3. LeftOf(r.op, w, Tail(r.todo))
    BY <2>2, LeftCalls DEF Programs
  <2>4. QED
    BY <1>1, <2>2, <2>3
<1>8. p \in Workflow => next.op = "expire" /\ LeftOf("expire", p, next.todo)
  <2>1. SUFFICES ASSUME p \in Workflow PROVE next.op = "expire" /\ LeftOf("expire", p, next.todo)
    OBVIOUS
  <2>2. r.op = "expire" /\ LeftOf("expire", p, r.todo)
    BY <1>2, <2>1 DEF Shaped
  <2>3. LeftOf("expire", p, Tail(r.todo))
    BY <2>1, <2>2, LeftCalls DEF Programs
  <2>4. QED
    BY <1>1, <2>2, <2>3
<1>9. p = Main => /\ next.op = "start" /\ next.todo # <<>>
                  /\ \E k \in 1 .. 7, n \in Nat : Stage(k, n, next.todo)
  <2>1. SUFFICES ASSUME p = Main
                 PROVE  /\ next.op = "start" /\ next.todo # <<>>
                        /\ \E k \in 1 .. 7, n \in Nat : Stage(k, n, next.todo)
    OBVIOUS
  <2>2. PICK k \in 1 .. 7, n \in Nat : Stage(k, n, r.todo)
    BY <1>2, <2>1 DEF Shaped
  <2>3. /\ n > 0 => Stage(k, n - 1, Tail(r.todo))
        /\ n = 0 => Stage(IF k = 1 THEN 3 ELSE k + 1, 0, Tail(r.todo)) /\ k < 6
    BY <1>3, <2>2, StageTail
  <2>4. \E j \in 1 .. 7, m \in Nat : Stage(j, m, next.todo)
    <3>1. CASE n > 0
      BY <1>1, <2>3, <3>1
    <3>2. CASE n = 0
      BY <1>1, <2>3, <3>2
    <3>3. QED
      BY <3>1, <3>2
  <2>5. next.todo # <<>>
    BY <1>1, <1>3, LongTail
  <2>6. QED
    BY <1>1, <1>2, <2>1, <2>4, <2>5 DEF Shaped
<1>10. Shaped(p, next)
  BY <1>1, <1>5, <1>6, <1>7, <1>8, <1>9 DEF Shaped
<1>11. \A w : Occupied(p, next, w) => Occupied(p, r, w)
  BY <1>2, <1>4 DEF Occupied
<1>12. QED
  BY <1>1, <1>10, <1>11

LEMMA ReturnMoves ==
  ASSUME ProcType, NEW p \in Proc, Shaped(p, proc[p]), proc[p].todo # <<>>,
         NEW seen \in Seen, KeepsSeen(proc[p], seen), ReturnWith(p, seen)
  PROVE  /\ Moved(p) /\ proc'[p].at = "start"
         /\ \/ Len(proc[p].todo) = 1 /\ proc'[p] = Idle
            \/ Len(proc[p].todo) > 1 /\ proc'[p] = Returned(proc[p], seen)
<1>1. /\ ProcType'
      /\ \A q \in Proc \ {p} : proc'[q] = proc[q]
      /\ \/ Len(proc[p].todo) = 1 /\ proc'[p] = Idle
         \/ Len(proc[p].todo) > 1 /\ proc'[p] = Returned(proc[p], seen)
  BY ReturnProcess DEF Returned, Seen
<1>2. CASE proc'[p] = Idle
  BY <1>1, <1>2, IdleShaped, IdleType DEF Moved
<1>3. CASE Len(proc[p].todo) > 1 /\ proc'[p] = Returned(proc[p], seen)
  <2>1. proc[p] \in Processes /\ proc'[p] \in Processes
    BY <1>1 DEF ProcType
  <2>2. /\ Shaped(p, proc'[p]) /\ proc'[p].at = "start"
        /\ \A w : Occupied(p, proc'[p], w) => Occupied(p, proc[p], w)
    BY <1>3, <2>1, ReturnedShaped
  <2>3. QED
    BY <1>1, <2>2 DEF Moved
<1>4. QED
  BY <1>1, <1>2, <1>3

LEMMA PlainReturnMoves ==
  ASSUME ProcType, NEW p \in Proc, Shaped(p, proc[p]), proc[p].todo # <<>>, Return(p)
  PROVE  /\ Moved(p) /\ proc'[p].at = "start"
         /\ \/ Len(proc[p].todo) = 1 /\ proc'[p] = Idle
            \/ Len(proc[p].todo) > 1 /\ proc'[p] = Returned(proc[p], proc[p].seen)
<1>1. proc[p].seen \in Seen /\ KeepsSeen(proc[p], proc[p].seen)
  BY TypedProcess DEF KeepsSeen
<1>2. QED
  BY <1>1, ReturnMoves DEF Return

LEMMA EndMoves ==
  ASSUME ProcType, NEW p \in Proc, Shaped(p, proc[p]), proc[p].todo # <<>>, proc'[p] = Idle \/ (p \in Workflow /\ proc'[p] = Expiring(p)),
         ProcType', \A q \in Proc \ {p} : proc'[q] = proc[q]
  PROVE  Moved(p) /\ proc'[p].at = "start"
<1>1. CASE proc'[p] = Idle
  BY <1>1, IdleShaped, IdleType DEF Moved
<1>2. CASE p \in Workflow /\ proc'[p] = Expiring(p)
  <2>1. Shaped(p, proc'[p]) /\ \A v : Occupied(p, proc'[p], v) <=> v = p
    BY <1>2, ExpiringShaped
  <2>2. proc[p] \in Processes
    BY DEF ProcType
  <2>3. Occupied(p, proc[p], p)
    BY <1>2, <2>2, SlotOccupied, ProcNames
  <2>4. QED
    BY <1>2, <2>1, <2>3, ExpiringType DEF Moved
<1>3. QED
  BY <1>1, <1>2

LEMMA FailMoves ==
  ASSUME ProcType, NEW p \in Proc, Shaped(p, proc[p]), proc[p].todo # <<>>, Fail(p)
  PROVE  /\ Moved(p) /\ proc'[p].at = "start"
         /\ \/ p = Main /\ Here(p).do \in {"registerAll", "setupAll"} /\ proc'[p] = Starting
            \/ /\ IF p = Main THEN Here(p).do \notin {"registerAll", "setupAll"}
                  ELSE Here(p).do = "expire"
               /\ Return(p)
            \/ /\ p # Main /\ Here(p).do # "expire"
               /\ proc'[p] = Idle \/ (p \in Workflow /\ proc'[p] = Expiring(p))
<1>1. /\ ProcType'
      /\ \A q \in Proc \ {p} : proc'[q] = proc[q]
      /\ \/ p = Main /\ Here(p).do \in {"registerAll", "setupAll"} /\ proc'[p] = Starting
         \/ /\ IF p = Main THEN Here(p).do \notin {"registerAll", "setupAll"}
               ELSE Here(p).do = "expire"
            /\ Return(p)
         \/ /\ p # Main /\ Here(p).do # "expire"
            /\ proc'[p] = Idle \/ (p \in Workflow /\ proc'[p] = Expiring(p))
  BY FailProcess
<1>2. CASE p = Main /\ proc'[p] = Starting
  <2>1. proc[p] \in Processes /\ proc[p] # Idle
    BY DEF ProcType, Idle
  <2>2. \A w : Occupied(p, proc[p], w)
    BY <1>2, <2>1 DEF Occupied
  <2>3. QED
    BY <1>1, <1>2, <2>2, StartingShaped, StartingType DEF Moved
<1>3. CASE Return(p)
  BY <1>1, <1>3, PlainReturnMoves
<1>4. CASE proc'[p] = Idle \/ (p \in Workflow /\ proc'[p] = Expiring(p))
  BY <1>1, <1>4, EndMoves
<1>5. QED
  BY <1>1, <1>2, <1>3, <1>4

(* A step inside a call keeps the calls.                                   *)
LEMMA InCallMoves ==
  ASSUME ProcType, NEW p \in Proc, Shaped(p, proc[p]), proc[p].todo # <<>>,
         NEW next \in Processes, proc' = [proc EXCEPT ![p] = next],
         expiry' \in [Workflow -> {"none", "sleeping", "active"}], tries' \in [Workflow -> Nat],
         next.todo = proc[p].todo, next.op = proc[p].op, next.new = proc[p].new,
         next.seen = proc[p].seen, InCall(next)
  PROVE  Moved(p) /\ proc'[p] = next
<1>1. proc' \in [Proc -> Processes] /\ proc'[p] = next /\ \A q \in Proc \ {p} : proc'[q] = proc[q]
  BY DEF ProcType
<1>2. ProcType'
  BY <1>1 DEF ProcType
<1>3. proc[p] # Idle /\ next # Idle
  BY DEF Idle
<1>4. Shaped(p, next)
  BY <1>3 DEF Shaped, HasSeen
<1>5. \A w : Occupied(p, next, w) => Occupied(p, proc[p], w)
  BY <1>3 DEF Occupied
<1>6. QED
  BY <1>1, <1>2, <1>4, <1>5 DEF Moved

LEMMA GotoMoves ==
  ASSUME ProcType, NEW p \in Proc, Shaped(p, proc[p]), proc[p].todo # <<>>,
         NEW at, Goto(p, at),
         expiry' \in [Workflow -> {"none", "sleeping", "active"}], tries' \in [Workflow -> Nat],
         \/ at = "terminate" /\ Here(p).do \in {"setup", "terminate", "expire"}
         \/ at = "execute" /\ Here(p).do \in {"setup", "expire"}
  PROVE  Moved(p) /\ proc'[p] = [proc[p] EXCEPT !.at = at]
<1> DEFINE next == [proc[p] EXCEPT !.at = at]
<1>1. proc[p] \in Processes
  BY DEF ProcType
<1>2. /\ next \in Processes /\ next.todo = proc[p].todo /\ next.op = proc[p].op
      /\ next.new = proc[p].new /\ next.seen = proc[p].seen /\ next.at = at
  BY <1>1 DEF Processes
<1>3. proc' = [proc EXCEPT ![p] = next]
  BY <1>1 DEF Goto
<1> HIDE DEF next
<1>4. InCall(next)
  BY <1>2 DEF InCall, Here
<1>5. Moved(p) /\ proc'[p] = next
  BY <1>2, <1>3, <1>4, InCallMoves
<1>6. QED
  BY <1>5 DEF next

LEMMA HookMoves ==
  ASSUME ProcType, NEW p \in Proc, Shaped(p, proc[p]), proc[p].todo # <<>>,
         proc[p].at = "hooks", NextHook(p)
  PROVE  /\ Moved(p) /\ proc[p].left # <<>> /\ Here(p).do \in {"register", "unregister"}
         /\ proc'[p] = [proc[p] EXCEPT !.left = Tail(@),
                                       !.at = IF Len(proc[p].left) = 1 THEN "static" ELSE "hooks"]
<1> DEFINE at == IF Len(proc[p].left) = 1 THEN "static" ELSE "hooks"
           next == [proc[p] EXCEPT !.left = Tail(@), !.at = at]
<1>1. proc[p] \in Processes /\ proc[p].left \in Seq(AllWebhooks)
  BY DEF ProcType, Processes
<1>2. /\ proc[p].left # <<>> /\ Here(p).do \in {"register", "unregister"}
      /\ proc[p].copy \in Loaded
  BY DEF Shaped, InCall, Here
<1>3. /\ Tail(proc[p].left) \in Seq(AllWebhooks)
      /\ Len(proc[p].left) = 1 => Tail(proc[p].left) = <<>>
      /\ Len(proc[p].left) # 1 => Tail(proc[p].left) # <<>>
  <2>1. /\ Len(proc[p].left) \in Nat /\ Len(proc[p].left) > 0
        /\ Tail(proc[p].left) \in Seq(AllWebhooks) /\ Len(Tail(proc[p].left)) = Len(proc[p].left) - 1
    BY <1>1, <1>2, NonEmptySeq
  <2>2. \A t \in Seq(AllWebhooks) : Len(t) = 0 <=> t = <<>>
    OBVIOUS
  <2>3. Len(Tail(proc[p].left)) = 0 <=> Len(proc[p].left) = 1
    BY <2>1
  <2>4. QED
    BY <2>1, <2>2, <2>3
<1>4. /\ next \in Processes /\ next.todo = proc[p].todo /\ next.op = proc[p].op
      /\ next.new = proc[p].new /\ next.seen = proc[p].seen /\ next.at = at
      /\ next.left = Tail(proc[p].left) /\ next.copy = proc[p].copy
  BY <1>1, <1>3 DEF Processes
<1>5. proc' = [proc EXCEPT ![p] = next] /\ UNCHANGED <<expiry, tries>>
  BY <1>1 DEF NextHook
<1> HIDE DEF next
<1>6. InCall(next)
  BY <1>2, <1>3, <1>4 DEF InCall, Here
<1>7. expiry' \in [Workflow -> {"none", "sleeping", "active"}] /\ tries' \in [Workflow -> Nat]
  BY <1>5 DEF ProcType
<1>8. Moved(p) /\ proc'[p] = next
  BY <1>4, <1>5, <1>6, <1>7, InCallMoves
<1>9. QED
  BY <1>2, <1>8 DEF next

-----------------------------------------------------------------------------
(* Every step of a process is such a move.                                 *)

Base == TypeInv /\ Shape

LEMMA Standing ==
  ASSUME Base, NEW p \in Proc
  PROVE  /\ ProcType /\ RowType /\ proc[p] \in Processes /\ Shaped(p, proc[p])
         /\ proc[p].at # "start" => proc[p].todo # <<>>
         /\ proc[p].todo # <<>> => Here(p) \in Calls
         /\ UNCHANGED <<expiry, tries>> =>
              /\ expiry' \in [Workflow -> {"none", "sleeping", "active"}]
              /\ tries' \in [Workflow -> Nat]
<1>1. ProcType /\ RowType /\ proc[p] \in Processes /\ Shaped(p, proc[p])
  BY DEF Base, TypeInv, Shape, ProcType
<1>2. proc[p].at # "start" => proc[p].todo # <<>>
  BY <1>1, AtRest, IdleType
<1>3. QED
  BY <1>1, <1>2, TypedProcess DEF ProcType

(* The calls of the handlers and those of start-up have different names.   *)
LEMMA WhoCalls ==
  ASSUME Base, NEW p \in Proc, proc[p].todo # <<>>
  PROVE  /\ Here(p).do \in StartCalls => p = Main /\ Here(p).w = None
         /\ Here(p).do \in HandlerCalls => Here(p) \in WorkflowCall /\ Here(p).w \in Workflow
         /\ p # Main => Here(p) \in WorkflowCall
         /\ p = Main => Here(p).do \notin {"load", "reload", "setActive", "update", "remove", "expire"}
<1>1. proc[p] \in Processes /\ Shaped(p, proc[p]) /\ Here(p) \in Calls /\ proc[p].todo \in Seq(Calls)
  BY Standing DEF Processes
<1>2. ASSUME p # Main PROVE Here(p) \in WorkflowCall
  <2>1. proc[p].op \in Programs /\ LeftOf(proc[p].op, Here(p).w, proc[p].todo) /\ Here(p).w \in Workflow
    BY <1>1, <1>2, SlotOccupied DEF Here
  <2>2. QED
    BY <2>1, LeftCalls DEF Here
<1>3. ASSUME p = Main PROVE Here(p).do \notin {"load", "reload", "setActive", "update", "remove", "expire"}
  <2>1. proc[p] # Idle
    BY DEF Idle
  <2>2. PICK k \in 1 .. 7, n \in Nat : Stage(k, n, proc[p].todo)
    BY <1>1, <1>3, <2>1 DEF Shaped
  <2>3. /\ n = 0 => k < 7 /\ Here(p) = Do(Sequel[k], None)
        /\ n > 0 => k \in {2, 4, 5, 6, 7} /\ Here(p).do = Pass[k]
    BY <1>1, <2>2, StageHead DEF Here
  <2>4. CASE n = 0
    BY <2>3, <2>4 DEF Sequel, Do, Call
  <2>5. CASE n > 0
    BY <2>3, <2>5 DEF Pass
  <2>6. QED
    BY <2>4, <2>5
<1>4. QED
  BY <1>1, <1>2, <1>3 DEF Calls, WorkflowCall, HandlerCalls, StartCalls

LEMMA ReturnOrFailMoves ==
  ASSUME Base, NEW p \in Proc, proc[p].todo # <<>>, Return(p) \/ Fail(p)
  PROVE  Moved(p) /\ proc'[p].at = "start"
BY Standing, PlainReturnMoves, FailMoves

LEMMA RowOfTable ==
  ASSUME RowType, NEW w, Exists(w)
  PROVE  w \in Workflow /\ row[w] \in Loaded
BY DEF RowType, Exists

LEMMA ActiveRow ==
  ASSUME RowType, NEW w, Exists(w), NEW active \in BOOLEAN, UpdateWorkflowEntityActive(w, active)
  PROVE  /\ DOMAIN row' = DOMAIN row /\ hook' = hook
         /\ row'[w] = [row[w] EXCEPT !.active = active] /\ row'[w] \in Loaded
         /\ \A v : v # w => row'[v] = row[v]
<1>1. row[w] \in Loaded
  BY RowOfTable
<1>2. [row[w] EXCEPT !.active = active] \in Loaded
  BY <1>1 DEF Loaded
<1>3. QED
  BY <1>2 DEF UpdateWorkflowEntityActive, RowType, Exists

LEMMA SetActiveMoves ==
  ASSUME Base, NEW p \in Proc, SetActive(p)
  PROVE  Moved(p) /\ proc'[p].at = "start"
<1>1. proc[p].todo # <<>>
  BY DEF SetActive, At
<1> DEFINE w == Here(p).w
           active == proc[p].op = "activate"
<1>2. CASE Exists(w)
  <2> DEFINE seen == [proc[p].seen EXCEPT ![w] = row'[w]]
  <2>1. UpdateWorkflowEntityActive(w, active) /\ ReturnWith(p, seen) /\ active \in BOOLEAN
    BY <1>2 DEF SetActive
  <2>2. row'[w] \in Loaded /\ w \in Workflow
    BY <1>2, <2>1, Standing, ActiveRow, RowOfTable
  <2>3. proc[p].seen \in Seen
    BY Standing, TypedProcess
  <2>4. seen \in Seen /\ KeepsSeen(proc[p], seen)
    BY <2>2, <2>3 DEF Seen, KeepsSeen
  <2>5. QED
    BY <1>1, <2>1, <2>4, Standing, ReturnMoves
<1>3. CASE ~Exists(w)
  BY <1>1, <1>3, ReturnOrFailMoves DEF SetActive
<1>4. QED
  BY <1>2, <1>3

(* The calls that end, in success or failure.                              *)
LEMMA EndingMoves ==
  ASSUME Base, NEW p \in Proc,
         \/ Reload(p) \/ Update(p) \/ DeleteRow(p) \/ SetupExecute(p) \/ Terminate(p)
         \/ UpdateStaticData(p) \/ DeleteAll(p)
  PROVE  /\ proc[p].todo # <<>> /\ (Return(p) \/ Fail(p))
         /\ Moved(p) /\ proc'[p].at = "start"
<1>1. proc[p].todo # <<>> /\ (Return(p) \/ Fail(p))
  <2>1. CASE Reload(p)  BY <2>1 DEF Reload, At
  <2>2. CASE Update(p)  BY <2>2 DEF Update, At
  <2>3. CASE DeleteRow(p)  BY <2>3 DEF DeleteRow, At
  <2>4. CASE SetupExecute(p)  BY <2>4 DEF SetupExecute, At
  <2>5. CASE Terminate(p)  BY <2>5 DEF Terminate, At
  <2>6. CASE UpdateStaticData(p)  BY <2>6, Standing DEF UpdateStaticData
  <2>7. CASE DeleteAll(p)  BY <2>7 DEF DeleteAll, At
  <2>8. QED
    BY <2>1, <2>2, <2>3, <2>4, <2>5, <2>6, <2>7
<1>2. QED
  BY <1>1, ReturnOrFailMoves

(* The calls of more than one access, about a schedule ...                 *)
LEMMA ScheduleMoves ==
  ASSUME Base, NEW p \in Proc, SetupStart(p) \/ SetupTerminate(p) \/ TerminateStart(p)
  PROVE  /\ proc[p].todo # <<>> /\ Moved(p)
         /\ \/ (Return(p) \/ Fail(p)) /\ proc'[p].at = "start"
            \/ \E at \in {"terminate", "execute"} : proc'[p] = [proc[p] EXCEPT !.at = at]
<1>1. /\ proc[p].todo # <<>>
      /\ \/ Return(p) \/ Fail(p)
         \/ /\ UNCHANGED <<expiry, tries>>
            /\ \/ Goto(p, "terminate") /\ Here(p).do \in {"setup", "terminate"}
               \/ Goto(p, "execute") /\ Here(p).do = "setup"
  BY DEF SetupStart, SetupTerminate, TerminateStart, At
<1>2. CASE Return(p) \/ Fail(p)
  BY <1>1, <1>2, ReturnOrFailMoves
<1>3. CASE /\ UNCHANGED <<expiry, tries>>
           /\ \/ Goto(p, "terminate") /\ Here(p).do \in {"setup", "terminate"}
              \/ Goto(p, "execute") /\ Here(p).do = "setup"
  BY <1>1, <1>3, Standing, GotoMoves
<1>4. QED
  BY <1>1, <1>2, <1>3

(* ... about webhooks ...                                                  *)
LEMMA ReadMoves ==
  ASSUME Base, NEW p \in Proc, NEW do \in {"register", "unregister"}, ReadWorkflow(p, do)
  PROVE  /\ proc[p].todo # <<>> /\ Moved(p) /\ Here(p).do = do
         /\ \/ ~Exists(Here(p).w) /\ Fail(p) /\ proc'[p].at = "start"
            \/ /\ Exists(Here(p).w) /\ Webhooks[row[Here(p).w].def] = <<>> /\ Return(p)
               /\ proc'[p].at = "start"
            \/ /\ Exists(Here(p).w) /\ Webhooks[row[Here(p).w].def] # <<>>
               /\ proc'[p] = [proc[p] EXCEPT !.copy = row[Here(p).w], !.at = "hooks",
                                             !.left = Webhooks[row[Here(p).w].def]]
<1>1. proc[p].todo # <<>> /\ Here(p).do = do
  BY DEF ReadWorkflow, At
<1> DEFINE w == Here(p).w
<1>2. CASE ~Exists(w)
  BY <1>1, <1>2, ReturnOrFailMoves DEF ReadWorkflow
<1>3. CASE Exists(w) /\ Webhooks[row[w].def] = <<>>
  BY <1>1, <1>3, ReturnOrFailMoves DEF ReadWorkflow
<1>4. CASE Exists(w) /\ Webhooks[row[w].def] # <<>>
  <2> DEFINE next == [proc[p] EXCEPT !.copy = row[w], !.at = "hooks", !.left = Webhooks[row[w].def]]
  <2>1. proc[p] \in Processes /\ row[w] \in Loaded
    BY <1>4, Standing, RowOfTable
  <2>2. row[w].def \in Definition
    BY <2>1 DEF Loaded
  <2>3. Webhooks[row[w].def] \in Seq(AllWebhooks)
    <3>1. WebhooksOf(row[w].def) \subseteq AllWebhooks
      BY <2>2 DEF AllWebhooks
    <3>2. Webhooks[row[w].def] \in Seq(WebhooksOf(row[w].def))
      BY <2>2, StoreAssumption
    <3> DEFINE s == Webhooks[row[w].def]
               S == WebhooksOf(row[w].def)
    <3> HIDE DEF s, S
    <3>3. s \in Seq(S) /\ S \subseteq AllWebhooks
      BY <3>1, <3>2 DEF s, S
    <3>4. s \in Seq(AllWebhooks)
      BY <3>3
    <3>5. QED
      BY <3>4 DEF s
  <2>4. /\ next \in Processes /\ next.todo = proc[p].todo /\ next.op = proc[p].op
        /\ next.new = proc[p].new /\ next.seen = proc[p].seen /\ next.at = "hooks"
        /\ next.left = Webhooks[row[w].def] /\ next.copy = row[w]
    BY <2>1, <2>3 DEF Processes
  <2>5. proc' = [proc EXCEPT ![p] = next] /\ UNCHANGED <<expiry, tries>>
    BY <1>4, <2>1 DEF ReadWorkflow, Processes
  <2> HIDE DEF next
  <2>6. InCall(next)
    BY <1>1, <1>4, <2>1, <2>4 DEF InCall, Here
  <2>7. Moved(p) /\ proc'[p] = next
    BY <1>1, <2>4, <2>5, <2>6, Standing, InCallMoves
  <2>8. QED
    BY <1>1, <1>4, <2>7 DEF next
<1>5. QED
  BY <1>2, <1>3, <1>4

LEMMA HooksMoves ==
  ASSUME Base, NEW p \in Proc, SaveHook(p) \/ DeleteHook(p)
  PROVE  /\ proc[p].todo # <<>> /\ Moved(p) /\ proc[p].left # <<>>
         /\ proc'[p] = [proc[p] EXCEPT !.left = Tail(@),
                                       !.at = IF Len(proc[p].left) = 1 THEN "static" ELSE "hooks"]
<1>1. proc[p].todo # <<>> /\ proc[p].at = "hooks" /\ NextHook(p)
  BY DEF SaveHook, DeleteHook, At
<1>2. QED
  BY <1>1, Standing, HookMoves

(* ... and about the expiry of test webhooks.                              *)
LEMMA ExpireMoves ==
  ASSUME Base, NEW p \in Proc, ExpireStart(p) \/ ExpireTerminate(p) \/ ExpireExecute(p)
  PROVE  /\ proc[p].todo # <<>> /\ Here(p).do = "expire" /\ Moved(p)
         /\ \/ proc'[p] = Idle
            \/ \E at \in {"terminate", "execute"} : proc'[p] = [proc[p] EXCEPT !.at = at]
<1>1. proc[p].todo # <<>> /\ Here(p).do = "expire"
  BY DEF ExpireStart, ExpireTerminate, ExpireExecute, At
<1>2. /\ expiry' \in [Workflow -> {"none", "sleeping", "active"}]
      /\ tries' \in [Workflow -> Nat]
  <2>1. \/ UNCHANGED <<expiry, tries>>
        \/ \E value \in {"none", "sleeping"} : Expiry(Here(p).w, value)
    BY DEF ExpireStart, ExpireTerminate, ExpireExecute, temporal
  <2>2. ProcType
    BY Standing
  <2>3. QED
    BY <2>1, <2>2 DEF Expiry, ProcType
<1>3. Finish(p) \/ Goto(p, "terminate") \/ Goto(p, "execute")
  BY DEF ExpireStart, ExpireTerminate, ExpireExecute
<1>4. CASE Finish(p)
  <2>1. ProcType' /\ proc'[p] = Idle /\ \A q \in Proc \ {p} : proc'[q] = proc[q]
    BY <1>2, <1>4, Standing, IdleType DEF Finish, ProcType
  <2>2. QED
    BY <1>1, <2>1, Standing, EndMoves
<1>5. CASE Goto(p, "terminate") \/ Goto(p, "execute")
  BY <1>1, <1>2, <1>5, Standing, GotoMoves
<1>6. QED
  BY <1>1, <1>3, <1>4, <1>5

(* A handler that has loaded its workflow goes on with its program.        *)
LEMMA LoadCall ==
  ASSUME Base, NEW p \in Proc, At(p, "load", "start")
  PROVE  /\ p \in Slot /\ proc[p].op \in Ops /\ Here(p).w \in Workflow
         /\ Len(proc[p].todo) = 1 /\ Tail(proc[p].todo) = <<>>
<1> DEFINE r == proc[p]
           w == Here(p).w
<1>1. r.todo # <<>> /\ Head(r.todo).do = "load" /\ r \in Processes /\ Shaped(p, r) /\ p # Main
  BY Standing, WhoCalls DEF At, Here
<1>2. /\ r.op \in Programs /\ w \in Workflow /\ LeftOf(r.op, w, r.todo)
      /\ p \in Slot => r.op \in Ops
      /\ p \in Workflow => r.op = "expire"
  BY <1>1, SlotOccupied DEF Here
<1>3. ~After(r.op, Head(r.todo), Head(Tail(r.todo)))
  BY <1>1, <1>2 DEF After, Programs, Ops
<1>4. Len(r.todo) = 1 /\ MayEnd(r.op, Head(r.todo))
  BY <1>2, <1>3, LeftCalls
<1>5. r.op # "expire"
  BY <1>1, <1>4 DEF MayEnd
<1>6. r.todo \in Seq(Calls)
  BY <1>1 DEF Processes
<1>7. Tail(r.todo) = <<>>
  BY <1>1, <1>4, <1>6, RangeOfTail
<1>8. QED
  BY <1>1, <1>2, <1>4, <1>5, <1>7, ProcNames

LEMMA LoadMoves ==
  ASSUME Base, NEW p \in Proc, Load(p)
  PROVE  /\ proc[p].todo # <<>> /\ Moved(p) /\ proc'[p].at = "start"
         /\ \/ ~Exists(Here(p).w) /\ Fail(p)
            \/ /\ Exists(Here(p).w) /\ proc'[p] = Idle
               /\ AfterLoad(proc[p].op, Here(p).w, row[Here(p).w]) = <<>>
            \/ /\ Exists(Here(p).w)
               /\ LeftOf(proc[p].op, Here(p).w, AfterLoad(proc[p].op, Here(p).w, row[Here(p).w]))
               /\ proc'[p] = Expanded(proc[p], AfterLoad(proc[p].op, Here(p).w, row[Here(p).w]),
                                       [proc[p].seen EXCEPT ![Here(p).w] = row[Here(p).w]])
<1> DEFINE w == Here(p).w
           calls == AfterLoad(proc[p].op, w, row[w])
           seen == [proc[p].seen EXCEPT ![w] = row[w]]
<1>1. /\ proc[p].todo # <<>> /\ At(p, "load", "start") /\ proc[p].at = "start"
      /\ p \in Slot /\ proc[p].op \in Ops /\ w \in Workflow /\ Tail(proc[p].todo) = <<>>
      /\ proc[p] \in Processes /\ Shaped(p, proc[p]) /\ ProcType
  BY LoadCall, Standing DEF Load, At
<1>2. CASE ~Exists(w)
  BY <1>1, <1>2, ReturnOrFailMoves DEF Load
<1>3. CASE Exists(w)
  <2>1. Expand(p, calls, seen) /\ row[w] \in Loaded
    BY <1>3, Standing, RowOfTable DEF Load
  <2>2. calls # <<>> => LeftOf(proc[p].op, w, calls)
    BY <1>1, <2>1, AfterLoadFits
  <2>3. calls \in Seq(WorkflowCall)
    <3>1. <<>> \in Seq(WorkflowCall)
      OBVIOUS
    <3>2. QED
      BY <2>2, <3>1 DEF LeftOf
  <2>4. seen \in [Workflow -> Loaded \cup {None}] /\ seen[w] = row[w]
    BY <1>1, <2>1 DEF Processes
  <2> HIDE DEF calls, seen
  <2>5. calls \in Seq(Calls) /\ calls \o Tail(proc[p].todo) = calls
    <3>1. WorkflowCall \subseteq Calls
      BY DEF Calls
    <3>2. calls \in Seq(Calls)
      BY <2>3, <3>1
    <3>3. calls \o <<>> = calls
      BY <2>3
    <3>4. QED
      BY <1>1, <3>2, <3>3
  <2>6. /\ ProcType'
        /\ \A q \in Proc \ {p} : proc'[q] = proc[q]
        /\ \/ calls = <<>> /\ proc'[p] = Idle
           \/ calls # <<>> /\ proc'[p] = Expanded(proc[p], calls, seen)
    BY <1>1, <2>1, <2>4, <2>5, ExpandProcess
  <2>7. CASE calls = <<>> /\ proc'[p] = Idle
    BY <1>1, <1>3, <2>6, <2>7, EndMoves DEF calls
  <2>8. CASE calls # <<>> /\ proc'[p] = Expanded(proc[p], calls, seen)
    <3> DEFINE next == proc'[p]
    <3>1. /\ next \in Processes /\ next.todo = calls /\ next.seen = seen /\ next.op = proc[p].op
          /\ next.new = proc[p].new /\ next.at = "start"
      BY <1>1, <2>4, <2>5, <2>8, ExpandedFields
    <3> HIDE DEF next
    <3>2. LeftOf(next.op, w, next.todo) /\ p # Main /\ p \notin Workflow
      BY <1>1, <2>2, <2>8, <3>1, ProcNames
    <3>3. \A i \in DOMAIN next.todo : next.todo[i].w = w
      <4>1. DOMAIN next.todo = 1 .. Len(next.todo)
        BY <2>3, <3>1
      <4>2. QED
        BY <3>2, <4>1 DEF LeftOf
    <3>4. InCall(next) /\ HasSeen(next)
      BY <2>1, <2>4, <3>1, <3>3 DEF InCall, HasSeen
    <3>5. Shaped(p, next)
      BY <1>1, <3>1, <3>2, <3>4 DEF Shaped
    <3>6. \A v : Occupied(p, next, v) => v = w
      BY <3>2, <3>3 DEF Occupied
    <3>7. Occupied(p, proc[p], w)
      BY <1>1, SlotOccupied, ProcNames DEF Here
    <3>8. Moved(p)
      BY <2>6, <3>5, <3>6, <3>7 DEF Moved, next
    <3>9. QED
      BY <1>1, <1>3, <2>2, <2>8, <3>1, <3>8 DEF calls, seen, next
  <2>9. QED
    BY <2>6, <2>7, <2>8
<1>4. QED
  BY <1>2, <1>3

-----------------------------------------------------------------------------
(* Start-up.                                                               *)

(* The stage it is in at one of its own calls.                             *)
LEMMA MainStage ==
  ASSUME Base, proc[Main].todo # <<>>
  PROVE  /\ \E k \in 1 .. 7, n \in Nat : Stage(k, n, proc[Main].todo)
         /\ \A k \in 1 .. 7, n \in Nat : Stage(k, n, proc[Main].todo) =>
              /\ n = 0 => k < 7 /\ Here(Main) = Do(Sequel[k], None)
              /\ n > 0 => /\ k \in {2, 4, 5, 6, 7} /\ Here(Main).do = Pass[k]
                          /\ Here(Main).w \in Workflow
                          /\ k > 2 => ~Here(Main).test
              /\ Here(Main).do \in StartCalls => n = 0
<1>1. proc[Main] \in Processes /\ Shaped(Main, proc[Main]) /\ proc[Main].todo \in Seq(Calls)
  BY Standing, ProcNames DEF Processes
<1>2. proc[Main] # Idle
  BY DEF Idle
<1>3. \E k \in 1 .. 7, n \in Nat : Stage(k, n, proc[Main].todo)
  BY <1>1, <1>2 DEF Shaped
<1>4. ASSUME NEW k \in 1 .. 7, NEW n \in Nat, Stage(k, n, proc[Main].todo)
      PROVE  /\ n = 0 => k < 7 /\ Here(Main) = Do(Sequel[k], None)
             /\ n > 0 => /\ k \in {2, 4, 5, 6, 7} /\ Here(Main).do = Pass[k]
                         /\ Here(Main).w \in Workflow
                         /\ k > 2 => ~Here(Main).test
             /\ Here(Main).do \in StartCalls => n = 0
  <2>1. /\ n = 0 => k < 7 /\ Here(Main) = Do(Sequel[k], None)
        /\ n > 0 => /\ k \in {2, 4, 5, 6, 7} /\ Here(Main).do = Pass[k]
                    /\ Here(Main).w \in Workflow
                    /\ k > 2 => ~Here(Main).test
    BY <1>1, <1>4, StageHead DEF Here
  <2>2. ASSUME n > 0 PROVE Here(Main).do \notin StartCalls
    <3>1. Pass[k] \in {"unregister", "register", "terminate", "setup"}
      BY <2>1, <2>2 DEF Pass
    <3>2. QED
      BY <2>1, <2>2, <3>1 DEF StartCalls
  <2>3. QED
    BY <2>1, <2>2
<1>5. QED
  BY <1>3, <1>4

(* A call that lists workflows has been replaced by a call for each of     *)
(* them; start-up is over where nothing is left to call.                   *)
ListingMoved(k, calls, seen) ==
  /\ Moved(Main) /\ proc'[Main].at = "start"
  /\ \/ proc'[Main] = Idle /\ Len(calls) = 0 /\ k = 6
     \/ /\ proc'[Main] # Idle /\ proc'[Main].todo # <<>>
        /\ proc'[Main].seen = seen /\ proc'[Main].todo \in Seq(Calls)
        /\ Len(calls) \in Nat /\ Stage(k + 1, Len(calls), proc'[Main].todo)
        /\ \A i \in 1 .. Len(calls) : proc'[Main].todo[i] = calls[i]

LEMMA ListingMoves ==
  ASSUME Base, proc[Main].todo # <<>>, proc[Main].at = "start",
         NEW k \in 1 .. 6, Stage(k, 0, proc[Main].todo),
         NEW calls \in Seq(Calls), Listed(k, calls),
         NEW seen \in Seen, \A i \in 1 .. Len(calls) : k = 6 => seen[calls[i].w] \in Loaded,
         Expand(Main, calls \o Rest(k), seen)
  PROVE  ListingMoved(k, calls, seen)
<1> USE DEF ListingMoved
<1> DEFINE rest == Rest(k)
           tail == Tail(proc[Main].todo)
           all == calls \o rest
           next == all \o tail
           r == proc'[Main]
<1>1. proc[Main] \in Processes /\ proc[Main].todo \in Seq(Calls) /\ ProcType /\ Shaped(Main, proc[Main])
  BY Standing, ProcNames DEF Processes
<1>2. rest \in Seq(Calls) /\ tail \in Seq(Calls) /\ Continued(k, rest, tail)
  BY <1>1, StageRest
<1>3. /\ next \in Seq(Calls)
      /\ next # <<>> => /\ Len(calls) \in Nat /\ Stage(k + 1, Len(calls), next)
                        /\ \A i \in 1 .. Len(calls) : next[i] = calls[i]
  BY <1>1, StageExpand
<1>4. all \in Seq(Calls) /\ Expand(Main, all, seen)
  BY <1>2, ConcatSeq
<1> HIDE DEF all, tail, rest
<1>5. /\ ProcType'
      /\ \A q \in Proc \ {Main} : proc'[q] = proc[q]
      /\ \/ next = <<>> /\ r = Idle
         \/ next # <<>> /\ r = Expanded(proc[Main], next, seen)
  <2>1. next = all \o Tail(proc[Main].todo)
    BY DEF tail
  <2> HIDE DEF next
  <2>2. seen \in [Workflow -> Loaded \cup {None}] /\ Main \in Proc /\ proc[Main].todo # <<>>
    BY ProcNames DEF Seen
  <2>3. QED
    BY ZenonT(40), <1>1, <1>4, <2>1, <2>2, ExpandProcess
<1>6. CASE next = <<>> /\ r = Idle
  <2>1. Len(next) = Len(calls) + Len(rest) + Len(tail)
    <3>1. Len(next) = Len(all) + Len(tail)
      BY <1>2, <1>4
    <3>2. Len(all) = Len(calls) + Len(rest)
      BY <1>2 DEF all
    <3>3. QED
      BY <3>1, <3>2
  <2>2. Len(calls) \in Nat /\ Len(rest) \in Nat /\ Len(tail) \in Nat /\ Len(next) = 0
    <3>1. Len(calls) \in Nat /\ Len(rest) \in Nat /\ Len(tail) \in Nat
      BY <1>2
    <3>2. Len(next) = 0
      BY <1>6
    <3>3. QED
      BY <3>1, <3>2
  <2>3. Len(rest) + Len(tail) = 6 - k
    BY <1>2 DEF Continued
  <2> DEFINE a == Len(calls)
             b == Len(rest)
             c == Len(tail)
             d == Len(next)
  <2>4. a \in Nat /\ b \in Nat /\ c \in Nat /\ d = 0 /\ d = a + b + c /\ b + c = 6 - k
    BY <2>1, <2>2, <2>3
  <2> HIDE DEF a, b, c, d
  <2>6. a = 0 /\ k = 6
    BY <2>4
  <2>5. QED
    BY <1>1, <1>5, <1>6, <2>6, ProcNames, EndMoves DEF a
<1> HIDE DEF next
<1>7. CASE next # <<>> /\ r = Expanded(proc[Main], next, seen)
  <2>1. /\ r \in Processes /\ r.todo = next /\ r.seen = seen /\ r.op = proc[Main].op
        /\ r.at = "start"
    BY <1>1, <1>3, <1>7, ExpandedFields DEF Seen
  <2>2. proc[Main] # Idle /\ proc[Main].op = "start" /\ r # Idle
    BY <1>1, <1>7, <2>1, ProcNames DEF Idle, Shaped
  <2> HIDE DEF r
  <2>3. Len(calls) \in Nat /\ Stage(k + 1, Len(calls), r.todo)
    BY <1>3, <1>7, <2>1
  <2>4. \A i \in 1 .. Len(calls) : r.todo[i] = calls[i]
    BY <1>3, <1>7, <2>1
  <2>5. HasSeen(r)
    <3>1. SUFFICES ASSUME NEW i \in DOMAIN r.todo, r.todo[i].do = "setup"
                   PROVE  r.seen[r.todo[i].w] \in Loaded
      BY DEF HasSeen
    <3>2. i \in 1 .. Len(r.todo) /\ Len(r.todo) \in Nat
      BY <1>3, <2>1
    <3>3. k + 1 > 1 /\ k + 1 \in 2 .. 7
      OBVIOUS
    <3>4. CASE i > Len(calls)
      <4>1. r.todo[i] = Do(Sequel[(k + 1) - 1 + i - Len(calls)], None)
        BY <2>3, <3>2, <3>3, <3>4 DEF Stage
      <4>2. Len(r.todo) = Len(calls) + 7 - (k + 1)
        BY <2>3, <3>3 DEF Stage
      <4>3. (k + 1) - 1 + i - Len(calls) \in 1 .. 6
        <5> DEFINE a == Len(calls)
                   b == Len(r.todo)
        <5>1. a \in Nat /\ b \in Nat /\ i \in 1 .. b /\ i > a /\ b = a + 7 - (k + 1)
          BY <2>3, <3>2, <3>4, <4>2
        <5> HIDE DEF a, b
        <5>2. (k + 1) - 1 + i - a \in 1 .. 6
          BY <5>1
        <5>3. QED
          BY <5>2 DEF a
      <4>4. \A j \in 1 .. 6 : Do(Sequel[j], None).do # "setup"
        BY DEF Sequel, Do, Call
      <4>5. QED
        BY <3>1, <4>1, <4>3, <4>4
    <3>5. CASE i <= Len(calls)
      <4>1. i \in 1 .. Len(calls) /\ r.todo[i] = calls[i]
        BY <2>3, <2>4, <3>2, <3>5
      <4>2. calls[i].do = Pass[k + 1]
        BY <4>1 DEF Listed
      <4>3. k = 6
        BY <3>1, <4>1, <4>2 DEF Pass
      <4>4. QED
        BY <2>1, <4>1, <4>3
    <3>6. QED
      BY <2>3, <3>2, <3>4, <3>5
  <2>6. Shaped(Main, r)
    <3>1. r.todo # <<>> /\ k + 1 \in 1 .. 7
      BY <1>7, <2>1
    <3>2. QED
      BY <2>1, <2>2, <2>3, <2>5, <3>1, ProcNames DEF Shaped, InCall
  <2>7. Moved(Main)
    BY <1>5, <2>2, <2>6 DEF Moved, Occupied, r
  <2>8. QED
    BY <1>3, <1>7, <2>1, <2>2, <2>3, <2>4, <2>7 DEF r
<1>8. QED
  BY <1>5, <1>6, <1>7

(* The calls for the workflows of a list.                                  *)
LEMMA OrderOf ==
  ASSUME NEW ws \in SUBSET Workflow, NEW order \in Orders(ws)
  PROVE  /\ Cardinality(ws) \in Nat /\ order \in [1 .. Cardinality(ws) -> ws]
         /\ \A w \in ws : \E i \in 1 .. Cardinality(ws) : order[i] = w
         /\ order \in Seq(ws) /\ Len(order) = Cardinality(ws)
<1>1. Cardinality(ws) \in Nat
  BY StoreAssumption, FS_Subset, FS_CardinalityType
<1>2. /\ order \in [1 .. Cardinality(ws) -> ws]
      /\ \A w \in ws : \E i \in 1 .. Cardinality(ws) : order[i] = w
  BY DEF Orders, Bijection, Injection, Surjection
<1> DEFINE n == Cardinality(ws)
<1>3. n \in Nat /\ order \in [1 .. n -> ws]
  BY <1>1, <1>2
<1> HIDE DEF n
<1>4. order \in Seq(ws) /\ Len(order) = n
  BY <1>3
<1>5. QED
  BY <1>1, <1>2, <1>4 DEF n

LEMMA EachCalls ==
  ASSUME NEW ws \in SUBSET Workflow, NEW order \in Orders(ws), NEW do \in HandlerCalls,
         NEW calls, calls = Each(do, order)
  PROVE  /\ calls \in Seq(Calls) /\ Len(calls) \in Nat
         /\ \A i \in 1 .. Len(calls) : /\ calls[i].do = do /\ calls[i].w \in ws
                                       /\ calls[i].w \in Workflow /\ ~calls[i].test
         /\ \A w \in Workflow : w \in ws <=> \E i \in 1 .. Len(calls) : calls[i] = Do(do, w)
<1> DEFINE n == Cardinality(ws)
<1>1. /\ n \in Nat /\ order \in [1 .. n -> ws]
      /\ \A w \in ws : \E i \in 1 .. n : order[i] = w
  BY OrderOf
<1> HIDE DEF n
<1>2. calls = [i \in 1 .. n |-> Do(do, order[i])]
  BY <1>1 DEF Each
<1>3. \A w \in Workflow : Do(do, w) \in Calls
  BY DEF Calls, WorkflowCall, Do, Call
<1>4. \A i \in 1 .. n : calls[i] = Do(do, order[i]) /\ order[i] \in ws /\ order[i] \in Workflow
  BY <1>1, <1>2
<1>5. calls \in [1 .. n -> Calls]
  BY <1>2, <1>3, <1>4
<1>6. calls \in Seq(Calls) /\ Len(calls) = n
  BY <1>1, <1>5
<1>7. \A w : Do(do, w).do = do /\ Do(do, w).w = w /\ ~Do(do, w).test
  BY DEF Do, Call
<1>8. \A i \in 1 .. n : /\ calls[i].do = do /\ calls[i].w = order[i] /\ ~calls[i].test
  BY <1>4, <1>7
<1>9. ASSUME NEW w \in Workflow
      PROVE  w \in ws <=> \E i \in 1 .. n : calls[i] = Do(do, w)
  <2>1. ASSUME w \in ws PROVE \E i \in 1 .. n : calls[i] = Do(do, w)
    BY <1>1, <1>4, <2>1
  <2>2. ASSUME NEW i \in 1 .. n, calls[i] = Do(do, w) PROVE w \in ws
    BY <1>4, <1>7, <1>8, <2>2
  <2>3. QED
    BY <2>1, <2>2
<1>10. QED
  BY <1>1, <1>4, <1>6, <1>8, <1>9

LEMMA TestFirstCalls ==
  ASSUME NEW ws \in SUBSET Workflow, NEW order \in Orders(ws), NEW do \in HandlerCalls,
         NEW calls, calls = TestFirst(do, order)
  PROVE  /\ calls \in Seq(Calls) /\ Len(calls) \in Nat
         /\ \A i \in 1 .. Len(calls) : /\ calls[i].do = do /\ calls[i].w \in ws
                                       /\ calls[i].w \in Workflow
<1> DEFINE n == Cardinality(ws)
<1>1. n \in Nat /\ order \in [1 .. n -> ws] /\ Len(order) = n
  BY OrderOf
<1> HIDE DEF n
<1>2. calls = [i \in 1 .. 2 * n |-> Call(do, order[(i + 1) \div 2], i % 2 = 1)]
  BY <1>1 DEF TestFirst
<1>3. \A i \in 1 .. 2 * n : (i + 1) \div 2 \in 1 .. n
  BY <1>1
<1>4. \A i \in 1 .. 2 * n : order[(i + 1) \div 2] \in ws
  BY <1>1, <1>3
<1>5. \A w \in Workflow, t \in BOOLEAN :
        Call(do, w, t) \in Calls /\ Call(do, w, t).do = do /\ Call(do, w, t).w = w
  BY DEF Calls, WorkflowCall, Call
<1>6. ASSUME NEW i \in 1 .. 2 * n
      PROVE  /\ calls[i] \in Calls /\ calls[i].do = do /\ calls[i].w \in ws /\ calls[i].w \in Workflow
  <2> DEFINE w == order[(i + 1) \div 2]
             t == i % 2 = 1
  <2>1. calls[i] = Call(do, w, t) /\ w \in ws /\ w \in Workflow
    BY <1>2, <1>4
  <2>2. t \in BOOLEAN
    OBVIOUS
  <2> HIDE DEF w, t
  <2>3. QED
    BY <1>5, <2>1, <2>2
<1>7. calls \in [1 .. 2 * n -> Calls]
  <2> DEFINE e(i) == Call(do, order[(i + 1) \div 2], i % 2 = 1)
  <2>1. calls = [i \in 1 .. 2 * n |-> e(i)]
    BY <1>2
  <2>2. \A i \in 1 .. 2 * n : calls[i] \in Calls
    BY <1>6
  <2> HIDE DEF e
  <2>3. QED
    BY <2>1, <2>2
<1>8. calls \in Seq(Calls) /\ Len(calls) = 2 * n
  <2> DEFINE m == 2 * n
  <2>1. m \in Nat /\ calls \in [1 .. m -> Calls]
    BY <1>1, <1>7
  <2> HIDE DEF m
  <2>2. calls \in Seq(Calls) /\ Len(calls) = m
    BY <2>1
  <2>3. QED
    BY <2>2 DEF m
<1>9. QED
  BY <1>1, <1>6, <1>8

(* Start-up has listed the workflows ws for stage k + 1.                   *)
ListedFor(k, ws) ==
  /\ Moved(Main) /\ proc'[Main].at = "start"
  /\ \/ proc'[Main] = Idle /\ k = 6 /\ ws = {}
     \/ /\ proc'[Main] # Idle
        /\ \E n \in Nat :
             /\ Stage(k + 1, n, proc'[Main].todo)
             /\ \A i \in 1 .. n : proc'[Main].todo[i].w \in ws
             /\ k > 1 => \A w \in Workflow :
                  w \in ws <=> \E i \in 1 .. n : proc'[Main].todo[i] = Do(Pass[k + 1], w)
        /\ proc'[Main].seen = [w \in Workflow |-> IF w \in ws /\ Exists(w) THEN row[w] ELSE None]

LEMMA SeenOfList ==
  ASSUME RowType, NEW ws \in SUBSET Workflow,
         NEW seen, seen = [w \in Workflow |-> IF w \in ws /\ Exists(w) THEN row[w] ELSE None]
  PROVE  seen \in Seen /\ \A w \in ws : Exists(w) => seen[w] \in Loaded
BY RowOfTable DEF Seen

LEMMA PassCalls ==
  ASSUME Base, proc[Main].todo # <<>>, proc[Main].at = "start",
         NEW k \in {3, 4, 5, 6}, Stage(k, 0, proc[Main].todo),
         NEW ws \in SUBSET Workflow, k = 6 => \A w \in ws : Exists(w),
         NEW order \in Orders(ws), NEW calls, calls = Each(Pass[k + 1], order),
         NEW seen, seen = [w \in Workflow |-> IF w \in ws /\ Exists(w) THEN row[w] ELSE None],
         Expand(Main, calls \o <<>>, seen)
  PROVE  ListedFor(k, ws)
<1>1. Pass[k + 1] \in HandlerCalls
  BY DEF Pass, HandlerCalls
<1>2. /\ calls \in Seq(Calls) /\ Len(calls) \in Nat
      /\ \A i \in 1 .. Len(calls) : /\ calls[i].do = Pass[k + 1] /\ calls[i].w \in ws
                                    /\ calls[i].w \in Workflow /\ ~calls[i].test
      /\ \A w \in Workflow : w \in ws <=> \E i \in 1 .. Len(calls) : calls[i] = Do(Pass[k + 1], w)
  BY <1>1, EachCalls
<1>3. Listed(k, calls)
  BY <1>2 DEF Listed
<1>4. seen \in Seen /\ \A w \in ws : Exists(w) => seen[w] \in Loaded
  BY Standing, SeenOfList, ProcNames
<1>5. \A i \in 1 .. Len(calls) : k = 6 => seen[calls[i].w] \in Loaded
  BY <1>2, <1>4
<1>6. Rest(k) = <<>>
  BY DEF Rest
<1>7. Expand(Main, calls \o Rest(k), seen) /\ k \in 1 .. 6
  BY <1>6
<1>8. ListingMoved(k, calls, seen)
  BY <1>2, <1>3, <1>4, <1>5, <1>7, ListingMoves
<1>9. CASE proc'[Main] = Idle /\ Len(calls) = 0 /\ k = 6
  <2>1. ws = {}
    BY <1>2, <1>9
  <2>2. QED
    BY <1>8, <1>9, <2>1 DEF ListedFor, ListingMoved
<1>10. CASE /\ proc'[Main] # Idle /\ proc'[Main].todo # <<>>
            /\ proc'[Main].seen = seen /\ proc'[Main].todo \in Seq(Calls)
            /\ Len(calls) \in Nat /\ Stage(k + 1, Len(calls), proc'[Main].todo)
            /\ \A i \in 1 .. Len(calls) : proc'[Main].todo[i] = calls[i]
  <2> DEFINE n == Len(calls)
  <2>1. \A i \in 1 .. n : proc'[Main].todo[i] = calls[i] /\ calls[i].w \in ws
    BY <1>2, <1>10
  <2>2. \A w \in Workflow : w \in ws <=> \E i \in 1 .. n : proc'[Main].todo[i] = Do(Pass[k + 1], w)
    BY <1>2, <2>1
  <2>3. n \in Nat /\ Stage(k + 1, n, proc'[Main].todo)
    BY <1>10
  <2> HIDE DEF n
  <2>4. /\ Stage(k + 1, n, proc'[Main].todo)
        /\ \A i \in 1 .. n : proc'[Main].todo[i].w \in ws
        /\ \A w \in Workflow : w \in ws <=> \E i \in 1 .. n : proc'[Main].todo[i] = Do(Pass[k + 1], w)
    BY <2>1, <2>2, <2>3
  <2>5. QED
    <3>1. Moved(Main) /\ proc'[Main].at = "start"
      BY <1>8 DEF ListingMoved
    <3>2. QED
      BY <1>10, <2>3, <2>4, <3>1, Zenon DEF ListedFor
<1>11. QED
  BY <1>8, <1>9, <1>10, Zenon DEF ListingMoved

(* The calls of start-up, and the workflows they list.                     *)
LEMMA StartCall ==
  ASSUME Base, NEW p \in Proc,
         \/ UnregisterAllWebhooks(p) \/ DeleteAll(p) \/ RegisterAllWebhooks(p)
         \/ TerminateAllTemporalWorkflows(p) \/ SetupAllTemporalWorkflows(p)
  PROVE  /\ p = Main /\ proc[p].todo # <<>> /\ proc[p].at = "start" /\ Here(p).w = None
         /\ \A k \in 1 .. 7, n \in Nat : Stage(k, n, proc[Main].todo) =>
              /\ n = 0
              /\ UnregisterAllWebhooks(p) => k = 1
              /\ DeleteAll(p) => k = 2
              /\ RegisterAllWebhooks(p) => k = 3
              /\ TerminateAllTemporalWorkflows(p) => k \in {4, 5}
              /\ SetupAllTemporalWorkflows(p) => k = 6
<1>1. /\ proc[p].todo # <<>> /\ proc[p].at = "start" /\ Here(p).do \in StartCalls
      /\ UnregisterAllWebhooks(p) => Here(p).do = "unregisterAll"
      /\ DeleteAll(p) => Here(p).do = "deleteAll"
      /\ RegisterAllWebhooks(p) => Here(p).do = "registerAll"
      /\ TerminateAllTemporalWorkflows(p) => Here(p).do = "terminateAll"
      /\ SetupAllTemporalWorkflows(p) => Here(p).do = "setupAll"
  BY DEF UnregisterAllWebhooks, DeleteAll, RegisterAllWebhooks, TerminateAllTemporalWorkflows,
         SetupAllTemporalWorkflows, At, StartCalls
<1>2. p = Main /\ Here(p).w = None
  BY <1>1, WhoCalls
<1>3. ASSUME NEW k \in 1 .. 7, NEW n \in Nat, Stage(k, n, proc[Main].todo)
      PROVE  n = 0 /\ k < 7 /\ Here(Main).do = Sequel[k]
  <2>1. n = 0 /\ k < 7 /\ Here(Main) = Do(Sequel[k], None)
    BY <1>1, <1>2, <1>3, MainStage
  <2>2. QED
    BY <2>1 DEF Do, Call
<1>4. QED
  BY <1>1, <1>2, <1>3 DEF Sequel

LEMMA ListingSteps ==
  ASSUME Base, NEW k \in 1 .. 7, NEW n \in Nat, Stage(k, n, proc[Main].todo)
  PROVE  /\ UnregisterAllWebhooks(Main) =>
              \/ hook = {} /\ Return(Main)
              \/ ListedFor(1, ListDistinctWorkflowIdsFromWebhookEntities)
         /\ RegisterAllWebhooks(Main) => ListedFor(3, ListAllActiveWorkflowEntities)
         /\ TerminateAllTemporalWorkflows(Main) => ListedFor(k, {w \in Workflow : schedule[w] # None})
         /\ SetupAllTemporalWorkflows(Main) => ListedFor(6, ListAllActiveWorkflowEntities)
<1>1. ListAllActiveWorkflowEntities \in SUBSET Workflow /\ \A w \in ListAllActiveWorkflowEntities : Exists(w)
  BY Standing, ProcNames DEF RowType, ListAllActiveWorkflowEntities, Exists
<1> DEFINE rows(ws) == [w \in Workflow |-> IF w \in ws /\ Exists(w) THEN row[w] ELSE None]
<1>2. ASSUME RegisterAllWebhooks(Main)
      PROVE  ListedFor(3, ListAllActiveWorkflowEntities)
  <2> DEFINE ws == ListAllActiveWorkflowEntities
  <2>1. proc[Main].todo # <<>> /\ proc[Main].at = "start" /\ Stage(3, 0, proc[Main].todo)
    BY <1>2, StartCall, ProcNames
  <2>2. PICK order \in Orders(ws) : Expand(Main, Each("register", order) \o <<>>, rows(ws))
    BY <1>2 DEF RegisterAllWebhooks, ForEach
  <2>3. Pass[3 + 1] = "register"
    BY DEF Pass
  <2> HIDE DEF ws
  <2>4. ws \in SUBSET Workflow
    BY <1>1 DEF ws
  <2>5. ListedFor(3, ws)
    BY <2>1, <2>2, <2>3, <2>4, PassCalls
  <2>6. QED
    BY <2>5 DEF ws
<1>3. ASSUME TerminateAllTemporalWorkflows(Main)
      PROVE  ListedFor(k, {w \in Workflow : schedule[w] # None})
  <2> DEFINE ws == {w \in Workflow : schedule[w] # None}
  <2>1. proc[Main].todo # <<>> /\ proc[Main].at = "start" /\ k \in {4, 5} /\ Stage(k, 0, proc[Main].todo)
    BY <1>3, StartCall, ProcNames
  <2>2. PICK order \in Orders(ws) : Expand(Main, Each("terminate", order) \o <<>>, rows(ws))
    BY <1>3 DEF TerminateAllTemporalWorkflows, ForEach
  <2>3. Pass[k + 1] = "terminate" /\ k # 6
    BY <2>1 DEF Pass
  <2>4. ws \in SUBSET Workflow
    OBVIOUS
  <2> HIDE DEF ws
  <2>5. ListedFor(k, ws)
    BY <2>1, <2>2, <2>3, <2>4, PassCalls
  <2>6. QED
    BY <2>5 DEF ws
<1>4. ASSUME SetupAllTemporalWorkflows(Main)
      PROVE  ListedFor(6, ListAllActiveWorkflowEntities)
  <2> DEFINE ws == ListAllActiveWorkflowEntities
  <2>1. proc[Main].todo # <<>> /\ proc[Main].at = "start" /\ Stage(6, 0, proc[Main].todo)
    BY <1>4, StartCall, ProcNames
  <2>2. PICK order \in Orders(ws) : Expand(Main, Each("setup", order) \o <<>>, rows(ws))
    BY <1>4 DEF SetupAllTemporalWorkflows, ForEach
  <2>3. Pass[6 + 1] = "setup"
    BY DEF Pass
  <2> HIDE DEF ws
  <2>4. ws \in SUBSET Workflow /\ \A w \in ws : Exists(w)
    BY <1>1 DEF ws
  <2>5. ListedFor(6, ws)
    BY <2>1, <2>2, <2>3, <2>4, PassCalls
  <2>6. QED
    BY <2>5 DEF ws
<1>5. ASSUME UnregisterAllWebhooks(Main), ~(hook = {} /\ Return(Main))
      PROVE  ListedFor(1, ListDistinctWorkflowIdsFromWebhookEntities)
  <2> DEFINE ws == ListDistinctWorkflowIdsFromWebhookEntities
  <2>1. proc[Main].todo # <<>> /\ proc[Main].at = "start" /\ Stage(1, 0, proc[Main].todo)
    BY <1>5, StartCall, ProcNames
  <2>2. ws = {} => hook = {}
    BY DEF ListDistinctWorkflowIdsFromWebhookEntities
  <2>3. PICK order \in Orders(ws) :
          Expand(Main, TestFirst("unregister", order) \o <<Do("deleteAll", None)>>, rows(ws))
    BY <1>5, <2>2 DEF UnregisterAllWebhooks, ForEach
  <2>4. ws \in SUBSET Workflow
    BY DEF Base, TypeInv, HookFor, ListDistinctWorkflowIdsFromWebhookEntities
  <2>5. RowType
    BY Standing, ProcNames
  <2> DEFINE calls == TestFirst("unregister", order)
             seen == rows(ws)
  <2>6. seen \in Seen
    BY <2>4, <2>5, SeenOfList
  <2> HIDE DEF ws
  <2>7. /\ calls \in Seq(Calls) /\ Len(calls) \in Nat
        /\ \A i \in 1 .. Len(calls) : /\ calls[i].do = "unregister" /\ calls[i].w \in ws
                                      /\ calls[i].w \in Workflow
    BY <2>4, TestFirstCalls DEF HandlerCalls
  <2>8. Expand(Main, calls \o Rest(1), seen)
    BY <2>3 DEF Rest
  <2> HIDE DEF calls
  <2>9. Listed(1, calls)
    BY <2>7 DEF Listed, Pass
  <2>10. seen = [w \in Workflow |-> IF w \in ws /\ Exists(w) THEN row[w] ELSE None]
    OBVIOUS
  <2> HIDE DEF seen
  <2>21. ListingMoved(1, calls, seen)
    BY <2>1, <2>6, <2>7, <2>8, <2>9, ListingMoves
  <2>11. /\ Moved(Main) /\ proc'[Main].at = "start"
         /\ proc'[Main] # Idle /\ proc'[Main].seen = seen
         /\ Len(calls) \in Nat /\ Stage(1 + 1, Len(calls), proc'[Main].todo)
         /\ \A i \in 1 .. Len(calls) : proc'[Main].todo[i] = calls[i]
    BY <2>21 DEF ListingMoved
  <2>12. \A i \in 1 .. Len(calls) : proc'[Main].todo[i].w \in ws
    BY <2>7, <2>11
  <2>13. ListedFor(1, ws)
    BY <2>10, <2>11, <2>12 DEF ListedFor
  <2>14. QED
    BY <2>13 DEF ws
<1>6. QED
  BY <1>2, <1>3, <1>4, <1>5

(* A failed access.                                                        *)
LEMMA FaultMoves ==
  ASSUME Base, NEW p \in Proc, Fault(p)
  PROVE  /\ proc[p].todo # <<>> /\ Moved(p)
         /\ \/ proc[p].at = "hooks" /\ NextHook(p)
            \/ proc[p].at # "hooks" /\ Fail(p) /\ proc'[p].at = "start"
<1>1. proc[p].todo # <<>> /\ IF proc[p].at = "hooks" THEN NextHook(p) ELSE Fail(p)
  BY DEF Fault
<1>2. QED
  BY <1>1, Standing, HookMoves, ReturnOrFailMoves

LEMMA StepMoves ==
  ASSUME Base, NEW p \in Proc, Step(p) \/ Fault(p)
  PROVE  Moved(p) /\ proc[p].todo # <<>>
<1>1. CASE Fault(p)
  BY <1>1, FaultMoves
<1>2. CASE Load(p)
  BY <1>2, LoadMoves
<1>3. CASE SetActive(p)
  BY <1>3, SetActiveMoves DEF SetActive, At
<1>4. CASE \/ Reload(p) \/ Update(p) \/ DeleteRow(p) \/ SetupExecute(p) \/ Terminate(p)
           \/ UpdateStaticData(p) \/ DeleteAll(p)
  BY <1>4, EndingMoves
<1>5. CASE SetupStart(p) \/ SetupTerminate(p) \/ TerminateStart(p)
  BY <1>5, ScheduleMoves
<1>6. CASE ReadWorkflow(p, "register") \/ ReadWorkflow(p, "unregister")
  BY <1>6, ReadMoves
<1>7. CASE SaveHook(p) \/ DeleteHook(p)
  BY <1>7, HooksMoves
<1>8. CASE ExpireStart(p) \/ ExpireTerminate(p) \/ ExpireExecute(p)
  BY <1>8, ExpireMoves
<1>9. CASE \/ UnregisterAllWebhooks(p) \/ RegisterAllWebhooks(p)
           \/ TerminateAllTemporalWorkflows(p) \/ SetupAllTemporalWorkflows(p)
  <2>1. p = Main /\ proc[p].todo # <<>>
    BY <1>9, StartCall
  <2>2. PICK k \in 1 .. 7, n \in Nat : Stage(k, n, proc[Main].todo)
    BY <2>1, MainStage
  <2>3. ASSUME Return(Main) PROVE Moved(Main)
    BY <2>1, <2>3, ReturnOrFailMoves
  <2>4. QED
    BY <1>9, <2>1, <2>2, <2>3, ListingSteps DEF ListedFor
<1>10. QED
  BY <1>1, <1>2, <1>3, <1>4, <1>5, <1>6, <1>7, <1>8, <1>9 DEF Step

-----------------------------------------------------------------------------
(* The types and the shape of the processes are kept.                      *)

HookType == hook \subseteq {HookFor(w, h, t) : w \in Workflow, h \in AllWebhooks, t \in BOOLEAN}
OtherTypes ==
  /\ fresh \subseteq Workflow
  /\ schedule \in [Workflow -> Crons]
  /\ armed \in [Workflow -> {"on", "edited", "off", "lost"}]
  /\ disturbed \subseteq Workflow

LEMMA TypeParts == TypeInv <=> RowType /\ ProcType /\ HookType /\ OtherTypes
BY DEF TypeInv, HookType, OtherTypes

LEMMA QueryTypes ==
  ASSUME RowType, NEW w
  PROVE  /\ \A active \in BOOLEAN, d \in Definition :
              w \in Workflow /\ CreateWorkflowEntity(w, active, d) => RowType'
         /\ \A active \in BOOLEAN, d \in Definition :
              Exists(w) /\ UpdateWorkflowEntity(w, active, d) => RowType'
         /\ \A active \in BOOLEAN : Exists(w) /\ UpdateWorkflowEntityActive(w, active) => RowType'
         /\ \A static \in Definition \cup {None} :
              Exists(w) /\ UpdateWorkflowEntityStaticDataByID(w, static) => RowType'
         /\ DeleteWorkflowEntity(w) => RowType'
         /\ UNCHANGED row => RowType'
<1>1. ASSUME NEW active \in BOOLEAN, NEW d \in Definition, w \in Workflow,
             CreateWorkflowEntity(w, active, d)
      PROVE  RowType'
  BY <1>1 DEF RowType, Loaded, CreateWorkflowEntity
<1>2. ASSUME NEW active \in BOOLEAN, NEW d \in Definition, Exists(w),
             UpdateWorkflowEntity(w, active, d)
      PROVE  RowType'
  <2>1. [active |-> active, def |-> d, static |-> d] \in Loaded
    BY DEF Loaded
  <2>2. QED
    BY <1>2, <2>1 DEF RowType, Exists, UpdateWorkflowEntity
<1>3. ASSUME NEW active \in BOOLEAN, Exists(w), UpdateWorkflowEntityActive(w, active)
      PROVE  RowType'
  <2>1. [row[w] EXCEPT !.active = active] \in Loaded
    BY <1>3, RowOfTable DEF Loaded
  <2>2. QED
    BY <1>3, <2>1 DEF RowType, Exists, UpdateWorkflowEntityActive
<1>4. ASSUME NEW static \in Definition \cup {None}, Exists(w),
             UpdateWorkflowEntityStaticDataByID(w, static)
      PROVE  RowType'
  <2>1. [row[w] EXCEPT !.static = static] \in Loaded
    BY <1>4, RowOfTable DEF Loaded
  <2>2. QED
    BY <1>4, <2>1 DEF RowType, Exists, UpdateWorkflowEntityStaticDataByID
<1>5. ASSUME DeleteWorkflowEntity(w) PROVE RowType'
  BY <1>5 DEF RowType, DeleteWorkflowEntity
<1>6. ASSUME UNCHANGED row PROVE RowType'
  BY <1>6 DEF RowType
<1>7. QED
  BY <1>1, <1>2, <1>3, <1>4, <1>5, <1>6

(* An update is the work of the process of an update.                      *)
LEMMA UpdateCall ==
  ASSUME Base, NEW p \in Proc, proc[p].todo # <<>>, Here(p).do = "update"
  PROVE  p # Main /\ proc[p].op = "update" /\ proc[p].new \in [active : BOOLEAN, def : Definition]
<1> DEFINE r == proc[p]
<1>1. p # Main /\ r \in Processes /\ Shaped(p, r) /\ Head(r.todo).do = "update"
  BY Standing, WhoCalls DEF Here
<1>2. r.op \in Programs /\ Head(r.todo).w \in Workflow /\ LeftOf(r.op, Head(r.todo).w, r.todo)
  BY <1>1, SlotOccupied
<1>3. MayEnd(r.op, Head(r.todo)) \/ After(r.op, Head(r.todo), Head(Tail(r.todo)))
  BY <1>2, LeftCalls
<1>4. r.op = "update"
  BY <1>1, <1>2, <1>3 DEF MayEnd, After, Programs, Ops
<1>5. QED
  BY <1>1, <1>4 DEF Shaped

(* The schedule that is set up.                                            *)
LEMMA SetupCall ==
  ASSUME Base, NEW p \in Proc, proc[p].todo # <<>>, Here(p).do = "setup"
  PROVE  /\ Here(p).w \in Workflow /\ proc[p].seen[Here(p).w] \in Loaded
         /\ Cron[proc[p].seen[Here(p).w].def] \in Crons
<1>1. Here(p).w \in Workflow
  BY WhoCalls DEF HandlerCalls
<1>2. proc[p].todo \in Seq(Calls) /\ HasSeen(proc[p])
  BY Standing DEF Processes, Shaped
<1>3. 1 \in DOMAIN proc[p].todo /\ Here(p) = proc[p].todo[1]
  BY <1>2, NonEmptySeq DEF Here
<1>4. proc[p].seen[Here(p).w] \in Loaded
  BY <1>2, <1>3 DEF HasSeen
<1>5. QED
  BY <1>1, <1>4, StoreAssumption DEF Loaded, Crons, Range

(* The registration a call is at, and the row it has read.                 *)
LEMMA HookCall ==
  ASSUME Base, NEW p \in Proc, proc[p].at \in {"hooks", "static"}
  PROVE  /\ proc[p].todo # <<>> /\ Here(p).do \in {"register", "unregister"}
         /\ Here(p).w \in Workflow /\ Here(p).test \in BOOLEAN
         /\ proc[p].copy \in Loaded /\ proc[p].copy.static \in Definition \cup {None}
         /\ proc[p].at = "hooks" => /\ proc[p].left # <<>> /\ Head(proc[p].left) \in AllWebhooks
                                    /\ proc[p].left \in Seq(AllWebhooks)
         /\ proc[p].at = "static" => proc[p].left = <<>>
<1>1. proc[p].todo # <<>> /\ proc[p] \in Processes /\ Shaped(p, proc[p])
  BY Standing
<1>2. /\ Here(p).do \in {"register", "unregister"} /\ proc[p].copy \in Loaded
      /\ proc[p].at = "hooks" => proc[p].left # <<>>
      /\ proc[p].at = "static" => proc[p].left = <<>>
  BY <1>1 DEF Shaped, InCall, Here
<1>3. Here(p).w \in Workflow /\ Here(p).test \in BOOLEAN
  BY <1>1, <1>2, WhoCalls DEF HandlerCalls, WorkflowCall
<1>4. proc[p].left \in Seq(AllWebhooks)
  BY <1>1 DEF Processes
<1>5. proc[p].left # <<>> => Head(proc[p].left) \in AllWebhooks
  BY <1>4, NonEmptySeq
<1>6. QED
  BY <1>1, <1>2, <1>3, <1>4, <1>5 DEF Loaded

(* What a step of a process leaves alone.                                  *)
LEMMA QuietSteps ==
  ASSUME NEW p,
         \/ Load(p) \/ Reload(p) \/ SetupStart(p) \/ TerminateStart(p)
         \/ ReadWorkflow(p, "register") \/ ReadWorkflow(p, "unregister")
         \/ ExpireStart(p) \/ ExpireTerminate(p) \/ ExpireExecute(p)
         \/ UnregisterAllWebhooks(p) \/ RegisterAllWebhooks(p)
         \/ TerminateAllTemporalWorkflows(p) \/ SetupAllTemporalWorkflows(p)
  PROVE  UNCHANGED <<row, hook, schedule, fresh, armed, disturbed>>
<1>1. UNCHANGED <<row, hook>>
  BY ReadOnlySteps DEF tables
<1>2. CASE Load(p) \/ Reload(p) \/ SetupStart(p) \/ TerminateStart(p)
  BY <1>1, <1>2 DEF Load, Reload, SetupStart, TerminateStart, Unchanged, history
<1>3. CASE ReadWorkflow(p, "register") \/ ReadWorkflow(p, "unregister")
  BY <1>1, <1>3 DEF ReadWorkflow, Unchanged, history
<1>4. CASE ExpireStart(p) \/ ExpireTerminate(p) \/ ExpireExecute(p)
  BY <1>1, <1>4 DEF ExpireStart, ExpireTerminate, ExpireExecute, Unchanged, history, temporal
<1>5. CASE UnregisterAllWebhooks(p) \/ RegisterAllWebhooks(p)
  BY <1>1, <1>5 DEF UnregisterAllWebhooks, RegisterAllWebhooks, Unchanged, history
<1>6. CASE TerminateAllTemporalWorkflows(p) \/ SetupAllTemporalWorkflows(p)
  BY <1>1, <1>6 DEF TerminateAllTemporalWorkflows, SetupAllTemporalWorkflows, Unchanged, history
<1>7. QED
  BY <1>2, <1>3, <1>4, <1>5, <1>6

LEMMA ScheduleSteps ==
  ASSUME Base, NEW p \in Proc, SetupTerminate(p) \/ SetupExecute(p) \/ Terminate(p)
  PROVE  /\ UNCHANGED <<row, hook, fresh, armed, disturbed>>
         /\ schedule' \in [Workflow -> Crons]
         /\ \A w \in Workflow : w # Here(p).w => schedule'[w] = schedule[w]
<1>1. UNCHANGED <<row, hook>>
  BY ReadOnlySteps DEF tables
<1>2. UNCHANGED <<fresh, armed, disturbed>>
  BY DEF SetupTerminate, SetupExecute, Terminate, Unchanged, history
<1>3. schedule \in [Workflow -> Crons]
  BY DEF Base, TypeInv
<1>4. CASE SetupTerminate(p) \/ Terminate(p)
  BY <1>1, <1>2, <1>3, <1>4 DEF SetupTerminate, Terminate, Crons
<1>5. CASE SetupExecute(p)
  <2>1. proc[p].todo # <<>> /\ Here(p).do = "setup"
    BY <1>5 DEF SetupExecute, At
  <2>2. Here(p).w \in Workflow /\ Cron[proc[p].seen[Here(p).w].def] \in Crons
    BY <2>1, SetupCall
  <2>3. QED
    BY <1>1, <1>2, <1>3, <1>5, <2>2 DEF SetupExecute
<1>6. QED
  BY <1>4, <1>5

(* The steps of the handlers' own queries.                                 *)
LEMMA RowSteps ==
  ASSUME Base, NEW p \in Proc, SetActive(p) \/ Update(p) \/ DeleteRow(p)
  PROVE  /\ UNCHANGED <<schedule, fresh, disturbed>>
         /\ proc[p].todo # <<>> /\ p # Main /\ Here(p).w \in Workflow
         /\ RowType' /\ HookType'
         /\ armed' \in [Workflow -> {"on", "edited", "off", "lost"}]
         /\ \A w \in Workflow : w # Here(p).w => armed'[w] = armed[w]
<1>1. /\ UNCHANGED <<schedule, fresh, disturbed>>
      /\ proc[p].todo # <<>> /\ Here(p).do \in {"setActive", "update", "remove"}
  BY DEF SetActive, Update, DeleteRow, At
<1>2. p # Main /\ Here(p).w \in Workflow
  BY <1>1, WhoCalls DEF HandlerCalls
<1> DEFINE w == Here(p).w
           Marks == {"on", "edited", "off", "lost"}
<1>3. \/ UNCHANGED armed
      \/ \E mark \in Marks : armed' = [armed EXCEPT ![w] = mark]
  <2>1. CASE SetActive(p)
    BY <2>1 DEF SetActive
  <2>2. CASE Update(p)
    BY <2>2 DEF Update
  <2>3. CASE DeleteRow(p)
    BY <2>3 DEF DeleteRow
  <2>4. QED
    BY <2>1, <2>2, <2>3
<1>4. armed \in [Workflow -> Marks] /\ RowType /\ HookType
  BY TypeParts DEF Base, OtherTypes
<1>5. /\ armed' \in [Workflow -> Marks]
      /\ \A v \in Workflow : v # w => armed'[v] = armed[v]
  BY <1>3, <1>4
<1>6. RowType' /\ HookType'
  <2>1. CASE SetActive(p)
    <3>1. \/ UNCHANGED tables
          \/ Exists(w) /\ UpdateWorkflowEntityActive(w, proc[p].op = "activate")
      BY <2>1 DEF SetActive
    <3>2. RowType'
      BY <1>4, <3>1, QueryTypes DEF tables
    <3>3. UNCHANGED hook
      BY <3>1 DEF tables, UpdateWorkflowEntityActive
    <3>4. QED
      BY <1>4, <3>2, <3>3 DEF HookType
  <2>2. CASE Update(p)
    <3>1. \/ UNCHANGED tables
          \/ Exists(w) /\ UpdateWorkflowEntity(w, proc[p].new.active, proc[p].new.def)
      BY <2>2 DEF Update
    <3>2. proc[p].new.active \in BOOLEAN /\ proc[p].new.def \in Definition
      BY <2>2, UpdateCall DEF Update, At
    <3>3. RowType'
      BY <1>4, <3>1, <3>2, QueryTypes DEF tables
    <3>4. UNCHANGED hook
      BY <3>1 DEF tables, UpdateWorkflowEntity
    <3>5. QED
      BY <1>4, <3>3, <3>4 DEF HookType
  <2>3. CASE DeleteRow(p)
    <3>1. UNCHANGED tables \/ DeleteWorkflowEntity(w)
      BY <2>3 DEF DeleteRow
    <3>2. RowType'
      BY <1>4, <3>1, QueryTypes DEF tables
    <3>3. hook' \subseteq hook
      BY <3>1 DEF tables, DeleteWorkflowEntity
    <3>4. QED
      BY <1>4, <3>2, <3>3 DEF HookType
  <2>4. QED
    BY <2>1, <2>2, <2>3
<1>7. QED
  BY <1>1, <1>2, <1>5, <1>6

(* The steps of registration and removal.                                  *)
LEMMA HookSteps ==
  ASSUME Base, NEW p \in Proc, SaveHook(p) \/ DeleteHook(p) \/ UpdateStaticData(p) \/ DeleteAll(p)
  PROVE  /\ UNCHANGED <<schedule, fresh, armed>>
         /\ RowType' /\ HookType'
         /\ disturbed \subseteq disturbed' /\ disturbed' \subseteq Workflow
         /\ \A w : w \in disturbed' => w \in disturbed \/ w = Here(p).w
<1>1. UNCHANGED <<schedule, fresh, armed>>
  BY DEF SaveHook, DeleteHook, UpdateStaticData, DeleteAll, Unchanged, history
<1>2. RowType /\ HookType /\ disturbed \subseteq Workflow
  BY TypeParts DEF Base, OtherTypes
<1>3. CASE SaveHook(p)
  <2>1. /\ proc[p].at = "hooks"
        /\ \/ UNCHANGED tables
           \/ CreateWebhookEntity(CurrentHook(p))
        /\ disturbed' = disturbed \/ disturbed' = disturbed \cup {Here(p).w}
    BY <1>3 DEF SaveHook, At
  <2>2. Here(p).w \in Workflow /\ Here(p).test \in BOOLEAN /\ Head(proc[p].left) \in AllWebhooks
    BY <2>1, HookCall
  <2>3. RowType'
    BY <1>2, <2>1, QueryTypes DEF tables, CreateWebhookEntity
  <2>4. hook' = hook \/ hook' = hook \cup {HookFor(Here(p).w, Head(proc[p].left), Here(p).test)}
    BY <2>1 DEF tables, CreateWebhookEntity, CurrentHook
  <2>5. HookType'
    BY <1>2, <2>2, <2>4 DEF HookType
  <2>6. QED
    BY <1>1, <1>2, <2>1, <2>2, <2>3, <2>5
<1>4. CASE DeleteHook(p) \/ DeleteAll(p)
  <2>1. UNCHANGED <<row, disturbed>> /\ hook' \subseteq hook
    BY <1>4 DEF DeleteHook, DeleteAll, DeleteWebhookEntityByWorkflowId_Path_Method,
                DeleteAllWebhookEntities, Unchanged, history
  <2>2. RowType'
    BY <1>2, <2>1, QueryTypes
  <2>3. QED
    BY <1>1, <1>2, <2>1, <2>2 DEF HookType
<1>5. CASE UpdateStaticData(p)
  <2>1. /\ UNCHANGED disturbed /\ proc[p].at = "static"
        /\ \/ UNCHANGED tables
           \/ Exists(Here(p).w) /\ UpdateWorkflowEntityStaticDataByID(Here(p).w, proc[p].copy.static)
    BY <1>5 DEF UpdateStaticData, StaticData, Unchanged, history
  <2>2. proc[p].copy.static \in Definition \cup {None}
    BY <2>1, HookCall
  <2>3. RowType'
    BY <1>2, <2>1, <2>2, QueryTypes DEF tables
  <2>4. UNCHANGED hook
    BY <2>1 DEF tables, UpdateWorkflowEntityStaticDataByID
  <2>5. QED
    BY <1>1, <1>2, <2>1, <2>3, <2>4 DEF HookType
<1>6. QED
  BY <1>3, <1>4, <1>5

(* A step of p leaves the other processes as they are.                     *)
LEMMA MovedShape ==
  ASSUME Shape, NEW p \in Proc, Moved(p)
  PROVE  Shape' /\ ProcType'
BY DEF Moved, Shape

LEMMA StepBase ==
  ASSUME Base, NEW p \in Proc, Step(p)
  PROVE  Base'
<1>1. Moved(p)
  BY StepMoves
<1>2. Shape' /\ ProcType'
  BY <1>1, MovedShape DEF Base
<1>3. RowType /\ HookType /\ OtherTypes
  BY TypeParts DEF Base
<1>4. RowType' /\ HookType' /\ OtherTypes'
  <2>1. CASE \/ Load(p) \/ Reload(p) \/ SetupStart(p) \/ TerminateStart(p)
             \/ ReadWorkflow(p, "register") \/ ReadWorkflow(p, "unregister")
             \/ ExpireStart(p) \/ ExpireTerminate(p) \/ ExpireExecute(p)
             \/ UnregisterAllWebhooks(p) \/ RegisterAllWebhooks(p)
             \/ TerminateAllTemporalWorkflows(p) \/ SetupAllTemporalWorkflows(p)
    <3>1. UNCHANGED <<row, hook, schedule, fresh, armed, disturbed>>
      BY <2>1, QuietSteps
    <3>2. QED
      BY <1>3, <3>1 DEF RowType, HookType, OtherTypes
  <2>2. CASE SetupTerminate(p) \/ SetupExecute(p) \/ Terminate(p)
    <3>1. UNCHANGED <<row, hook, fresh, armed, disturbed>> /\ schedule' \in [Workflow -> Crons]
      BY <2>2, ScheduleSteps
    <3>2. QED
      BY <1>3, <3>1 DEF RowType, HookType, OtherTypes
  <2>3. CASE SetActive(p) \/ Update(p) \/ DeleteRow(p)
    BY <1>3, <2>3, RowSteps DEF OtherTypes
  <2>4. CASE SaveHook(p) \/ DeleteHook(p) \/ UpdateStaticData(p) \/ DeleteAll(p)
    BY <1>3, <2>4, HookSteps DEF OtherTypes
  <2>5. QED
    BY <2>1, <2>2, <2>3, <2>4 DEF Step
<1>5. TypeInv'
  BY <1>2, <1>4 DEF TypeInv, HookType, OtherTypes
<1>6. QED
  BY <1>2, <1>5 DEF Base

LEMMA FaultBase ==
  ASSUME Base, NEW p \in Proc, Fault(p)
  PROVE  Base'
<1>1. Moved(p) /\ proc[p].todo # <<>>
  BY StepMoves
<1>2. Shape' /\ ProcType'
  BY <1>1, MovedShape DEF Base
<1>3. RowType /\ HookType /\ OtherTypes
  BY TypeParts DEF Base
<1>4. Here(p).w \in Workflow \cup {None}
  BY <1>1, Standing DEF Calls, WorkflowCall
<1>5. /\ UNCHANGED <<row, hook, fresh, schedule, armed>>
      /\ disturbed' = disturbed \cup (IF Here(p).w = None THEN Workflow ELSE {Here(p).w})
  BY DEF Fault, tables
<1>6. RowType' /\ HookType' /\ OtherTypes'
  BY <1>3, <1>4, <1>5 DEF RowType, HookType, OtherTypes
<1>7. TypeInv'
  BY <1>2, <1>6 DEF TypeInv, HookType, OtherTypes
<1>8. QED
  BY <1>2, <1>7 DEF Base

-----------------------------------------------------------------------------
(* Processes that start.                                                   *)

Asking(op, body, w) == [Idle EXCEPT !.op = op, !.new = body, !.todo = <<Do("load", w)>>]

LEMMA LoadShaped ==
  ASSUME NEW p \in Slot, NEW op \in Ops, NEW w \in Workflow, NEW body \in Bodies(op),
         NEW r, r = Asking(op, body, w)
  PROVE  /\ r \in Processes /\ Shaped(p, r) /\ r # Idle /\ r.at = "start"
         /\ r.op = op /\ r.todo = <<Do("load", w)>>
         /\ \A v : Occupied(p, r, v) <=> v = w
<1> DEFINE c == Do("load", w)
<1>1. c.do = "load" /\ c.w = w /\ c \in WorkflowCall /\ c \in Calls /\ ~c.test
  BY DEF Do, Call, WorkflowCall, HandlerCalls, Calls
<1> DEFINE todo == <<c>>
<1> HIDE DEF c
<1>2. todo \in Seq(WorkflowCall) /\ todo \in Seq(Calls)
  BY <1>1
<1>3. Len(todo) = 1 /\ todo[1] = c /\ todo # <<>> /\ DOMAIN todo = {1} /\ Head(todo) = c
  OBVIOUS
<1>4. body \in [active : BOOLEAN, def : Definition] \cup {None}
      /\ (op = "update" => body \in [active : BOOLEAN, def : Definition])
  BY DEF Bodies
<1>5. r = [Idle EXCEPT !.op = op, !.new = body, !.todo = todo]
  BY DEF c, Asking
<1> HIDE DEF todo
<1>6. r \in Processes /\ r.op = op /\ r.new = body /\ r.todo = todo /\ r.at = "start"
  BY <1>2, <1>4, <1>5, IdleType DEF Processes
<1>7. LeftOf(op, w, todo)
  BY <1>1, <1>2, <1>3 DEF LeftOf, MayEnd, Ops
<1>8. InCall(r) /\ HasSeen(r)
  BY <1>1, <1>3, <1>6 DEF InCall, HasSeen
<1>9. r # Idle
  BY <1>3, <1>6, IdleType
<1>10. p # Main /\ p \notin Workflow
  BY ProcNames
<1>11. Shaped(p, r)
  BY <1>4, <1>6, <1>7, <1>8, <1>10 DEF Shaped
<1>12. \A v : Occupied(p, r, v) <=> v = w
  BY <1>1, <1>3, <1>6, <1>10 DEF Occupied
<1>13. QED
  BY <1>6, <1>9, <1>11, <1>12 DEF todo, c

LEMMA RequestStarts ==
  ASSUME Base, NEW p \in Slot, NEW op \in Ops, NEW w \in Workflow, Request(p, op, w)
  PROVE  /\ UNCHANGED <<row, hook, fresh, schedule, armed, expiry>> /\ w \notin fresh
         /\ ProcType' /\ proc[p] = Idle /\ Shaped(p, proc'[p]) /\ proc'[p] # Idle
         /\ proc'[p].op = op /\ proc'[p].todo = <<Do("load", w)>> /\ proc'[p].at = "start"
         /\ \A q \in Proc \ {p} : proc'[q] = proc[q]
         /\ \A v : Occupied(p, proc'[p], v) <=> v = w
         /\ disturbed' = IF BusyElsewhere(p, w) THEN disturbed \cup {w} ELSE disturbed
<1>1. PICK body \in Bodies(op) : proc' = [proc EXCEPT ![p] = Asking(op, body, w)]
  BY DEF Request, Asking
<1> DEFINE r == Asking(op, body, w)
<1>3. proc' = [proc EXCEPT ![p] = r]
  BY <1>1
<1>7. r = Asking(op, body, w)
  OBVIOUS
<1> HIDE DEF r
<1>2. /\ r \in Processes /\ Shaped(p, r) /\ r # Idle /\ r.at = "start"
      /\ r.op = op /\ r.todo = <<Do("load", w)>>
      /\ \A v : Occupied(p, r, v) <=> v = w
  BY <1>7, LoadShaped
<1>4. ProcType /\ p \in Proc
  BY ProcNames DEF Base, TypeInv
<1>5. UNCHANGED <<row, hook, fresh, schedule, armed, expiry, tries>> /\ w \notin fresh /\ proc[p] = Idle
      /\ disturbed' = IF BusyElsewhere(p, w) THEN disturbed \cup {w} ELSE disturbed
  BY DEF Request, tables, temporal
<1>6. proc'[p] = r /\ ProcType' /\ \A q \in Proc \ {p} : proc'[q] = proc[q]
  BY <1>2, <1>3, <1>4, <1>5 DEF ProcType
<1>8. QED
  BY <1>2, <1>5, <1>6

LEMMA WakeStarts ==
  ASSUME Base, NEW w \in Workflow, Wake(w)
  PROVE  /\ UNCHANGED <<row, hook, fresh, schedule, armed>> /\ expiry[w] = "sleeping"
         /\ ProcType' /\ proc[w] = Idle /\ proc'[w] = Expiring(w)
         /\ \A v \in Workflow : v # w => expiry'[v] = expiry[v]
         /\ \A q \in Proc \ {w} : proc'[q] = proc[q]
         /\ disturbed' = IF BusyElsewhere(w, w) THEN disturbed \cup {w} ELSE disturbed
<1>1. ProcType /\ w \in Proc
  BY ProcNames DEF Base, TypeInv
<1>2. /\ UNCHANGED <<row, hook, fresh, schedule, armed>> /\ expiry[w] = "sleeping" /\ proc[w] = Idle
      /\ expiry' = [expiry EXCEPT ![w] = "active"] /\ tries' = [tries EXCEPT ![w] = 1]
      /\ proc' = [proc EXCEPT ![w] = Expiring(w)]
      /\ disturbed' = IF BusyElsewhere(w, w) THEN disturbed \cup {w} ELSE disturbed
  BY DEF Wake, tables, Expiring
<1>3. QED
  BY <1>1, <1>2, ExpiringType DEF ProcType

LEMMA CrashStarts ==
  ASSUME Base, Crash
  PROVE  /\ UNCHANGED <<row, hook, fresh, schedule>>
         /\ ProcType' /\ proc'[Main] = Starting
         /\ \A q \in Proc \ {Main} : proc'[q] = Idle \/ (q \in Slot /\ q \notin MainSlot /\ proc'[q] = proc[q])
         /\ \A w \in Workflow : /\ armed'[w] = IF Exists(w) /\ row[w].active THEN "on" ELSE "off"
                                /\ expiry'[w] = "none" \/ expiry'[w] = expiry[w]
         /\ armed' \in [Workflow -> {"on", "edited", "off", "lost"}]
         /\ disturbed' = {w \in Workflow : \E p \in Slot \ MainSlot : Busy(p, w)}
<1>1. ProcType
  BY DEF Base, TypeInv
<1>2. /\ UNCHANGED <<row, hook, fresh, schedule>>
      /\ disturbed' = {w \in Workflow : \E p \in Slot \ MainSlot : Busy(p, w)}
      /\ proc' = [p \in Proc |-> IF p = Main THEN Starting
                                 ELSE IF p \in Slot \ MainSlot THEN proc[p] ELSE Idle]
      /\ expiry' = [w \in Workflow |-> IF expiry[w] = "active" THEN "none" ELSE expiry[w]]
      /\ tries' = [w \in Workflow |-> 0]
      /\ armed' = [w \in Workflow |-> IF Exists(w) /\ row[w].active THEN "on" ELSE "off"]
  BY DEF Crash, tables, Starting
<1>3. ProcType'
  BY <1>1, <1>2, StartingType, IdleType DEF ProcType
<1>4. proc'[Main] = Starting /\ \A q \in Proc \ {Main} :
        proc'[q] = Idle \/ (q \in Slot /\ q \notin MainSlot /\ proc'[q] = proc[q])
  BY <1>2, ProcNames
<1>5. QED
  BY <1>2, <1>3, <1>4

LEMMA CreateTypes ==
  ASSUME Base, NEW w \in Workflow, NEW active \in BOOLEAN, NEW d \in Definition,
         CreateWorkflow(w, active, d)
  PROVE  /\ UNCHANGED <<hook, schedule, expiry, proc>> /\ RowType' /\ w \in fresh
         /\ CreateWorkflowEntity(w, active, d) /\ fresh' = fresh \ {w}
         /\ armed' = [armed EXCEPT ![w] = IF active THEN "lost" ELSE "off"]
         /\ disturbed' = IF proc[Main] # Idle THEN disturbed \cup {w} ELSE disturbed
         /\ Base'
<1>1. /\ UNCHANGED <<hook, schedule, expiry, tries, proc>> /\ w \in fresh
      /\ CreateWorkflowEntity(w, active, d) /\ fresh' = fresh \ {w}
      /\ armed' = [armed EXCEPT ![w] = IF active THEN "lost" ELSE "off"]
      /\ disturbed' = IF proc[Main] # Idle THEN disturbed \cup {w} ELSE disturbed
  BY DEF CreateWorkflow, CreateWorkflowEntity, temporal
<1>2. RowType /\ HookType /\ OtherTypes /\ ProcType /\ Shape
  BY TypeParts DEF Base
<1>3. RowType'
  BY <1>1, <1>2, QueryTypes
<1>4. HookType' /\ OtherTypes' /\ ProcType' /\ Shape'
  BY <1>1, <1>2 DEF HookType, OtherTypes, ProcType, Shape
<1>5. Base'
  BY <1>3, <1>4 DEF Base, TypeInv, HookType, OtherTypes
<1>6. QED
  BY <1>1, <1>3, <1>5

LEMMA InitBase == Init => Base
<1>1. SUFFICES ASSUME Init PROVE Base
  OBVIOUS
<1>2. /\ proc = [p \in Proc |-> Idle] /\ expiry = [w \in Workflow |-> "none"]
      /\ tries = [w \in Workflow |-> 0] /\ disturbed = {}
      /\ fresh = {w \in Workflow : ~Exists(w)}
      /\ schedule = [w \in Workflow |-> IF Exists(w) /\ row[w].active THEN Cron[row[w].def] ELSE None]
      /\ armed = [w \in Workflow |-> IF Exists(w) /\ row[w].active THEN "on" ELSE "off"]
      /\ hook = UNION {Production(w) : w \in ListAllActiveWorkflowEntities}
  BY <1>1 DEF Init
<1>3. ProcType /\ Shape
  BY <1>2, IdleType, IdleShaped DEF ProcType, Shape
<1>4. RowType
  <2>1. PICK stored \in SUBSET Workflow : row \in [stored -> Rows]
    BY <1>1 DEF Init
  <2>2. \A e \in Rows : e \in Loaded
    BY DEF Rows, Loaded
  <2>3. QED
    BY <2>1, <2>2 DEF RowType
<1>5. \A w : Exists(w) => w \in Workflow /\ row[w].def \in Definition
  BY <1>4, RowOfTable DEF Loaded
<1>6. schedule \in [Workflow -> Crons]
  BY <1>2, <1>5, StoreAssumption DEF Crons, Range
<1>7. HookType
  <2>1. SUFFICES ASSUME NEW h \in hook
                 PROVE  \E w \in Workflow, n \in AllWebhooks, t \in BOOLEAN : h = HookFor(w, n, t)
    BY DEF HookType
  <2>2. PICK w \in ListAllActiveWorkflowEntities : h \in Production(w)
    BY <1>2
  <2>3. PICK n \in WebhooksOf(row[w].def) : h = HookFor(w, n, FALSE)
    BY <2>2 DEF Production
  <2>4. w \in Workflow /\ row[w].def \in Definition
    BY <1>5, <2>2 DEF ListAllActiveWorkflowEntities, Exists
  <2>5. QED
    BY <2>3, <2>4 DEF AllWebhooks
<1>8. OtherTypes
  BY <1>2, <1>6 DEF OtherTypes
<1>9. QED
  BY <1>3, <1>4, <1>7, <1>8, TypeParts DEF Base

LEMMA NextBase ==
  ASSUME Base, [Next]_vars
  PROVE  Base'
<1>1. RowType /\ HookType /\ OtherTypes /\ ProcType /\ Shape
  BY TypeParts DEF Base
<1>2. ASSUME NEW p \in Slot, NEW op \in Ops, NEW w \in Workflow, Request(p, op, w) PROVE Base'
  <2>1. /\ UNCHANGED <<row, hook, fresh, schedule, armed>> /\ ProcType' /\ Shaped(p, proc'[p])
        /\ \A q \in Proc \ {p} : proc'[q] = proc[q]
        /\ disturbed' \subseteq disturbed \cup {w}
    BY <1>2, RequestStarts
  <2>2. Shape' /\ RowType' /\ HookType' /\ OtherTypes'
    BY <1>1, <2>1 DEF Shape, RowType, HookType, OtherTypes
  <2>3. QED
    BY <2>1, <2>2 DEF Base, TypeInv, HookType, OtherTypes
<1>3. ASSUME NEW w \in Workflow, NEW active \in BOOLEAN, NEW d \in Definition,
             CreateWorkflow(w, active, d)
      PROVE  Base'
  BY <1>3, CreateTypes
<1>4. ASSUME NEW p \in Proc, Step(p) PROVE Base'
  BY <1>4, StepBase
<1>5. ASSUME NEW w \in Workflow, Wake(w) PROVE Base'
  <2>1. /\ UNCHANGED <<row, hook, fresh, schedule, armed>> /\ ProcType' /\ proc'[w] = Expiring(w)
        /\ \A q \in Proc \ {w} : proc'[q] = proc[q]
        /\ disturbed' \subseteq disturbed \cup {w}
    BY <1>5, WakeStarts
  <2>2. Shape' /\ RowType' /\ HookType' /\ OtherTypes'
    BY <1>1, <2>1, ExpiringShaped DEF Shape, RowType, HookType, OtherTypes
  <2>3. QED
    BY <2>1, <2>2 DEF Base, TypeInv, HookType, OtherTypes
<1>6. ASSUME NEW p \in Proc, Fault(p) PROVE Base'
  BY <1>6, FaultBase
<1>7. CASE Crash
  <2>1. /\ UNCHANGED <<row, hook, fresh, schedule>> /\ ProcType' /\ proc'[Main] = Starting
        /\ \A q \in Proc \ {Main} : proc'[q] = Idle \/ proc'[q] = proc[q]
        /\ armed' \in [Workflow -> {"on", "edited", "off", "lost"}]
        /\ disturbed' \subseteq Workflow
    BY <1>7, CrashStarts
  <2>2. Shape' /\ RowType' /\ HookType' /\ OtherTypes'
    BY <1>1, <2>1, StartingShaped, IdleShaped DEF Shape, RowType, HookType, OtherTypes
  <2>3. QED
    BY <2>1, <2>2 DEF Base, TypeInv, HookType, OtherTypes
<1>8. CASE UNCHANGED vars
  BY <1>1, <1>8 DEF Base, TypeInv, RowType, ProcType, Shape, vars, tables, temporal, history
<1>9. QED
  BY <1>2, <1>3, <1>4, <1>5, <1>6, <1>7, <1>8 DEF Next

-----------------------------------------------------------------------------
(* What a step changes of the rows.                                        *)

LEMMA RowChanges ==
  ASSUME Base, NEW p \in Proc, Step(p), NEW w, w = Here(p).w
  PROVE  /\ \A v : v # w => /\ Exists(v)' <=> Exists(v)
                            /\ Exists(v) => row'[v] = row[v]
         /\ Exists(w)' => Exists(w)
         /\ Exists(w) /\ Exists(w)' =>
              \/ row'[w].static = row[w].static
              \/ row'[w].def = row'[w].static
              \/ UpdateStaticData(p) /\ row'[w].static = proc[p].copy.static
<1>1. RowType
  BY Standing
<1>2. CASE row' = row
  BY <1>2 DEF Exists
<1>3. CASE SetActive(p) /\ Exists(w)
  <2> DEFINE active == proc[p].op = "activate"
  <2>1. UpdateWorkflowEntityActive(w, active) /\ active \in BOOLEAN
    BY <1>3 DEF SetActive
  <2> HIDE DEF active
  <2>2. /\ DOMAIN row' = DOMAIN row /\ row'[w] = [row[w] EXCEPT !.active = active]
        /\ \A v : v # w => row'[v] = row[v]
    BY <1>1, <1>3, <2>1, ActiveRow
  <2>3. row[w] \in Loaded
    BY <1>1, <1>3, RowOfTable
  <2>4. row'[w].static = row[w].static
    BY <2>2, <2>3 DEF Loaded
  <2>5. QED
    BY <2>2, <2>4 DEF Exists
<1>4. CASE Update(p) /\ Exists(w)
  <2>1. UpdateWorkflowEntity(w, proc[p].new.active, proc[p].new.def)
    BY <1>4 DEF Update
  <2>2. /\ DOMAIN row' = DOMAIN row /\ row'[w].def = row'[w].static
        /\ \A v : Exists(v) /\ v # w => row'[v] = row[v]
    BY <1>1, <1>4, <2>1 DEF UpdateWorkflowEntity, Exists, RowType
  <2>3. QED
    BY <2>2 DEF Exists
<1>5. CASE DeleteRow(p) /\ Exists(w)
  <2>1. DeleteWorkflowEntity(w)
    BY <1>5 DEF DeleteRow
  <2>2. DOMAIN row' = DOMAIN row \ {w} /\ \A v \in DOMAIN row \ {w} : row'[v] = row[v]
    BY <2>1 DEF DeleteWorkflowEntity
  <2>3. QED
    BY <2>2 DEF Exists
<1>6. CASE UpdateStaticData(p) /\ Exists(w)
  <2>1. UpdateWorkflowEntityStaticDataByID(w, proc[p].copy.static)
    BY <1>6 DEF UpdateStaticData, StaticData
  <2>2. row[w] \in Loaded
    BY <1>1, <1>6, RowOfTable
  <2>3. /\ DOMAIN row' = DOMAIN row /\ row'[w].static = proc[p].copy.static
        /\ \A v : Exists(v) /\ v # w => row'[v] = row[v]
    BY <1>1, <1>6, <2>1, <2>2 DEF UpdateWorkflowEntityStaticDataByID, Exists, RowType, Loaded
  <2>4. QED
    BY <1>6, <2>3 DEF Exists
<1>7. \/ row' = row
      \/ (SetActive(p) \/ Update(p) \/ DeleteRow(p) \/ UpdateStaticData(p)) /\ Exists(w)
  <2>1. CASE SetActive(p) \/ Update(p) \/ DeleteRow(p) \/ UpdateStaticData(p)
    BY <2>1 DEF SetActive, Update, DeleteRow, UpdateStaticData, tables
  <2>2. CASE SaveHook(p) \/ DeleteHook(p) \/ DeleteAll(p)
    BY <2>2 DEF SaveHook, DeleteHook, DeleteAll, tables, CreateWebhookEntity,
                DeleteWebhookEntityByWorkflowId_Path_Method, DeleteAllWebhookEntities
  <2>3. CASE ~(SetActive(p) \/ Update(p) \/ DeleteRow(p) \/ UpdateStaticData(p)
                \/ SaveHook(p) \/ DeleteHook(p) \/ DeleteAll(p))
    <3>1. UNCHANGED tables
      BY <2>3, ReadOnlySteps DEF Step
    <3>2. QED
      BY <3>1 DEF tables
  <2>4. QED
    BY <2>1, <2>2, <2>3
<1>8. QED
  BY <1>2, <1>3, <1>4, <1>5, <1>6, <1>7

(* What a step changes of the histories.                                   *)
LEMMA DisturbedGrows ==
  ASSUME Base, NEW p \in Proc, Step(p) \/ Fault(p)
  PROVE  /\ disturbed \subseteq disturbed' /\ UNCHANGED fresh
         /\ Step(p) => \A w : w \in disturbed' => w \in disturbed \/ w = Here(p).w
<1>1. CASE Fault(p)
  <2>1. disturbed \subseteq disturbed' /\ UNCHANGED fresh
    BY <1>1 DEF Fault
  <2>2. ASSUME Step(p) PROVE \A w : w \in disturbed' => w \in disturbed \/ w = Here(p).w
    <3>1. disturbed' = disturbed \/ SaveHook(p)
      <4>1. CASE SaveHook(p) BY <4>1
      <4>2. CASE DeleteHook(p) \/ UpdateStaticData(p) \/ DeleteAll(p)
        BY <1>1, <4>2 DEF DeleteHook, UpdateStaticData, DeleteAll, Unchanged, history, Fault
      <4>3. CASE SetActive(p) \/ Update(p) \/ DeleteRow(p)
        BY <1>1, <4>3, RowSteps DEF Fault
      <4>4. CASE SetupTerminate(p) \/ SetupExecute(p) \/ Terminate(p)
        BY <1>1, <4>4, ScheduleSteps DEF Fault
      <4>5. CASE \/ Load(p) \/ Reload(p) \/ SetupStart(p) \/ TerminateStart(p)
                 \/ ReadWorkflow(p, "register") \/ ReadWorkflow(p, "unregister")
                 \/ ExpireStart(p) \/ ExpireTerminate(p) \/ ExpireExecute(p)
                 \/ UnregisterAllWebhooks(p) \/ RegisterAllWebhooks(p)
                 \/ TerminateAllTemporalWorkflows(p) \/ SetupAllTemporalWorkflows(p)
        BY <1>1, <4>5, QuietSteps DEF Fault
      <4>6. QED
        BY <2>2, <4>1, <4>2, <4>3, <4>4, <4>5 DEF Step
    <3>2. QED
      BY <3>1, HookSteps
  <2>3. QED
    BY <2>1, <2>2
<1>2. CASE Step(p)
  <2>1. CASE SaveHook(p) \/ DeleteHook(p) \/ UpdateStaticData(p) \/ DeleteAll(p)
    BY <2>1, HookSteps
  <2>2. CASE SetActive(p) \/ Update(p) \/ DeleteRow(p)
    BY <2>2, RowSteps
  <2>3. CASE SetupTerminate(p) \/ SetupExecute(p) \/ Terminate(p)
    BY <2>3, ScheduleSteps
  <2>4. CASE \/ Load(p) \/ Reload(p) \/ SetupStart(p) \/ TerminateStart(p)
             \/ ReadWorkflow(p, "register") \/ ReadWorkflow(p, "unregister")
             \/ ExpireStart(p) \/ ExpireTerminate(p) \/ ExpireExecute(p)
             \/ UnregisterAllWebhooks(p) \/ RegisterAllWebhooks(p)
             \/ TerminateAllTemporalWorkflows(p) \/ SetupAllTemporalWorkflows(p)
    BY <2>4, QuietSteps
  <2>5. QED
    BY <1>2, <2>1, <2>2, <2>3, <2>4 DEF Step
<1>3. QED
  BY <1>1, <1>2

-----------------------------------------------------------------------------
(* Two processes are busy with a workflow only where requests overlap.     *)
Exclusive ==
  \A w \in Workflow, p \in Proc, q \in Proc :
    Occupied(p, proc[p], w) /\ Occupied(q, proc[q], w) => p = q \/ w \in disturbed

LEMMA NextExclusive ==
  ASSUME Base, Exclusive, [Next]_vars
  PROVE  Exclusive'
<1>1. ASSUME NEW p \in Proc, Step(p) \/ Fault(p) PROVE Exclusive'
  <2>1. Moved(p) /\ disturbed \subseteq disturbed'
    BY <1>1, StepMoves, DisturbedGrows
  <2>2. \A q \in Proc, w \in Workflow : Occupied(q, proc'[q], w) => Occupied(q, proc[q], w)
    BY <2>1 DEF Moved
  <2>3. QED
    BY <2>1, <2>2 DEF Exclusive
<1>2. ASSUME NEW p \in Proc, NEW w \in Workflow,
             \A q \in Proc \ {p} : proc'[q] = proc[q],
             \A v : Occupied(p, proc'[p], v) <=> v = w,
             disturbed' = IF BusyElsewhere(p, w) THEN disturbed \cup {w} ELSE disturbed
      PROVE  Exclusive'
  <2>1. ASSUME NEW q \in Proc \ {p}, Occupied(q, proc'[q], w) PROVE w \in disturbed'
    <3>1. Busy(q, w)
      BY <1>2, <2>1, BusyIsOccupied
    <3>2. QED
      BY <1>2, <3>1 DEF BusyElsewhere
  <2>2. disturbed \subseteq disturbed'
    BY <1>2
  <2>3. QED
    BY <1>2, <2>1, <2>2 DEF Exclusive
<1>3. ASSUME NEW p \in Slot, NEW op \in Ops, NEW w \in Workflow, Request(p, op, w) PROVE Exclusive'
  <2>1. /\ p \in Proc /\ \A q \in Proc \ {p} : proc'[q] = proc[q]
        /\ \A v : Occupied(p, proc'[p], v) <=> v = w
        /\ disturbed' = IF BusyElsewhere(p, w) THEN disturbed \cup {w} ELSE disturbed
    BY <1>3, RequestStarts, ProcNames
  <2>2. QED
    BY <1>2, <2>1
<1>4. ASSUME NEW w \in Workflow, Wake(w) PROVE Exclusive'
  <2>1. /\ w \in Proc /\ \A q \in Proc \ {w} : proc'[q] = proc[q]
        /\ \A v : Occupied(w, proc'[w], v) <=> v = w
        /\ disturbed' = IF BusyElsewhere(w, w) THEN disturbed \cup {w} ELSE disturbed
    BY <1>4, WakeStarts, ExpiringShaped, ProcNames
  <2>2. QED
    BY <1>2, <2>1
<1>5. ASSUME NEW w \in Workflow, NEW active \in BOOLEAN, NEW d \in Definition,
             CreateWorkflow(w, active, d)
      PROVE  Exclusive'
  <2>1. UNCHANGED proc /\ disturbed \subseteq disturbed'
    BY <1>5, CreateTypes
  <2>2. QED
    BY <2>1 DEF Exclusive
<1>6. CASE Crash
  <2>1. /\ \A q \in Proc \ {Main} : proc'[q] = Idle \/ (q \in Slot \ MainSlot /\ proc'[q] = proc[q])
        /\ disturbed' = {w \in Workflow : \E p \in Slot \ MainSlot : Busy(p, w)}
    BY <1>6, CrashStarts
  <2>2. ASSUME NEW w \in Workflow, NEW q \in Proc, q # Main, Occupied(q, proc'[q], w)
        PROVE  w \in disturbed'
    <3>1. q \in Slot \ MainSlot /\ proc'[q] = proc[q]
      BY <2>1, <2>2, IdleShaped
    <3>2. Busy(q, w)
      BY <2>2, <3>1, BusyIsOccupied
    <3>3. QED
      BY <2>1, <3>1, <3>2
  <2>3. QED
    BY <2>2 DEF Exclusive
<1>7. CASE UNCHANGED vars
  BY <1>7 DEF Exclusive, vars, history
<1>8. QED
  BY <1>1, <1>3, <1>4, <1>5, <1>6, <1>7 DEF Next

-----------------------------------------------------------------------------
(* An id that was not given to a workflow yet occurs nowhere.              *)

Mentions(r, w) == \E i \in DOMAIN r.todo : r.todo[i].w = w

FreshWorkflows ==
  \A w \in fresh : /\ ~Exists(w) /\ schedule[w] = None /\ expiry[w] = "none"
                   /\ \A p \in Proc : ~Mentions(proc[p], w)

LEMMA HereMentioned ==
  ASSUME Base, NEW p \in Proc, proc[p].todo # <<>>
  PROVE  Mentions(proc[p], Here(p).w) /\ Occupied(p, proc[p], Here(p).w)
<1>1. proc[p].todo \in Seq(Calls)
  BY Standing DEF Processes
<1>2. 1 \in DOMAIN proc[p].todo /\ Here(p) = proc[p].todo[1]
  BY <1>1, NonEmptySeq DEF Here
<1>3. QED
  BY <1>2 DEF Mentions, Occupied

LEMMA MentionsOccupied ==
  ASSUME NEW p, NEW r, NEW w
  PROVE  /\ Mentions(r, w) => Occupied(p, r, w)
         /\ p # Main => (Mentions(r, w) <=> Occupied(p, r, w))
BY DEF Mentions, Occupied

LEMMA StartingMentions == \A w \in Workflow : ~Mentions(Starting, w) /\ ~Mentions(Idle, w)
<1>1. Starting.todo = StartProgram /\ Idle.todo = <<>>
  BY StartingType, IdleType
<1>2. \A i \in DOMAIN StartProgram : StartProgram[i].w = None
  BY DEF StartProgram, Do, Call
<1>3. QED
  BY <1>1, <1>2, StoreAssumption DEF Mentions

LEMMA ReturnMentions ==
  ASSUME Base, NEW p \in Proc, proc[p].todo # <<>>, Return(p) \/ Fail(p), NEW w \in Workflow,
         Mentions(proc'[p], w)
  PROVE  Mentions(proc[p], w)
<1>1. ProcType /\ Shaped(p, proc[p]) /\ proc[p] \in Processes
  BY Standing
<1>2. CASE p # Main
  BY <1>2, ReturnOrFailMoves, MentionsOccupied DEF Moved
<1>3. CASE p = Main /\ Return(p)
  <2>1. \/ proc'[p] = Idle
        \/ Len(proc[p].todo) > 1 /\ proc'[p] = Returned(proc[p], proc[p].seen)
    BY <1>1, <1>3, PlainReturnMoves
  <2>2. CASE proc'[p] = Returned(proc[p], proc[p].seen)
    <3> DEFINE r == proc[p]
               todo == proc'[p].todo
    <3>1. todo = Tail(r.todo)
      BY <1>1, <2>2 DEF Returned, Processes
    <3>2. r # Idle
      BY IdleType
    <3>3. r \in Processes /\ r.todo # <<>>
      BY <1>1
    <3>4. PICK i \in DOMAIN todo : todo[i].w = w
      BY DEF Mentions
    <3> HIDE DEF r, todo
    <3>5. PICK j \in DOMAIN r.todo : todo[i] = r.todo[j]
      BY <3>1, <3>2, <3>3, <3>4, TailKeeps
    <3>6. QED
      BY <3>4, <3>5 DEF Mentions, r
  <2>3. QED
    BY <2>1, <2>2, StartingMentions
<1>4. CASE p = Main /\ ~Return(p)
  <2>1. proc'[p] = Starting
    BY <1>1, <1>4, FailMoves
  <2>2. QED
    BY <2>1, StartingMentions
<1>5. QED
  BY <1>2, <1>3, <1>4

(* Start-up takes up workflows that exist or have a schedule.              *)
LEMMA ListedMentions ==
  ASSUME Base, HookHasWorkflow, NEW k \in 1 .. 6, NEW ws,
         \A w \in ws : Exists(w) \/ (w \in Workflow /\ schedule[w] # None),
         ListedFor(k, ws), NEW w \in Workflow, Mentions(proc'[Main], w)
  PROVE  Exists(w) \/ schedule[w] # None
<1>1. proc'[Main] # Idle
  BY StartingMentions
<1>2. PICK n \in Nat : /\ Stage(k + 1, n, proc'[Main].todo)
                       /\ \A i \in 1 .. n : proc'[Main].todo[i].w \in ws
  BY <1>1 DEF ListedFor
<1>3. PICK i \in DOMAIN proc'[Main].todo : proc'[Main].todo[i].w = w
  BY DEF Mentions
<1> DEFINE todo == proc'[Main].todo
<1>4. todo \in Seq(Calls)
  BY ProcNames DEF ListedFor, Moved, ProcType, Processes
<1> HIDE DEF todo
<1>5. i \in 1 .. Len(todo) /\ Len(todo) \in Nat
  BY <1>3, <1>4 DEF todo
<1>6. CASE i > n
  <2>1. todo[i] = Do(Sequel[(k + 1) - 1 + i - n], None)
    BY <1>2, <1>5, <1>6 DEF Stage, todo
  <2>2. todo[i].w = None
    BY <2>1 DEF Do, Call
  <2>3. QED
    BY <1>3, <2>2, StoreAssumption DEF todo
<1>7. CASE i <= n
  BY <1>2, <1>3, <1>5, <1>7
<1>8. QED
  BY <1>2, <1>5, <1>6, <1>7

LEMMA StepMentions ==
  ASSUME Base, HookHasWorkflow, NEW p \in Proc, Step(p) \/ Fault(p), NEW w \in Workflow,
         Mentions(proc'[p], w)
  PROVE  Mentions(proc[p], w) \/ Exists(w) \/ schedule[w] # None
<1>1. Moved(p) /\ proc[p].todo # <<>>
  BY StepMoves
<1>2. CASE p # Main
  BY <1>1, <1>2, MentionsOccupied DEF Moved
<1>3. CASE Return(p) \/ Fail(p)
  BY <1>1, <1>3, ReturnMentions
<1>4. CASE proc'[p].todo = proc[p].todo
  BY <1>4 DEF Mentions
<1>5. CASE p = Main /\ ~(Return(p) \/ Fail(p)) /\ proc'[p].todo # proc[p].todo
  <2>1. proc[p] \in Processes
    BY Standing
  <2>2. ~(Reload(p) \/ Update(p) \/ DeleteRow(p) \/ SetupExecute(p) \/ Terminate(p)
          \/ UpdateStaticData(p) \/ DeleteAll(p))
    BY <1>5, EndingMoves
  <2>3. ~(SetupStart(p) \/ SetupTerminate(p) \/ TerminateStart(p))
    BY <1>5, <2>1, ScheduleMoves DEF Processes
  <2>4. ~(ReadWorkflow(p, "register") \/ ReadWorkflow(p, "unregister"))
    BY ZenonT(40), <1>5, <2>1, ReadMoves DEF Processes
  <2>5. ~(SaveHook(p) \/ DeleteHook(p))
    BY <1>5, <2>1, HooksMoves DEF Processes
  <2>6. ~(Load(p) \/ SetActive(p) \/ ExpireStart(p) \/ ExpireTerminate(p) \/ ExpireExecute(p))
    BY <1>1, <1>5, WhoCalls DEF Load, SetActive, ExpireStart, ExpireTerminate, ExpireExecute, At
  <2>7. ~Fault(p)
    <3>1. ASSUME Fault(p), NextHook(p), proc[p].at = "hooks" PROVE FALSE
      <4>1. Shaped(p, proc[p]) /\ ProcType
        BY Standing
      <4>2. proc'[p] = [proc[p] EXCEPT !.left = Tail(@),
                                       !.at = IF Len(proc[p].left) = 1 THEN "static" ELSE "hooks"]
        BY <1>1, <3>1, <4>1, HookMoves
      <4>3. QED
        BY <1>5, <2>1, <4>2 DEF Processes
    <3>2. QED
      BY <1>5, <3>1, FaultMoves
  <2>8. \/ UnregisterAllWebhooks(p) \/ RegisterAllWebhooks(p)
        \/ TerminateAllTemporalWorkflows(p) \/ SetupAllTemporalWorkflows(p)
    BY <2>2, <2>3, <2>4, <2>5, <2>6, <2>7 DEF Step
  <2>9. PICK k \in 1 .. 7, n \in Nat : Stage(k, n, proc[Main].todo)
    BY <1>1, <1>5, MainStage
  <2>10. TerminateAllTemporalWorkflows(Main) => k \in 1 .. 6
    BY <2>9, StartCall, ProcNames
  <2>11. /\ \A v \in ListDistinctWorkflowIdsFromWebhookEntities : Exists(v)
         /\ \A v \in ListAllActiveWorkflowEntities : Exists(v)
    BY DEF ListDistinctWorkflowIdsFromWebhookEntities, ListAllActiveWorkflowEntities,
           HookHasWorkflow, Exists
  <2>12. \E j \in 1 .. 6 :
            \/ ListedFor(j, ListDistinctWorkflowIdsFromWebhookEntities)
            \/ ListedFor(j, ListAllActiveWorkflowEntities)
            \/ ListedFor(j, {v \in Workflow : schedule[v] # None})
    BY <1>5, <2>8, <2>9, <2>10, ListingSteps
  <2>13. QED
    BY <1>5, <2>11, <2>12, ListedMentions
<1>6. QED
  BY <1>2, <1>3, <1>4, <1>5

KeepsExpiry(v) == expiry'[v] = expiry[v] \/ expiry'[v] = "none"

LEMMA ExpirySteps ==
  ASSUME Base, NEW p \in Proc, Step(p) \/ Fault(p), NEW v \in Workflow, v # Here(p).w
  PROVE  KeepsExpiry(v)
<1>1. expiry \in [Workflow -> {"none", "sleeping", "active"}]
  BY DEF Base, TypeInv, ProcType
<1>2. ASSUME NEW ok, End(p, ok) PROVE KeepsExpiry(v)
  BY <1>1, <1>2 DEF End, KeepsExpiry
<1>3. ASSUME UNCHANGED expiry PROVE KeepsExpiry(v)
  BY <1>3 DEF KeepsExpiry
<1>4. ASSUME NEW seen, ReturnWith(p, seen) PROVE KeepsExpiry(v)
  BY <1>2, <1>3, <1>4 DEF ReturnWith
<1>5. ASSUME Return(p) PROVE KeepsExpiry(v)
  BY <1>4, <1>5 DEF Return
<1>6. ASSUME Fail(p) PROVE KeepsExpiry(v)
  BY <1>2, <1>3, <1>5, <1>6 DEF Fail
<1>7. ASSUME NEW calls, NEW seen, Expand(p, calls, seen) PROVE KeepsExpiry(v)
  BY <1>2, <1>3, <1>7 DEF Expand
<1>8. ASSUME NextHook(p) PROVE KeepsExpiry(v)
  BY <1>3, <1>8 DEF NextHook
<1>9. CASE Fault(p)
  BY <1>6, <1>8, <1>9 DEF Fault
<1>10. CASE Load(p)
  BY <1>6, <1>7, <1>10 DEF Load
<1>11. CASE Reload(p) \/ SetActive(p) \/ Update(p) \/ DeleteRow(p)
  BY <1>4, <1>5, <1>6, <1>11 DEF Reload, SetActive, Update, DeleteRow
<1>12. CASE SetupStart(p) \/ SetupTerminate(p) \/ SetupExecute(p) \/ TerminateStart(p) \/ Terminate(p)
  BY <1>3, <1>5, <1>6, <1>12 DEF SetupStart, SetupTerminate, SetupExecute, TerminateStart, Terminate
<1>13. CASE ReadWorkflow(p, "register") \/ ReadWorkflow(p, "unregister")
  BY <1>3, <1>5, <1>6, <1>13 DEF ReadWorkflow
<1>14. CASE SaveHook(p) \/ DeleteHook(p) \/ UpdateStaticData(p) \/ DeleteAll(p)
  BY <1>5, <1>6, <1>8, <1>14 DEF SaveHook, DeleteHook, UpdateStaticData, DeleteAll
<1>15. CASE ExpireStart(p) \/ ExpireTerminate(p) \/ ExpireExecute(p)
  <2>1. UNCHANGED expiry \/ \E value : expiry' = [expiry EXCEPT ![Here(p).w] = value]
    BY <1>15 DEF ExpireStart, ExpireTerminate, ExpireExecute, Expiry, temporal
  <2>2. QED
    BY <1>1, <2>1 DEF KeepsExpiry
<1>16. CASE UnregisterAllWebhooks(p) \/ RegisterAllWebhooks(p)
  BY <1>5, <1>7, <1>16 DEF UnregisterAllWebhooks, RegisterAllWebhooks, ForEach
<1>17. CASE TerminateAllTemporalWorkflows(p) \/ SetupAllTemporalWorkflows(p)
  BY <1>7, <1>17 DEF TerminateAllTemporalWorkflows, SetupAllTemporalWorkflows, ForEach
<1>18. QED
  BY <1>9, <1>10, <1>11, <1>12, <1>13, <1>14, <1>15, <1>16, <1>17 DEF Step

LEMMA ScheduleChanges ==
  ASSUME Base, NEW p \in Proc, Step(p), NEW v \in Workflow, v # Here(p).w
  PROVE  schedule'[v] = schedule[v]
<1>1. CASE SetupTerminate(p) \/ SetupExecute(p) \/ Terminate(p)
  BY <1>1, ScheduleSteps
<1>2. CASE SetActive(p) \/ Update(p) \/ DeleteRow(p)
  BY <1>2, RowSteps
<1>3. CASE SaveHook(p) \/ DeleteHook(p) \/ UpdateStaticData(p) \/ DeleteAll(p)
  BY <1>3, HookSteps
<1>4. CASE \/ Load(p) \/ Reload(p) \/ SetupStart(p) \/ TerminateStart(p)
           \/ ReadWorkflow(p, "register") \/ ReadWorkflow(p, "unregister")
           \/ ExpireStart(p) \/ ExpireTerminate(p) \/ ExpireExecute(p)
           \/ UnregisterAllWebhooks(p) \/ RegisterAllWebhooks(p)
           \/ TerminateAllTemporalWorkflows(p) \/ SetupAllTemporalWorkflows(p)
  BY <1>4, QuietSteps
<1>5. QED
  BY <1>1, <1>2, <1>3, <1>4 DEF Step

(* What a process does to one workflow leaves the rows and schedules of    *)
(* the others alone.                                                       *)
LEMMA OthersKept ==
  ASSUME Base, NEW p \in Proc, Step(p) \/ Fault(p), NEW v \in Workflow, v # Here(p).w
  PROVE  /\ Exists(v)' <=> Exists(v)
         /\ Exists(v) => row'[v] = row[v]
         /\ schedule'[v] = schedule[v]
<1>1. CASE Step(p)
  <2>1. PICK h : h = Here(p).w
    OBVIOUS
  <2>2. \A u : u # h => /\ Exists(u)' <=> Exists(u)
                        /\ Exists(u) => row'[u] = row[u]
    BY <1>1, <2>1, RowChanges
  <2>3. QED
    BY <1>1, <2>1, <2>2, ScheduleChanges
<1>2. CASE Fault(p)
  BY <1>2 DEF Fault, Exists, tables
<1>3. QED
  BY <1>1, <1>2

LEMMA NextFresh ==
  ASSUME Base, HookHasWorkflow, FreshWorkflows, [Next]_vars
  PROVE  FreshWorkflows'
<1>1. ASSUME NEW p \in Proc, Step(p) \/ Fault(p) PROVE FreshWorkflows'
  <2>1. Moved(p) /\ proc[p].todo # <<>> /\ UNCHANGED fresh
    BY <1>1, StepMoves, DisturbedGrows
  <2>2. SUFFICES ASSUME NEW w \in fresh
                 PROVE  /\ ~Exists(w)' /\ schedule'[w] = None /\ expiry'[w] = "none"
                        /\ \A q \in Proc : ~Mentions(proc'[q], w)
    BY <2>1 DEF FreshWorkflows
  <2>3. w \in Workflow /\ w # Here(p).w
    BY <2>1, HereMentioned DEF FreshWorkflows, Base, TypeInv
  <2>4. ~Exists(w)' /\ schedule'[w] = None
    BY <1>1, <2>3, OthersKept DEF FreshWorkflows
  <2>5. expiry'[w] = "none"
    BY <1>1, <2>3, ExpirySteps DEF FreshWorkflows, KeepsExpiry
  <2>6. \A q \in Proc : ~Mentions(proc'[q], w)
    BY <1>1, <2>1, <2>3, StepMentions DEF FreshWorkflows, Moved
  <2>7. QED
    BY <2>4, <2>5, <2>6
<1>2. ASSUME NEW p \in Slot, NEW op \in Ops, NEW w \in Workflow, Request(p, op, w)
      PROVE  FreshWorkflows'
  <2>1. /\ UNCHANGED <<row, hook, fresh, schedule, expiry>> /\ w \notin fresh
        /\ \A q \in Proc \ {p} : proc'[q] = proc[q]
        /\ \A v : Occupied(p, proc'[p], v) <=> v = w
    BY <1>2, RequestStarts
  <2>2. \A v \in fresh : ~Mentions(proc'[p], v)
    BY <2>1, MentionsOccupied
  <2>3. QED
    BY <2>1, <2>2 DEF FreshWorkflows, Exists
<1>3. ASSUME NEW w \in Workflow, Wake(w) PROVE FreshWorkflows'
  <2>1. /\ UNCHANGED <<row, hook, fresh, schedule, armed>> /\ expiry[w] = "sleeping"
        /\ \A v \in Workflow : v # w => expiry'[v] = expiry[v]
        /\ \A q \in Proc \ {w} : proc'[q] = proc[q]
        /\ proc'[w] = Expiring(w)
    BY <1>3, WakeStarts
  <2>2. \A v \in fresh : v # w /\ v \in Workflow
    BY <2>1 DEF FreshWorkflows, Base, TypeInv
  <2>3. \A v \in fresh : ~Mentions(proc'[w], v)
    BY ZenonT(40), <2>1, <2>2, ExpiringShaped, MentionsOccupied
  <2>4. QED
    BY <2>1, <2>2, <2>3 DEF FreshWorkflows, Exists
<1>4. ASSUME NEW w \in Workflow, NEW active \in BOOLEAN, NEW d \in Definition,
             CreateWorkflow(w, active, d)
      PROVE  FreshWorkflows'
  <2>1. /\ UNCHANGED <<schedule, expiry, proc>> /\ fresh' = fresh \ {w}
        /\ CreateWorkflowEntity(w, active, d)
    BY <1>4, CreateTypes
  <2>2. \A v \in fresh' : Exists(v)' => Exists(v)
    BY <2>1 DEF CreateWorkflowEntity, Exists
  <2>3. QED
    BY <2>1, <2>2 DEF FreshWorkflows
<1>5. CASE Crash
  <2>1. /\ UNCHANGED <<row, hook, fresh, schedule>> /\ proc'[Main] = Starting
        /\ \A q \in Proc \ {Main} : proc'[q] = Idle \/ proc'[q] = proc[q]
        /\ \A w \in Workflow : expiry'[w] = "none" \/ expiry'[w] = expiry[w]
    BY <1>5, CrashStarts
  <2>2. fresh \subseteq Workflow
    BY DEF Base, TypeInv
  <2>3. QED
    BY <2>1, <2>2, StartingMentions DEF FreshWorkflows, Exists
<1>6. CASE UNCHANGED vars
  BY <1>6 DEF FreshWorkflows, Exists, vars, tables, temporal
<1>7. QED
  BY <1>1, <1>2, <1>3, <1>4, <1>5, <1>6 DEF Next

-----------------------------------------------------------------------------
(* What a registration or removal has read of its workflow is still there. *)
InLoop(r, w) == r.at \in {"hooks", "static"} /\ Head(r.todo).w = w

CopyIsCurrent ==
  \A p \in Proc, w \in Workflow :
    InLoop(proc[p], w) /\ w \notin disturbed /\ Exists(w) => proc[p].copy.static = row[w].static

LEMMA LoopSteps ==
  ASSUME Base, NEW p \in Proc, Step(p), proc'[p].at \in {"hooks", "static"}
  PROVE  /\ UNCHANGED row /\ proc'[p].todo = proc[p].todo
         /\ \/ proc[p].at = "hooks" /\ proc'[p].copy = proc[p].copy
            \/ proc'[p].copy = row[Here(p).w]
<1>1. proc[p] \in Processes /\ proc[p].todo # <<>>
  BY Standing, StepMoves
<1>2. CASE SaveHook(p) \/ DeleteHook(p)
  <2>1. UNCHANGED row
    BY <1>2 DEF SaveHook, DeleteHook, tables, CreateWebhookEntity,
                DeleteWebhookEntityByWorkflowId_Path_Method
  <2>2. proc[p].at = "hooks"
    BY <1>2 DEF SaveHook, DeleteHook, At
  <2>3. proc'[p].copy = proc[p].copy /\ proc'[p].todo = proc[p].todo
    BY <1>1, <1>2, HooksMoves DEF Processes
  <2>4. QED
    BY <2>1, <2>2, <2>3
<1>3. CASE ReadWorkflow(p, "register") \/ ReadWorkflow(p, "unregister")
  <2>1. UNCHANGED row
    BY <1>3, QuietSteps
  <2>2. proc'[p] = [proc[p] EXCEPT !.copy = row[Here(p).w], !.at = "hooks",
                                   !.left = Webhooks[row[Here(p).w].def]]
    BY <1>3, ReadMoves
  <2>3. proc'[p].copy = row[Here(p).w] /\ proc'[p].todo = proc[p].todo
    BY <1>1, <2>2 DEF Processes
  <2>4. QED
    BY <2>1, <2>3
<1>4. ASSUME NEW at \in {"terminate", "execute"}, proc'[p] = [proc[p] EXCEPT !.at = at] PROVE FALSE
  BY <1>1, <1>4 DEF Processes
<1>5. ~(SetupStart(p) \/ SetupTerminate(p) \/ TerminateStart(p))
  BY <1>4, ScheduleMoves
<1>6. ~(ExpireStart(p) \/ ExpireTerminate(p) \/ ExpireExecute(p))
  BY <1>4, ExpireMoves, IdleType
<1>7. ~(Load(p) \/ SetActive(p) \/ Reload(p) \/ Update(p) \/ DeleteRow(p) \/ SetupExecute(p)
        \/ Terminate(p) \/ UpdateStaticData(p) \/ DeleteAll(p))
  BY LoadMoves, SetActiveMoves, EndingMoves
<1>8. ASSUME \/ UnregisterAllWebhooks(p) \/ RegisterAllWebhooks(p)
             \/ TerminateAllTemporalWorkflows(p) \/ SetupAllTemporalWorkflows(p)
      PROVE  FALSE
  <2>1. p = Main /\ proc[p].todo # <<>>
    BY <1>8, StartCall
  <2>2. PICK k \in 1 .. 7, n \in Nat : Stage(k, n, proc[Main].todo)
    BY <2>1, MainStage
  <2>3. ~Return(Main)
    BY <2>1, ReturnOrFailMoves
  <2>4. QED
    BY <1>8, <2>1, <2>2, <2>3, ListingSteps DEF ListedFor
<1>9. QED
  BY <1>2, <1>3, <1>5, <1>6, <1>7, <1>8 DEF Step

LEMMA NextCopy ==
  ASSUME Base, Exclusive, FreshWorkflows, CopyIsCurrent, [Next]_vars
  PROVE  CopyIsCurrent'
<1>1. ASSUME NEW p \in Proc, NEW w \in Workflow, InLoop(proc[p], w)
      PROVE  Occupied(p, proc[p], w) /\ Mentions(proc[p], w)
  <2>1. proc[p].todo # <<>> /\ Here(p).w = w
    BY <1>1, Standing DEF Here, InLoop
  <2>2. QED
    BY <2>1, HereMentioned
<1>2. ASSUME NEW q \in Proc, Step(q) PROVE CopyIsCurrent'
  <2>1. SUFFICES ASSUME NEW p \in Proc, NEW w \in Workflow, InLoop(proc'[p], w),
                        w \notin disturbed', Exists(w)'
                 PROVE  proc'[p].copy.static = row'[w].static
    BY Zenon DEF CopyIsCurrent
  <2>2. w \notin disturbed
    BY <1>2, <2>1, DisturbedGrows
  <2>3. CASE p = q
    <3>1. /\ UNCHANGED row /\ proc'[p].todo = proc[p].todo
          /\ \/ proc[p].at = "hooks" /\ proc'[p].copy = proc[p].copy
             \/ proc'[p].copy = row[Here(p).w]
      BY <1>2, <2>1, <2>3, LoopSteps DEF InLoop
    <3>2. Here(p).w = w /\ Exists(w)
      BY <2>1, <2>3, <3>1 DEF Here, Exists, InLoop
    <3>3. QED
      <4>1. CASE proc[p].at = "hooks" /\ proc'[p].copy = proc[p].copy
        BY <2>2, <3>1, <3>2, <4>1 DEF CopyIsCurrent, Here, InLoop
      <4>2. CASE proc'[p].copy = row[Here(p).w]
        BY <3>1, <3>2, <4>2
      <4>3. QED
        BY <3>1, <4>1, <4>2
  <2>4. CASE p # q
    <3>1. proc'[p] = proc[p] /\ proc[q].todo # <<>>
      BY <1>2, <2>4, StepMoves DEF Moved
    <3>2. Here(q).w # w
      <4>1. SUFFICES ASSUME Here(q).w = w PROVE FALSE
        OBVIOUS
      <4>2. Occupied(q, proc[q], w)
        BY <3>1, <4>1, HereMentioned
      <4>3. Occupied(p, proc[p], w)
        BY <1>1, <2>1, <3>1
      <4>4. QED
        BY <2>2, <2>4, <4>2, <4>3 DEF Exclusive
    <3>3. Exists(w) /\ row'[w] = row[w]
      BY <1>2, <2>1, <3>2, OthersKept
    <3>4. QED
      BY <2>1, <2>2, <3>1, <3>3 DEF CopyIsCurrent
  <2>5. QED
    BY <2>3, <2>4
<1>3. ASSUME NEW q \in Proc, Fault(q) PROVE CopyIsCurrent'
  <2>1. SUFFICES ASSUME NEW p \in Proc, NEW w \in Workflow, InLoop(proc'[p], w),
                        w \notin disturbed', Exists(w)'
                 PROVE  proc'[p].copy.static = row'[w].static
    BY Zenon DEF CopyIsCurrent
  <2>2. w \notin disturbed /\ UNCHANGED row
    BY <1>3, <2>1, DisturbedGrows DEF Fault, tables
  <2>3. p # q
    <3>1. SUFFICES ASSUME p = q PROVE FALSE
      OBVIOUS
    <3>2. proc[p].todo # <<>> /\ proc[p].at = "hooks" /\ NextHook(p)
      BY <1>3, <2>1, <3>1, FaultMoves DEF InLoop
    <3>3. ProcType /\ Shaped(p, proc[p]) /\ proc[p] \in Processes
      BY Standing
    <3>4. proc'[p].todo = proc[p].todo
      BY <3>2, <3>3, HookMoves DEF Processes
    <3>5. w \in disturbed'
      BY <1>3, <2>1, <3>1, <3>4, StoreAssumption DEF Fault, Here, InLoop
    <3>6. QED
      BY <2>1, <3>5
  <2>4. proc'[p] = proc[p]
    BY <1>3, <2>3, StepMoves DEF Moved
  <2>5. QED
    BY <2>1, <2>2, <2>4 DEF CopyIsCurrent, Exists
<1>4. ASSUME UNCHANGED row, disturbed \subseteq disturbed',
             \A p \in Proc : proc'[p].at = "start" \/ proc'[p] = proc[p]
      PROVE  CopyIsCurrent'
  <2>1. SUFFICES ASSUME NEW p \in Proc, NEW w \in Workflow, InLoop(proc'[p], w),
                        w \notin disturbed', Exists(w)'
                 PROVE  proc'[p].copy.static = row'[w].static
    BY Zenon DEF CopyIsCurrent
  <2>2. proc'[p] = proc[p] /\ w \notin disturbed /\ Exists(w)
    BY <1>4, <2>1 DEF InLoop, Exists
  <2>3. QED
    BY <1>4, <2>1, <2>2 DEF CopyIsCurrent
<1>5. ASSUME NEW p \in Slot, NEW op \in Ops, NEW w \in Workflow, Request(p, op, w)
      PROVE  CopyIsCurrent'
  BY <1>4, <1>5, RequestStarts
<1>6. ASSUME NEW w \in Workflow, Wake(w) PROVE CopyIsCurrent'
  BY ZenonT(40), <1>4, <1>6, WakeStarts, ExpiringType
<1>7. ASSUME NEW w \in Workflow, NEW active \in BOOLEAN, NEW d \in Definition,
             CreateWorkflow(w, active, d)
      PROVE  CopyIsCurrent'
  <2>1. /\ UNCHANGED proc /\ CreateWorkflowEntity(w, active, d) /\ disturbed \subseteq disturbed'
        /\ w \in fresh
    BY <1>7, CreateTypes
  <2>2. \A p \in Proc : ~InLoop(proc[p], w)
    BY <1>1, <2>1 DEF FreshWorkflows
  <2>3. \A v : v # w /\ Exists(v)' => Exists(v) /\ row'[v] = row[v]
    BY <2>1 DEF CreateWorkflowEntity, Exists
  <2>4. QED
    BY <2>1, <2>2, <2>3 DEF CopyIsCurrent
<1>8. CASE Crash
  <2>1. /\ UNCHANGED row /\ proc'[Main] = Starting
        /\ \A q \in Proc \ {Main} : proc'[q] = Idle \/ (q \in Slot \ MainSlot /\ proc'[q] = proc[q])
        /\ disturbed' = {w \in Workflow : \E p \in Slot \ MainSlot : Busy(p, w)}
    BY <1>8, CrashStarts
  <2>2. SUFFICES ASSUME NEW p \in Proc, NEW w \in Workflow, InLoop(proc'[p], w),
                        w \notin disturbed'
                 PROVE  FALSE
    BY Zenon DEF CopyIsCurrent
  <2>3. p \in Slot \ MainSlot /\ proc'[p] = proc[p]
    BY <2>1, <2>2, StartingType, IdleType DEF InLoop
  <2>4. Busy(p, w)
    BY <1>1, <2>2, <2>3, BusyIsOccupied
  <2>5. QED
    BY <2>1, <2>2, <2>3, <2>4
<1>9. CASE UNCHANGED vars
  BY <1>9 DEF CopyIsCurrent, Exists, vars, tables, history
<1>10. QED
  BY <1>2, <1>3, <1>5, <1>6, <1>7, <1>8, <1>9 DEF Next

-----------------------------------------------------------------------------
(* The inductive invariant.                                                *)

IInv == Base /\ HookHasWorkflow /\ Exclusive /\ FreshWorkflows /\ CopyIsCurrent

LEMMA InitIInv == Init => IInv
<1>1. SUFFICES ASSUME Init PROVE IInv
  OBVIOUS
<1>2. /\ proc = [p \in Proc |-> Idle] /\ expiry = [w \in Workflow |-> "none"]
      /\ fresh = {w \in Workflow : ~Exists(w)}
      /\ schedule = [w \in Workflow |-> IF Exists(w) /\ row[w].active THEN Cron[row[w].def] ELSE None]
  BY <1>1 DEF Init
<1>3. \A p \in Proc : proc[p] = Idle
  BY <1>2
<1>4. Exclusive
  BY <1>3, IdleShaped DEF Exclusive
<1>5. FreshWorkflows
  <2>1. \A w \in fresh : w \in Workflow /\ ~Exists(w) /\ schedule[w] = None /\ expiry[w] = "none"
    BY <1>2
  <2>2. QED
    BY <1>3, <2>1, StartingMentions DEF FreshWorkflows
<1>6. CopyIsCurrent
  BY <1>3, IdleType DEF CopyIsCurrent, InLoop
<1>7. QED
  BY <1>1, <1>4, <1>5, <1>6, InitBase, InitHooks DEF IInv

LEMMA NextIInv == IInv /\ [Next]_vars => IInv'
BY NextBase, NextKeepsHooks, NextExclusive, NextFresh, NextCopy DEF IInv

THEOREM Invariant == Spec => []IInv
<1>1. QED
  BY InitIInv, NextIInv, PTL DEF Spec

(* Types: whatever requests, activities, start-ups, faults and crashes     *)
(* interleave, the tables, the schedules and every process hold values of  *)
(* their kinds; in particular a handler never goes on with a row it has    *)
(* not read and never runs out of the calls it has to make.                *)
THEOREM TypeCorrect == Spec => []TypeInv
<1>1. IInv => TypeInv
  BY DEF IInv, Base
<1>2. QED
  BY <1>1, Invariant, PTL

-----------------------------------------------------------------------------
(* A step keeps the static data of every workflow no two requests are      *)
(* about, or brings that of a new definition.                              *)
KeepsStatic ==
  \A w \in Workflow :
    Exists(w) /\ Exists(w)' /\ row'[w].static # row[w].static /\ w \notin disturbed
      => row'[w].def = row'[w].static

LEMMA StepKeepsStatic ==
  ASSUME Base, CopyIsCurrent, NEW p \in Proc, Step(p)
  PROVE  KeepsStatic
<1>1. SUFFICES ASSUME NEW w \in Workflow, Exists(w), Exists(w)', w \notin disturbed,
                      row'[w].static # row[w].static
               PROVE  row'[w].def = row'[w].static
  BY DEF KeepsStatic
<1>2. w = Here(p).w
  BY <1>1, OthersKept
<1>3. CASE UpdateStaticData(p) /\ row'[w].static = proc[p].copy.static
  <2>1. InLoop(proc[p], w)
    BY <1>2, <1>3 DEF UpdateStaticData, InLoop, Here
  <2>2. proc[p].copy.static = row[w].static
    BY <1>1, <2>1 DEF CopyIsCurrent
  <2>3. QED
    BY <1>1, <1>3, <2>2
<1>4. QED
  BY <1>1, <1>2, <1>3, RowChanges

LEMMA NextKeepsStatic == IInv /\ [Next]_vars => KeepsStatic
<1>1. SUFFICES ASSUME IInv, [Next]_vars PROVE KeepsStatic
  OBVIOUS
<1>2. ASSUME UNCHANGED row PROVE KeepsStatic
  BY <1>2 DEF KeepsStatic
<1>3. ASSUME NEW p \in Slot, NEW op \in Ops, NEW w \in Workflow, Request(p, op, w)
      PROVE  KeepsStatic
  BY <1>2, <1>3 DEF Request, tables
<1>4. ASSUME NEW w \in Workflow, NEW active \in BOOLEAN, NEW d \in Definition,
             CreateWorkflow(w, active, d)
      PROVE  KeepsStatic
  <2>1. ~Exists(w) /\ CreateWorkflowEntity(w, active, d)
    BY <1>1, <1>4 DEF CreateWorkflow, IInv, FreshWorkflows
  <2>2. \A v : Exists(v) => row'[v] = row[v]
    BY <2>1 DEF CreateWorkflowEntity, Exists
  <2>3. QED
    BY <2>2 DEF KeepsStatic
<1>5. ASSUME NEW p \in Proc, Step(p) PROVE KeepsStatic
  BY <1>1, <1>5, StepKeepsStatic DEF IInv
<1>6. ASSUME NEW w \in Workflow, Wake(w) PROVE KeepsStatic
  BY <1>2, <1>6 DEF Wake, tables
<1>7. ASSUME NEW p \in Proc, Fault(p) PROVE KeepsStatic
  BY <1>2, <1>7 DEF Fault, tables
<1>8. CASE Crash
  BY <1>2, <1>8 DEF Crash, tables
<1>9. CASE UNCHANGED vars
  BY <1>2, <1>9 DEF vars, tables
<1>10. QED
  BY <1>1, <1>3, <1>4, <1>5, <1>6, <1>7, <1>8, <1>9 DEF Next

(* updateWorkflowStaticData writes back the column it has read before the  *)
(* loop over the webhooks.  Where no two requests are about a workflow     *)
(* that is still what the row has, so registering and removing webhooks,   *)
(* in requests, activities and start-up, loses no static data; only an     *)
(* update of the workflow brings new ones, together with its nodes.        *)
THEOREM StaticDataIsKept == Spec => StaticDataKept
<1>1. IInv /\ [Next]_vars => [KeepsStatic]_vars
  BY NextKeepsStatic
<1>2. QED
  BY <1>1, Invariant, PTL DEF Spec, StaticDataKept, KeepsStatic
=============================================================================
