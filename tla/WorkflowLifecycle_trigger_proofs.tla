-------------------- MODULE WorkflowLifecycle_trigger_proofs --------------------
(***************************************************************************)
(* Proofs that the triggers of a workflow, its webhook registrations and   *)
(* its cron workflow on Temporal, follow its activation, for any           *)
(* workflows, definitions, concurrent requests, faults and crashes.        *)
(***************************************************************************)
EXTENDS WorkflowLifecycle_proofs

(* What the stores hold of one workflow.                                   *)
Active(w) == Exists(w) /\ row[w].active
ForRequests(w, h) == HookFor(w, h, FALSE)
Reg(w) == {h \in AllWebhooks : ForRequests(w, h) \in hook}

View(w) ==
  [exists |-> Exists(w), active |-> Active(w), def |-> IF Exists(w) THEN row[w].def ELSE None,
   reg |-> Reg(w), open |-> schedule[w], armed |-> armed[w]]

(* The production registrations and the schedule are as they should be     *)
(* when no process is about to change them.                                *)
Whole(v) == v.reg = IF v.active THEN WebhooksOf(v.def) ELSE {}
OnTime(v) ==
  /\ v.armed = "off" => v.open = None
  /\ v.armed = "on" => v.open = Cron[v.def]
InOrder(v) == Whole(v) /\ OnTime(v)

ArmedIsActive == \A w \in Workflow : armed[w] # "lost" => (armed[w] # "off" <=> Active(w))

LEMMA ViewFields ==
  ASSUME NEW w
  PROVE  /\ View(w).exists = Exists(w) /\ View(w).active = Active(w)
         /\ View(w).def = (IF Exists(w) THEN row[w].def ELSE None)
         /\ View(w).reg = Reg(w) /\ View(w).open = schedule[w] /\ View(w).armed = armed[w]
BY DEF View

LEMMA ViewOfRow ==
  ASSUME TypeInv, NEW w, Exists(w)
  PROVE  View(w).exists /\ View(w).def = row[w].def /\ View(w).active = row[w].active
<1>1. row[w].active \in BOOLEAN
  BY RowOfTable DEF TypeInv, Loaded
<1>2. QED
  BY <1>1, ViewFields DEF Active

LEMMA OneRegistration ==
  ASSUME NEW w, NEW h \in AllWebhooks, NEW t, NEW w2, NEW h2 \in AllWebhooks, NEW t2,
         HookFor(w, h, t) = HookFor(w2, h2, t2)
  PROVE  w = w2 /\ h = h2 /\ t = t2
<1>1. /\ HookFor(w, h, t).path = Path(h.id, t) /\ HookFor(w2, h2, t2).path = Path(h2.id, t2)
      /\ HookFor(w, h, t).method = h.method /\ HookFor(w2, h2, t2).method = h2.method
      /\ HookFor(w, h, t).workflow = w /\ HookFor(w2, h2, t2).workflow = w2
  BY DEF HookFor
<1>2. Path(h.id, t).id = h.id /\ Path(h.id, t).test = t /\ Path(h2.id, t2).id = h2.id /\ Path(h2.id, t2).test = t2
  BY DEF Path
<1>3. h.id = h2.id /\ h.method = h2.method
  BY <1>1, <1>2
<1>4. h = [id |-> h.id, method |-> h.method] /\ h2 = [id |-> h2.id, method |-> h2.method]
  BY StoreAssumption
<1>5. QED
  BY <1>1, <1>2, <1>3, <1>4

-----------------------------------------------------------------------------
(* What a handler that nothing disturbs may count on at each of its calls. *)

(* It has gone half through the webhooks: those left are still to be       *)
(* registered.                                                             *)
Registering(r, v) ==
  r.at \in {"hooks", "static"} =>
    /\ Range(r.left) \subseteq WebhooksOf(v.def)
    /\ WebhooksOf(v.def) \subseteq v.reg \cup Range(r.left)

(* It has found a schedule open, or closed.                                *)
Scheduling(r, v) ==
  /\ r.at = "terminate" => v.open # None
  /\ r.at = "execute" => v.open = None

Arming == {"activate", "update"}
Disarming == {"deactivate", "update", "delete"}
Quiet == {"run", "deleteTest", "expire"}

SlotClaim(r, v) ==
  LET op == r.op
      do == Head(r.todo).do
      test == Head(r.todo).test
  IN  /\ op \in Quiet \/ do \in {"load", "setActive", "reload"} => InOrder(v)
      /\ op \in Arming /\ do = "setup" =>
           /\ v.exists /\ v.active /\ v.reg \subseteq WebhooksOf(v.def)
           /\ \/ v.armed = "edited"
              \/ r.seen[Head(r.todo).w].def = v.def /\ (Cron[v.def] = None => v.open = None)
           /\ Scheduling(r, v)
      /\ op \in Arming /\ do = "register" =>
           /\ v.exists /\ v.active /\ v.reg \subseteq WebhooksOf(v.def) /\ OnTime(v)
           /\ Registering(r, v)
      /\ op \in Disarming /\ do = "terminate" =>
           /\ v.exists /\ v.reg \subseteq WebhooksOf(v.def) /\ Scheduling(r, v)
           /\ op = "deactivate" => ~v.active
           /\ op = "update" => v.active
      /\ op \in Disarming /\ do = "unregister" /\ ~test =>
           /\ v.exists /\ v.open = None
           /\ v.reg \subseteq IF r.at = "start" THEN WebhooksOf(v.def) ELSE Range(r.left)
           /\ op = "deactivate" => ~v.active
           /\ op = "update" => v.active
      /\ op = "update" /\ do = "update" =>
           /\ v.exists /\ v.reg = {} /\ v.open = None
           /\ v.active <=> Len(r.todo) > 1
      /\ op = "delete" /\ (do = "remove" \/ (do = "unregister" /\ test)) =>
           v.exists /\ v.reg = {} /\ v.open = None

(* The triggers of w are in order, or its only process takes care of them. *)
Claim(r, v) == IF r.todo = <<>> THEN InOrder(v) ELSE SlotClaim(r, v)

(* What start-up may count on in stage k, where the calls m to n of those  *)
(* ahead are calls Pass[k] for one workflow each; and inside such a call.  *)
Pending(todo, m, n, c) == \E i \in m .. n : todo[i] = c

StageClaim(k, m, n, r, w, v) ==
  LET ahead == Pending(r.todo, m, n, Do(Pass[k], w))
  IN  /\ k = 3 => v.reg = {}
      /\ k = 4 /\ v.active => /\ v.reg \subseteq WebhooksOf(v.def)
                              /\ v.reg = WebhooksOf(v.def) \/ ahead
      /\ k = 4 /\ ~v.active => v.reg = {} /\ ~ahead
      /\ k > 4 => Whole(v)
      /\ k = 6 => v.open = None \/ ahead
      /\ k = 7 /\ v.active => /\ v.open = Cron[v.def] \/ (v.open = None /\ ahead)
                              /\ ahead => r.seen[w].def = v.def
      /\ k = 7 /\ ~v.active => v.open = None /\ ~ahead

CallClaim(k, r, v) ==
  v.active => (k = 4 => Registering(r, v)) /\ (k = 7 => Scheduling(r, v))

MainClaim(k, n, r, w, v) ==
  /\ StageClaim(k, 1, n, r, w, v)
  /\ Head(r.todo) = Do(Pass[k], w) => CallClaim(k, r, v)

Clear(w) == w \notin disturbed /\ armed[w] # "lost"

SlotPart(w) ==
  /\ \A p \in Proc \ {Main} : Occupied(p, proc[p], w) => SlotClaim(proc[p], View(w))
  /\ (\A p \in Proc : ~Occupied(p, proc[p], w)) => InOrder(View(w))
SlotClaims == \A w \in Workflow : Clear(w) => SlotPart(w)

MainClaims ==
  proc[Main] # Idle =>
    \E k \in 1 .. 7, n \in Nat :
      /\ Stage(k, n, proc[Main].todo)
      /\ \A w \in Workflow : Clear(w) => MainClaim(k, n, proc[Main], w, View(w))

TInv == IInv /\ ArmedIsActive /\ SlotClaims /\ MainClaims

-----------------------------------------------------------------------------
(* From one call of a handler to the next.                                 *)

(* Which program a call belongs to.                                        *)
Fits(op, c) ==
  /\ c.do \in {"setActive", "reload"} => op \in {"activate", "deactivate"}
  /\ c.do = "setup" => op \in Arming
  /\ c.do = "register" => (c.test /\ op = "run") \/ (~c.test /\ op \in Arming)
  /\ c.do = "terminate" => op \in Disarming
  /\ c.do = "unregister" => \/ c.test /\ op \in {"delete", "deleteTest", "expire"}
                            \/ ~c.test /\ op \in Disarming
  /\ c.do = "expire" => op = "run"
  /\ c.do = "update" => op = "update"
  /\ c.do = "remove" => op = "delete"

LEMMA ProgramCalls ==
  ASSUME NEW op \in Programs, NEW c \in WorkflowCall
  PROVE  /\ MayEnd(op, c) => Fits(op, c)
         /\ \A d \in WorkflowCall : After(op, c, d) => Fits(op, c)
<1>1. /\ c.do \in HandlerCalls /\ c.test \in BOOLEAN
      /\ op \in {"activate", "deactivate", "update", "delete", "run", "deleteTest", "expire"}
  BY DEF WorkflowCall, Programs, Ops
<1>2. MayEnd(op, c) => Fits(op, c)
  BY <1>1 DEF MayEnd, Fits, Arming, Disarming
<1>3. \A d \in WorkflowCall : After(op, c, d) => Fits(op, c)
  BY <1>1 DEF After, Fits, Arming, Disarming
<1>4. QED
  BY <1>2, <1>3

LEMMA CallFits ==
  ASSUME Base, NEW p \in Proc, p # Main, proc[p].todo # <<>>
  PROVE  /\ Fits(proc[p].op, Here(p)) /\ proc[p].op \in Programs /\ Here(p) \in WorkflowCall
         /\ Here(p).w \in Workflow
         /\ \A w : Occupied(p, proc[p], w) <=> w = Here(p).w
<1> DEFINE r == proc[p]
<1>1. r \in Processes /\ Shaped(p, r) /\ r.todo # <<>>
  BY Standing
<1> HIDE DEF r
<1>2. /\ r.op \in Programs /\ Head(r.todo).w \in Workflow /\ LeftOf(r.op, Head(r.todo).w, r.todo)
      /\ \A w : Occupied(p, r, w) <=> w = Head(r.todo).w
  BY <1>1, SlotOccupied
<1> DEFINE c == Head(r.todo)
           d == Head(Tail(r.todo))
<1>3. /\ c \in WorkflowCall
      /\ MayEnd(r.op, c) \/ (After(r.op, c, d) /\ LeftOf(r.op, c.w, Tail(r.todo)))
  BY <1>2, LeftCalls
<1>4. LeftOf(r.op, c.w, Tail(r.todo)) => d \in WorkflowCall
  BY ZenonT(40), <1>2, LeftCalls
<1> HIDE DEF c, d
<1>5. Fits(r.op, c)
  BY <1>2, <1>3, <1>4, ProgramCalls
<1>6. QED
  BY <1>2, <1>3, <1>5 DEF c, r, Here

(* The process r has made its call and goes on as n.                       *)
Passed(r, n, seen) ==
  \/ n.todo = <<>> /\ Len(r.todo) = 1 /\ MayEnd(r.op, Head(r.todo))
  \/ /\ Len(r.todo) > 1 /\ n.todo # <<>> /\ n.at = "start" /\ n.op = r.op /\ n.seen = seen
     /\ Head(n.todo) \in WorkflowCall /\ Head(n.todo).w = Head(r.todo).w
     /\ After(r.op, Head(r.todo), Head(n.todo))
     /\ r.op = "update" /\ Head(n.todo).do = "update" => Len(n.todo) > 1

LEMMA PassedOn ==
  ASSUME NEW r \in Processes, r.todo # <<>>, r.op \in Programs,
         NEW w \in Workflow, LeftOf(r.op, w, r.todo), NEW seen \in Seen,
         NEW n \in Processes,
         \/ Len(r.todo) = 1 /\ n = Idle
         \/ Len(r.todo) > 1 /\ n = Returned(r, seen)
  PROVE  Passed(r, n, seen)
<1>1. /\ Head(r.todo).w = w
      /\ Len(r.todo) = 1 => MayEnd(r.op, Head(r.todo))
      /\ Len(r.todo) > 1 => LeftOf(r.op, w, Tail(r.todo)) /\ After(r.op, Head(r.todo), Head(Tail(r.todo)))
  BY LeftCalls
<1>2. CASE Len(r.todo) = 1 /\ n = Idle
  BY <1>1, <1>2, IdleType DEF Passed
<1>3. CASE Len(r.todo) > 1 /\ n = Returned(r, seen)
  <2>1. n.todo = Tail(r.todo) /\ n.at = "start" /\ n.op = r.op /\ n.seen = seen
    BY <1>3 DEF Returned, Processes
  <2>2. /\ Head(n.todo).w = w /\ Head(n.todo) \in WorkflowCall /\ n.todo # <<>>
        /\ Len(n.todo) = 1 \/ Len(n.todo) > 1
    <3>1. LeftOf(r.op, w, n.todo)
      BY <1>1, <1>3, <2>1
    <3> DEFINE todo == n.todo
    <3>2. LeftOf(r.op, w, todo)
      BY <3>1
    <3> HIDE DEF todo
    <3>3. /\ Head(todo).w = w /\ Head(todo) \in WorkflowCall
          /\ Len(todo) = 1 \/ Len(todo) > 1
      BY <3>2, LeftCalls
    <3>4. todo # <<>>
      BY <3>2 DEF LeftOf
    <3>5. QED
      BY <3>3, <3>4 DEF todo
  <2>3. r.op = "update" /\ Len(n.todo) = 1 => Head(n.todo).do = "register"
    <3> DEFINE todo == r.todo
               tail == n.todo
    <3>1. /\ todo \in Seq(Calls) /\ tail = Tail(todo) /\ Len(todo) > 1
          /\ r.op = "update" => todo[Len(todo)].do = "register"
      BY <1>3, <2>1 DEF Processes, LeftOf
    <3>2. tail # <<>>
      BY <2>2
    <3> HIDE DEF todo, tail
    <3>3. Len(tail) = 1 => Head(tail) = todo[Len(todo)]
      BY <3>1, <3>2
    <3>4. QED
      BY <3>1, <3>3 DEF todo, tail
  <2>4. QED
    BY <1>1, <1>3, <2>1, <2>2, <2>3 DEF Passed
<1>4. QED
  BY <1>2, <1>3

LEMMA SlotReturns ==
  ASSUME Base, NEW p \in Proc, p # Main, proc[p].todo # <<>>,
         NEW seen \in Seen, KeepsSeen(proc[p], seen), ReturnWith(p, seen)
  PROVE  Passed(proc[p], proc'[p], seen)
<1>1. /\ ProcType /\ proc[p] \in Processes /\ Shaped(p, proc[p])
  BY Standing
<1>2. /\ Moved(p)
      /\ \/ Len(proc[p].todo) = 1 /\ proc'[p] = Idle
         \/ Len(proc[p].todo) > 1 /\ proc'[p] = Returned(proc[p], seen)
  BY <1>1, ReturnMoves
<1>3. proc'[p] \in Processes
  BY <1>2 DEF Moved, ProcType
<1>4. proc[p].op \in Programs /\ Head(proc[p].todo).w \in Workflow /\ LeftOf(proc[p].op, Head(proc[p].todo).w, proc[p].todo)
  BY <1>1, SlotOccupied
<1>5. QED
  BY <1>1, <1>2, <1>3, <1>4, PassedOn

LEMMA SlotReturnsPlain ==
  ASSUME Base, NEW p \in Proc, p # Main, proc[p].todo # <<>>, Return(p)
  PROVE  Passed(proc[p], proc'[p], proc[p].seen)
<1>1. proc[p].seen \in Seen /\ KeepsSeen(proc[p], proc[p].seen)
  BY Standing, TypedProcess DEF KeepsSeen
<1>2. QED
  BY <1>1, SlotReturns DEF Return

(* What a call leaves behind when it has done its work.                    *)
Done(r, seen, v) ==
  LET op == r.op
      do == Head(r.todo).do
      test == Head(r.todo).test
  IN  /\ op \in Quiet \/ do = "reload" => InOrder(v)
      /\ do = "setActive" =>
           /\ v.exists /\ v.reg \subseteq WebhooksOf(v.def)
           /\ op = "deactivate" => ~v.active
           /\ op = "activate" =>
                /\ v.active
                /\ \/ v.armed = "edited"
                   \/ seen[Head(r.todo).w].def = v.def /\ (Cron[v.def] = None => v.open = None)
      /\ op \in Arming /\ do = "setup" =>
           v.exists /\ v.active /\ v.reg \subseteq WebhooksOf(v.def) /\ OnTime(v)
      /\ op \in Arming /\ do = "register" => InOrder(v)
      /\ op \in Disarming /\ do = "terminate" =>
           /\ v.exists /\ v.open = None /\ v.reg \subseteq WebhooksOf(v.def)
           /\ op = "deactivate" => ~v.active
           /\ op = "update" => v.active
      /\ op \in Disarming /\ do = "unregister" =>
           /\ v.exists /\ v.open = None /\ v.reg = {}
           /\ op = "deactivate" => ~v.active
           /\ op = "update" => v.active
      /\ do = "update" =>
           /\ v.exists /\ v.reg = {}
           /\ v.active <=> Len(r.todo) > 1
           /\ IF v.active THEN v.armed = "edited" ELSE v.open = None
      /\ do = "remove" => ~v.active /\ v.reg = {} /\ v.open = None

(* What the view of a workflow that is clear says of its activation.       *)
Telling(v) == v.active \in BOOLEAN /\ v.armed # "lost" /\ (v.armed # "off" <=> v.active)

LEMMA NextClaim ==
  ASSUME NEW r, NEW n, NEW seen, NEW v, r.op \in Programs, Head(r.todo) \in WorkflowCall,
         Head(r.todo).do \notin {"load", "expire"} \/ r.op = "run",
         Passed(r, n, seen), Done(r, seen, v), Telling(v)
  PROVE  Claim(n, v)
<1> DEFINE c == Head(r.todo)
           d == Head(n.todo)
           op == r.op
<1>1. ASSUME n.todo = <<>>, MayEnd(op, c) PROVE Claim(n, v)
  <2>1. SUFFICES InOrder(v)
    BY <1>1 DEF Claim
  <2>2. CASE op \in Quiet \/ c.do = "reload"
    BY <2>2 DEF Done
  <2>3. CASE c.do = "register" /\ op \in Arming
    BY <2>3 DEF Done
  <2>4. CASE c.do \in {"update", "remove"}
    <3>1. Len(r.todo) = 1
      BY <1>1 DEF Passed
    <3>2. ~v.active /\ v.reg = {} /\ v.open = None
      BY <2>4, <3>1 DEF Done
    <3>3. v.armed = "off"
      BY <3>2 DEF Telling
    <3>4. QED
      BY <3>2, <3>3 DEF InOrder, Whole, OnTime
  <2>5. QED
    BY <1>1, <2>2, <2>3, <2>4 DEF MayEnd, Quiet, Arming, Programs, Ops
<1>2. ASSUME n.todo # <<>> PROVE SlotClaim(n, v)
  <2>1. /\ Len(r.todo) > 1 /\ n.at = "start" /\ n.op = op /\ n.seen = seen
        /\ d \in WorkflowCall /\ d.w = c.w /\ After(op, c, d)
        /\ op = "update" /\ d.do = "update" => Len(n.todo) > 1
    BY <1>2 DEF Passed
  <2>2. CASE op = "activate"
    BY <2>1, <2>2 DEF After, SlotClaim, Done, Arming, Disarming, Quiet, Scheduling, Registering, InOrder
  <2>3. CASE op = "deactivate"
    BY <2>1, <2>3 DEF After, SlotClaim, Done, Arming, Disarming, Quiet, Scheduling, InOrder, Whole, OnTime, Telling
  <2>4. CASE op = "update"
    BY <2>1, <2>4 DEF After, SlotClaim, Done, Arming, Disarming, Quiet, Scheduling, Registering
  <2>5. CASE op = "delete"
    BY <2>1, <2>5 DEF After, SlotClaim, Done, Arming, Disarming, Quiet
  <2>6. CASE op = "run"
    BY <2>1, <2>6 DEF After, SlotClaim, Done, Arming, Disarming, Quiet
  <2>7. QED
    BY <2>1, <2>2, <2>3, <2>4, <2>5, <2>6 DEF Programs, Ops, After
<1>3. QED
  BY <1>1, <1>2 DEF Passed, Claim

-----------------------------------------------------------------------------
(* What a step changes of a workflow.                                      *)

SameRow(v, v2) == v2.exists = v.exists /\ v2.active = v.active /\ v2.def = v.def /\ v2.armed = v.armed

LEMMA ViewSame ==
  ASSUME NEW w, UNCHANGED <<row, hook, schedule, armed>>
  PROVE  View(w)' = View(w)
BY DEF View, Exists, Active, Reg

LEMMA ViewOfSchedule ==
  ASSUME NEW w, UNCHANGED <<row, hook, armed>>
  PROVE  SameRow(View(w), View(w)') /\ View(w)'.reg = View(w).reg /\ View(w)'.open = schedule'[w]
BY DEF SameRow, View, Exists, Active, Reg

LEMMA ViewOfHooks ==
  ASSUME NEW w, UNCHANGED <<row, schedule, armed>>
  PROVE  SameRow(View(w), View(w)') /\ View(w)'.open = View(w).open /\ View(w)'.reg = Reg(w)'
BY DEF SameRow, View, Exists, Active

(* Registering and removing one webhook.  The row c stands for the webhook *)
(* h of w and for no other.                                                *)
StandsFor(c, w, h, t) ==
  /\ \A u, g : g \in AllWebhooks /\ ForRequests(u, g) = c => u = w /\ g = h /\ ~t
  /\ ~t => ForRequests(w, h) = c

LEMMA RegOne ==
  ASSUME NEW w, NEW h \in AllWebhooks, NEW t \in BOOLEAN, NEW c, c = HookFor(w, h, t)
  PROVE  StandsFor(c, w, h, t)
<1>1. ASSUME NEW u, NEW g, g \in AllWebhooks, ForRequests(u, g) = c PROVE u = w /\ g = h /\ ~t
  <2>1. PICK f : f = FALSE
    OBVIOUS
  <2>2. HookFor(u, g, f) = HookFor(w, h, t)
    BY <1>1, <2>1 DEF ForRequests
  <2>3. u = w /\ g = h /\ f = t
    BY <1>1, <2>2, OneRegistration
  <2>4. QED
    BY <2>1, <2>3
<1>2. ~t => ForRequests(w, h) = c
  <2>1. ~t => t = FALSE
    OBVIOUS
  <2>2. QED
    BY <2>1 DEF ForRequests
<1>3. QED
  BY <1>1, <1>2, Zenon DEF StandsFor

LEMMA RegAfter ==
  ASSUME NEW w, NEW h \in AllWebhooks, NEW c, ForRequests(w, h) = c,
         \A g \in AllWebhooks : ForRequests(w, g) = c => g = h
  PROVE  /\ hook' = hook \cup {c} => Reg(w)' = Reg(w) \cup {h}
         /\ hook' = hook \ {c} => Reg(w)' = Reg(w) \ {h}
<1>1. ASSUME hook' = hook \cup {c} PROVE Reg(w)' = Reg(w) \cup {h}
  BY <1>1 DEF Reg
<1>2. ASSUME hook' = hook \ {c} PROVE Reg(w)' = Reg(w) \ {h}
  BY <1>2 DEF Reg
<1>3. QED
  BY <1>1, <1>2

LEMMA HookEffect ==
  ASSUME Base, NEW p \in Proc, NEW w, w = Here(p).w, NEW h, h = Head(proc[p].left),
         NEW t, t = Here(p).test, NEW v, SaveHook(p) \/ DeleteHook(p)
  PROVE  /\ w \in Workflow /\ h \in AllWebhooks /\ t \in BOOLEAN
         /\ v # w \/ t => Reg(v)' = Reg(v)
         /\ SaveHook(p) /\ w \notin disturbed' /\ ~t => Reg(w)' = Reg(w) \cup {h}
         /\ DeleteHook(p) /\ ~t => Reg(w)' = Reg(w) \ {h}
<1>1. w \in Workflow /\ h \in AllWebhooks /\ t \in BOOLEAN
  <2>1. proc[p].at = "hooks"
    BY DEF SaveHook, DeleteHook, At
  <2>2. QED
    BY <2>1, HookCall
<1>2. PICK c : c = HookFor(w, h, t)
  OBVIOUS
<1>3. CurrentHook(p) = c
  BY <1>2 DEF CurrentHook
<1>4. ASSUME SaveHook(p)
      PROVE  /\ hook' = hook \/ hook' = hook \cup {c}
             /\ w \notin disturbed' => hook' = hook \cup {c}
  <2>1. /\ MayInsert(c) => CreateWebhookEntity(c)
        /\ ~MayInsert(c) => /\ UNCHANGED tables
                            /\ c \in hook \/ disturbed' = disturbed \cup {w}
    BY <1>3, <1>4 DEF SaveHook
  <2>2. QED
    BY <2>1 DEF CreateWebhookEntity, tables
<1>5. ASSUME DeleteHook(p) PROVE hook' = hook \ {c}
  BY <1>3, <1>5 DEF DeleteHook, DeleteWebhookEntityByWorkflowId_Path_Method
<1>10. StandsFor(c, w, h, t)
  BY <1>1, <1>2, RegOne, Zenon
<1>6. /\ \A u, g : g \in AllWebhooks /\ ForRequests(u, g) = c => u = w /\ g = h /\ ~t
      /\ ~t => ForRequests(w, h) = c
  BY <1>10, Zenon DEF StandsFor
<1>7. v # w \/ t => Reg(v)' = Reg(v)
  <2>1. SUFFICES ASSUME v # w \/ t PROVE Reg(v)' = Reg(v)
    OBVIOUS
  <2>2. \A g \in AllWebhooks : ForRequests(v, g) # c
    BY <1>6, <2>1
  <2>3. hook' = hook \/ hook' = hook \cup {c} \/ hook' = hook \ {c}
    BY <1>4, <1>5
  <2>4. QED
    BY <2>2, <2>3 DEF Reg
<1>8. ASSUME ~t
      PROVE  /\ hook' = hook \cup {c} => Reg(w)' = Reg(w) \cup {h}
             /\ hook' = hook \ {c} => Reg(w)' = Reg(w) \ {h}
  BY <1>1, <1>6, <1>8, RegAfter
<1>9. QED
  BY <1>1, <1>4, <1>5, <1>7, <1>8

(* The handlers' own queries.                                              *)
LEMMA RowEffect ==
  ASSUME Base, NEW p \in Proc, NEW w, w = Here(p).w, Exists(w)
  PROVE  /\ SetActive(p) =>
              /\ hook' = hook /\ Exists(w)' /\ row'[w].def = row[w].def
              /\ row'[w].active = (proc[p].op = "activate")
              /\ ReturnWith(p, [proc[p].seen EXCEPT ![w] = row'[w]])
              /\ armed'[w] = IF armed[w] = "lost" THEN "lost"
                             ELSE IF proc[p].op # "activate" THEN "off"
                             ELSE IF armed[w] = "edited" /\ Cron[row[w].def] = None THEN "edited"
                             ELSE "on"
         /\ Update(p) =>
              /\ hook' = hook /\ Exists(w)' /\ row'[w].active = proc[p].new.active
              /\ Return(p)
              /\ armed'[w] = IF armed[w] = "lost" \/ proc[p].new.active # row[w].active THEN "lost"
                             ELSE IF proc[p].new.active THEN "edited" ELSE "off"
         /\ DeleteRow(p) =>
              /\ hook' = {h \in hook : h.workflow # w} /\ ~Exists(w)'
              /\ Return(p)
              /\ armed'[w] = IF armed[w] = "lost" THEN "lost" ELSE "off"
         /\ UpdateStaticData(p) =>
              /\ hook' = hook /\ Exists(w)' /\ row'[w].def = row[w].def
              /\ row'[w].active = row[w].active
              /\ Return(p)
<1>1. /\ RowType /\ row[w] \in Loaded /\ w \in Workflow
      /\ armed \in [Workflow -> {"on", "edited", "off", "lost"}]
  BY Standing, RowOfTable DEF Base, TypeInv
<1>2. ASSUME SetActive(p)
      PROVE  /\ hook' = hook /\ Exists(w)' /\ row'[w].def = row[w].def
             /\ row'[w].active = (proc[p].op = "activate")
  <2> DEFINE active == proc[p].op = "activate"
  <2>1. UpdateWorkflowEntityActive(w, active) /\ active \in BOOLEAN
    BY <1>2 DEF SetActive
  <2> HIDE DEF active
  <2>2. /\ DOMAIN row' = DOMAIN row /\ hook' = hook /\ row'[w] = [row[w] EXCEPT !.active = active]
    BY <1>1, <2>1, ActiveRow
  <2>3. row'[w].def = row[w].def /\ row'[w].active = active
    BY <1>1, <2>2 DEF Loaded
  <2>4. QED
    BY <2>2, <2>3 DEF Exists, active
<1>3. ASSUME SetActive(p)
      PROVE  /\ ReturnWith(p, [proc[p].seen EXCEPT ![w] = row'[w]])
             /\ armed'[w] = IF armed[w] = "lost" THEN "lost"
                             ELSE IF proc[p].op # "activate" THEN "off"
                             ELSE IF armed[w] = "edited" /\ Cron[row[w].def] = None THEN "edited"
                             ELSE "on"
  <2>1. ReturnWith(p, [proc[p].seen EXCEPT ![w] = row'[w]])
    BY <1>3 DEF SetActive
  <2>2. armed' = [armed EXCEPT ![w] =
                            IF @ = "lost" THEN @
                            ELSE IF ~(proc[p].op = "activate") THEN "off"
                            ELSE IF @ = "edited" /\ Cron[row[w].def] = None THEN @ ELSE "on"]
    BY <1>3 DEF SetActive
  <2>3. QED
    BY <1>1, <2>1, <2>2
<1>4. ASSUME Update(p)
      PROVE  /\ hook' = hook /\ Exists(w)' /\ row'[w].active = proc[p].new.active
             /\ Return(p)
             /\ armed'[w] = IF armed[w] = "lost" \/ proc[p].new.active # row[w].active THEN "lost"
                             ELSE IF proc[p].new.active THEN "edited" ELSE "off"
  <2> DEFINE active == proc[p].new.active
             d == proc[p].new.def
  <2>1. UpdateWorkflowEntity(w, active, d) /\ Return(p)
    BY <1>4 DEF Update
  <2>2. armed' = [armed EXCEPT ![w] =
                            IF @ = "lost" \/ active # row[w].active THEN "lost"
                            ELSE IF active THEN "edited" ELSE "off"]
    BY <1>4 DEF Update
  <2> HIDE DEF active, d
  <2>3. hook' = hook /\ Exists(w)' /\ row'[w].active = active
    BY <1>1, <2>1 DEF UpdateWorkflowEntity, Exists
  <2>4. QED
    BY <1>1, <2>1, <2>2, <2>3 DEF active
<1>5. ASSUME DeleteRow(p)
      PROVE  /\ hook' = {h \in hook : h.workflow # w} /\ ~Exists(w)'
             /\ Return(p)
             /\ armed'[w] = IF armed[w] = "lost" THEN "lost" ELSE "off"
  <2>1. /\ DeleteWorkflowEntity(w) /\ Return(p)
        /\ armed' = [armed EXCEPT ![w] = IF @ = "lost" THEN @ ELSE "off"]
    BY <1>5 DEF DeleteRow
  <2>2. QED
    BY <1>1, <2>1 DEF DeleteWorkflowEntity, Exists
<1>6. ASSUME UpdateStaticData(p)
      PROVE  /\ hook' = hook /\ Exists(w)' /\ row'[w].def = row[w].def
             /\ row'[w].active = row[w].active
             /\ Return(p)
  <2> DEFINE static == proc[p].copy.static
  <2>1. UpdateWorkflowEntityStaticDataByID(w, static) /\ Return(p)
    BY <1>6 DEF UpdateStaticData, StaticData
  <2> HIDE DEF static
  <2>2. hook' = hook /\ Exists(w)' /\ row'[w].def = row[w].def /\ row'[w].active = row[w].active
    BY <1>1, <2>1 DEF UpdateWorkflowEntityStaticDataByID, Exists, Loaded
  <2>3. QED
    BY <2>1, <2>2
<1>7. QED
  BY <1>2, <1>3, <1>4, <1>5, <1>6

-----------------------------------------------------------------------------
(* A step on one workflow leaves the others alone.                         *)

LEMMA ViewEqual ==
  ASSUME NEW v, Exists(v)' <=> Exists(v), Exists(v) => row'[v] = row[v],
         schedule'[v] = schedule[v], armed'[v] = armed[v], Reg(v)' = Reg(v)
  PROVE  View(v)' = View(v)
<1>1. Active(v)' <=> Active(v)
  BY DEF Active
<1>2. (IF Exists(v)' THEN row'[v].def ELSE None) = (IF Exists(v) THEN row[v].def ELSE None)
  OBVIOUS
<1>3. Exists(v)' = Exists(v) /\ Active(v)' = Active(v)
  BY <1>1 DEF Exists, Active
<1>4. QED
  BY <1>2, <1>3 DEF View

(* What the steps of a handler do to the registrations of other workflows. *)
LEMMA RegKept ==
  ASSUME Base, NEW p \in Proc, Step(p), ~DeleteAll(p), NEW v, NEW w, w = Here(p).w, v # w
  PROVE  Reg(v)' = Reg(v)
<1>1. hook' = hook => Reg(v)' = Reg(v)
  BY DEF Reg
<1>2. CASE SetActive(p) \/ Update(p)
  BY <1>1, <1>2 DEF SetActive, Update, UpdateWorkflowEntityActive, UpdateWorkflowEntity, tables
<1>3. CASE DeleteRow(p)
  <2>1. hook' = hook \/ hook' = {h \in hook : h.workflow # w}
    BY <1>3 DEF DeleteRow, DeleteWorkflowEntity, tables
  <2>2. \A h : ForRequests(v, h).workflow = v
    BY DEF ForRequests, HookFor
  <2>3. QED
    BY <1>1, <2>1, <2>2 DEF Reg
<1>4. CASE SaveHook(p) \/ DeleteHook(p)
  <2>1. PICK h, t : h = Head(proc[p].left) /\ t = Here(p).test
    OBVIOUS
  <2>2. QED
    BY <1>4, <2>1, HookEffect, Zenon
<1>5. CASE UpdateStaticData(p)
  BY <1>1, <1>5 DEF UpdateStaticData, UpdateWorkflowEntityStaticDataByID, tables
<1>6. CASE SetupTerminate(p) \/ SetupExecute(p) \/ Terminate(p)
  BY <1>1, <1>6, ScheduleSteps
<1>7. QED
  BY <1>1, <1>2, <1>3, <1>4, <1>5, <1>6, QuietSteps DEF Step

LEMMA ArmedKept ==
  ASSUME Base, NEW p \in Proc, Step(p), NEW v \in Workflow, v # Here(p).w
  PROVE  armed'[v] = armed[v]
<1>1. CASE SetActive(p) \/ Update(p) \/ DeleteRow(p)
  BY <1>1, RowSteps
<1>2. CASE SaveHook(p) \/ DeleteHook(p) \/ UpdateStaticData(p) \/ DeleteAll(p)
  BY <1>2, HookSteps
<1>3. CASE SetupTerminate(p) \/ SetupExecute(p) \/ Terminate(p)
  BY <1>3, ScheduleSteps
<1>4. QED
  BY <1>1, <1>2, <1>3, QuietSteps DEF Step

LEMMA ViewKept ==
  ASSUME Base, NEW p \in Proc, Step(p) \/ Fault(p), ~DeleteAll(p),
         NEW v \in Workflow, NEW w, w = Here(p).w, v # w
  PROVE  View(v)' = View(v) /\ armed'[v] = armed[v]
<1>1. CASE Fault(p)
  <2>1. UNCHANGED <<row, hook, schedule, armed>>
    BY <1>1 DEF Fault, tables
  <2>2. QED
    BY <2>1, ViewSame
<1>2. CASE Step(p)
  <2>1. /\ Exists(v)' <=> Exists(v)
        /\ Exists(v) => row'[v] = row[v]
        /\ schedule'[v] = schedule[v]
    BY OthersKept
  <2>2. Reg(v)' = Reg(v)
    BY <1>2, RegKept
  <2>3. armed'[v] = armed[v]
    BY <1>2, ArmedKept
  <2>4. QED
    BY <2>1, <2>2, <2>3, ViewEqual
<1>3. QED
  BY <1>1, <1>2

(* Registrations, schedules and reads change nothing of the row's flag.    *)
LEMMA FlagKept ==
  ASSUME Base, NEW p \in Proc, Step(p), ~(SetActive(p) \/ Update(p) \/ DeleteRow(p)), NEW v
  PROVE  armed' = armed /\ (Active(v)' <=> Active(v))
<1>1. CASE UpdateStaticData(p)
  <2>1. armed' = armed
    BY <1>1, HookSteps
  <2> DEFINE static == StaticData(p)
             u == Here(p).w
  <2>2. UNCHANGED row \/ (Exists(u) /\ UpdateWorkflowEntityStaticDataByID(u, static))
    BY <1>1 DEF UpdateStaticData, tables
  <2> HIDE DEF static, u
  <2>3. RowType
    BY Standing
  <2>4. CASE Exists(u) /\ UpdateWorkflowEntityStaticDataByID(u, static)
    <3>1. DOMAIN row' = DOMAIN row
      BY <2>4 DEF UpdateWorkflowEntityStaticDataByID
    <3>2. Exists(v) => row'[v].active = row[v].active
      <4>1. SUFFICES ASSUME Exists(v) PROVE row'[v].active = row[v].active
        OBVIOUS
      <4>2. row[v] \in Loaded /\ row[u] \in Loaded
        BY <2>3, <2>4, <4>1, RowOfTable
      <4>3. QED
        BY <2>3, <2>4, <4>1, <4>2 DEF UpdateWorkflowEntityStaticDataByID, RowType, Exists, Loaded
    <3>3. QED
      BY <2>1, <3>1, <3>2 DEF Active, Exists
  <2>5. QED
    BY <2>1, <2>2, <2>4 DEF Active, Exists
<1>2. CASE UNCHANGED row /\ armed' = armed
  BY <1>2 DEF Active, Exists
<1>3. CASE SaveHook(p) \/ DeleteHook(p) \/ DeleteAll(p)
  <2>1. UNCHANGED row
    BY <1>3 DEF SaveHook, DeleteHook, DeleteAll, CreateWebhookEntity, DeleteAllWebhookEntities,
                DeleteWebhookEntityByWorkflowId_Path_Method, tables
  <2>2. QED
    BY <1>2, <1>3, <2>1, HookSteps
<1>4. CASE SetupTerminate(p) \/ SetupExecute(p) \/ Terminate(p)
  BY <1>2, <1>4, ScheduleSteps
<1>5. QED
  BY <1>1, <1>2, <1>3, <1>4, QuietSteps DEF Step

(* The history of the requests tells whether a workflow is active.         *)
LEMMA StepArmed ==
  ASSUME Base, ArmedIsActive, NEW p \in Proc, Step(p)
  PROVE  ArmedIsActive'
<1>1. CASE ~(SetActive(p) \/ Update(p) \/ DeleteRow(p))
  BY <1>1, FlagKept DEF ArmedIsActive
<1>2. CASE SetActive(p) \/ Update(p) \/ DeleteRow(p)
  <2>1. PICK w : w = Here(p).w
    OBVIOUS
  <2>2. CASE ~Exists(w)
    <3>1. UNCHANGED <<row, armed>>
      BY <1>2, <2>1, <2>2 DEF SetActive, Update, DeleteRow, tables
    <3>2. QED
      BY <3>1 DEF ArmedIsActive, Active, Exists
  <2>3. CASE Exists(w)
    <3>1. SUFFICES ASSUME NEW v \in Workflow, armed'[v] # "lost"
                   PROVE  armed'[v] # "off" <=> Active(v)'
      BY DEF ArmedIsActive
    <3>2. CASE v # w
      <4>1. armed'[v] = armed[v] /\ View(v)' = View(v) /\ ~DeleteAll(p)
        <5>1. ~DeleteAll(p)
          BY <1>2 DEF DeleteAll, SetActive, Update, DeleteRow, At
        <5>2. QED
          BY <2>1, <3>2, <5>1, ViewKept
      <4>2. Active(v)' <=> Active(v)
        <5>1. View(v).active = Active(v)
          BY DEF View
        <5>2. View(v)'.active = Active(v)'
          BY DEF View
        <5>3. QED
          BY <4>1, <5>1, <5>2
      <4>3. QED
        BY <3>1, <4>1, <4>2 DEF ArmedIsActive
    <3>3. CASE v = w
      <4>1. CASE SetActive(p)
        <5>1. /\ Exists(w)' /\ row'[w].active = (proc[p].op = "activate")
              /\ armed'[w] = IF armed[w] = "lost" THEN "lost"
                             ELSE IF proc[p].op # "activate" THEN "off"
                             ELSE IF armed[w] = "edited" /\ Cron[row[w].def] = None THEN "edited"
                             ELSE "on"
          BY ZenonT(40), <2>1, <2>3, <4>1, RowEffect
        <5>2. QED
          BY <3>1, <3>3, <5>1 DEF Active
      <4>2. CASE Update(p)
        <5>1. /\ Exists(w)' /\ row'[w].active = proc[p].new.active
              /\ armed'[w] = IF armed[w] = "lost" \/ proc[p].new.active # row[w].active THEN "lost"
                             ELSE IF proc[p].new.active THEN "edited" ELSE "off"
          BY <2>1, <2>3, <4>2, RowEffect
        <5>2. QED
          BY <3>1, <3>3, <5>1 DEF Active
      <4>3. CASE DeleteRow(p)
        <5>1. ~Exists(w)' /\ armed'[w] = IF armed[w] = "lost" THEN "lost" ELSE "off"
          BY <2>1, <2>3, <4>3, RowEffect
        <5>2. QED
          BY <3>1, <3>3, <5>1 DEF Active
      <4>4. QED
        BY <1>2, <4>1, <4>2, <4>3
    <3>4. QED
      BY <3>2, <3>3
  <2>4. QED
    BY <2>2, <2>3
<1>3. QED
  BY <1>1, <1>2

LEMMA CreateArmed ==
  ASSUME Base, ArmedIsActive, NEW w \in Workflow, NEW active \in BOOLEAN, NEW d \in Definition,
         CreateWorkflow(w, active, d)
  PROVE  ArmedIsActive'
<1>1. /\ CreateWorkflowEntity(w, active, d)
      /\ armed' = [armed EXCEPT ![w] = IF active THEN "lost" ELSE "off"]
  BY CreateTypes
<1>2. armed \in [Workflow -> {"on", "edited", "off", "lost"}]
  BY DEF Base, TypeInv
<1>3. SUFFICES ASSUME NEW v \in Workflow, armed'[v] # "lost"
               PROVE  armed'[v] # "off" <=> Active(v)'
  BY DEF ArmedIsActive
<1>4. CASE v = w
  <2>1. Exists(v)' /\ row'[v].active = active
    BY <1>1, <1>4 DEF CreateWorkflowEntity, Exists
  <2>2. QED
    BY <1>1, <1>2, <1>3, <1>4, <2>1 DEF Active
<1>5. CASE v # w
  <2>1. (Exists(v)' <=> Exists(v)) /\ (Exists(v) => row'[v] = row[v])
    BY <1>1, <1>5 DEF CreateWorkflowEntity, Exists
  <2>2. armed'[v] = armed[v]
    BY <1>1, <1>2, <1>5
  <2>3. QED
    BY <1>3, <2>1, <2>2 DEF Active, ArmedIsActive
<1>6. QED
  BY <1>4, <1>5

LEMMA InitArmed == Init => ArmedIsActive
<1>1. SUFFICES ASSUME Init, NEW w \in Workflow PROVE armed[w] # "off" <=> Active(w)
  BY DEF ArmedIsActive
<1>2. armed[w] = IF Exists(w) /\ row[w].active THEN "on" ELSE "off"
  BY <1>1 DEF Init
<1>3. QED
  BY <1>2 DEF Active

LEMMA NextArmed ==
  ASSUME Base, ArmedIsActive, [Next]_vars
  PROVE  ArmedIsActive'
<1>1. CASE UNCHANGED <<row, armed>>
  BY <1>1 DEF ArmedIsActive, Active, Exists
<1>2. ASSUME NEW p \in Proc, Step(p) PROVE ArmedIsActive'
  BY <1>2, StepArmed
<1>3. ASSUME NEW w \in Workflow, NEW active \in BOOLEAN, NEW d \in Definition,
             CreateWorkflow(w, active, d)
      PROVE  ArmedIsActive'
  BY <1>3, CreateArmed
<1>4. ASSUME Crash PROVE ArmedIsActive'
  <2>1. \A w \in Workflow : armed'[w] = IF Exists(w) /\ row[w].active THEN "on" ELSE "off"
    BY <1>4, CrashStarts
  <2>2. row' = row
    BY <1>4, CrashStarts
  <2>3. QED
    BY <2>1, <2>2 DEF ArmedIsActive, Active, Exists
<1>5. ASSUME NEW p \in Proc, Fault(p) PROVE ArmedIsActive'
  BY <1>1, <1>5 DEF Fault, tables
<1>6. ASSUME NEW p \in Slot, NEW op \in Ops, NEW w \in Workflow, Request(p, op, w) PROVE ArmedIsActive'
  BY <1>1, <1>6 DEF Request, tables
<1>7. ASSUME NEW w \in Workflow, Wake(w) PROVE ArmedIsActive'
  BY <1>1, <1>7 DEF Wake, tables
<1>8. CASE UNCHANGED vars
  BY <1>1, <1>8 DEF vars, tables, history
<1>9. QED
  BY <1>2, <1>3, <1>4, <1>5, <1>6, <1>7, <1>8 DEF Next

-----------------------------------------------------------------------------
(* The steps of a handler that nothing disturbs: r and n are the process   *)
(* before and after it, v and v2 the triggers of its workflow w.           *)

Undisturbed(p, w, r, n, v, v2) ==
  /\ p # Main /\ r = proc[p] /\ r.todo # <<>> /\ w = Here(p).w /\ n = proc'[p]
  /\ v = View(w) /\ v2 = View(w)'
  /\ SlotClaim(r, v) /\ Telling(v) /\ Telling(v2)

LEMMA Alone ==
  ASSUME Base, NEW p \in Proc, NEW w, NEW r, NEW n, NEW v, NEW v2, Undisturbed(p, w, r, n, v, v2)
  PROVE  /\ r = proc[p] /\ n = proc'[p] /\ r \in Processes /\ p # Main
         /\ Here(p) = Head(r.todo) /\ Head(r.todo) \in WorkflowCall /\ Head(r.todo).w = w
         /\ w \in Workflow /\ r.op \in Programs /\ Fits(r.op, Head(r.todo))
         /\ p \in Workflow => r.op = "expire"
         /\ SlotClaim(r, v) /\ Telling(v) /\ Telling(v2)
         /\ v.exists = Exists(w) /\ v.active = Active(w) /\ v.reg = Reg(w)
         /\ v.open = schedule[w] /\ v.armed = armed[w]
         /\ Exists(w) => v.def = row[w].def /\ v.active = row[w].active /\ row[w] \in Loaded
         /\ v = View(w) /\ v2 = View(w)'
<1>1. p # Main /\ r = proc[p] /\ r.todo # <<>> /\ w = Here(p).w /\ n = proc'[p]
  BY DEF Undisturbed
<1>2. v = View(w) /\ v2 = View(w)'
  BY DEF Undisturbed
<1>3. SlotClaim(r, v) /\ Telling(v) /\ Telling(v2)
  BY Zenon DEF Undisturbed
<1>4. Fits(r.op, Here(p)) /\ r.op \in Programs /\ Here(p) \in WorkflowCall /\ Here(p).w \in Workflow
  BY <1>1, CallFits
<1>5. r \in Processes /\ Shaped(p, r) /\ RowType
  BY <1>1, Standing
<1>6. p \in Workflow => r.op = "expire"
  BY <1>1, <1>5, SlotOccupied
<1>7. /\ v.exists = Exists(w) /\ v.active = Active(w) /\ v.reg = Reg(w)
      /\ v.open = schedule[w] /\ v.armed = armed[w]
  BY <1>2, ViewFields
<1>8. Exists(w) => v.def = row[w].def /\ v.active = row[w].active /\ row[w] \in Loaded
  BY <1>2, <1>5, ViewOfRow, RowOfTable DEF Base
<1>9. QED
  BY <1>1, <1>2, <1>3, <1>4, <1>5, <1>6, <1>7, <1>8 DEF Here

LEMMA OrderedRest ==
  ASSUME NEW n, NEW v, InOrder(v), n.todo = <<>> \/ n.op \in Quiet
  PROVE  Claim(n, v)
BY DEF Claim, SlotClaim, Quiet, Arming, Disarming

LEMMA FailEnds ==
  ASSUME Base, NEW p \in Proc, p # Main, proc[p].todo # <<>>, Fail(p), Here(p).do # "expire"
  PROVE  proc'[p].todo = <<>> \/ (proc[p].op = "expire" /\ proc'[p].op = "expire")
<1>1. ProcType /\ proc[p] \in Processes /\ Shaped(p, proc[p])
  BY Standing
<1>2. proc'[p] = Idle \/ (p \in Workflow /\ proc'[p] = Expiring(p))
  BY <1>1, FailMoves
<1>3. p \in Workflow => proc[p].op = "expire"
  BY <1>1, SlotOccupied
<1>4. QED
  BY <1>2, <1>3, IdleType, ExpiringType

(* Within a call the rest of the process stays as it is.                   *)
LEMMA HookFields ==
  ASSUME Base, NEW p \in Proc, SaveHook(p) \/ DeleteHook(p)
  PROVE  /\ proc'[p].todo = proc[p].todo /\ proc'[p].op = proc[p].op /\ proc'[p].seen = proc[p].seen
         /\ proc'[p].left = Tail(proc[p].left) /\ proc'[p].at \in {"hooks", "static"}
         /\ proc[p].left # <<>> /\ proc[p].left \in Seq(AllWebhooks)
<1> DEFINE left == Tail(proc[p].left)
           at == IF Len(proc[p].left) = 1 THEN "static" ELSE "hooks"
<1>1. proc'[p] = [proc[p] EXCEPT !.left = left, !.at = at] /\ proc[p].left # <<>>
  BY HooksMoves
<1>2. at \in {"hooks", "static"} /\ left = Tail(proc[p].left)
  OBVIOUS
<1> HIDE DEF left, at
<1>3. proc[p] \in Processes
  BY Standing
<1>4. QED
  BY <1>1, <1>2, <1>3 DEF Processes

LEMMA ReadFields ==
  ASSUME Base, NEW p \in Proc, NEW do \in {"register", "unregister"}, ReadWorkflow(p, do)
  PROVE  \/ ~Exists(Here(p).w) /\ Fail(p)
         \/ /\ Exists(Here(p).w) /\ Webhooks[row[Here(p).w].def] = <<>> /\ Return(p)
         \/ /\ Exists(Here(p).w) /\ proc'[p].left = Webhooks[row[Here(p).w].def]
            /\ proc'[p].todo = proc[p].todo /\ proc'[p].op = proc[p].op
            /\ proc'[p].seen = proc[p].seen /\ proc'[p].at = "hooks"
<1> DEFINE w == Here(p).w
           e == row[w]
           left == Webhooks[row[w].def]
<1>1. \/ ~Exists(w) /\ Fail(p)
      \/ Exists(w) /\ left = <<>> /\ Return(p)
      \/ Exists(w) /\ proc'[p] = [proc[p] EXCEPT !.copy = e, !.at = "hooks", !.left = left]
  BY ReadMoves
<1> HIDE DEF e, left
<1>2. proc[p] \in Processes
  BY Standing
<1>3. proc'[p] = [proc[p] EXCEPT !.copy = e, !.at = "hooks", !.left = left] =>
        /\ proc'[p].left = left /\ proc'[p].todo = proc[p].todo /\ proc'[p].op = proc[p].op
        /\ proc'[p].seen = proc[p].seen /\ proc'[p].at = "hooks"
  BY <1>2 DEF Processes
<1>4. QED
  BY <1>1, <1>3 DEF left

LEMMA GotoFields ==
  ASSUME Base, NEW p \in Proc, NEW at, proc' = [proc EXCEPT ![p].at = at]
  PROVE  /\ proc'[p].todo = proc[p].todo /\ proc'[p].op = proc[p].op
         /\ proc'[p].seen = proc[p].seen /\ proc'[p].at = at
<1>1. proc[p] \in Processes /\ proc \in [Proc -> Processes]
  BY Standing DEF ProcType
<1>2. proc'[p] = [proc[p] EXCEPT !.at = at]
  BY <1>1
<1>3. QED
  BY <1>1, <1>2 DEF Processes

LEMMA StaticView ==
  ASSUME Base, NEW p \in Proc, UpdateStaticData(p), NEW w, w = Here(p).w
  PROVE  View(w)' = View(w)
<1>1. CASE ~Exists(w)
  <2>1. UNCHANGED <<row, hook, schedule, armed>>
    BY <1>1, HookSteps DEF UpdateStaticData, tables
  <2>2. QED
    BY <2>1, ViewSame
<1>2. CASE Exists(w)
  <2>1. /\ hook' = hook /\ Exists(w)' /\ row'[w].def = row[w].def /\ row'[w].active = row[w].active
    BY <1>2, RowEffect
  <2>2. schedule' = schedule /\ armed' = armed
    BY HookSteps
  <2>3. Exists(w)' = Exists(w) /\ Active(w)' = Active(w) /\ Reg(w)' = Reg(w)
    BY <1>2, <2>1 DEF Exists, Active, Reg
  <2>4. QED
    BY <1>2, <2>1, <2>2, <2>3 DEF View
<1>3. QED
  BY <1>1, <1>2

(* What may come of a call of a handler in progress.                       *)
LEMMA QuietView ==
  ASSUME Base, NEW p \in Proc, p # Main, Step(p), proc[p].op \in Quiet, NEW w, w = Here(p).w
  PROVE  View(w)' = View(w)
<1>1. proc[p].todo # <<>> /\ Fits(proc[p].op, Here(p)) /\ Here(p) \in WorkflowCall
  BY StepMoves, CallFits
<1>2. Here(p).do \notin {"setActive", "reload", "update", "remove", "setup", "terminate"} /\ Here(p).test \in BOOLEAN
  BY <1>1 DEF Fits, Quiet, Arming, Disarming, WorkflowCall
<1>3. /\ ~SetActive(p) /\ ~Update(p) /\ ~DeleteRow(p)
      /\ ~SetupTerminate(p) /\ ~SetupExecute(p) /\ ~Terminate(p)
  BY <1>2 DEF SetActive, Update, DeleteRow, SetupTerminate, SetupExecute, Terminate, At
<1>4. ~DeleteAll(p)
  BY StartCall
<1>5. CASE UNCHANGED <<row, hook, schedule, armed>>
  BY <1>5, ViewSame
<1>6. CASE SaveHook(p) \/ DeleteHook(p)
  <2>1. PICK h, t : h = Head(proc[p].left) /\ t = Here(p).test
    OBVIOUS
  <2>2. Here(p).do \in {"register", "unregister"}
    BY <1>6 DEF SaveHook, DeleteHook, At
  <2>3. t
    BY <1>1, <1>2, <2>1, <2>2 DEF Fits, Quiet, Arming, Disarming
  <2>4. Reg(w)' = Reg(w)
    BY <1>6, <2>1, <2>3, HookEffect, Zenon
  <2>5. UNCHANGED <<row, schedule, armed>>
    BY <1>6, HookSteps DEF SaveHook, DeleteHook, CreateWebhookEntity,
                DeleteWebhookEntityByWorkflowId_Path_Method, tables
  <2>6. QED
    BY <2>4, <2>5, ViewEqual DEF Exists
<1>7. CASE UpdateStaticData(p)
  BY <1>7, StaticView
<1>8. QED
  BY <1>3, <1>4, <1>5, <1>6, <1>7, QuietSteps DEF Step

LEMMA KeepsOp ==
  ASSUME Base, NEW p \in Proc, p # Main, Step(p), proc[p].op \in Quiet
  PROVE  proc'[p].todo = <<>> \/ proc'[p].op \in Quiet
<1>1. /\ proc[p].todo # <<>> /\ Fits(proc[p].op, Here(p)) /\ Here(p) \in WorkflowCall
      /\ proc[p] \in Processes
  BY StepMoves, CallFits, Standing
<1>2. Here(p).do \notin {"setActive", "reload", "update", "remove", "setup", "terminate"}
  BY <1>1 DEF Fits, Quiet, Arming, Disarming
<1>3. CASE Return(p)
  BY <1>1, <1>3, SlotReturnsPlain DEF Passed
<1>4. CASE Fail(p)
  <2>1. CASE Here(p).do = "expire"
    BY <1>3, <1>4, <2>1 DEF Fail
  <2>2. CASE Here(p).do # "expire"
    BY <1>1, <1>4, <2>2, FailEnds DEF Quiet
  <2>3. QED
    BY <2>1, <2>2
<1>5. CASE Load(p)
  BY <1>1, <1>4, <1>5, LoadMoves, IdleType DEF Expanded, Processes
<1>6. CASE ReadWorkflow(p, "register") \/ ReadWorkflow(p, "unregister")
  <2>1. PICK do \in {"register", "unregister"} : ReadWorkflow(p, do)
    BY <1>6
  <2>2. Return(p) \/ Fail(p) \/ proc'[p].op = proc[p].op
    BY <2>1, ReadFields, Zenon
  <2>3. QED
    BY <1>3, <1>4, <2>2
<1>7. CASE SaveHook(p) \/ DeleteHook(p)
  BY <1>1, <1>7, HookFields
<1>8. CASE UpdateStaticData(p)
  BY <1>3, <1>4, <1>8, EndingMoves
<1>9. CASE ExpireStart(p) \/ ExpireTerminate(p) \/ ExpireExecute(p)
  <2>1. proc'[p] = Idle \/ \E at : proc'[p] = [proc[p] EXCEPT !.at = at]
    BY <1>9, ExpireMoves
  <2>2. (\E at : proc'[p] = [proc[p] EXCEPT !.at = at]) => proc'[p].op = proc[p].op
    BY <1>1 DEF Processes
  <2>3. QED
    BY <2>1, <2>2, IdleType
<1>10. QED
  BY <1>2, <1>5, <1>6, <1>7, <1>8, <1>9, StartCall
     DEF Step, Reload, SetActive, Update, DeleteRow, SetupStart, SetupTerminate, SetupExecute,
         TerminateStart, Terminate, At

LEMMA QuietStep ==
  ASSUME Base, NEW p \in Proc, Step(p), NEW w, NEW r, NEW n, NEW v, NEW v2,
         Undisturbed(p, w, r, n, v, v2), r.op \in Quiet
  PROVE  Claim(n, v2)
<1>1. /\ r = proc[p] /\ n = proc'[p] /\ p # Main /\ w = Here(p).w /\ v = View(w) /\ v2 = View(w)'
      /\ SlotClaim(r, v)
  BY Alone
<1>2. v2 = v /\ (n.todo = <<>> \/ n.op \in Quiet)
  BY <1>1, QuietView, KeepsOp
<1>3. InOrder(v)
  BY <1>1 DEF SlotClaim
<1>4. QED
  BY <1>2, <1>3, OrderedRest

(* The handler has loaded its workflow and found its triggers in order.    *)
LEMMA LoadedClaim ==
  ASSUME NEW op \in {"activate", "deactivate", "update", "delete"}, NEW w \in Workflow,
         NEW e \in Loaded, NEW v, v.exists, v.active = e.active, InOrder(v), Telling(v),
         NEW n, n.op = op, n.at = "start", n.todo = AfterLoad(op, w, e)
  PROVE  n.todo # <<>> /\ SlotClaim(n, v)
<1> DEFINE todo == n.todo
           c == Head(todo)
<1>1. /\ op # "update" => todo # <<>> /\ Len(todo) # 1
      /\ op \in {"activate", "deactivate"} => c.do = "setActive"
      /\ op = "delete" => c.do = "terminate" /\ ~c.test
      /\ op = "update" /\ e.active => todo # <<>> /\ c.do = "terminate" /\ ~c.test
      /\ op = "update" /\ ~e.active => todo # <<>> /\ c.do = "update" /\ ~c.test /\ Len(todo) = 1
  BY DEF AfterLoad, Do, Call
<1>2. e.active \in BOOLEAN
  BY DEF Loaded
<1>3. v.reg \subseteq WebhooksOf(v.def)
  BY DEF InOrder, Whole
<1>4. ~v.active => v.reg = {} /\ v.open = None
  BY DEF InOrder, Whole, OnTime, Telling
<1> HIDE DEF todo, c
<1>5. todo # <<>>
  BY <1>1, <1>2
<1>6. CASE op \in {"activate", "deactivate"}
  BY <1>1, <1>6 DEF SlotClaim, todo, c, Quiet, Arming, Disarming
<1>7. CASE op = "delete"
  BY <1>1, <1>3, <1>7 DEF SlotClaim, todo, c, Quiet, Arming, Disarming, Scheduling
<1>8. CASE op = "update" /\ e.active
  BY <1>1, <1>3, <1>8 DEF SlotClaim, todo, c, Quiet, Arming, Disarming, Scheduling
<1>9. CASE op = "update" /\ ~e.active
  <2>3. ~v.active
    BY <1>2, <1>9
  <2>4. Len(n.todo) = 1
    BY <1>1, <1>9 DEF todo
  <2>1. v.exists /\ v.reg = {} /\ v.open = None /\ ~v.active /\ ~(Len(n.todo) > 1)
    BY <1>4, <2>3, <2>4
  <2>2. n.op = "update" /\ Head(n.todo).do = "update"
    BY <1>1, <1>9 DEF todo, c
  <2>5. QED
    BY <1>5, <2>1, <2>2 DEF SlotClaim, todo, Quiet, Arming, Disarming
<1>10. QED
  BY <1>2, <1>5, <1>6, <1>7, <1>8, <1>9 DEF todo

LEMMA NotQuiet ==
  ASSUME NEW op \in Programs, op \notin Quiet
  PROVE  op \in {"activate", "deactivate", "update", "delete"}
BY DEF Programs, Ops, Quiet

LEMMA LoadStep ==
  ASSUME Base, NEW p \in Proc, Load(p), NEW w, NEW r, NEW n, NEW v, NEW v2,
         Undisturbed(p, w, r, n, v, v2), r.op \notin Quiet
  PROVE  Claim(n, v2)
<1>1. /\ r = proc[p] /\ n = proc'[p] /\ p # Main /\ w = Here(p).w /\ w \in Workflow
      /\ r \in Processes /\ Here(p) = Head(r.todo) /\ v = View(w) /\ v2 = View(w)'
      /\ SlotClaim(r, v) /\ Telling(v) /\ r.op \in Programs
      /\ v.exists = Exists(w) /\ (Exists(w) => v.active = row[w].active /\ row[w] \in Loaded)
  BY Alone
<1>2. v2 = v
  BY <1>1, QuietSteps, ViewSame
<1>3. Head(r.todo).do = "load"
  BY <1>1 DEF Load, At
<1>4. InOrder(v)
  BY <1>1, <1>3 DEF SlotClaim
<1>5. proc[p].todo # <<>>
  BY LoadMoves
<1>6. CASE Fail(p)
  BY <1>1, <1>2, <1>3, <1>4, <1>5, <1>6, FailEnds, OrderedRest DEF Quiet
<1>7. CASE n = Idle
  BY <1>2, <1>4, <1>7, IdleType, OrderedRest
<1>8. ASSUME Exists(w), n = Expanded(r, AfterLoad(r.op, w, row[w]), [r.seen EXCEPT ![w] = row[w]]),
             LeftOf(r.op, w, AfterLoad(r.op, w, row[w])), n.at = "start"
      PROVE  Claim(n, v2)
  <2> DEFINE todo == AfterLoad(r.op, w, row[w])
             seen == [r.seen EXCEPT ![w] = row[w]]
             e == row[w]
  <2>1. n = Expanded(r, todo, seen) /\ n.at = "start" /\ e \in Loaded /\ todo = AfterLoad(r.op, w, e)
    BY <1>1, <1>8
  <2> HIDE DEF todo, seen
  <2>2. n.op = r.op /\ n.todo = todo
    BY <1>1, <2>1 DEF Expanded, Processes
  <2>3. n.todo # <<>> /\ SlotClaim(n, v)
    <3>1. v.exists /\ v.active = e.active /\ n.todo = AfterLoad(r.op, w, e) /\ r.op \in {"activate", "deactivate", "update", "delete"}
      BY <1>1, <1>8, <2>1, <2>2, NotQuiet
    <3> HIDE DEF e
    <3>2. QED
      BY <1>1, <1>4, <2>1, <2>2, <3>1, LoadedClaim
  <2>4. QED
    BY <1>2, <2>3 DEF Claim
<1>9. QED
  BY <1>1, <1>6, <1>7, <1>8, LoadMoves

LEMMA ReloadStep ==
  ASSUME Base, NEW p \in Proc, Reload(p), NEW w, NEW r, NEW n, NEW v, NEW v2,
         Undisturbed(p, w, r, n, v, v2), r.op \notin Quiet
  PROVE  Claim(n, v2)
<1>1. /\ r = proc[p] /\ n = proc'[p] /\ p # Main /\ w = Here(p).w
      /\ r \in Processes /\ Here(p) = Head(r.todo) /\ v = View(w) /\ v2 = View(w)'
      /\ SlotClaim(r, v) /\ Telling(v) /\ r.op \in Programs /\ Head(r.todo) \in WorkflowCall
      /\ Fits(r.op, Head(r.todo))
  BY Alone
<1>2. v2 = v
  BY <1>1, QuietSteps, ViewSame
<1>3. Head(r.todo).do = "reload" /\ proc[p].todo # <<>>
  BY <1>1 DEF Reload, At
<1>4. InOrder(v)
  BY <1>1, <1>3 DEF SlotClaim
<1>5. CASE Fail(p)
  BY <1>1, <1>2, <1>3, <1>4, <1>5, FailEnds, OrderedRest DEF Quiet
<1>6. CASE Return(p)
  <2>1. Passed(r, n, r.seen)
    BY <1>1, <1>3, <1>6, SlotReturnsPlain
  <2>2. Done(r, r.seen, v)
    BY <1>3, <1>4 DEF Done
  <2>3. QED
    BY <1>1, <1>2, <1>3, <2>1, <2>2, NextClaim
<1>7. QED
  BY <1>5, <1>6 DEF Reload

(* The queries that change the row.                                        *)
LEMMA SetActiveStep ==
  ASSUME Base, NEW p \in Proc, SetActive(p), NEW w, NEW r, NEW n, NEW v, NEW v2,
         Undisturbed(p, w, r, n, v, v2), r.op \notin Quiet
  PROVE  Claim(n, v2)
<1>1. /\ r = proc[p] /\ n = proc'[p] /\ p # Main /\ w = Here(p).w /\ w \in Workflow
      /\ r \in Processes /\ Here(p) = Head(r.todo) /\ v = View(w) /\ v2 = View(w)'
      /\ SlotClaim(r, v) /\ Telling(v) /\ Telling(v2) /\ r.op \in Programs
      /\ Head(r.todo) \in WorkflowCall /\ Head(r.todo).w = w /\ Fits(r.op, Head(r.todo))
      /\ v.exists = Exists(w) /\ v.reg = Reg(w) /\ v.open = schedule[w] /\ v.armed = armed[w]
      /\ (Exists(w) => v.def = row[w].def /\ v.active = row[w].active)
  BY Alone
<1>2. Head(r.todo).do = "setActive" /\ proc[p].todo # <<>>
  BY <1>1 DEF SetActive, At
<1>3. InOrder(v)
  BY <1>1, <1>2 DEF SlotClaim
<1>4. r.op \in {"activate", "deactivate"}
  BY <1>1, <1>2 DEF Fits
<1>5. CASE ~Exists(w)
  <2>1. Fail(p) /\ UNCHANGED <<row, hook, schedule, armed>>
    BY <1>1, <1>5, RowSteps DEF SetActive, tables
  <2>2. v2 = v
    BY <1>1, <2>1, ViewSame
  <2>3. n.todo = <<>>
    BY <1>1, <1>2, <1>4, <2>1, FailEnds
  <2>4. QED
    BY <1>3, <2>2, <2>3, OrderedRest
<1>6. CASE Exists(w)
  <2> DEFINE seen == [r.seen EXCEPT ![w] = row'[w]]
  <2>1. /\ hook' = hook /\ Exists(w)' /\ row'[w].def = row[w].def
        /\ row'[w].active = (r.op = "activate")
        /\ ReturnWith(p, seen)
        /\ armed'[w] = IF armed[w] = "lost" THEN "lost"
                       ELSE IF r.op # "activate" THEN "off"
                       ELSE IF armed[w] = "edited" /\ Cron[row[w].def] = None THEN "edited"
                       ELSE "on"
    <3>1. /\ hook' = hook /\ Exists(w)' /\ row'[w].def = row[w].def
          /\ row'[w].active = (proc[p].op = "activate")
          /\ ReturnWith(p, [proc[p].seen EXCEPT ![w] = row'[w]])
          /\ armed'[w] = IF armed[w] = "lost" THEN "lost"
                         ELSE IF proc[p].op # "activate" THEN "off"
                         ELSE IF armed[w] = "edited" /\ Cron[row[w].def] = None THEN "edited"
                         ELSE "on"
      <4>1. w = Here(p).w
        BY <1>1
      <4>2. QED
        BY <1>6, <4>1, RowEffect
    <3>2. r = proc[p]
      BY <1>1
    <3>3. QED
      BY <3>1, <3>2
  <2>2. /\ RowType /\ RowType' /\ schedule' = schedule /\ r.seen \in Seen
    BY <1>1, RowSteps, Standing, TypedProcess
  <2>3. row'[w] \in Loaded
    BY <2>1, <2>2 DEF RowType, Exists
  <2>4. seen \in Seen /\ KeepsSeen(r, seen) /\ seen[w] = row'[w]
    BY <1>1, <2>2, <2>3 DEF Seen, KeepsSeen
  <2> HIDE DEF seen
  <2>5. Passed(r, n, seen)
    BY <1>1, <1>2, <2>1, <2>4, SlotReturns
  <2>6. /\ v2.exists /\ v2.active = row'[w].active /\ v2.def = row'[w].def /\ v2.reg = Reg(w)
        /\ v2.open = schedule[w] /\ v2.armed = armed'[w]
    <3>1. Reg(w)' = Reg(w)
      BY <2>1 DEF Reg
    <3>2. Active(w)' = row'[w].active
      BY <2>1, <2>3 DEF Active, Loaded
    <3>3. QED
      BY <1>1, <2>1, <2>2, <3>1, <3>2 DEF View, Exists
  <2>7. v2.active = (r.op = "activate") /\ v2.def = v.def /\ v2.reg = v.reg /\ v2.open = v.open
    BY <1>1, <1>6, <2>1, <2>6
  <2>8. v2.reg \subseteq WebhooksOf(v2.def)
    BY <1>3, <2>7 DEF InOrder, Whole
  <2>9. r.op = "activate" =>
          v2.armed = "edited" \/ (seen[w].def = v2.def /\ (Cron[v2.def] = None => v2.open = None))
    <3>1. SUFFICES ASSUME r.op = "activate", v2.armed # "edited"
                   PROVE  seen[w].def = v2.def /\ (Cron[v2.def] = None => v2.open = None)
      OBVIOUS
    <3>2. seen[w].def = v2.def
      BY <2>4, <2>6
    <3>3. v.armed # "lost" /\ armed[w] \in {"on", "edited", "off", "lost"}
      <4>1. v.armed # "lost"
        BY <1>1 DEF Telling
      <4>2. armed \in [Workflow -> {"on", "edited", "off", "lost"}]
        BY DEF Base, TypeInv
      <4>3. w \in Workflow
        BY <1>1
      <4>4. armed[w] \in {"on", "edited", "off", "lost"}
        BY <4>2, <4>3
      <4>5. QED
        BY <4>1, <4>4
    <3>4. Cron[v2.def] = None => v.armed \in {"on", "off"}
      <4>1. v.armed = armed[w] /\ v2.armed = armed'[w] /\ v2.def = row[w].def
        BY <1>1, <1>6, <2>6, <2>7
      <4>2. armed'[w] = IF armed[w] = "edited" /\ Cron[row[w].def] = None THEN "edited" ELSE "on"
        BY <2>1, <3>1, <3>3, <4>1
      <4>3. QED
        BY <3>1, <3>3, <4>1, <4>2
    <3>5. Cron[v2.def] = None => v2.open = None
      BY <1>3, <2>7, <3>4 DEF InOrder, OnTime
    <3>6. QED
      BY <3>2, <3>5
  <2>10. Done(r, seen, v2)
    <3>1. r.op \notin Quiet
      OBVIOUS
    <3>2. QED
      BY <1>1, <1>2, <1>4, <2>6, <2>7, <2>8, <2>9, <3>1 DEF Done
  <2>11. QED
    BY <1>1, <1>2, <2>5, <2>10, NextClaim
<1>7. QED
  BY <1>5, <1>6

LEMMA UpdateStep ==
  ASSUME Base, NEW p \in Proc, Update(p), NEW w, NEW r, NEW n, NEW v, NEW v2,
         Undisturbed(p, w, r, n, v, v2), r.op \notin Quiet
  PROVE  Claim(n, v2)
<1>1. /\ r = proc[p] /\ n = proc'[p] /\ p # Main /\ w = Here(p).w /\ w \in Workflow
      /\ r \in Processes /\ Here(p) = Head(r.todo) /\ v = View(w) /\ v2 = View(w)'
      /\ SlotClaim(r, v) /\ Telling(v) /\ Telling(v2) /\ r.op \in Programs
      /\ Head(r.todo) \in WorkflowCall /\ Fits(r.op, Head(r.todo))
      /\ v.exists = Exists(w) /\ v.reg = Reg(w) /\ v.open = schedule[w] /\ v.armed = armed[w]
      /\ (Exists(w) => v.def = row[w].def /\ v.active = row[w].active)
  BY Alone
<1>2. Head(r.todo).do = "update" /\ proc[p].todo # <<>>
  BY <1>1 DEF Update, At
<1>3. r.op = "update"
  BY <1>1, <1>2 DEF Fits
<1>4. v.exists /\ v.reg = {} /\ v.open = None /\ (v.active <=> Len(r.todo) > 1)
  BY <1>1, <1>2, <1>3 DEF SlotClaim
<1>5. /\ hook' = hook /\ Exists(w)' /\ row'[w].active = r.new.active
      /\ Return(p)
      /\ armed'[w] = IF armed[w] = "lost" \/ r.new.active # row[w].active THEN "lost"
                     ELSE IF r.new.active THEN "edited" ELSE "off"
  BY ZenonT(40), <1>1, <1>4, RowEffect
<1>6. Passed(r, n, r.seen)
  BY <1>1, <1>2, <1>5, SlotReturnsPlain
<1>7. schedule' = schedule /\ row'[w].active \in BOOLEAN
  BY <1>1, <1>5, RowSteps, RowOfTable DEF RowType, Exists, Loaded
<1>8. v2.exists /\ v2.active = row'[w].active /\ v2.reg = {} /\ v2.open = None /\ v2.armed = armed'[w]
  <2>1. Reg(w)' = Reg(w)
    BY <1>5 DEF Reg
  <2>2. Active(w)' = row'[w].active
    BY <1>5, <1>7 DEF Active
  <2>3. QED
    BY <1>1, <1>4, <1>5, <1>7, <2>1, <2>2 DEF View
<1>9. v2.armed # "lost"
  BY <1>1 DEF Telling
<1>10. v2.active = v.active /\ v2.armed = IF v2.active THEN "edited" ELSE "off"
  BY <1>1, <1>4, <1>5, <1>8, <1>9
<1>11. /\ v2.active <=> Len(r.todo) > 1
       /\ IF v2.active THEN v2.armed = "edited" ELSE v2.open = None
  BY <1>4, <1>8, <1>10
<1>12. Done(r, r.seen, v2)
  BY <1>2, <1>3, <1>8, <1>11 DEF Done, Quiet
<1>13. QED
  BY <1>1, <1>2, <1>6, <1>12, NextClaim

LEMMA DeleteStep ==
  ASSUME Base, NEW p \in Proc, DeleteRow(p), NEW w, NEW r, NEW n, NEW v, NEW v2,
         Undisturbed(p, w, r, n, v, v2), r.op \notin Quiet
  PROVE  Claim(n, v2)
<1>1. /\ r = proc[p] /\ n = proc'[p] /\ p # Main /\ w = Here(p).w /\ w \in Workflow
      /\ Here(p) = Head(r.todo) /\ v = View(w) /\ v2 = View(w)'
      /\ SlotClaim(r, v) /\ Telling(v) /\ Telling(v2) /\ r.op \in Programs
      /\ Head(r.todo) \in WorkflowCall /\ Fits(r.op, Head(r.todo))
      /\ v.exists = Exists(w) /\ v.reg = Reg(w) /\ v.open = schedule[w]
  BY Alone
<1>2. Head(r.todo).do = "remove" /\ proc[p].todo # <<>>
  BY <1>1 DEF DeleteRow, At
<1>3. r.op = "delete"
  BY <1>1, <1>2 DEF Fits
<1>4. v.exists /\ v.reg = {} /\ v.open = None
  BY <1>1, <1>2, <1>3 DEF SlotClaim
<1>5. hook' = {h \in hook : h.workflow # w} /\ ~Exists(w)' /\ Return(p) /\ schedule' = schedule
  BY ZenonT(40), <1>1, <1>4, RowEffect, RowSteps
<1>6. Passed(r, n, r.seen)
  BY <1>1, <1>2, <1>5, SlotReturnsPlain
<1>7. ~v2.active /\ v2.reg = {} /\ v2.open = None
  <2>1. Reg(w)' = {}
    BY <1>1, <1>4, <1>5 DEF Reg
  <2>2. Active(w)' = FALSE
    BY <1>5 DEF Active
  <2>3. QED
    BY <1>1, <1>4, <1>5, <2>1, <2>2 DEF View
<1>8. Done(r, r.seen, v2)
  BY <1>2, <1>3, <1>7 DEF Done, Quiet, Arming, Disarming
<1>9. QED
  BY <1>1, <1>2, <1>6, <1>8, NextClaim

(* The calls to Temporal.                                                  *)
LEMMA SetupClaim ==
  ASSUME NEW r, NEW v, Head(r.todo).do = "setup", r.op \in Arming, SlotClaim(r, v), Telling(v)
  PROVE  /\ v.exists /\ v.active /\ v.reg \subseteq WebhooksOf(v.def) /\ Scheduling(r, v)
         /\ v.armed # "edited" =>
              r.seen[Head(r.todo).w].def = v.def /\ (Cron[v.def] = None => v.open = None)
BY DEF SlotClaim, Telling

LEMMA StillSetup ==
  ASSUME NEW r, NEW n, NEW v, NEW v2, Head(r.todo).do = "setup", r.op \in Arming,
         n.todo = r.todo, n.todo # <<>>, n.op = r.op, n.seen = r.seen, SlotClaim(r, v), Telling(v),
         SameRow(v, v2), v2.reg = v.reg, v2.open = v.open \/ v2.open = None, Scheduling(n, v2)
  PROVE  Claim(n, v2)
<1>1. /\ v.exists /\ v.active /\ v.reg \subseteq WebhooksOf(v.def)
      /\ \/ v.armed = "edited"
         \/ r.seen[Head(r.todo).w].def = v.def /\ (Cron[v.def] = None => v.open = None)
  BY DEF SlotClaim
<1>2. /\ v2.exists /\ v2.active /\ v2.reg \subseteq WebhooksOf(v2.def)
      /\ \/ v2.armed = "edited"
         \/ n.seen[Head(n.todo).w].def = v2.def /\ (Cron[v2.def] = None => v2.open = None)
  BY <1>1 DEF SameRow
<1>3. Head(n.todo).do = "setup" /\ n.op \in Arming
  OBVIOUS
<1>4. SlotClaim(n, v2)
  BY <1>2, <1>3 DEF SlotClaim, Arming, Quiet
<1>5. QED
  BY <1>4 DEF Claim

LEMMA SetupDone ==
  ASSUME NEW r, NEW v, NEW v2, Head(r.todo).do = "setup", r.op \in Arming, SlotClaim(r, v),
         Telling(v), SameRow(v, v2), v2.reg = v.reg,
         v.armed # "edited" => v2.open = Cron[v.def]
  PROVE  Done(r, r.seen, v2)
<1>1. /\ v.exists /\ v.active /\ v.reg \subseteq WebhooksOf(v.def)
  BY DEF SlotClaim
<1>2. /\ v2.exists /\ v2.active /\ v2.reg \subseteq WebhooksOf(v2.def)
      /\ v2.armed # "off" /\ (v2.armed = "on" => v2.open = Cron[v2.def])
  BY <1>1 DEF SameRow, Telling
<1>3. OnTime(v2)
  BY <1>2 DEF OnTime
<1>4. r.op \notin Quiet
  BY DEF Arming, Quiet
<1>5. QED
  BY <1>2, <1>3, <1>4 DEF Done

LEMMA SetupStep ==
  ASSUME Base, NEW p \in Proc, SetupStart(p) \/ SetupTerminate(p) \/ SetupExecute(p),
         NEW w, NEW r, NEW n, NEW v, NEW v2, Undisturbed(p, w, r, n, v, v2)
  PROVE  Claim(n, v2)
<1>1. /\ r = proc[p] /\ n = proc'[p] /\ p # Main /\ w = Here(p).w /\ w \in Workflow
      /\ Here(p) = Head(r.todo) /\ v = View(w) /\ v2 = View(w)' /\ Head(r.todo).w = w
      /\ SlotClaim(r, v) /\ Telling(v) /\ Telling(v2) /\ r.op \in Programs
      /\ Head(r.todo) \in WorkflowCall /\ Fits(r.op, Head(r.todo))
      /\ v.open = schedule[w]
  BY Alone
<1>2. Head(r.todo).do = "setup" /\ proc[p].todo # <<>>
  BY <1>1 DEF SetupStart, SetupTerminate, SetupExecute, At
<1>3. r.op \in Arming
  BY <1>1, <1>2 DEF Fits
<1>4. UNCHANGED <<row, hook, armed>> /\ schedule \in [Workflow -> Crons]
  BY QuietSteps, ScheduleSteps DEF Base, TypeInv
<1>5. SameRow(v, v2) /\ v2.reg = v.reg /\ v2.open = schedule'[w]
  BY <1>1, <1>4, ViewOfSchedule
<1>6. Scheduling(r, v)
  BY <1>1, <1>2, <1>3, SetupClaim
<1>7. v.armed # "edited" => r.seen[w].def = v.def /\ (Cron[v.def] = None => v.open = None)
  <2>1. v.armed # "edited" =>
          r.seen[Head(r.todo).w].def = v.def /\ (Cron[v.def] = None => v.open = None)
    BY <1>1, <1>2, <1>3, SetupClaim
  <2>2. QED
    BY <1>1, <2>1
<1>8. ASSUME Return(p), v.armed # "edited" => v2.open = Cron[v.def] PROVE Claim(n, v2)
  <2>1. Done(r, r.seen, v2)
    BY <1>1, <1>2, <1>3, <1>5, <1>8, SetupDone
  <2>2. Passed(r, n, r.seen)
    BY <1>1, <1>2, <1>8, SlotReturnsPlain
  <2>3. QED
    BY <1>1, <1>2, <2>1, <2>2, NextClaim
<1>9. ASSUME NEW at, Goto(p, at), v2.open = v.open \/ v2.open = None,
             at = "terminate" => v2.open # None, at = "execute" => v2.open = None
      PROVE  Claim(n, v2)
  <2>1. n.todo = r.todo /\ n.op = r.op /\ n.seen = r.seen /\ n.at = at
    BY <1>1, <1>9, GotoFields DEF Goto
  <2>2. Scheduling(n, v2) /\ n.todo # <<>>
    BY <1>1, <1>2, <1>9, <2>1 DEF Scheduling
  <2>3. QED
    BY <1>1, <1>2, <1>3, <1>5, <1>9, <2>1, <2>2, StillSetup
<1>10. CASE SetupStart(p)
  <2>1. v2.open = v.open /\ schedule' = schedule
    BY <1>1, <1>5, <1>10, QuietSteps
  <2>2. CASE Cron[r.seen[w].def] = None
    <3>1. Return(p)
      BY <1>1, <1>10, <2>2 DEF SetupStart
    <3>2. v.armed # "edited" => v2.open = Cron[v.def]
      BY <1>7, <2>1, <2>2
    <3>3. QED
      BY <1>8, <3>1, <3>2
  <2>3. CASE Cron[r.seen[w].def] # None
    <3>1. Goto(p, IF schedule[w] = None THEN "execute" ELSE "terminate")
      BY <1>1, <1>10, <2>3 DEF SetupStart
    <3>2. QED
      BY <1>1, <1>9, <2>1, <3>1
  <2>4. QED
    BY <2>2, <2>3
<1>11. CASE SetupTerminate(p)
  <2>1. r.at = "terminate"
    BY <1>1, <1>11 DEF SetupTerminate, At
  <2>2. schedule[w] # None
    BY <1>1, <1>6, <2>1 DEF Scheduling
  <2>3. schedule' = [schedule EXCEPT ![w] = None] /\ Goto(p, "execute")
    BY <1>1, <1>11, <2>2 DEF SetupTerminate
  <2>4. v2.open = None
    BY <1>1, <1>4, <1>5, <2>3
  <2>5. QED
    BY <1>9, <2>3, <2>4
<1>12. CASE SetupExecute(p)
  <2>1. r.at = "execute"
    BY <1>1, <1>12 DEF SetupExecute, At
  <2>2. schedule[w] = None
    BY <1>1, <1>6, <2>1 DEF Scheduling
  <2>3. schedule' = [schedule EXCEPT ![w] = IF @ = None THEN Cron[r.seen[w].def] ELSE @] /\ Return(p)
    BY <1>1, <1>12 DEF SetupExecute
  <2>4. v2.open = Cron[r.seen[w].def]
    BY <1>1, <1>4, <1>5, <2>2, <2>3
  <2>5. QED
    BY <1>7, <1>8, <2>3, <2>4
<1>13. QED
  BY <1>10, <1>11, <1>12

LEMMA TerminateStep ==
  ASSUME Base, NEW p \in Proc, TerminateStart(p) \/ Terminate(p),
         NEW w, NEW r, NEW n, NEW v, NEW v2, Undisturbed(p, w, r, n, v, v2)
  PROVE  Claim(n, v2)
<1>1. /\ r = proc[p] /\ n = proc'[p] /\ p # Main /\ w = Here(p).w /\ w \in Workflow
      /\ Here(p) = Head(r.todo) /\ v = View(w) /\ v2 = View(w)'
      /\ SlotClaim(r, v) /\ Telling(v) /\ Telling(v2) /\ r.op \in Programs
      /\ Head(r.todo) \in WorkflowCall /\ Fits(r.op, Head(r.todo))
      /\ v.open = schedule[w]
  BY Alone
<1>2. Head(r.todo).do = "terminate" /\ proc[p].todo # <<>>
  BY <1>1 DEF TerminateStart, Terminate, At
<1>3. r.op \in Disarming
  BY <1>1, <1>2 DEF Fits
<1>4. UNCHANGED <<row, hook, armed>> /\ schedule \in [Workflow -> Crons]
  BY QuietSteps, ScheduleSteps DEF Base, TypeInv
<1>5. SameRow(v, v2) /\ v2.reg = v.reg /\ v2.open = schedule'[w]
  BY <1>1, <1>4, ViewOfSchedule
<1>6. /\ v.exists /\ v.reg \subseteq WebhooksOf(v.def) /\ Scheduling(r, v)
      /\ r.op = "deactivate" => ~v.active
      /\ r.op = "update" => v.active
  BY <1>1, <1>2, <1>3 DEF SlotClaim
<1>7. /\ v2.exists /\ v2.reg \subseteq WebhooksOf(v2.def)
      /\ r.op = "deactivate" => ~v2.active
      /\ r.op = "update" => v2.active
  BY <1>5, <1>6 DEF SameRow
<1>8. ASSUME Return(p), v2.open = None PROVE Claim(n, v2)
  <2>1. Done(r, r.seen, v2)
    BY <1>2, <1>3, <1>7, <1>8 DEF Done, Disarming, Quiet
  <2>2. Passed(r, n, r.seen)
    BY <1>1, <1>2, <1>8, SlotReturnsPlain
  <2>3. QED
    BY <1>1, <1>2, <2>1, <2>2, NextClaim
<1>9. CASE TerminateStart(p)
  <2>1. v2.open = v.open
    BY <1>1, <1>5, <1>9, QuietSteps
  <2>2. CASE schedule[w] = None
    BY <1>1, <1>8, <1>9, <2>1, <2>2 DEF TerminateStart
  <2>3. CASE schedule[w] # None
    <3>1. Goto(p, "terminate")
      BY <1>1, <1>9, <2>3 DEF TerminateStart
    <3>2. n.todo = r.todo /\ n.op = r.op /\ n.at = "terminate"
      BY <1>1, <3>1, GotoFields DEF Goto
    <3>3. Scheduling(n, v2) /\ n.todo # <<>>
      BY <1>1, <1>2, <2>1, <2>3, <3>2 DEF Scheduling
    <3>4. Head(n.todo).do = "terminate" /\ n.op \in Disarming
      BY <1>2, <1>3, <3>2
    <3>5. SlotClaim(n, v2)
      BY <1>7, <3>2, <3>3, <3>4 DEF SlotClaim, Disarming, Quiet
    <3>6. QED
      BY <3>3, <3>5 DEF Claim
  <2>4. QED
    BY <2>2, <2>3
<1>10. CASE Terminate(p)
  <2>1. r.at = "terminate"
    BY <1>1, <1>10 DEF Terminate, At
  <2>2. schedule[w] # None
    BY <1>1, <1>6, <2>1 DEF Scheduling
  <2>3. schedule' = [schedule EXCEPT ![w] = None] /\ Return(p)
    BY <1>1, <1>10, <2>2 DEF Terminate
  <2>4. v2.open = None
    BY <1>1, <1>4, <1>5, <2>3
  <2>5. QED
    BY <1>8, <2>3, <2>4
<1>11. QED
  BY <1>9, <1>10

(* Registration and removal of the webhooks.                               *)
LEMMA RegisterClaim ==
  ASSUME NEW r, NEW v, Head(r.todo).do = "register", r.op \in Arming
  PROVE  SlotClaim(r, v) <=> /\ v.exists /\ v.active /\ v.reg \subseteq WebhooksOf(v.def)
                             /\ OnTime(v) /\ Registering(r, v)
BY DEF SlotClaim, Arming, Quiet

LEMMA UnregisterClaim ==
  ASSUME NEW r, NEW v, Head(r.todo).do = "unregister", ~Head(r.todo).test, r.op \in Disarming
  PROVE  SlotClaim(r, v) <=>
           /\ v.exists /\ v.open = None
           /\ v.reg \subseteq IF r.at = "start" THEN WebhooksOf(v.def) ELSE Range(r.left)
           /\ r.op = "deactivate" => ~v.active
           /\ r.op = "update" => v.active
BY DEF SlotClaim, Disarming, Quiet

LEMMA TestUnregisterClaim ==
  ASSUME NEW r, NEW v, Head(r.todo).do = "unregister", Head(r.todo).test, r.op = "delete"
  PROVE  SlotClaim(r, v) <=> v.exists /\ v.reg = {} /\ v.open = None
BY DEF SlotClaim, Disarming, Arming, Quiet

LEMMA RegisterStep ==
  ASSUME Base, NEW p \in Proc, NEW w, NEW r, NEW n, NEW v, NEW v2,
         Undisturbed(p, w, r, n, v, v2), r.op \in Arming, w \notin disturbed',
         ReadWorkflow(p, "register") \/ SaveHook(p) \/ (UpdateStaticData(p) /\ Here(p).do = "register")
  PROVE  Claim(n, v2)
<1>1. /\ r = proc[p] /\ n = proc'[p] /\ p # Main /\ w = Here(p).w /\ w \in Workflow
      /\ Here(p) = Head(r.todo) /\ v = View(w) /\ v2 = View(w)'
      /\ SlotClaim(r, v) /\ Telling(v) /\ Telling(v2) /\ r.op \in Programs
      /\ Head(r.todo) \in WorkflowCall /\ Fits(r.op, Head(r.todo))
      /\ v.exists = Exists(w) /\ v.reg = Reg(w) /\ (Exists(w) => v.def = row[w].def)
  BY Alone
<1>2. Head(r.todo).do = "register" /\ proc[p].todo # <<>>
  BY <1>1, HookCall DEF ReadWorkflow, SaveHook, UpdateStaticData, At
<1>3. ~Head(r.todo).test
  BY <1>1, <1>2 DEF Fits, Arming
<1>4. /\ v.exists /\ v.active /\ v.reg \subseteq WebhooksOf(v.def)
      /\ OnTime(v) /\ Registering(r, v)
  BY <1>1, <1>2, RegisterClaim
<1>5. Exists(w) /\ v.def = row[w].def
  BY <1>1, <1>4
<1>6. ASSUME Return(p), v2 = v, WebhooksOf(v.def) \subseteq v.reg PROVE Claim(n, v2)
  <2>1. InOrder(v)
    BY <1>4, <1>6 DEF InOrder, Whole
  <2>2. Done(r, r.seen, v2)
    BY <1>2, <1>6, <2>1 DEF Done, Arming, Quiet
  <2>3. Passed(r, n, r.seen)
    BY <1>1, <1>2, <1>6, SlotReturnsPlain
  <2>4. QED
    BY <1>1, <1>2, <2>2, <2>3, NextClaim
<1>7. CASE ReadWorkflow(p, "register")
  <2>1. v2 = v
    BY <1>1, <1>7, QuietSteps, ViewSame
  <2>2. \/ Webhooks[v.def] = <<>> /\ Return(p)
        \/ /\ n.left = Webhooks[v.def] /\ n.todo = r.todo /\ n.op = r.op /\ n.at = "hooks"
    BY <1>1, <1>5, <1>7, ReadFields
  <2>3. CASE Webhooks[v.def] = <<>> /\ Return(p)
    <3>1. WebhooksOf(v.def) = {}
      BY <2>3 DEF WebhooksOf, Range
    <3>2. QED
      BY <1>6, <2>1, <2>3, <3>1
  <2>4. CASE n.left = Webhooks[v.def] /\ n.todo = r.todo /\ n.op = r.op /\ n.at = "hooks"
    <3>1. Registering(n, v)
      BY <2>4 DEF Registering, WebhooksOf
    <3>2. SlotClaim(n, v)
      BY <1>2, <1>4, <2>4, <3>1, RegisterClaim
    <3>3. QED
      BY <1>1, <1>2, <2>1, <2>4, <3>2 DEF Claim
  <2>5. QED
    BY <2>2, <2>3, <2>4
<1>8. CASE SaveHook(p)
  <2>1. PICK h, t : h = Head(r.left) /\ t = Head(r.todo).test
    OBVIOUS
  <2>2. Reg(w)' = Reg(w) \cup {h}
    BY <1>1, <1>3, <1>8, <2>1, HookEffect, Zenon
  <2>3. UNCHANGED <<row, schedule, armed>>
    BY <1>8, HookSteps DEF SaveHook, CreateWebhookEntity, tables
  <2>4. SameRow(v, v2) /\ v2.open = v.open /\ v2.reg = v.reg \cup {h}
    BY <1>1, <2>2, <2>3, ViewOfHooks
  <2>5. /\ n.todo = r.todo /\ n.op = r.op /\ n.left = Tail(r.left) /\ n.at \in {"hooks", "static"}
        /\ r.left # <<>> /\ r.left \in Seq(AllWebhooks)
    BY <1>1, <1>8, HookFields
  <2>6. Range(r.left) = Range(n.left) \cup {h}
    BY <2>1, <2>5, RangeOfTail
  <2>7. /\ Range(r.left) \subseteq WebhooksOf(v.def)
        /\ WebhooksOf(v.def) \subseteq v.reg \cup Range(r.left)
    <3>1. r.at = "hooks"
      BY <1>1, <1>8 DEF SaveHook, At
    <3>2. QED
      BY <1>4, <3>1 DEF Registering
  <2>8. v2.reg \subseteq WebhooksOf(v2.def) /\ Registering(n, v2)
    <3>1. v2.def = v.def
      BY <2>4 DEF SameRow
    <3>2. h \in WebhooksOf(v.def) /\ Range(n.left) \subseteq WebhooksOf(v.def)
      BY <2>6, <2>7
    <3>3. v2.reg \subseteq WebhooksOf(v2.def)
      BY <1>4, <2>4, <3>1, <3>2
    <3>4. WebhooksOf(v2.def) \subseteq v2.reg \cup Range(n.left)
      BY <2>4, <2>6, <2>7, <3>1
    <3>5. QED
      BY <3>1, <3>2, <3>3, <3>4 DEF Registering
  <2>9. v2.exists /\ v2.active /\ OnTime(v2)
    BY <1>4, <2>4 DEF SameRow, OnTime
  <2>10. SlotClaim(n, v2)
    BY <1>2, <2>5, <2>8, <2>9, RegisterClaim
  <2>11. QED
    BY <1>1, <1>2, <2>5, <2>10 DEF Claim
<1>9. CASE UpdateStaticData(p)
  <2>1. v2 = v
    BY <1>1, <1>9, StaticView
  <2>2. Return(p)
    BY <1>1, <1>5, <1>9 DEF UpdateStaticData
  <2>3. r.at = "static" /\ r.left = <<>>
    BY <1>1, <1>9, HookCall DEF UpdateStaticData
  <2>4. Range(r.left) = {}
    BY <2>3 DEF Range
  <2>5. WebhooksOf(v.def) \subseteq v.reg
    BY <1>4, <2>3, <2>4 DEF Registering
  <2>6. QED
    BY <1>6, <2>1, <2>2, <2>5
<1>10. QED
  BY <1>7, <1>8, <1>9

LEMMA UnregisterStep ==
  ASSUME Base, NEW p \in Proc, NEW w, NEW r, NEW n, NEW v, NEW v2,
         Undisturbed(p, w, r, n, v, v2), r.op \in Disarming,
         \/ ReadWorkflow(p, "unregister") \/ DeleteHook(p)
         \/ UpdateStaticData(p) /\ Here(p).do = "unregister"
  PROVE  Claim(n, v2)
<1>1. /\ r = proc[p] /\ n = proc'[p] /\ p # Main /\ w = Here(p).w /\ w \in Workflow
      /\ Here(p) = Head(r.todo) /\ v = View(w) /\ v2 = View(w)'
      /\ SlotClaim(r, v) /\ Telling(v) /\ Telling(v2) /\ r.op \in Programs
      /\ Head(r.todo) \in WorkflowCall /\ Fits(r.op, Head(r.todo))
      /\ v.exists = Exists(w) /\ v.reg = Reg(w) /\ (Exists(w) => v.def = row[w].def)
  BY Alone
<1>2. Head(r.todo).do = "unregister" /\ proc[p].todo # <<>> /\ Head(r.todo).test \in BOOLEAN
  BY <1>1, HookCall DEF ReadWorkflow, DeleteHook, UpdateStaticData, At, WorkflowCall
<1>3. Head(r.todo).test => r.op = "delete"
  BY <1>1, <1>2 DEF Fits, Disarming
<1> DEFINE test == Head(r.todo).test
<1>4. /\ v.exists /\ v.open = None
      /\ test => v.reg = {}
      /\ ~test => v.reg \subseteq IF r.at = "start" THEN WebhooksOf(v.def) ELSE Range(r.left)
      /\ r.op = "deactivate" => ~v.active
      /\ r.op = "update" => v.active
  <2>1. CASE test
    BY <1>1, <1>2, <1>3, <2>1, TestUnregisterClaim
  <2>2. CASE ~test
    BY <1>1, <1>2, <2>2, UnregisterClaim
  <2>3. QED
    BY <2>1, <2>2
<1>5. Exists(w) /\ v.def = row[w].def
  BY <1>1, <1>4
<1>6. ASSUME Return(p), v2 = v, v.reg = {} PROVE Claim(n, v2)
  <2>1. Done(r, r.seen, v2)
    BY <1>2, <1>4, <1>6 DEF Done, Disarming, Quiet
  <2>2. Passed(r, n, r.seen)
    BY <1>1, <1>2, <1>6, SlotReturnsPlain
  <2>3. QED
    BY <1>1, <1>2, <2>1, <2>2, NextClaim
<1>7. ASSUME n.todo = r.todo, n.op = r.op, n.at \in {"hooks", "static"}, SameRow(v, v2), v2.open = v.open,
             test => v2.reg = {}, ~test => v2.reg \subseteq Range(n.left)
      PROVE  Claim(n, v2)
  <2>1. /\ v2.exists /\ v2.open = None
        /\ r.op = "deactivate" => ~v2.active
        /\ r.op = "update" => v2.active
    BY <1>4, <1>7 DEF SameRow
  <2>2. CASE test
    <3>1. SlotClaim(n, v2)
      BY <1>2, <1>3, <1>7, <2>1, <2>2, TestUnregisterClaim
    <3>2. QED
      BY <1>1, <1>2, <1>7, <3>1 DEF Claim
  <2>3. CASE ~test
    <3>1. SlotClaim(n, v2)
      BY <1>2, <1>7, <2>1, <2>3, UnregisterClaim
    <3>2. QED
      BY <1>1, <1>2, <1>7, <3>1 DEF Claim
  <2>4. QED
    BY <2>2, <2>3
<1>8. CASE ReadWorkflow(p, "unregister")
  <2>1. v2 = v
    BY <1>1, <1>8, QuietSteps, ViewSame
  <2>2. \/ Webhooks[v.def] = <<>> /\ Return(p)
        \/ /\ n.left = Webhooks[v.def] /\ n.todo = r.todo /\ n.op = r.op /\ n.at = "hooks"
    BY <1>1, <1>5, <1>8, ReadFields
  <2>3. r.at = "start"
    BY <1>1, <1>8 DEF ReadWorkflow, At
  <2>4. test \/ v.reg \subseteq WebhooksOf(v.def)
    BY <1>4, <2>3
  <2>5. CASE Webhooks[v.def] = <<>> /\ Return(p)
    <3>1. WebhooksOf(v.def) = {}
      BY <2>5 DEF WebhooksOf, Range
    <3>2. v.reg = {}
      BY <1>4, <2>4, <3>1
    <3>3. QED
      BY <1>6, <2>1, <2>5, <3>2
  <2>6. CASE n.left = Webhooks[v.def] /\ n.todo = r.todo /\ n.op = r.op /\ n.at = "hooks"
    <3>1. ~test => v2.reg \subseteq Range(n.left)
      BY <2>1, <2>4, <2>6 DEF WebhooksOf
    <3>2. SameRow(v, v2) /\ v2.open = v.open /\ (test => v2.reg = {})
      BY <1>4, <2>1 DEF SameRow
    <3>3. QED
      BY <1>7, <2>6, <3>1, <3>2
  <2>7. QED
    BY <2>2, <2>5, <2>6
<1>9. CASE DeleteHook(p)
  <2>1. PICK h, t : h = Head(r.left) /\ t = Head(r.todo).test
    OBVIOUS
  <2>2. /\ t => Reg(w)' = Reg(w)
        /\ ~t => Reg(w)' = Reg(w) \ {h}
    <3>1. w = Here(p).w /\ h = Head(proc[p].left) /\ t = Here(p).test
      BY <1>1, <2>1
    <3>2. t => Reg(w)' = Reg(w)
      BY <1>9, <3>1, HookEffect, Zenon
    <3>3. ~t => Reg(w)' = Reg(w) \ {h}
      BY <1>9, <3>1, HookEffect
    <3>4. QED
      BY <3>2, <3>3
  <2>3. UNCHANGED <<row, schedule, armed>>
    BY <1>9, HookSteps DEF DeleteHook, DeleteWebhookEntityByWorkflowId_Path_Method, tables
  <2>4. /\ SameRow(v, v2) /\ v2.open = v.open
        /\ test => v2.reg = v.reg
        /\ ~test => v2.reg = v.reg \ {h}
    BY <1>1, <2>1, <2>2, <2>3, ViewOfHooks
  <2>5. /\ n.todo = r.todo /\ n.op = r.op /\ n.left = Tail(r.left) /\ n.at \in {"hooks", "static"}
        /\ r.left # <<>> /\ r.left \in Seq(AllWebhooks)
    BY <1>1, <1>9, HookFields
  <2>6. Range(r.left) = Range(n.left) \cup {h}
    BY <2>1, <2>5, RangeOfTail
  <2>7. r.at = "hooks"
    BY <1>1, <1>9 DEF DeleteHook, At
  <2>8. ~test => v2.reg \subseteq Range(n.left)
    BY <1>4, <2>4, <2>6, <2>7
  <2>9. test => v2.reg = {}
    BY <1>4, <2>4
  <2>10. QED
    BY <1>7, <2>4, <2>5, <2>8, <2>9
<1>10. CASE UpdateStaticData(p)
  <2>1. v2 = v
    BY <1>1, <1>10, StaticView
  <2>2. Return(p)
    BY <1>1, <1>5, <1>10 DEF UpdateStaticData
  <2>3. r.at = "static" /\ r.left = <<>>
    BY <1>1, <1>10, HookCall DEF UpdateStaticData
  <2>4. Range(r.left) = {}
    BY <2>3 DEF Range
  <2>5. v.reg = {}
    BY <1>4, <2>3, <2>4
  <2>6. QED
    BY <1>6, <2>1, <2>2, <2>5
<1>11. QED
  BY <1>8, <1>9, <1>10

-----------------------------------------------------------------------------
(* A step of a handler keeps every claim.                                  *)

LEMMA SlotStep ==
  ASSUME Base, NEW p \in Proc, Step(p), NEW w, NEW r, NEW n, NEW v, NEW v2,
         Undisturbed(p, w, r, n, v, v2), w \notin disturbed'
  PROVE  Claim(n, v2)
<1>1. /\ r = proc[p] /\ p # Main /\ Here(p) = Head(r.todo) /\ r.op \in Programs
      /\ Head(r.todo) \in WorkflowCall /\ Fits(r.op, Head(r.todo))
  BY Alone
<1>2. CASE r.op \in Quiet
  BY <1>2, QuietStep
<1>3. ASSUME r.op \notin Quiet PROVE Claim(n, v2)
  <2>1. Here(p).do = "register" => r.op \in Arming
    BY <1>1, <1>3 DEF Fits, Quiet
  <2>2. Here(p).do = "unregister" => r.op \in Disarming
    BY <1>1, <1>3 DEF Fits, Quiet, Disarming
  <2>3. Here(p).do # "expire"
    BY <1>1, <1>3 DEF Fits, Quiet
  <2>4. CASE Load(p)
    BY <1>3, <2>4, LoadStep
  <2>5. CASE Reload(p)
    BY <1>3, <2>5, ReloadStep
  <2>6. CASE SetActive(p)
    BY <1>3, <2>6, SetActiveStep
  <2>7. CASE Update(p)
    BY <1>3, <2>7, UpdateStep
  <2>8. CASE DeleteRow(p)
    BY <1>3, <2>8, DeleteStep
  <2>9. CASE SetupStart(p) \/ SetupTerminate(p) \/ SetupExecute(p)
    BY <2>9, SetupStep
  <2>10. CASE TerminateStart(p) \/ Terminate(p)
    BY <2>10, TerminateStep
  <2>11. CASE ReadWorkflow(p, "register") \/ SaveHook(p)
    <3>1. Here(p).do = "register"
      BY <2>11 DEF ReadWorkflow, SaveHook, At
    <3>2. QED
      BY <2>1, <2>11, <3>1, RegisterStep
  <2>12. CASE ReadWorkflow(p, "unregister") \/ DeleteHook(p)
    <3>1. Here(p).do = "unregister"
      BY <2>12 DEF ReadWorkflow, DeleteHook, At
    <3>2. QED
      BY <2>2, <2>12, <3>1, UnregisterStep
  <2>13. CASE UpdateStaticData(p)
    <3>1. Here(p).do \in {"register", "unregister"}
      BY <2>13, HookCall DEF UpdateStaticData
    <3>2. CASE Here(p).do = "register"
      BY <2>1, <2>13, <3>2, RegisterStep
    <3>3. CASE Here(p).do = "unregister"
      BY <2>2, <2>13, <3>3, UnregisterStep
    <3>4. QED
      BY <3>1, <3>2, <3>3
  <2>14. ~ExpireStart(p) /\ ~ExpireTerminate(p) /\ ~ExpireExecute(p)
    BY <2>3 DEF ExpireStart, ExpireTerminate, ExpireExecute, At
  <2>15. QED
    BY <1>1, <2>4, <2>5, <2>6, <2>7, <2>8, <2>9, <2>10, <2>11, <2>12, <2>13, <2>14, StartCall DEF Step
<1>4. QED
  BY <1>2, <1>3

(* A workflow that p has nothing to do with.                               *)
LEMMA PartKept ==
  ASSUME NEW p \in Proc, \A q \in Proc \ {p} : proc'[q] = proc[q],
         NEW w \in Workflow, ~Occupied(p, proc[p], w), ~Occupied(p, proc'[p], w),
         View(w)' = View(w), SlotPart(w)
  PROVE  SlotPart(w)'
<1>1. ASSUME NEW q \in Proc \ {Main}, Occupied(q, proc'[q], w) PROVE SlotClaim(proc'[q], View(w)')
  <2>1. proc'[q] = proc[q]
    BY <1>1
  <2>2. SlotClaim(proc[q], View(w))
    BY <1>1, <2>1 DEF SlotPart
  <2>3. QED
    BY <2>1, <2>2
<1>2. ASSUME \A q \in Proc : ~Occupied(q, proc'[q], w) PROVE InOrder(View(w)')
  <2>1. \A q \in Proc : ~Occupied(q, proc[q], w)
    BY <1>2
  <2>2. InOrder(View(w))
    BY <2>1 DEF SlotPart
  <2>3. QED
    BY <2>2
<1>3. QED
  BY <1>1, <1>2 DEF SlotPart

LEMMA OtherPart ==
  ASSUME Base, NEW p \in Proc, p # Main, Moved(p), proc[p].todo # <<>>,
         NEW w \in Workflow, w # Here(p).w, View(w)' = View(w), SlotPart(w)
  PROVE  SlotPart(w)'
<1>1. ~Occupied(p, proc[p], w) /\ ~Occupied(p, proc'[p], w)
  BY CallFits DEF Moved
<1>2. \A q \in Proc \ {p} : proc'[q] = proc[q]
  BY DEF Moved
<1>3. QED
  BY <1>1, <1>2, PartKept

LEMMA OwnPart ==
  ASSUME Base, Exclusive, NEW p \in Proc, p # Main, Moved(p), proc[p].todo # <<>>,
         NEW w \in Workflow, w = Here(p).w, w \notin disturbed, Claim(proc'[p], View(w)')
  PROVE  SlotPart(w)'
<1>1. \A v : Occupied(p, proc[p], v) <=> v = w
  BY CallFits
<1>2. /\ ProcType' /\ Shaped(p, proc'[p]) /\ \A q \in Proc \ {p} : proc'[q] = proc[q]
      /\ \A v : Occupied(p, proc'[p], v) => Occupied(p, proc[p], v)
  BY DEF Moved
<1>3. proc'[p] \in Processes
  BY <1>2 DEF ProcType
<1>4. ASSUME NEW q \in Proc, Occupied(q, proc'[q], w) PROVE q = p
  <2>1. q # p => Occupied(q, proc[q], w)
    BY <1>2, <1>4
  <2>2. QED
    BY <1>1, <2>1 DEF Exclusive
<1>5. proc'[p].todo # <<>> => Occupied(p, proc'[p], w)
  <2>1. SUFFICES ASSUME proc'[p].todo # <<>> PROVE Occupied(p, proc'[p], w)
    OBVIOUS
  <2>2. Occupied(p, proc'[p], Head(proc'[p].todo).w)
    BY <1>2, <1>3, <2>1, SlotOccupied
  <2>3. Head(proc'[p].todo).w = w
    BY <1>1, <1>2, <2>2
  <2>4. QED
    BY <2>2, <2>3
<1>6. Occupied(p, proc'[p], w) => proc'[p].todo # <<>>
  BY <1>3 DEF Occupied, Processes
<1>7. Occupied(p, proc'[p], w) => SlotClaim(proc'[p], View(w)')
  BY <1>6 DEF Claim
<1>8. ~Occupied(p, proc'[p], w) => InOrder(View(w)')
  BY <1>5 DEF Claim
<1>9. QED
  BY <1>4, <1>7, <1>8 DEF SlotPart

LEMMA TellingView ==
  ASSUME NEW w \in Workflow
  PROVE  /\ ArmedIsActive /\ Clear(w) => Telling(View(w))
         /\ ArmedIsActive' /\ Clear(w)' => Telling(View(w)')
<1>1. View(w).active = Active(w) /\ View(w)'.active = Active(w)' /\ View(w).armed = armed[w]
      /\ View(w)'.armed = armed'[w]
  BY DEF View
<1>2. Active(w) \in BOOLEAN /\ Active(w)' \in BOOLEAN
  BY DEF Active
<1>3. QED
  BY <1>1, <1>2 DEF ArmedIsActive, Clear, Telling

LEMMA LostStays ==
  ASSUME Base, NEW p \in Proc, Step(p), NEW w, w = Here(p).w, w \in Workflow, armed[w] = "lost"
  PROVE  armed'[w] = "lost"
<1>1. CASE ~(SetActive(p) \/ Update(p) \/ DeleteRow(p))
  BY <1>1, FlagKept
<1>2. CASE Exists(w)
  <2>1. /\ SetActive(p) => armed'[w] = "lost"
        /\ Update(p) => armed'[w] = "lost"
        /\ DeleteRow(p) => armed'[w] = "lost"
    BY <1>2, RowEffect
  <2>2. QED
    BY <1>1, <2>1
<1>3. CASE ~Exists(w) /\ (SetActive(p) \/ Update(p) \/ DeleteRow(p))
  BY <1>3 DEF SetActive, Update, DeleteRow
<1>4. QED
  BY <1>1, <1>2, <1>3

LEMMA ClearBefore ==
  ASSUME Base, NEW p \in Proc, Step(p) \/ Fault(p), NEW w \in Workflow, Clear(w)'
  PROVE  Clear(w)
<1>1. disturbed \subseteq disturbed'
  BY DisturbedGrows
<1>2. CASE Fault(p)
  BY <1>1, <1>2 DEF Clear, Fault
<1>3. CASE Step(p)
  <2>1. PICK h : h = Here(p).w
    OBVIOUS
  <2>2. armed[w] = "lost" => armed'[w] = "lost"
    BY <1>3, <2>1, LostStays, ArmedKept
  <2>3. QED
    BY <1>1, <2>2 DEF Clear
<1>4. QED
  BY <1>2, <1>3

LEMMA FaultDisturbs ==
  ASSUME Base, NEW p \in Proc, Fault(p)
  PROVE  /\ Here(p).w \in Workflow => Here(p).w \in disturbed'
         /\ Here(p).w = None => Workflow \subseteq disturbed'
         /\ Here(p).w \in Workflow \/ (p = Main /\ Here(p).w = None)
<1>1. Here(p) \in Calls
  BY Standing DEF Fault
<1>2. disturbed' = disturbed \cup (IF Here(p).w = None THEN Workflow ELSE {Here(p).w})
  BY DEF Fault
<1>3. Here(p).w = None => Here(p).w \notin Workflow
  BY StoreAssumption
<1>4. Here(p).w \in Workflow \/ (p = Main /\ Here(p).w = None)
  BY <1>1, WhoCalls DEF Fault, Calls, WorkflowCall
<1>5. QED
  BY <1>2, <1>3, <1>4

LEMMA SlotKeeps ==
  ASSUME TInv, ArmedIsActive', NEW p \in Proc, p # Main, Step(p) \/ Fault(p)
  PROVE  SlotClaims' /\ MainClaims'
<1>1. Base /\ Exclusive /\ ArmedIsActive /\ SlotClaims /\ MainClaims
  BY DEF TInv, IInv
<1>2. Moved(p) /\ proc[p].todo # <<>> /\ ~DeleteAll(p) /\ disturbed \subseteq disturbed'
  BY <1>1, StepMoves, StartCall, DisturbedGrows
<1>3. PICK h : h = Here(p).w
  OBVIOUS
<1>4. h \in Workflow /\ \A v : Occupied(p, proc[p], v) <=> v = h
  BY <1>1, <1>2, <1>3, CallFits
<1>5. ASSUME NEW w \in Workflow, w # h PROVE View(w)' = View(w)
  BY <1>1, <1>2, <1>3, <1>5, ViewKept
<1>6. ASSUME NEW w \in Workflow, Clear(w)' PROVE SlotPart(w)'
  <2>1. Clear(w) /\ SlotPart(w)
    BY <1>1, <1>6, ClearBefore DEF SlotClaims
  <2>2. CASE w # h
    BY <1>1, <1>2, <1>3, <1>5, <2>1, <2>2, OtherPart
  <2>3. CASE w = h
    <3>1. Step(p) /\ w \notin disturbed /\ w \notin disturbed'
      BY <1>1, <1>3, <1>4, <1>6, <2>1, <2>3, FaultDisturbs DEF Clear
    <3>2. SlotClaim(proc[p], View(w))
      BY <1>4, <2>1, <2>3 DEF SlotPart
    <3>3. PICK r, n, v, v2 : r = proc[p] /\ n = proc'[p] /\ v = View(w) /\ v2 = View(w)'
      OBVIOUS
    <3>4. Undisturbed(p, w, r, n, v, v2)
      <4>1. Telling(v) /\ Telling(v2)
        BY <1>1, <1>6, <2>1, <3>3, TellingView
      <4>2. SlotClaim(r, v)
        BY <3>2, <3>3
      <4>3. QED
        BY <1>2, <1>3, <2>3, <3>3, <4>1, <4>2 DEF Undisturbed
    <3>5. Claim(n, v2)
      BY <1>1, <3>1, <3>4, SlotStep
    <3>6. QED
      BY <1>1, <1>2, <1>3, <2>3, <3>1, <3>3, <3>5, OwnPart
  <2>4. QED
    BY <2>2, <2>3
<1>7. MainClaims'
  <2>2. proc'[Main] = proc[Main]
    BY <1>2, ProcNames DEF Moved
  <2>1. SUFFICES ASSUME proc[Main] # Idle PROVE MainClaims'
    BY <2>2 DEF MainClaims
  <2>3. PICK k \in 1 .. 7, n \in Nat :
          /\ Stage(k, n, proc[Main].todo)
          /\ \A w \in Workflow : Clear(w) => MainClaim(k, n, proc[Main], w, View(w))
    BY <1>1, <2>1 DEF MainClaims
  <2>4. ASSUME NEW w \in Workflow, Clear(w)' PROVE MainClaim(k, n, proc'[Main], w, View(w)')
    <3>1. Clear(w)
      BY <1>1, <2>4, ClearBefore
    <3>2. w # h
      BY <1>1, <1>4, <2>1, <3>1, ProcNames DEF Exclusive, Occupied, Clear
    <3>3. View(w)' = View(w) /\ MainClaim(k, n, proc[Main], w, View(w))
      BY <1>5, <2>3, <3>1, <3>2
    <3>4. QED
      BY <2>2, <3>3
  <2>5. QED
    BY <2>2, <2>3, <2>4 DEF MainClaims
<1>8. QED
  BY <1>6, <1>7 DEF SlotClaims

-----------------------------------------------------------------------------
(* A handler or an activity starts.                                        *)

LEMMA LoadOrdered ==
  ASSUME NEW r, NEW v, InOrder(v), Head(r.todo).do = "load" \/ r.op \in Quiet
  PROVE  SlotClaim(r, v)
BY DEF SlotClaim, Quiet, Arming, Disarming

LEMMA StartKeeps ==
  ASSUME TInv, NEW p \in Proc, p # Main, proc[p] = Idle, \A q \in Proc \ {p} : proc'[q] = proc[q],
         UNCHANGED <<row, hook, schedule, armed>>, NEW w \in Workflow,
         disturbed' = IF BusyElsewhere(p, w) THEN disturbed \cup {w} ELSE disturbed,
         \A v : Occupied(p, proc'[p], v) <=> v = w,
         Head(proc'[p].todo).do = "load" \/ proc'[p].op \in Quiet
  PROVE  SlotClaims' /\ MainClaims'
<1>1. SlotClaims /\ MainClaims
  BY DEF TInv
<1>2. \A v : View(v)' = View(v)
  BY ViewSame
<1>3. \A v : ~Occupied(p, proc[p], v)
  BY IdleShaped
<1>4. ASSUME NEW q \in Proc \ {p}, Occupied(q, proc[q], w) PROVE w \in disturbed'
  <2>1. BusyElsewhere(p, w)
    BY <1>4, BusyIsOccupied DEF BusyElsewhere
  <2>2. QED
    BY <2>1
<1>5. \A v \in Workflow : Clear(v)' => Clear(v)
  BY DEF Clear
<1>6. ASSUME NEW v \in Workflow, Clear(v)' PROVE SlotPart(v)'
  <2>1. SlotPart(v)
    BY <1>1, <1>5, <1>6 DEF SlotClaims
  <2>2. CASE v # w
    BY <1>2, <1>3, <2>1, <2>2, PartKept
  <2>3. CASE v = w
    <3>1. \A q \in Proc : ~Occupied(q, proc[q], w)
      BY <1>3, <1>4, <1>6, <2>3 DEF Clear
    <3>2. InOrder(View(w))
      BY <2>1, <2>3, <3>1 DEF SlotPart
    <3>3. \A q \in Proc : Occupied(q, proc'[q], w) => q = p
      BY <3>1
    <3>4. SlotClaim(proc'[p], View(w)')
      BY <1>2, <3>2, LoadOrdered
    <3>5. Occupied(p, proc'[p], w)
      OBVIOUS
    <3>6. QED
      BY <2>3, <3>3, <3>4, <3>5 DEF SlotPart
  <2>4. QED
    BY <2>2, <2>3
<1>7. MainClaims'
  <2>1. proc'[Main] = proc[Main]
    BY ProcNames
  <2>2. SUFFICES ASSUME proc[Main] # Idle PROVE MainClaims'
    BY <2>1 DEF MainClaims
  <2>3. PICK k \in 1 .. 7, n \in Nat :
          /\ Stage(k, n, proc[Main].todo)
          /\ \A v \in Workflow : Clear(v) => MainClaim(k, n, proc[Main], v, View(v))
    BY <1>1, <2>2 DEF MainClaims
  <2>4. \A v \in Workflow : Clear(v)' => MainClaim(k, n, proc'[Main], v, View(v)')
    BY <1>2, <1>5, <2>1, <2>3
  <2>5. QED
    BY <2>1, <2>3, <2>4 DEF MainClaims
<1>8. QED
  BY <1>6, <1>7 DEF SlotClaims

LEMMA RequestKeeps ==
  ASSUME TInv, NEW p \in Slot, NEW op \in Ops, NEW w \in Workflow, Request(p, op, w)
  PROVE  SlotClaims' /\ MainClaims'
<1>1. Base
  BY DEF TInv, IInv
<1>2. UNCHANGED <<row, hook, schedule, armed>> /\ proc[p] = Idle /\ proc'[p].todo = <<Do("load", w)>>
  BY <1>1, RequestStarts
<1>3. \A q \in Proc \ {p} : proc'[q] = proc[q]
  BY <1>1, RequestStarts
<1>4. \A v : Occupied(p, proc'[p], v) <=> v = w
  <2>1. ProcType' /\ Shaped(p, proc'[p]) /\ p # Main /\ p \in Proc
    BY <1>1, RequestStarts, ProcNames
  <2>2. proc'[p].todo # <<>> /\ Head(proc'[p].todo).w = w /\ proc'[p] \in Processes
    BY <1>2, <2>1 DEF Do, Call, ProcType
  <2>3. QED
    BY <2>1, <2>2, SlotOccupied
<1>5. disturbed' = IF BusyElsewhere(p, w) THEN disturbed \cup {w} ELSE disturbed
  BY DEF Request
<1>6. Head(proc'[p].todo).do = "load"
  BY <1>2 DEF Do, Call
<1>7. QED
  BY <1>2, <1>3, <1>4, <1>5, <1>6, ProcNames, StartKeeps

LEMMA WakeKeeps ==
  ASSUME TInv, NEW w \in Workflow, Wake(w)
  PROVE  SlotClaims' /\ MainClaims'
<1>1. Base
  BY DEF TInv, IInv
<1>2. /\ UNCHANGED <<row, hook, schedule, armed>> /\ proc[w] = Idle /\ proc'[w] = Expiring(w)
      /\ \A q \in Proc \ {w} : proc'[q] = proc[q]
      /\ disturbed' = IF BusyElsewhere(w, w) THEN disturbed \cup {w} ELSE disturbed
  BY <1>1, WakeStarts
<1>3. /\ proc'[w].op \in Quiet
      /\ \A v : Occupied(w, proc'[w], v) <=> v = w
  BY <1>2, ExpiringShaped, ExpiringType DEF Quiet
<1>4. QED
  BY <1>2, <1>3, ProcNames, StartKeeps

LEMMA CreateKeepsClaims ==
  ASSUME TInv, NEW w \in Workflow, NEW active \in BOOLEAN, NEW d \in Definition,
         CreateWorkflow(w, active, d)
  PROVE  SlotClaims' /\ MainClaims'
<1>1. Base /\ SlotClaims /\ MainClaims /\ HookHasWorkflow /\ FreshWorkflows
  BY DEF TInv, IInv
<1>2. /\ UNCHANGED <<hook, schedule, proc>> /\ w \in fresh
      /\ CreateWorkflowEntity(w, active, d)
      /\ armed' = [armed EXCEPT ![w] = IF active THEN "lost" ELSE "off"]
      /\ disturbed' = IF proc[Main] # Idle THEN disturbed \cup {w} ELSE disturbed
  BY <1>1, CreateTypes
<1>3. armed \in [Workflow -> {"on", "edited", "off", "lost"}]
  BY <1>1 DEF Base, TypeInv
<1>4. ASSUME NEW v \in Workflow, v # w
      PROVE  View(v)' = View(v) /\ (Clear(v)' => Clear(v))
  <2>1. (Exists(v)' <=> Exists(v)) /\ (Exists(v) => row'[v] = row[v])
    BY <1>2, <1>4 DEF CreateWorkflowEntity, Exists
  <2>2. armed'[v] = armed[v]
    BY <1>2, <1>3, <1>4
  <2>3. Reg(v)' = Reg(v) /\ schedule'[v] = schedule[v]
    BY <1>2 DEF Reg
  <2>4. View(v)' = View(v)
    BY <2>1, <2>2, <2>3, ViewEqual
  <2>5. QED
    BY <1>2, <2>2, <2>4 DEF Clear
<1>5. ASSUME Clear(w)'
      PROVE  proc[Main] = Idle /\ InOrder(View(w)')
  <2>1. proc[Main] = Idle /\ armed'[w] = "off" /\ ~active
    BY <1>2, <1>3, <1>5 DEF Clear
  <2>2. ~Active(w)'
    BY <1>2, <2>1 DEF Active, CreateWorkflowEntity
  <2>3. ~Exists(w) /\ schedule[w] = None
    BY <1>1, <1>2 DEF FreshWorkflows
  <2>4. Reg(w)' = {}
    <3>1. \A h : ForRequests(w, h).workflow = w
      BY DEF ForRequests, HookFor
    <3>2. \A h \in hook : h.workflow # w
      BY <1>1, <2>3 DEF HookHasWorkflow
    <3>3. QED
      BY <1>2, <3>1, <3>2 DEF Reg
  <2>5. View(w)'.active = Active(w)' /\ View(w)'.reg = {} /\ View(w)'.open = None /\ View(w)'.armed = "off"
    BY <1>2, <2>1, <2>3, <2>4 DEF View
  <2>6. QED
    BY <2>1, <2>2, <2>5 DEF InOrder, Whole, OnTime
<1>6. ASSUME NEW v \in Workflow, Clear(v)' PROVE SlotPart(v)'
  <2>1. CASE v # w
    <3>1. View(v)' = View(v) /\ SlotPart(v)
      BY <1>1, <1>4, <1>6, <2>1 DEF SlotClaims
    <3>2. proc' = proc
      BY <1>2
    <3>3. QED
      BY <3>1, <3>2 DEF SlotPart
  <2>2. CASE v = w
    <3>1. \A q \in Proc \ {Main} : ~Occupied(q, proc[q], w)
      BY <1>1, <1>2, MentionsOccupied DEF FreshWorkflows
    <3>2. QED
      BY <1>2, <1>5, <1>6, <2>2, <3>1 DEF SlotPart
  <2>3. QED
    BY <2>1, <2>2
<1>7. MainClaims'
  <2>1. proc' = proc
    BY <1>2
  <2>2. SUFFICES ASSUME proc[Main] # Idle PROVE MainClaims'
    BY <2>1 DEF MainClaims
  <2>3. PICK k \in 1 .. 7, n \in Nat :
          /\ Stage(k, n, proc[Main].todo)
          /\ \A v \in Workflow : Clear(v) => MainClaim(k, n, proc[Main], v, View(v))
    BY <1>1, <2>2 DEF MainClaims
  <2>4. ASSUME NEW v \in Workflow, Clear(v)' PROVE MainClaim(k, n, proc'[Main], v, View(v)')
    <3>1. v # w
      BY <1>5, <2>2, <2>4
    <3>2. View(v)' = View(v) /\ Clear(v)
      BY <1>4, <2>4, <3>1
    <3>3. QED
      BY <2>1, <2>3, <3>2
  <2>5. QED
    BY <2>1, <2>3, <2>4 DEF MainClaims
<1>8. QED
  BY <1>6, <1>7 DEF SlotClaims

LEMMA CrashKeeps ==
  ASSUME TInv, Crash
  PROVE  SlotClaims' /\ MainClaims'
<1>1. Base
  BY DEF TInv, IInv
<1>2. /\ proc'[Main] = Starting
      /\ \A q \in Proc \ {Main} : proc'[q] = Idle \/ (q \in Slot /\ q \notin MainSlot /\ proc'[q] = proc[q])
      /\ disturbed' = {w \in Workflow : \E p \in Slot \ MainSlot : Busy(p, w)}
  BY <1>1, CrashStarts
<1>3. ASSUME NEW w \in Workflow, Clear(w)' PROVE SlotPart(w)'
  <2>1. ASSUME NEW q \in Proc \ {Main} PROVE ~Occupied(q, proc'[q], w)
    <3>1. CASE proc'[q] = Idle
      BY <3>1, IdleShaped
    <3>2. CASE q \in Slot /\ q \notin MainSlot /\ proc'[q] = proc[q]
      <4>1. ~Busy(q, w)
        BY <1>2, <1>3, <3>2 DEF Clear
      <4>2. QED
        BY <3>2, <4>1, BusyIsOccupied
    <3>3. QED
      BY <1>2, <3>1, <3>2
  <2>2. Occupied(Main, proc'[Main], w)
    BY <1>2, StartingShaped DEF Occupied
  <2>3. QED
    BY <2>1, <2>2, ProcNames DEF SlotPart
<1>4. MainClaims'
  <2>1. Stage(1, 0, proc'[Main].todo)
    BY <1>2, StageOne, StartingType
  <2>2. \A w, r, v : MainClaim(1, 0, r, w, v)
    BY DEF MainClaim, StageClaim, CallClaim
  <2>3. QED
    BY <2>1, <2>2 DEF MainClaims
<1>5. QED
  BY <1>3, <1>4 DEF SlotClaims

LEMMA InitClaims == Init => SlotClaims /\ MainClaims
<1>1. SUFFICES ASSUME Init PROVE SlotClaims /\ MainClaims
  OBVIOUS
<1>2. \A p \in Proc : proc[p] = Idle
  BY <1>1 DEF Init
<1>3. Base
  BY <1>1, InitBase
<1>4. ASSUME NEW w \in Workflow PROVE InOrder(View(w))
  <2>1. schedule[w] = IF Active(w) THEN Cron[row[w].def] ELSE None
    BY <1>1 DEF Init, Active
  <2>2. armed[w] = IF Active(w) THEN "on" ELSE "off"
    BY <1>1 DEF Init, Active
  <2>3. Reg(w) = IF Active(w) THEN WebhooksOf(row[w].def) ELSE {}
    <3>1. hook = UNION {Production(u) : u \in ListAllActiveWorkflowEntities}
      BY <1>1 DEF Init
    <3>2. ASSUME NEW u \in ListAllActiveWorkflowEntities
          PROVE  Active(u) /\ WebhooksOf(row[u].def) \subseteq AllWebhooks
      <4>1. Exists(u) /\ row[u].active
        BY DEF ListAllActiveWorkflowEntities, Exists
      <4>2. row[u] \in Loaded
        BY <1>3, <4>1, RowOfTable DEF Base, TypeInv
      <4>3. QED
        BY <4>1, <4>2 DEF Active, AllWebhooks, Loaded
    <3>3. Active(w) => w \in ListAllActiveWorkflowEntities
      BY DEF Active, Exists, ListAllActiveWorkflowEntities
    <3>4. ASSUME NEW h \in AllWebhooks, ForRequests(w, h) \in hook
          PROVE  Active(w) /\ h \in WebhooksOf(row[w].def)
      <4>1. PICK u \in ListAllActiveWorkflowEntities : ForRequests(w, h) \in Production(u)
        BY <3>1, <3>4
      <4>2. PICK g \in WebhooksOf(row[u].def) : ForRequests(w, h) = ForRequests(u, g)
        BY <4>1 DEF Production, ForRequests
      <4>3. w = u /\ h = g
        <5>1. PICK f : f = FALSE
          OBVIOUS
        <5>2. HookFor(w, h, f) = HookFor(u, g, f)
          BY <4>2, <5>1 DEF ForRequests
        <5>3. QED
          BY <3>2, <5>2, OneRegistration
      <4>4. QED
        BY <3>2, <4>1, <4>3
    <3>5. ASSUME Active(w), NEW h \in WebhooksOf(row[w].def)
          PROVE  h \in AllWebhooks /\ ForRequests(w, h) \in hook
      <4>1. ForRequests(w, h) \in Production(w)
        BY <3>5 DEF Production, ForRequests
      <4>2. QED
        BY <3>1, <3>2, <3>3, <3>5, <4>1
    <3>6. QED
      BY <3>4, <3>5 DEF Reg
  <2>4. Active(w) => Exists(w)
    BY DEF Active
  <2>5. QED
    BY <2>1, <2>2, <2>3, <2>4, ViewFields DEF InOrder, Whole, OnTime
<1>5. \A w \in Workflow, p \in Proc : ~Occupied(p, proc[p], w)
  BY <1>2, IdleShaped
<1>6. SlotClaims
  BY <1>4, <1>5 DEF SlotClaims, SlotPart
<1>7. MainClaims
  BY <1>2, ProcNames DEF MainClaims
<1>8. QED
  BY <1>6, <1>7

-----------------------------------------------------------------------------
(* The steps of start-up.                                                  *)

(* It is over and everything is in order, or it goes on as it should.      *)
MainOutcome ==
  \/ proc'[Main] = Idle /\ \A w \in Workflow : Clear(w)' => InOrder(View(w)')
  \/ proc'[Main] # Idle /\ MainClaims'

LEMMA AheadSplit ==
  ASSUME NEW S, NEW todo \in Seq(S), NEW n \in Nat, n > 0, n <= Len(todo), NEW c
  PROVE  /\ Pending(todo, 1, n, c) <=> Head(todo) = c \/ Pending(todo, 2, n, c)
         /\ Pending(Tail(todo), 1, n - 1, c) <=> Pending(todo, 2, n, c)
<1>1. /\ todo # <<>> /\ Len(todo) \in Nat /\ Head(todo) = todo[1]
      /\ \A i \in 1 .. Len(todo) - 1 : Tail(todo)[i] = todo[i + 1]
  <2>1. todo # <<>>
    OBVIOUS
  <2>2. QED
    BY <2>1, NonEmptySeq
<1>2. Pending(todo, 1, n, c) <=> Head(todo) = c \/ Pending(todo, 2, n, c)
  <2>1. \A i : i \in 1 .. n <=> i = 1 \/ i \in 2 .. n
    OBVIOUS
  <2>2. QED
    BY <1>1, <2>1 DEF Pending
<1>3. ASSUME Pending(Tail(todo), 1, n - 1, c) PROVE Pending(todo, 2, n, c)
  <2>1. PICK i \in 1 .. n - 1 : Tail(todo)[i] = c
    BY <1>3 DEF Pending
  <2>2. i + 1 \in 2 .. n /\ i \in 1 .. Len(todo) - 1
    BY <1>1
  <2>3. QED
    BY <1>1, <2>1, <2>2 DEF Pending
<1>4. ASSUME Pending(todo, 2, n, c) PROVE Pending(Tail(todo), 1, n - 1, c)
  <2>1. PICK i \in 2 .. n : todo[i] = c
    BY <1>4 DEF Pending
  <2>2. i - 1 \in 1 .. n - 1 /\ i - 1 \in 1 .. Len(todo) - 1 /\ (i - 1) + 1 = i
    BY <1>1
  <2>3. QED
    BY <1>1, <2>1, <2>2 DEF Pending
<1>5. QED
  BY <1>2, <1>3, <1>4

LEMMA StageLength ==
  ASSUME NEW k \in 1 .. 7, NEW n \in Nat, NEW todo \in Seq(Calls), todo # <<>>, Stage(k, n, todo)
  PROVE  /\ n <= Len(todo) /\ Len(todo) \in Nat
         /\ Len(todo) = 1 /\ n > 0 => k = 7 /\ n = 1
         /\ Len(todo) = 1 /\ n = 0 => k = 6
<1>1. CASE k = 1
  <2>1. n = 0 /\ todo = StartProgram
    BY <1>1 DEF Stage
  <2>2. Len(todo) = 5
    BY <2>1 DEF StartProgram
  <2>3. QED
    BY <2>1, <2>2
<1>2. CASE k > 1
  <2>1. Len(todo) = n + 7 - k
    BY <1>2 DEF Stage
  <2>2. QED
    BY <1>2, <2>1
<1>3. QED
  BY <1>1, <1>2

(* A call for one workflow is done: the claims for the rest.               *)
LEMMA StagePassed ==
  ASSUME NEW k \in 1 .. 7, NEW n \in Nat, n > 0, NEW r \in Processes, r.todo # <<>>, Stage(k, n, r.todo),
         NEW r2, r2.todo = Tail(r.todo), r2.seen = r.seen, r2.at = "start",
         NEW w, NEW v, StageClaim(k, 2, n, r, w, v)
  PROVE  MainClaim(k, n - 1, r2, w, v)
<1> DEFINE c == Do(Pass[k], w)
<1>1. r.todo \in Seq(Calls) /\ n <= Len(r.todo)
  BY StageLength DEF Processes
<1>2. Pending(r2.todo, 1, n - 1, c) <=> Pending(r.todo, 2, n, c)
  BY <1>1, AheadSplit
<1> HIDE DEF c
<1>3. StageClaim(k, 1, n - 1, r2, w, v)
  BY <1>2 DEF StageClaim, c
<1>4. CallClaim(k, r2, v)
  BY DEF CallClaim, Registering, Scheduling
<1>5. QED
  BY <1>3, <1>4 DEF MainClaim

LEMMA LastPassed ==
  ASSUME NEW r, NEW w, NEW v, StageClaim(7, 2, 1, r, w, v), Telling(v)
  PROVE  InOrder(v)
<1>1. ~Pending(r.todo, 2, 1, Do(Pass[7], w))
  BY DEF Pending
<1>2. /\ Whole(v)
      /\ v.active => v.open = Cron[v.def]
      /\ ~v.active => v.open = None
  BY <1>1 DEF StageClaim
<1>3. QED
  BY <1>2 DEF InOrder, OnTime, Telling

LEMMA MainReturns ==
  ASSUME Base, ArmedIsActive', proc[Main].todo # <<>>, Return(Main),
         NEW k \in 1 .. 7, NEW n \in Nat, n > 0, Stage(k, n, proc[Main].todo),
         \A w \in Workflow : Clear(w)' => StageClaim(k, 2, n, proc[Main], w, View(w)')
  PROVE  MainOutcome
<1>1. /\ ProcType /\ proc[Main] \in Processes /\ Shaped(Main, proc[Main]) /\ proc[Main].todo \in Seq(Calls)
  BY Standing, ProcNames DEF Processes
<1>2. \/ Len(proc[Main].todo) = 1 /\ proc'[Main] = Idle
      \/ Len(proc[Main].todo) > 1 /\ proc'[Main] = Returned(proc[Main], proc[Main].seen)
  BY <1>1, ProcNames, PlainReturnMoves
<1>3. CASE Len(proc[Main].todo) = 1 /\ proc'[Main] = Idle
  <2>1. k = 7 /\ n = 1
    BY <1>1, <1>3, StageLength
  <2>2. ASSUME NEW w \in Workflow, Clear(w)' PROVE InOrder(View(w)')
    <3>1. PICK v : v = View(w)'
      OBVIOUS
    <3>2. StageClaim(7, 2, 1, proc[Main], w, v) /\ Telling(v)
      BY <2>1, <2>2, <3>1, TellingView
    <3>3. QED
      BY <3>1, <3>2, LastPassed
  <2>3. QED
    BY <1>3, <2>2 DEF MainOutcome
<1>4. CASE Len(proc[Main].todo) > 1 /\ proc'[Main] = Returned(proc[Main], proc[Main].seen)
  <2>1. PICK r, r2 : r = proc[Main] /\ r2 = proc'[Main]
    OBVIOUS
  <2>2. r2.todo = Tail(r.todo) /\ r2.seen = r.seen /\ r2.at = "start" /\ r \in Processes
    BY <1>1, <1>4, <2>1 DEF Returned, Processes
  <2>3. Stage(k, n - 1, r2.todo)
    BY <1>1, <1>4, <2>1, <2>2, StageTail
  <2>4. r2 # Idle
    <3>1. Tail(proc[Main].todo) # <<>>
      BY <1>1, <1>4, LongTail
    <3>2. r2.todo # <<>>
      BY <2>1, <2>2, <3>1
    <3>3. QED
      BY <3>2, IdleType
  <2>5. ASSUME NEW w \in Workflow, Clear(w)' PROVE MainClaim(k, n - 1, r2, w, View(w)')
    <3>1. PICK v : v = View(w)'
      OBVIOUS
    <3>2. StageClaim(k, 2, n, r, w, v) /\ r.todo # <<>> /\ Stage(k, n, r.todo)
      BY <2>1, <2>5, <3>1
    <3>3. MainClaim(k, n - 1, r2, w, v)
      BY <2>2, <3>2, StagePassed
    <3>4. QED
      BY <3>1, <3>3
  <2>6. n - 1 \in Nat
    OBVIOUS
  <2>7. QED
    BY <2>1, <2>3, <2>4, <2>5, <2>6 DEF MainOutcome, MainClaims
<1>5. QED
  BY <1>2, <1>3, <1>4

(* Start-up is in stage k, and n calls for one workflow each lie ahead.    *)
AtStage(k, n) ==
  /\ proc[Main].todo # <<>> /\ Stage(k, n, proc[Main].todo)
  /\ \A w \in Workflow : Clear(w) => MainClaim(k, n, proc[Main], w, View(w))

(* What a step means for the workflow of the call it belongs to: the call  *)
(* is done, or it goes on.                                                 *)
Stays(r, r2) == r2.todo = r.todo /\ r2.seen = r.seen
OwnOutcome(k, n, r, r2, u, v) ==
  \/ Return(Main) /\ StageClaim(k, 2, n, r, u, v)
  \/ Stays(r, r2) /\ MainClaim(k, n, r2, u, v)

LEMMA StageClaimStays ==
  ASSUME NEW k, NEW m, NEW n, NEW r, NEW r2, Stays(r, r2), NEW w, NEW v
  PROVE  StageClaim(k, m, n, r2, w, v) <=> StageClaim(k, m, n, r, w, v)
BY DEF StageClaim, Stays

LEMMA OtherClaim ==
  ASSUME NEW k \in 1 .. 7, NEW n \in Nat, n > 0, NEW r \in Processes, r.todo # <<>>, Stage(k, n, r.todo),
         NEW u, u = Head(r.todo).w, NEW w, w # u, NEW v, MainClaim(k, n, r, w, v)
  PROVE  /\ StageClaim(k, 2, n, r, w, v)
         /\ \A r2 : Stays(r, r2) => MainClaim(k, n, r2, w, v)
<1> DEFINE c == Do(Pass[k], w)
<1>1. r.todo \in Seq(Calls) /\ n <= Len(r.todo)
  BY StageLength DEF Processes
<1>2. Head(r.todo) # c
  BY DEF Do, Call
<1>3. Pending(r.todo, 1, n, c) <=> Pending(r.todo, 2, n, c)
  BY <1>1, <1>2, AheadSplit
<1>4. StageClaim(k, 1, n, r, w, v)
  BY DEF MainClaim
<1>5. StageClaim(k, 2, n, r, w, v)
  <2> HIDE DEF c
  <2>1. QED
    BY <1>3, <1>4 DEF StageClaim, c
<1>6. ASSUME NEW r2, Stays(r, r2) PROVE MainClaim(k, n, r2, w, v)
  <2>1. StageClaim(k, 1, n, r2, w, v)
    BY <1>4, <1>6, StageClaimStays
  <2>2. Head(r2.todo) # c
    BY <1>2, <1>6 DEF Stays
  <2>3. QED
    BY <2>1, <2>2 DEF MainClaim
<1>7. QED
  BY <1>5, <1>6

LEMMA TailDiffers ==
  ASSUME NEW S, NEW s \in Seq(S), s # <<>>
  PROVE  Tail(s) # s
<1> DEFINE a == Len(s)
           b == Len(Tail(s))
<1>1. a \in Nat /\ b = a - 1
  BY NonEmptySeq
<1> HIDE DEF a, b
<1>2. b # a
  BY <1>1
<1>3. QED
  BY <1>2 DEF a, b

LEMMA MainGoesOn ==
  ASSUME Base, ArmedIsActive', NEW k \in 1 .. 7, NEW n \in Nat, n > 0, AtStage(k, n),
         Step(Main) \/ Fault(Main), NEW u, u = Here(Main).w,
         NEW r, r = proc[Main], NEW r2, r2 = proc'[Main], Return(Main) \/ Stays(r, r2),
         u \in Workflow /\ Clear(u)' => OwnOutcome(k, n, r, r2, u, View(u)')
  PROVE  MainOutcome
<1>1. /\ proc[Main].todo # <<>> /\ Stage(k, n, proc[Main].todo)
      /\ \A w \in Workflow : Clear(w) => MainClaim(k, n, proc[Main], w, View(w))
  BY DEF AtStage
<1>2. r \in Processes /\ r.todo # <<>> /\ Stage(k, n, r.todo) /\ u = Head(r.todo).w
  BY <1>1, Standing, ProcNames DEF Here
<1>3. ~DeleteAll(Main)
  BY <1>1, StartCall, ProcNames
<1>4. ASSUME NEW w \in Workflow, w # u, Clear(w)'
      PROVE  /\ StageClaim(k, 2, n, r, w, View(w)')
             /\ Stays(r, r2) => MainClaim(k, n, r2, w, View(w)')
  <2>1. Clear(w)
    BY <1>4, ClearBefore, ProcNames
  <2>2. View(w)' = View(w)
    BY <1>3, <1>4, ProcNames, ViewKept
  <2>3. PICK v : v = View(w)'
    OBVIOUS
  <2>4. MainClaim(k, n, r, w, v)
    BY <1>1, <2>1, <2>2, <2>3
  <2>5. /\ StageClaim(k, 2, n, r, w, v)
        /\ \A s : Stays(r, s) => MainClaim(k, n, s, w, v)
    BY <1>2, <1>4, <2>4, OtherClaim
  <2>6. QED
    BY <2>3, <2>5
<1>5. CASE Return(Main)
  <2>1. ASSUME NEW w \in Workflow, Clear(w)' PROVE StageClaim(k, 2, n, proc[Main], w, View(w)')
    <3>1. CASE w # u
      BY <1>4, <2>1, <3>1
    <3>2. CASE w = u
      <4>1. PICK v : v = View(w)'
        OBVIOUS
      <4>2. OwnOutcome(k, n, r, r2, w, v)
        BY <2>1, <3>2, <4>1
      <4>3. ~Stays(r, r2)
        <5>1. \/ r2 = Idle
              \/ r2 = Returned(r, r.seen)
          <6>1. ProcType /\ Shaped(Main, proc[Main]) /\ Main \in Proc
            BY Standing, ProcNames
          <6>2. QED
            BY <1>1, <1>5, <6>1, PlainReturnMoves
        <5>2. r2 = Idle => r2.todo # r.todo
          BY <1>2, IdleType
        <5>3. r2 = Returned(r, r.seen) => r2.todo # r.todo
          <6>1. r.todo \in Seq(Calls) /\ (r2 = Returned(r, r.seen) => r2.todo = Tail(r.todo))
            BY <1>2 DEF Returned, Processes
          <6>2. QED
            BY <1>2, <6>1, TailDiffers
        <5>4. QED
          BY <5>1, <5>2, <5>3 DEF Stays
      <4>4. QED
        BY <4>1, <4>2, <4>3 DEF OwnOutcome
    <3>3. QED
      BY <3>1, <3>2
  <2>2. QED
    BY <1>1, <1>5, <2>1, MainReturns
<1>6. CASE Stays(r, r2) /\ ~Return(Main)
  <2>1. Stage(k, n, r2.todo) /\ r2 # Idle
    BY <1>2, <1>6, IdleType DEF Stays
  <2>2. ASSUME NEW w \in Workflow, Clear(w)' PROVE MainClaim(k, n, r2, w, View(w)')
    <3>1. CASE w # u
      BY <1>4, <1>6, <2>2, <3>1
    <3>2. CASE w = u
      <4>1. PICK v : v = View(w)'
        OBVIOUS
      <4>2. OwnOutcome(k, n, r, r2, w, v)
        BY <2>2, <3>2, <4>1
      <4>3. QED
        BY <1>6, <4>1, <4>2 DEF OwnOutcome
    <3>3. QED
      BY <3>1, <3>2
  <2>3. QED
    BY <2>1, <2>2 DEF MainOutcome, MainClaims
<1>7. QED
  BY <1>5, <1>6

(* A step of a call for one workflow.                                      *)
LEMMA OwnCall ==
  ASSUME Base, NEW k \in {4, 5, 6, 7}, NEW n \in Nat, n > 0, AtStage(k, n),
         NEW r, r = proc[Main], NEW u, u = Here(Main).w, Clear(u), NEW v, v = View(u)
  PROVE  /\ r \in Processes /\ r.todo # <<>> /\ r.todo \in Seq(Calls) /\ u \in Workflow
         /\ Here(Main) = Head(r.todo) /\ Head(r.todo) = Do(Pass[k], u) /\ Head(r.todo).do = Pass[k]
         /\ Pending(r.todo, 1, n, Do(Pass[k], u))
         /\ StageClaim(k, 1, n, r, u, v) /\ CallClaim(k, r, v)
<1>1. /\ r.todo # <<>> /\ Stage(k, n, r.todo) /\ r \in Processes /\ r.todo \in Seq(Calls)
      /\ Here(Main) = Head(r.todo)
  BY Standing, ProcNames DEF AtStage, Here, Processes
<1>2. Head(r.todo).do = Pass[k] /\ Head(r.todo).w = u /\ u \in Workflow /\ ~Head(r.todo).test
  <2>1. Stage(k, n, proc[Main].todo) /\ proc[Main].todo # <<>>
    BY <1>1
  <2>2. Here(Main).do = Pass[k] /\ Here(Main).w \in Workflow /\ ~Here(Main).test
    <3>1. k \in 1 .. 7 /\ k > 2
      OBVIOUS
    <3>2. QED
      BY <2>1, <3>1, MainStage
  <2>3. QED
    BY <1>1, <2>2
<1>3. Head(r.todo) = Do(Pass[k], u)
  <2>1. Head(r.todo) \in Calls
    BY <1>1, NonEmptySeq
  <2>2. Head(r.todo).test = FALSE
    BY <1>2, <2>1 DEF Calls, WorkflowCall
  <2>3. Head(r.todo) = [do |-> Head(r.todo).do, w |-> Head(r.todo).w, test |-> Head(r.todo).test]
    BY <2>1 DEF Calls, WorkflowCall
  <2>4. QED
    BY <1>2, <2>2, <2>3 DEF Do, Call
<1>4. Pending(r.todo, 1, n, Do(Pass[k], u))
  BY <1>1, <1>3, StageLength, AheadSplit
<1>5. MainClaim(k, n, r, u, v)
  BY <1>2 DEF AtStage
<1>6. QED
  BY <1>1, <1>2, <1>3, <1>4, <1>5 DEF MainClaim

LEMMA Stayed ==
  ASSUME NEW k, NEW n, NEW r, NEW r2, NEW u, NEW v, Stays(r, r2), StageClaim(k, 1, n, r, u, v), CallClaim(k, r2, v)
  PROVE  OwnOutcome(k, n, r, r2, u, v)
BY StageClaimStays DEF OwnOutcome, MainClaim

LEMMA StillRegistering ==
  ASSUME NEW n, NEW r, NEW u, NEW v, v.active, v.reg \subseteq WebhooksOf(v.def),
         Pending(r.todo, 1, n, Do(Pass[4], u))
  PROVE  StageClaim(4, 1, n, r, u, v)
BY DEF StageClaim

LEMMA RegisteringMain ==
  ASSUME Base, ArmedIsActive, ArmedIsActive', NEW n \in Nat, n > 0, AtStage(4, n), Step(Main),
         NEW r, r = proc[Main], NEW r2, r2 = proc'[Main], NEW u, u = Here(Main).w, Clear(u), Clear(u)',
         NEW v2, v2 = View(u)'
  PROVE  OwnOutcome(4, n, r, r2, u, v2)
<1> DEFINE v == View(u)
<1>1. /\ r \in Processes /\ r.todo # <<>> /\ r.todo \in Seq(Calls) /\ u \in Workflow
      /\ Here(Main) = Head(r.todo) /\ Head(r.todo) = Do("register", u) /\ Head(r.todo).do = "register"
      /\ Pending(r.todo, 1, n, Do(Pass[4], u))
      /\ StageClaim(4, 1, n, r, u, v) /\ CallClaim(4, r, v)
  BY OwnCall DEF Pass
<1>2. v.exists = Exists(u) /\ v.active = Active(u) /\ v.reg = Reg(u) /\ (Exists(u) => v.def = row[u].def)
  BY ViewFields
<1> HIDE DEF v
<1>3. /\ v.active /\ v.reg \subseteq WebhooksOf(v.def) /\ Registering(r, v)
  <2>1. v.active
    BY <1>1 DEF StageClaim
  <2>2. QED
    BY <1>1, <2>1 DEF StageClaim, CallClaim
<1>4. Exists(u) /\ v.def = row[u].def
  BY <1>2, <1>3 DEF Active
<1>5. ~Head(r.todo).test
  BY <1>1 DEF Do, Call
<1>6. ASSUME NEW m, NEW s, NEW x, x.active, x.reg \subseteq WebhooksOf(x.def), WebhooksOf(x.def) \subseteq x.reg
      PROVE  StageClaim(4, m, n, s, u, x)
  BY <1>6 DEF StageClaim
<1>7. CASE ReadWorkflow(Main, "register")
  <2>1. v2 = v
    BY <1>7, QuietSteps, ViewSame DEF v
  <2>2. \/ Webhooks[v.def] = <<>> /\ Return(Main)
        \/ r2.left = Webhooks[v.def] /\ Stays(r, r2)
    BY <1>4, <1>7, ProcNames, ReadFields DEF Stays
  <2>3. CASE Webhooks[v.def] = <<>> /\ Return(Main)
    <3>1. WebhooksOf(v.def) = {}
      BY <2>3 DEF WebhooksOf, Range
    <3>2. StageClaim(4, 2, n, r, u, v)
      BY <1>3, <1>6, <3>1
    <3>3. QED
      BY <2>1, <2>3, <3>2 DEF OwnOutcome
  <2>4. CASE r2.left = Webhooks[v.def] /\ Stays(r, r2)
    <3>1. Registering(r2, v)
      BY <2>4 DEF Registering, WebhooksOf
    <3>2. QED
      BY <1>1, <2>1, <2>4, <3>1, Stayed DEF CallClaim
  <2>5. QED
    BY <2>2, <2>3, <2>4
<1>8. CASE SaveHook(Main)
  <2>1. PICK h, t : h = Head(r.left) /\ t = Head(r.todo).test
    OBVIOUS
  <2>2. Reg(u)' = Reg(u) \cup {h}
    <3>1. u = Here(Main).w /\ h = Head(proc[Main].left) /\ t = Here(Main).test /\ ~t
      BY <1>1, <1>5, <2>1
    <3>2. Main \in Proc /\ u \notin disturbed'
      BY ProcNames DEF Clear
    <3>3. QED
      BY <1>8, <3>1, <3>2, HookEffect
  <2>3. UNCHANGED <<row, schedule, armed>>
    BY <1>8, HookSteps, ProcNames DEF SaveHook, CreateWebhookEntity, tables
  <2>4. SameRow(v, v2) /\ v2.open = v.open /\ v2.reg = v.reg \cup {h}
    BY <1>2, <2>2, <2>3, ViewOfHooks DEF v
  <2>5. /\ r2.todo = r.todo /\ r2.seen = r.seen /\ r2.left = Tail(r.left)
        /\ r.left # <<>> /\ r.left \in Seq(AllWebhooks)
    BY <1>8, HookFields, ProcNames
  <2>6. Range(r.left) = Range(r2.left) \cup {h}
    BY <2>1, <2>5, RangeOfTail
  <2>7. /\ Range(r.left) \subseteq WebhooksOf(v.def)
        /\ WebhooksOf(v.def) \subseteq v.reg \cup Range(r.left)
    <3>1. r.at = "hooks"
      BY <1>8 DEF SaveHook, At
    <3>2. QED
      BY <1>3, <3>1 DEF Registering
  <2>8. v2.def = v.def /\ v2.active
    BY <1>3, <2>4 DEF SameRow
  <2>9. v2.reg \subseteq WebhooksOf(v2.def)
    BY <1>3, <2>4, <2>6, <2>7, <2>8
  <2>10. Registering(r2, v2)
    BY <2>4, <2>6, <2>7, <2>8 DEF Registering
  <2>11. StageClaim(4, 1, n, r, u, v2)
    BY <1>1, <2>8, <2>9, StillRegistering
  <2>12. QED
    BY <2>5, <2>10, <2>11, Stayed DEF CallClaim, Stays
<1>9. CASE UpdateStaticData(Main)
  <2>1. v2 = v
    BY <1>9, StaticView, ProcNames DEF v
  <2>2. Return(Main)
    BY <1>4, <1>9 DEF UpdateStaticData
  <2>3. r.at = "static" /\ r.left = <<>>
    BY <1>9, HookCall, ProcNames DEF UpdateStaticData
  <2>4. Range(r.left) = {}
    BY <2>3 DEF Range
  <2>5. WebhooksOf(v.def) \subseteq v.reg
    BY <1>3, <2>3, <2>4 DEF Registering
  <2>6. StageClaim(4, 2, n, r, u, v)
    BY <1>3, <1>6, <2>5
  <2>7. QED
    BY <2>1, <2>2, <2>6 DEF OwnOutcome
<1>10. QED
  BY <1>1, <1>7, <1>8, <1>9
     DEF Step, Load, Reload, SetActive, Update, DeleteRow, SetupStart, SetupTerminate, SetupExecute,
         TerminateStart, Terminate, ReadWorkflow, DeleteHook, ExpireStart, ExpireTerminate, ExpireExecute,
         UnregisterAllWebhooks, DeleteAll, RegisterAllWebhooks, TerminateAllTemporalWorkflows,
         SetupAllTemporalWorkflows, At

LEMMA LateIsWhole ==
  ASSUME NEW k \in {5, 6, 7}, NEW n, NEW r, NEW u, NEW v, StageClaim(k, 1, n, r, u, v)
  PROVE  Whole(v)
BY DEF StageClaim

LEMMA TerminatingMain ==
  ASSUME Base, ArmedIsActive, ArmedIsActive', NEW k \in {5, 6}, NEW n \in Nat, n > 0, AtStage(k, n), Step(Main),
         NEW r, r = proc[Main], NEW r2, r2 = proc'[Main], NEW u, u = Here(Main).w, Clear(u), Clear(u)',
         NEW v2, v2 = View(u)'
  PROVE  OwnOutcome(k, n, r, r2, u, v2)
<1> DEFINE v == View(u)
<1>1. /\ r \in Processes /\ r.todo # <<>> /\ r.todo \in Seq(Calls) /\ u \in Workflow
      /\ Here(Main) = Head(r.todo) /\ Head(r.todo) = Do(Pass[k], u) /\ Head(r.todo).do = "terminate"
      /\ Pending(r.todo, 1, n, Do(Pass[k], u))
      /\ StageClaim(k, 1, n, r, u, v) /\ CallClaim(k, r, v)
  BY OwnCall DEF Pass
<1>2. v.open = schedule[u]
  BY ViewFields
<1>3. TerminateStart(Main) \/ Terminate(Main)
  BY <1>1, HookCall, ProcNames
     DEF Step, Load, Reload, SetActive, Update, DeleteRow, SetupStart, SetupTerminate, SetupExecute,
         ReadWorkflow, SaveHook, DeleteHook, UpdateStaticData, ExpireStart, ExpireTerminate, ExpireExecute,
         UnregisterAllWebhooks, DeleteAll, RegisterAllWebhooks, TerminateAllTemporalWorkflows,
         SetupAllTemporalWorkflows, At
<1>4. UNCHANGED <<row, hook, armed>> /\ schedule \in [Workflow -> Crons]
  BY <1>3, QuietSteps, ScheduleSteps, ProcNames DEF Base, TypeInv
<1>5. SameRow(v, v2) /\ v2.reg = v.reg /\ v2.open = schedule'[u]
  BY <1>4, ViewOfSchedule
<1> HIDE DEF v
<1>6. Whole(v2)
  <2>1. Whole(v)
    BY <1>1, LateIsWhole
  <2>2. QED
    BY <1>5, <2>1 DEF Whole, SameRow
<1>7. ASSUME Return(Main), v2.open = None PROVE OwnOutcome(k, n, r, r2, u, v2)
  BY <1>6, <1>7 DEF OwnOutcome, StageClaim
<1>8. CASE TerminateStart(Main)
  <2>1. schedule' = schedule
    BY <1>8, QuietSteps
  <2>2. CASE schedule[u] = None
    <3>1. Return(Main)
      BY <1>8, <2>2 DEF TerminateStart
    <3>2. QED
      BY <1>5, <1>7, <2>1, <2>2, <3>1
  <2>3. CASE schedule[u] # None
    <3>1. Goto(Main, "terminate")
      BY <1>8, <2>3 DEF TerminateStart
    <3>2. Stays(r, r2)
      BY <3>1, GotoFields, ProcNames DEF Goto, Stays
    <3>3. StageClaim(k, 1, n, r, u, v2)
      <4>1. k > 4 /\ k # 7 /\ k # 3 /\ k # 4
        OBVIOUS
      <4>2. QED
        BY <1>1, <1>6, <4>1 DEF StageClaim
    <3>5. CallClaim(k, r2, v2)
      BY DEF CallClaim
    <3>4. QED
      BY <3>2, <3>3, <3>5, Stayed
  <2>4. QED
    BY <2>2, <2>3
<1>9. CASE Terminate(Main)
  <2>1. v2.open = None
    BY <1>1, <1>4, <1>5, <1>9 DEF Terminate
  <2>2. Return(Main)
    BY <1>1, <1>9 DEF Terminate, Fail
  <2>3. QED
    BY <1>7, <2>1, <2>2
<1>10. QED
  BY <1>8, <1>9, <1>3

LEMMA StillAhead ==
  ASSUME NEW n, NEW r, NEW u, NEW v, v.active, Whole(v), r.seen[u].def = v.def,
         v.open = Cron[v.def] \/ v.open = None, Pending(r.todo, 1, n, Do(Pass[7], u))
  PROVE  StageClaim(7, 1, n, r, u, v)
BY DEF StageClaim

LEMMA SetupAhead ==
  ASSUME NEW n, NEW r, NEW u, NEW v, StageClaim(7, 1, n, r, u, v), Pending(r.todo, 1, n, Do(Pass[7], u))
  PROVE  v.active /\ Whole(v) /\ r.seen[u].def = v.def /\ (v.open = Cron[v.def] \/ v.open = None)
BY DEF StageClaim

LEMMA SettingUpMain ==
  ASSUME Base, ArmedIsActive, ArmedIsActive', NEW n \in Nat, n > 0, AtStage(7, n), Step(Main),
         NEW r, r = proc[Main], NEW r2, r2 = proc'[Main], NEW u, u = Here(Main).w, Clear(u), Clear(u)',
         NEW v2, v2 = View(u)'
  PROVE  OwnOutcome(7, n, r, r2, u, v2)
<1> DEFINE v == View(u)
<1>1. /\ r \in Processes /\ r.todo # <<>> /\ r.todo \in Seq(Calls) /\ u \in Workflow
      /\ Here(Main) = Head(r.todo) /\ Head(r.todo).do = "setup"
      /\ Pending(r.todo, 1, n, Do(Pass[7], u))
      /\ StageClaim(7, 1, n, r, u, v) /\ CallClaim(7, r, v)
  BY OwnCall DEF Pass
<1>2. v.open = schedule[u]
  BY ViewFields
<1>3. SetupStart(Main) \/ SetupTerminate(Main) \/ SetupExecute(Main)
  BY <1>1, HookCall, ProcNames
     DEF Step, Load, Reload, SetActive, Update, DeleteRow, TerminateStart, Terminate,
         ReadWorkflow, SaveHook, DeleteHook, UpdateStaticData, ExpireStart, ExpireTerminate, ExpireExecute,
         UnregisterAllWebhooks, DeleteAll, RegisterAllWebhooks, TerminateAllTemporalWorkflows,
         SetupAllTemporalWorkflows, At
<1>4. UNCHANGED <<row, hook, armed>> /\ schedule \in [Workflow -> Crons]
  BY <1>3, QuietSteps, ScheduleSteps, ProcNames DEF Base, TypeInv
<1>5. SameRow(v, v2) /\ v2.reg = v.reg /\ v2.open = schedule'[u]
  BY <1>4, ViewOfSchedule
<1> HIDE DEF v
<1>6. /\ v.active /\ Whole(v) /\ Scheduling(r, v) /\ r.seen[u].def = v.def
      /\ v.open = Cron[v.def] \/ v.open = None
  <2>1. v.active /\ Whole(v) /\ r.seen[u].def = v.def /\ (v.open = Cron[v.def] \/ v.open = None)
    BY <1>1, SetupAhead
  <2>2. CallClaim(7, r, v)
    BY <1>1
  <2>3. Scheduling(r, v)
    BY <2>1, <2>2 DEF CallClaim
  <2>4. QED
    BY <2>1, <2>3
<1>7. v2.active /\ Whole(v2) /\ v2.def = v.def
  BY <1>5, <1>6 DEF Whole, SameRow
<1>8. ASSUME Return(Main), v2.open = Cron[v.def] PROVE OwnOutcome(7, n, r, r2, u, v2)
  BY <1>6, <1>7, <1>8 DEF OwnOutcome, StageClaim
<1>9. ASSUME NEW at, Goto(Main, at), v2.open = v.open \/ v2.open = None,
             at = "terminate" => v2.open # None, at = "execute" => v2.open = None
      PROVE  OwnOutcome(7, n, r, r2, u, v2)
  <2>1. Stays(r, r2) /\ r2.at = at
    BY ZenonT(40), <1>9, GotoFields, ProcNames DEF Goto, Stays
  <2>2. StageClaim(7, 1, n, r, u, v2)
    BY <1>1, <1>6, <1>7, <1>9, StillAhead
  <2>3. CallClaim(7, r2, v2)
    BY <1>9, <2>1 DEF CallClaim, Scheduling
  <2>4. QED
    BY <2>1, <2>2, <2>3, Stayed
<1>10. CASE SetupStart(Main)
  <2>1. schedule' = schedule
    BY <1>10, QuietSteps
  <2>2. CASE Cron[r.seen[u].def] = None
    <3>1. Return(Main)
      BY <1>10, <2>2 DEF SetupStart
    <3>2. QED
      BY <1>2, <1>5, <1>6, <1>8, <2>1, <2>2, <3>1
  <2>3. CASE Cron[r.seen[u].def] # None
    <3>1. Goto(Main, IF schedule[u] = None THEN "execute" ELSE "terminate")
      BY <1>10, <2>3 DEF SetupStart
    <3>2. QED
      BY <1>2, <1>5, <1>9, <2>1, <3>1
  <2>4. QED
    BY <2>2, <2>3
<1>11. CASE SetupTerminate(Main)
  <2>1. r.at = "terminate"
    BY <1>11 DEF SetupTerminate, At
  <2>2. schedule[u] # None
    BY <1>2, <1>6, <2>1 DEF Scheduling
  <2>3. schedule' = [schedule EXCEPT ![u] = None] /\ Goto(Main, "execute")
    BY <1>11, <2>2 DEF SetupTerminate
  <2>4. v2.open = None
    BY <1>1, <1>4, <1>5, <2>3
  <2>5. QED
    BY <1>9, <2>3, <2>4
<1>12. CASE SetupExecute(Main)
  <2>1. r.at = "execute"
    BY <1>12 DEF SetupExecute, At
  <2>2. schedule[u] = None
    BY <1>2, <1>6, <2>1 DEF Scheduling
  <2>3. schedule' = [schedule EXCEPT ![u] = IF @ = None THEN Cron[r.seen[u].def] ELSE @] /\ Return(Main)
    BY <1>12 DEF SetupExecute
  <2>4. v2.open = Cron[r.seen[u].def]
    BY <1>1, <1>4, <1>5, <2>2, <2>3
  <2>5. QED
    BY <1>6, <1>8, <2>3, <2>4
<1>13. QED
  BY <1>3, <1>10, <1>11, <1>12

LEMMA MainCallMoves ==
  ASSUME Base, NEW k \in 1 .. 7, NEW n \in Nat, n > 0, AtStage(k, n), Step(Main) \/ Fault(Main),
         NEW r, r = proc[Main], NEW r2, r2 = proc'[Main]
  PROVE  Return(Main) \/ Stays(r, r2)
<1>1. /\ Main \in Proc /\ proc[Main].todo # <<>> /\ proc[Main] \in Processes
      /\ ProcType /\ Shaped(Main, proc[Main])
      /\ Here(Main).do \in {"unregister", "register", "terminate", "setup"}
  <2>1. k \in {2, 4, 5, 6, 7} /\ Here(Main).do = Pass[k]
    BY MainStage DEF AtStage
  <2>2. QED
    BY <2>1, Standing, ProcNames DEF Pass, AtStage
<1>2. Fail(Main) => Return(Main)
  BY <1>1 DEF Fail
<1>3. ASSUME NEW at, Goto(Main, at) PROVE Stays(r, r2)
  BY <1>1, <1>3, GotoFields DEF Goto, Stays
<1>4. CASE Fault(Main)
  <2>1. CASE proc[Main].at = "hooks" /\ NextHook(Main)
    <3> DEFINE left == Tail(proc[Main].left)
               at == IF Len(proc[Main].left) = 1 THEN "static" ELSE "hooks"
    <3>1. proc'[Main] = [proc[Main] EXCEPT !.left = left, !.at = at]
      BY <1>1, <2>1, HookMoves
    <3> HIDE DEF left, at
    <3>2. QED
      BY <1>1, <3>1 DEF Stays, Processes
  <2>2. QED
    BY <1>2, <1>4, <2>1, FaultMoves, ProcNames
<1>5. CASE SaveHook(Main) \/ DeleteHook(Main)
  BY <1>1, <1>5, HookFields DEF Stays
<1>6. CASE ReadWorkflow(Main, "register") \/ ReadWorkflow(Main, "unregister")
  <2>1. PICK do \in {"register", "unregister"} : ReadWorkflow(Main, do)
    BY <1>6
  <2>2. QED
    BY <1>1, <1>2, <2>1, ReadFields DEF Stays
<1>7. CASE UpdateStaticData(Main)
  BY <1>2, <1>7 DEF UpdateStaticData
<1>8. CASE TerminateStart(Main) \/ Terminate(Main)
  BY <1>2, <1>3, <1>8 DEF TerminateStart, Terminate
<1>9. CASE SetupStart(Main)
  BY <1>3, <1>9 DEF SetupStart
<1>10. CASE SetupTerminate(Main)
  BY <1>2, <1>3, <1>10 DEF SetupTerminate
<1>11. CASE SetupExecute(Main)
  BY <1>11 DEF SetupExecute
<1>12. QED
  BY <1>1, <1>4, <1>5, <1>6, <1>7, <1>8, <1>9, <1>10, <1>11
     DEF Step, Load, Reload, SetActive, Update, DeleteRow, ExpireStart, ExpireTerminate, ExpireExecute,
         UnregisterAllWebhooks, DeleteAll, RegisterAllWebhooks, TerminateAllTemporalWorkflows,
         SetupAllTemporalWorkflows, At

LEMMA CallsKeep ==
  ASSUME Base, ArmedIsActive, ArmedIsActive', NEW k \in 1 .. 7, NEW n \in Nat, n > 0, AtStage(k, n),
         Step(Main) \/ Fault(Main)
  PROVE  MainOutcome
<1>1. PICK r, r2, u : r = proc[Main] /\ r2 = proc'[Main] /\ u = Here(Main).w
  OBVIOUS
<1>2. Return(Main) \/ Stays(r, r2)
  BY <1>1, MainCallMoves
<1>3. k \in {2, 4, 5, 6, 7}
  BY MainStage DEF AtStage
<1>4. ASSUME u \in Workflow, Clear(u)' PROVE OwnOutcome(k, n, r, r2, u, View(u)')
  <2>1. PICK v2 : v2 = View(u)'
    OBVIOUS
  <2>2. Clear(u) /\ Step(Main)
    BY <1>1, <1>4, ClearBefore, FaultDisturbs, ProcNames DEF Clear
  <2>3. CASE k = 2
    BY <1>2, <2>1, <2>3 DEF OwnOutcome, MainClaim, StageClaim, CallClaim
  <2>4. CASE k = 4
    <3>1. AtStage(4, n)
      BY <2>4
    <3>2. OwnOutcome(4, n, r, r2, u, v2)
      BY <1>1, <1>4, <2>1, <2>2, <3>1, RegisteringMain
    <3>3. QED
      BY <2>1, <2>4, <3>2
  <2>5. CASE k \in {5, 6}
    <3>1. OwnOutcome(k, n, r, r2, u, v2)
      BY <1>1, <1>4, <2>1, <2>2, <2>5, TerminatingMain
    <3>2. QED
      BY <2>1, <3>1
  <2>6. CASE k = 7
    <3>1. AtStage(7, n)
      BY <2>6
    <3>2. OwnOutcome(7, n, r, r2, u, v2)
      BY <1>1, <1>4, <2>1, <2>2, <3>1, SettingUpMain
    <3>3. QED
      BY <2>1, <2>6, <3>2
  <2>7. QED
    BY <1>3, <2>3, <2>4, <2>5, <2>6
<1>5. QED
  BY <1>1, <1>2, <1>4, MainGoesOn

(* A step from one stage to the next.                                      *)
LEMMA StageBegins ==
  ASSUME NEW k \in {3, 4, 5, 6}, NEW n, NEW r, NEW r2, NEW w, NEW v,
         StageClaim(k, 1, 0, r, w, v), r2.at = "start",
         k \in {3, 6} => (Pending(r2.todo, 1, n, Do(Pass[k + 1], w)) <=> v.active),
         k = 5 => (Pending(r2.todo, 1, n, Do(Pass[k + 1], w)) <=> v.open # None),
         k = 6 /\ v.active => r2.seen[w].def = v.def
  PROVE  MainClaim(k + 1, n, r2, w, v)
<1>1. ~Pending(r.todo, 1, 0, Do(Pass[k], w))
  BY DEF Pending
<1>2. CallClaim(k + 1, r2, v)
  BY DEF CallClaim, Registering, Scheduling
<1>3. CASE k = 3
  <2>1. v.reg = {}
    BY <1>3 DEF StageClaim
  <2>2. Pending(r2.todo, 1, n, Do(Pass[4], w)) <=> v.active
    BY <1>3
  <2>3. StageClaim(4, 1, n, r2, w, v)
    BY <2>1, <2>2 DEF StageClaim
  <2>4. QED
    BY <1>2, <1>3, <2>3 DEF MainClaim
<1>4. CASE k = 4
  <2>1. Whole(v)
    BY <1>1, <1>4 DEF StageClaim, Whole
  <2>2. StageClaim(5, 1, n, r2, w, v)
    BY <2>1 DEF StageClaim
  <2>3. QED
    BY <1>2, <1>4, <2>2 DEF MainClaim
<1>5. CASE k = 5
  <2>1. Whole(v) /\ (Pending(r2.todo, 1, n, Do(Pass[6], w)) <=> v.open # None)
    BY <1>5 DEF StageClaim
  <2>2. StageClaim(6, 1, n, r2, w, v)
    BY <2>1 DEF StageClaim
  <2>3. QED
    BY <1>2, <1>5, <2>2 DEF MainClaim
<1>6. CASE k = 6
  <2>1. Whole(v) /\ v.open = None
    BY <1>1, <1>6 DEF StageClaim
  <2>2. /\ Pending(r2.todo, 1, n, Do(Pass[7], w)) <=> v.active
        /\ v.active => r2.seen[w].def = v.def
    BY <1>6
  <2>3. StageClaim(7, 1, n, r2, w, v)
    BY <2>1, <2>2 DEF StageClaim
  <2>4. QED
    BY <1>2, <1>6, <2>3 DEF MainClaim
<1>7. QED
  BY <1>3, <1>4, <1>5, <1>6

LEMMA ListingKeeps ==
  ASSUME Base, ArmedIsActive', NEW k \in {1, 3, 4, 5, 6}, AtStage(k, 0), Step(Main),
         UNCHANGED <<row, hook, schedule, armed>>, NEW ws, ListedFor(k, ws),
         k \in {3, 6} => ws = ListAllActiveWorkflowEntities,
         k \in {4, 5} => ws = {w \in Workflow : schedule[w] # None}
  PROVE  MainOutcome
<1>1. PICK r, r2 : r = proc[Main] /\ r2 = proc'[Main]
  OBVIOUS
<1>2. ASSUME NEW w \in Workflow, Clear(w)'
      PROVE  /\ View(w)' = View(w) /\ Telling(View(w)) /\ MainClaim(k, 0, r, w, View(w))
             /\ View(w).open = schedule[w] /\ (k \in {3, 6} => (View(w).active <=> w \in ws))
             /\ w \in ws /\ k = 6 => Exists(w) /\ View(w).def = row[w].def
  <2>1. Clear(w)
    BY <1>2, ClearBefore, ProcNames
  <2>2. View(w)' = View(w) /\ View(w).open = schedule[w] /\ View(w).active = Active(w)
    BY ViewSame, ViewFields
  <2>3. Telling(View(w)')
    BY <1>2, TellingView
  <2>4. w \in ListAllActiveWorkflowEntities <=> Active(w)
    BY DEF ListAllActiveWorkflowEntities, Active, Exists
  <2>5. w \in ListAllActiveWorkflowEntities => Exists(w) /\ View(w).def = row[w].def
    BY <2>4, ViewFields DEF Active
  <2>6. QED
    BY <1>1, <2>1, <2>2, <2>3, <2>4, <2>5 DEF AtStage
<1>3. CASE r2 = Idle /\ k = 6 /\ ws = {}
  <2>1. ASSUME NEW w \in Workflow, Clear(w)' PROVE InOrder(View(w)')
    <3>1. PICK v : v = View(w)'
      OBVIOUS
    <3>2. v = View(w) /\ Telling(v) /\ MainClaim(6, 0, r, w, v) /\ ~v.active
      BY <1>2, <1>3, <2>1, <3>1
    <3>3. ~Pending(r.todo, 1, 0, Do(Pass[6], w))
      BY DEF Pending
    <3>4. Whole(v) /\ v.open = None
      BY <3>2, <3>3 DEF MainClaim, StageClaim
    <3>5. InOrder(v)
      BY <3>2, <3>4 DEF InOrder, OnTime, Telling
    <3>6. QED
      BY <3>1, <3>5
  <2>2. QED
    BY <1>1, <1>3, <2>1 DEF MainOutcome
<1>4. CASE r2 # Idle /\ r2.at = "start"
  <2>1. PICK n \in Nat :
          /\ Stage(k + 1, n, r2.todo)
          /\ k > 1 => \A w \in Workflow :
               w \in ws <=> \E i \in 1 .. n : r2.todo[i] = Do(Pass[k + 1], w)
    BY <1>1, <1>4 DEF ListedFor
  <2>2. r2.seen = [w \in Workflow |-> IF w \in ws /\ Exists(w) THEN row[w] ELSE None]
    BY <1>1, <1>4 DEF ListedFor
  <2>3. ASSUME NEW w \in Workflow, Clear(w)' PROVE MainClaim(k + 1, n, r2, w, View(w)')
    <3>1. PICK v : v = View(w)'
      OBVIOUS
    <3>2. /\ v = View(w) /\ Telling(v) /\ MainClaim(k, 0, r, w, v) /\ v.open = schedule[w]
          /\ (k \in {3, 6} => (v.active <=> w \in ws))
          /\ w \in ws /\ k = 6 => Exists(w) /\ v.def = row[w].def
      BY <1>2, <2>3, <3>1
    <3>3. CASE k = 1
      BY <3>1, <3>3 DEF MainClaim, StageClaim, CallClaim
    <3>4. CASE k # 1
      <4>1. StageClaim(k, 1, 0, r, w, v)
        BY <3>2 DEF MainClaim
      <4>2. Pending(r2.todo, 1, n, Do(Pass[k + 1], w)) <=> w \in ws
        BY <2>1, <3>4 DEF Pending
      <4>3. k = 6 /\ v.active => r2.seen[w].def = v.def
        BY <2>2, <3>2
      <4>4. k = 5 => (w \in ws <=> v.open # None)
        BY <3>2
      <4>5. MainClaim(k + 1, n, r2, w, v)
        BY <1>4, <3>2, <3>4, <4>1, <4>2, <4>3, <4>4, StageBegins
      <4>6. QED
        BY <3>1, <4>5
    <3>5. QED
      BY <3>3, <3>4
  <2>4. k + 1 \in 1 .. 7
    OBVIOUS
  <2>5. QED
    BY <1>1, <1>4, <2>1, <2>3, <2>4 DEF MainOutcome, MainClaims
<1>5. QED
  BY <1>1, <1>3, <1>4 DEF ListedFor

(* With no registration left start-up goes on to register them all anew.   *)
LEMMA ClearedKeeps ==
  ASSUME Base, NEW k \in {1, 2}, AtStage(k, 0), Return(Main), hook' = {}
  PROVE  MainOutcome
<1>1. /\ ProcType /\ proc[Main] \in Processes /\ Shaped(Main, proc[Main]) /\ proc[Main].todo \in Seq(Calls)
      /\ Main \in Proc /\ proc[Main].todo # <<>> /\ Stage(k, 0, proc[Main].todo)
  BY Standing, ProcNames DEF Processes, AtStage
<1>2. Len(proc[Main].todo) # 1
  <2>1. PICK n \in Nat, todo \in Seq(Calls) : n = 0 /\ todo = proc[Main].todo
    BY <1>1
  <2>2. Stage(k, n, todo) /\ todo # <<>> /\ k \in 1 .. 7 /\ k # 6
    BY <1>1, <2>1
  <2>3. Len(todo) = 1 /\ n = 0 => k = 6
    BY <2>2, StageLength
  <2>4. QED
    BY <2>1, <2>2, <2>3
<1>3. Len(proc[Main].todo) > 1 /\ proc'[Main] = Returned(proc[Main], proc[Main].seen)
  BY <1>1, <1>2, PlainReturnMoves
<1>4. proc'[Main].todo = Tail(proc[Main].todo)
  BY <1>1, <1>3 DEF Returned, Processes
<1>5. Stage(3, 0, proc'[Main].todo)
  <2>1. PICK n \in Nat, todo \in Seq(Calls) : n = 0 /\ todo = proc[Main].todo
    BY <1>1
  <2>2. Stage(k, n, todo) /\ Len(todo) > 1 /\ k \in 1 .. 7
    BY <1>1, <1>3, <2>1
  <2>3. Stage(IF k = 1 THEN 3 ELSE k + 1, 0, Tail(todo))
    BY <2>1, <2>2, StageTail
  <2>4. (IF k = 1 THEN 3 ELSE k + 1) = 3
    OBVIOUS
  <2>5. QED
    BY <1>4, <2>1, <2>3, <2>4
<1>6. proc'[Main] # Idle
  BY <1>1, <1>3, <1>4, LongTail, IdleType
<1>7. ASSUME NEW w \in Workflow PROVE MainClaim(3, 0, proc'[Main], w, View(w)')
  <2>1. PICK v, r : v = View(w)' /\ r = proc'[Main]
    OBVIOUS
  <2>2. v.reg = {}
    BY <2>1 DEF View, Reg
  <2>3. MainClaim(3, 0, r, w, v)
    BY <2>2 DEF MainClaim, StageClaim, CallClaim
  <2>4. QED
    BY <2>1, <2>3
<1>8. QED
  BY <1>5, <1>6, <1>7 DEF MainOutcome, MainClaims

LEMMA ListsKeep ==
  ASSUME Base, ArmedIsActive', NEW k \in 1 .. 7, AtStage(k, 0), Step(Main)
  PROVE  MainOutcome
<1>1. Stage(k, 0, proc[Main].todo) /\ proc[Main].todo # <<>> /\ Main \in Proc
  BY ProcNames DEF AtStage
<1>2. Here(Main).do \in StartCalls
  <2>1. k < 7 /\ Here(Main) = Do(Sequel[k], None)
    BY <1>1, MainStage
  <2>2. QED
    BY <2>1 DEF Do, Call, Sequel, StartCalls
<1>3. CASE UnregisterAllWebhooks(Main)
  <2>1. k = 1 /\ UNCHANGED <<row, hook, schedule, armed>>
    BY <1>1, <1>3, StartCall, QuietSteps
  <2>2. CASE hook = {} /\ Return(Main)
    BY <2>1, <2>2, ClearedKeeps
  <2>3. CASE ListedFor(1, ListDistinctWorkflowIdsFromWebhookEntities)
    BY <2>1, <2>3, ListingKeeps
  <2>4. QED
    BY <1>1, <1>3, <2>2, <2>3, ListingSteps
<1>4. CASE DeleteAll(Main)
  <2>1. k = 2 /\ Return(Main) /\ hook' = {}
    BY <1>1, <1>4, StartCall DEF DeleteAll, DeleteAllWebhookEntities
  <2>2. QED
    BY <2>1, ClearedKeeps
<1>5. CASE RegisterAllWebhooks(Main)
  <2>1. k = 3 /\ UNCHANGED <<row, hook, schedule, armed>>
    BY <1>1, <1>5, StartCall, QuietSteps
  <2>2. ListedFor(3, ListAllActiveWorkflowEntities)
    BY <1>1, <1>5, ListingSteps
  <2>3. QED
    BY <2>1, <2>2, ListingKeeps
<1>6. CASE TerminateAllTemporalWorkflows(Main)
  <2>1. k \in {4, 5} /\ UNCHANGED <<row, hook, schedule, armed>>
    BY <1>1, <1>6, StartCall, QuietSteps
  <2>2. ListedFor(k, {w \in Workflow : schedule[w] # None})
    BY <1>1, <1>6, ListingSteps
  <2>3. QED
    BY <2>1, <2>2, ListingKeeps
<1>7. CASE SetupAllTemporalWorkflows(Main)
  <2>1. k = 6 /\ UNCHANGED <<row, hook, schedule, armed>>
    BY <1>1, <1>7, StartCall, QuietSteps
  <2>2. ListedFor(6, ListAllActiveWorkflowEntities)
    BY <1>1, <1>7, ListingSteps
  <2>3. QED
    BY <2>1, <2>2, ListingKeeps
<1>8. QED
  BY <1>2, <1>3, <1>4, <1>5, <1>6, <1>7, HookCall, ProcNames
     DEF Step, Load, Reload, SetActive, Update, DeleteRow, SetupStart, SetupTerminate, SetupExecute,
         TerminateStart, Terminate, ReadWorkflow, SaveHook, DeleteHook, UpdateStaticData,
         ExpireStart, ExpireTerminate, ExpireExecute, At, StartCalls

(* Faults before the calls for the workflows disturb them all.             *)
LEMMA FaultKeeps ==
  ASSUME Base, NEW k \in 1 .. 7, AtStage(k, 0), Fault(Main)
  PROVE  MainOutcome
<1>1. k < 7 /\ Here(Main) = Do(Sequel[k], None)
  BY MainStage DEF AtStage
<1>2. Here(Main).w = None
  BY <1>1 DEF Do, Call
<1>3. \A w \in Workflow : ~Clear(w)'
  BY <1>2, FaultDisturbs, ProcNames DEF Clear
<1>4. Shaped(Main, proc'[Main])
  BY FaultMoves, ProcNames DEF Moved
<1>5. CASE proc'[Main] = Idle
  BY <1>3, <1>5 DEF MainOutcome
<1>6. CASE proc'[Main] # Idle
  <2>1. PICK l \in 1 .. 7, n \in Nat : Stage(l, n, proc'[Main].todo)
    BY <1>4, <1>6 DEF Shaped
  <2>2. QED
    BY <1>3, <1>6, <2>1 DEF MainOutcome, MainClaims
<1>7. QED
  BY <1>5, <1>6

LEMMA MainStep ==
  ASSUME TInv, ArmedIsActive', Step(Main) \/ Fault(Main)
  PROVE  MainOutcome
<1>1. Base /\ ArmedIsActive /\ MainClaims /\ proc[Main].todo # <<>>
  BY StepMoves, ProcNames DEF TInv, IInv
<1>2. PICK k \in 1 .. 7, n \in Nat : AtStage(k, n)
  BY <1>1, IdleType DEF MainClaims, AtStage
<1>3. CASE n > 0
  BY <1>1, <1>2, <1>3, CallsKeep
<1>4. CASE n = 0
  <2>1. AtStage(k, 0)
    BY <1>2, <1>4
  <2>2. QED
    BY <1>1, <2>1, ListsKeep, FaultKeeps
<1>5. QED
  BY <1>3, <1>4

LEMMA MainKeeps ==
  ASSUME TInv, ArmedIsActive', Step(Main) \/ Fault(Main)
  PROVE  SlotClaims' /\ MainClaims'
<1>1. Base /\ Exclusive /\ MainOutcome
  BY MainStep DEF TInv, IInv
<1>2. Moved(Main) /\ proc[Main].todo # <<>> /\ Main \in Proc /\ Main \notin Workflow
  BY <1>1, StepMoves, ProcNames
<1>3. /\ proc[Main] # Idle
      /\ \A q \in Proc \ {Main} : proc'[q] = proc[q]
  BY <1>2, IdleType DEF Moved
<1>4. ASSUME NEW w \in Workflow, Clear(w)', NEW q \in Proc \ {Main}
      PROVE  ~Occupied(q, proc'[q], w)
  <2>1. Clear(w) /\ Occupied(Main, proc[Main], w)
    BY <1>1, <1>2, <1>3, <1>4, ClearBefore DEF Occupied
  <2>2. ~Occupied(q, proc[q], w)
    BY <1>1, <1>2, <2>1 DEF Exclusive, Clear
  <2>3. QED
    BY <1>3, <2>2
<1>5. MainClaims'
  BY <1>1 DEF MainOutcome, MainClaims
<1>6. ASSUME NEW w \in Workflow, Clear(w)' PROVE SlotPart(w)'
  <2>1. CASE proc'[Main] = Idle
    <3>1. InOrder(View(w)')
      BY <1>1, <1>6, <2>1, IdleType DEF MainOutcome
    <3>2. QED
      BY <1>4, <1>6, <3>1 DEF SlotPart
  <2>2. CASE proc'[Main] # Idle
    <3>1. Occupied(Main, proc'[Main], w)
      BY <2>2 DEF Occupied
    <3>2. QED
      BY <1>2, <1>4, <1>6, <3>1 DEF SlotPart
  <2>3. QED
    BY <2>1, <2>2
<1>7. QED
  BY <1>5, <1>6 DEF SlotClaims

-----------------------------------------------------------------------------
LEMMA InitTInv == Init => TInv
BY InitIInv, InitArmed, InitClaims DEF TInv

LEMMA NextTInv == TInv /\ [Next]_vars => TInv'
<1> SUFFICES ASSUME TInv, [Next]_vars PROVE TInv'
  OBVIOUS
<1>1. IInv' /\ ArmedIsActive'
  BY NextIInv, NextArmed DEF TInv, IInv
<1>2. ASSUME NEW p \in Proc, Step(p) \/ Fault(p) PROVE SlotClaims' /\ MainClaims'
  <2>1. CASE p = Main
    <3>1. Step(Main) \/ Fault(Main)
      BY <1>2, <2>1
    <3>2. QED
      BY <1>1, <3>1, MainKeeps
  <2>2. CASE p # Main
    BY <1>1, <1>2, <2>2, SlotKeeps
  <2>3. QED
    BY <2>1, <2>2
<1>3. CASE UNCHANGED vars
  <2>1. UNCHANGED <<row, hook, schedule, armed, disturbed, proc>>
    BY <1>3 DEF vars, tables, history, temporal
  <2>2. \A w : View(w)' = View(w) /\ (Clear(w)' <=> Clear(w))
    BY <2>1, ViewSame DEF Clear
  <2>3. \A w : SlotPart(w) => SlotPart(w)'
    BY <2>1, <2>2 DEF SlotPart
  <2>4. SlotClaims'
    BY <2>2, <2>3 DEF TInv, SlotClaims
  <2>5. MainClaims'
    <3>1. SUFFICES ASSUME proc[Main] # Idle PROVE MainClaims'
      BY <2>1 DEF MainClaims
    <3>2. PICK k \in 1 .. 7, n \in Nat :
            /\ Stage(k, n, proc[Main].todo)
            /\ \A w \in Workflow : Clear(w) => MainClaim(k, n, proc[Main], w, View(w))
      BY <3>1 DEF TInv, MainClaims
    <3>3. ASSUME NEW w \in Workflow, Clear(w)' PROVE MainClaim(k, n, proc'[Main], w, View(w)')
      BY <2>1, <2>2, <3>2, <3>3
    <3>4. QED
      BY <2>1, <3>2, <3>3 DEF MainClaims
  <2>6. QED
    BY <1>1, <2>4, <2>5 DEF TInv
<1>4. CASE Next
  <2>1. ASSUME NEW p \in Slot, NEW op \in Ops, NEW w \in Workflow, Request(p, op, w)
        PROVE  SlotClaims' /\ MainClaims'
    BY <2>1, RequestKeeps
  <2>2. ASSUME NEW w \in Workflow, NEW active \in BOOLEAN, NEW d \in Definition,
               CreateWorkflow(w, active, d)
        PROVE  SlotClaims' /\ MainClaims'
    BY <2>2, CreateKeepsClaims
  <2>3. ASSUME NEW w \in Workflow, Wake(w) PROVE SlotClaims' /\ MainClaims'
    BY <2>3, WakeKeeps
  <2>4. SlotClaims' /\ MainClaims'
    BY <1>2, <1>4, <2>1, <2>2, <2>3, CrashKeeps DEF Next
  <2>5. QED
    BY <1>1, <2>4 DEF TInv
<1>5. QED
  BY <1>3, <1>4

(* Between its handlers' calls every workflow that was left undisturbed    *)
(* has its triggers in order, or the one process that is about it, a       *)
(* request, an activity or start-up, has that left to do which puts them   *)
(* in order.                                                               *)
THEOREM TriggersInOrder == Spec => []TInv
BY InitTInv, NextTInv, PTL DEF Spec

LEMMA SettledInOrder ==
  ASSUME TInv, NEW w \in Workflow, Settled(w)
  PROVE  InOrder(View(w)) /\ armed[w] # "lost" /\ (armed[w] # "off" <=> Active(w))
<1>1. Clear(w) /\ \A p \in Proc : ~Occupied(p, proc[p], w)
  BY BusyIsOccupied DEF Settled, Clear
<1>2. QED
  BY <1>1 DEF TInv, ArmedIsActive, SlotClaims, SlotPart, Clear

(* Two webhooks of one definition that share their id share their method:  *)
(* an id belongs to one node, which has one method.                        *)
OneMethod ==
  \A d \in Definition : \A g, h \in WebhooksOf(d) : g.id = h.id => g = h

LEMMA SettledWebhooks ==
  ASSUME TInv, OneMethod, NEW w \in Workflow, Settled(w), Exists(w), NEW h \in AllWebhooks
  PROVE  Accepts(w, h, FALSE) <=> armed[w] # "off" /\ h \in WebhooksOf(row[w].def)
<1> DEFINE found == GetWebhookEntity(w, h.id, FALSE)
<1>1. InOrder(View(w)) /\ (armed[w] # "off" <=> Active(w))
  BY SettledInOrder
<1>2. Reg(w) = IF Active(w) THEN WebhooksOf(row[w].def) ELSE {}
  BY <1>1, ViewFields DEF InOrder, Whole
<1>3. \A g \in AllWebhooks : g \in Reg(w) <=> HookFor(w, g, FALSE) \in hook
  BY DEF Reg, ForRequests
<1>4. \A g \in AllWebhooks, t \in BOOLEAN :
        /\ HookFor(w, g, t).workflow = w /\ HookFor(w, g, t).method = g.method
        /\ HookFor(w, g, t).path.id = g.id /\ HookFor(w, g, t).path.test = t
  BY DEF HookFor, Path
<1>5. ASSUME NEW f \in found
      PROVE  \E g \in Reg(w) : g.id = h.id /\ f = HookFor(w, g, FALSE)
  <2>1. f \in hook /\ f.workflow = w /\ f.path = Path(h.id, FALSE)
    BY <1>5 DEF GetWebhookEntity, ListWebhookEntities
  <2>2. PICK v \in Workflow, g \in AllWebhooks, t \in BOOLEAN : f = HookFor(v, g, t)
    BY <2>1 DEF TInv, IInv, Base, TypeInv
  <2>3. f.workflow = v /\ f.path.id = g.id /\ f.path.test = t
    BY <2>2 DEF HookFor, Path
  <2>4. v = w /\ g.id = h.id /\ ~t
    <3>1. Path(h.id, FALSE).id = h.id /\ ~Path(h.id, FALSE).test
      BY DEF Path
    <3>2. f.path.id = h.id /\ ~f.path.test
      BY <2>1, <3>1
    <3>3. QED
      BY <2>1, <2>3, <3>2
  <2>5. f = HookFor(w, g, FALSE)
    BY <2>2, <2>4
  <2>6. g \in Reg(w)
    BY <1>3, <2>1, <2>5
  <2>7. QED
    BY <2>4, <2>5, <2>6
<1>6. ASSUME Accepts(w, h, FALSE) PROVE armed[w] # "off" /\ h \in WebhooksOf(row[w].def)
  <2>1. PICK f \in found : f.method = h.method
    BY <1>6 DEF Accepts
  <2>2. PICK g \in Reg(w) : g.id = h.id /\ f = HookFor(w, g, FALSE)
    BY <1>5
  <2>3. g \in AllWebhooks
    BY <2>2 DEF Reg
  <2>4. g.method = h.method
    BY <1>4, <2>1, <2>2, <2>3
  <2>5. g = h
    <3>1. g = [id |-> g.id, method |-> g.method] /\ h = [id |-> h.id, method |-> h.method]
      BY <2>3, StoreAssumption
    <3>2. QED
      BY <2>2, <2>4, <3>1
  <2>6. QED
    BY <1>1, <1>2, <2>2, <2>5
<1>7. ASSUME armed[w] # "off", h \in WebhooksOf(row[w].def) PROVE Accepts(w, h, FALSE)
  <2>1. Active(w) /\ Reg(w) = WebhooksOf(row[w].def)
    BY <1>1, <1>2, <1>7
  <2>2. row[w].def \in Definition
    BY RowOfTable DEF TInv, IInv, Base, TypeInv, Loaded
  <2>3. HookFor(w, h, FALSE) \in found
    <3>1. PICK f : f = HookFor(w, h, FALSE)
      OBVIOUS
    <3>2. f.workflow = w /\ f.path = Path(h.id, FALSE) /\ Path(h.id, FALSE).id = h.id
      BY <3>1 DEF HookFor, Path
    <3>3. f \in hook
      BY <1>3, <1>7, <2>1, <3>1
    <3>4. f \in found
      BY <3>2, <3>3 DEF GetWebhookEntity, ListWebhookEntities
    <3>5. QED
      BY <3>1, <3>4
  <2>4. ASSUME NEW f \in found PROVE f.method = h.method
    <3>1. PICK g \in Reg(w) : g.id = h.id /\ f = HookFor(w, g, FALSE)
      BY <1>5
    <3>2. g = h
      BY <1>7, <2>1, <2>2, <3>1 DEF OneMethod
    <3>3. QED
      BY <1>4, <3>1, <3>2
  <2>5. QED
    BY <1>7, <2>3, <2>4 DEF Accepts
<1>8. QED
  BY <1>6, <1>7

(* An activated workflow is reached by production requests through exactly *)
(* the webhooks of its nodes as they are now, a deactivated one through    *)
(* none, once the requests about it are answered and none of them          *)
(* overlapped or failed, whatever other requests, start-ups and crashes    *)
(* did meanwhile.                                                          *)
THEOREM WebhooksFollow ==
  ASSUME OneMethod
  PROVE  Spec => []WebhooksFollowActivation
<1>1. TInv => WebhooksFollowActivation
  BY SettledWebhooks DEF WebhooksFollowActivation
<1>2. QED
  BY <1>1, TriggersInOrder, PTL

(* Such a workflow has its cron workflow open on Temporal iff it is active *)
(* and has a schedule; the schedule it had last is terminated.             *)
THEOREM ScheduleFollows == Spec => []ScheduleFollowsActivation
<1>1. TInv => ScheduleFollowsActivation
  <2> SUFFICES ASSUME TInv, NEW w \in Workflow, Settled(w)
               PROVE  /\ armed[w] = "off" => schedule[w] = None
                      /\ armed[w] = "on" => schedule[w] = Cron[row[w].def]
    BY DEF ScheduleFollowsActivation
  <2>1. InOrder(View(w)) /\ (armed[w] # "off" <=> Active(w))
    BY SettledInOrder
  <2>2. Active(w) => View(w).def = row[w].def
    BY ViewFields DEF Active
  <2>3. QED
    BY <2>1, <2>2, ViewFields DEF InOrder, OnTime
<1>2. QED
  BY <1>1, TriggersInOrder, PTL
=============================================================================
