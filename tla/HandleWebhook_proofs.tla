------------------------ MODULE HandleWebhook_proofs ------------------------
(***************************************************************************)
(* Proofs about HandleWebhook, for any number of requests in any mode.     *)
(*                                                                         *)
(* The invariant follows one request through its handler, its goroutine,   *)
(* the request that stops it and sendOnce (Phase); the wait group is the   *)
(* only thing executions share (Counted).                                  *)
(***************************************************************************)
EXTENDS HandleWebhook, FiniteSetTheorems, TLAPS

(* Which positions of handler, goroutine, stop and sendOnce go together.   *)
Phase(e) ==
  /\ mode[e] # "responseNode" => once[e] = "new"
  /\ handler[e] \in {"idle", "adding", "unused", "added"} <=> worker[e] = "none" /\ handler[e] # "returned"
  /\ worker[e] = "none" => once[e] = "new"
  /\ once[e] = "sending" =>
       worker[e] = "running" /\ handler[e] \in {"spawned", "found", "waiting", "answering"}
  /\ once[e] = "leaving" => worker[e] = "running" /\ handler[e] = "answering"
  /\ once[e] = "done" => handler[e] \in {"answering", "returned"}
  /\ (handler[e] = "returned" /\ mode[e] = "responseNode" /\ once[e] = "new") =>
       worker[e] \notin {"running", "returned"}
  /\ e \in hasRun => handler[e] \in {"waiting", "answering", "returned"}
  /\ stop[e] \in {"cancelled", "stopped"} => e \in hasRun
  /\ outcome[e] = "none" <=> worker[e] \in {"none", "running"}
  /\ handler[e] = "adding" => mode[e] = "form"
  /\ handler[e] = "unused" => mode[e] = "inline"
  /\ handler[e] = "idle" => mode[e] = "inline"

(* What has been written.                                                  *)
Answered(e) ==
  /\ (once[e] = "new" /\ handler[e] # "returned") => written[e] = <<>>
  /\ once[e] # "new" \/ handler[e] = "returned" =>
       \E response \in Responses : written[e] = <<response>>

(* What the handler is about to answer.                                    *)
True(e, a) ==
  /\ a = "default" => outcome[e] = "data"
  /\ a = "dataError" => outcome[e] = "dataError"
  /\ a = "error" => outcome[e] \in {"err", "panic"} \/ e \in cancelled

Intended(e) ==
  handler[e] = "answering" =>
    answer[e] # "none" /\ (True(e, answer[e]) \/ once[e] \in {"leaving", "done"})

(* What was answered.                                                      *)
Truthful(e) == \A a \in Responses : written[e] = <<a>> => True(e, a)

(* Whether the registry lists it.                                          *)
Listed(e) ==
  /\ handler[e] \in {"idle", "adding"} => e \notin listed
  /\ handler[e] = "added" => e \in listed
  /\ (worker[e] \in {"running", "returned"} /\ stop[e] # "stopped") => e \in listed
  /\ worker[e] \in {"sending", "sent", "over"} => e \notin listed
  /\ handler[e] = "returned" /\ worker[e] = "none" /\ e \in listed => mode[e] = "inline"

Flying == {e \in Exec : InFlight(e)}

Counted == IsFiniteSet(Flying) /\ waitGroup = Cardinality(Flying)

Consistent(e) == Phase(e) /\ Answered(e) /\ Intended(e) /\ Truthful(e) /\ Listed(e)

PhaseInv == \A e \in Exec : Consistent(e)

-----------------------------------------------------------------------------
(* The wait group.                                                         *)

(* The counter and the set it counts change together.                      *)
LEMMA CountStep ==
  ASSUME Counted, NEW e,
         \/ Flying' = Flying /\ waitGroup' = waitGroup
         \/ e \notin Flying /\ Flying' = Flying \cup {e} /\ waitGroup' = waitGroup + 1
         \/ e \in Flying /\ Flying' = Flying \ {e} /\ waitGroup' = waitGroup - 1
  PROVE  Counted'
  BY FS_AddElement, FS_RemoveElement DEF Counted

(* A change of one goroutine and of nothing else that counts.              *)
LEMMA OneWorker ==
  ASSUME TypeOK, Counted, NEW e \in Exec,
         \A x \in Exec \ {e} : worker'[x] = worker[x] /\ outcome'[x] = outcome[x],
         \/ (InFlight(e)' <=> InFlight(e)) /\ waitGroup' = waitGroup
         \/ ~InFlight(e) /\ InFlight(e)' /\ waitGroup' = waitGroup + 1
         \/ InFlight(e) /\ ~InFlight(e)' /\ waitGroup' = waitGroup - 1
  PROVE  Counted'
  <1>1. \A x \in Exec \ {e} : InFlight(x)' <=> InFlight(x)
    BY DEF InFlight
  <1>2. CASE (InFlight(e)' <=> InFlight(e)) /\ waitGroup' = waitGroup
    <2>1. Flying' = Flying
      BY <1>1, <1>2 DEF Flying
    <2>. QED
      BY <1>2, <2>1, CountStep
  <1>3. CASE ~InFlight(e) /\ InFlight(e)' /\ waitGroup' = waitGroup + 1
    <2>1. e \notin Flying /\ Flying' = Flying \cup {e}
      BY <1>1, <1>3 DEF Flying
    <2>. QED
      BY <1>3, <2>1, CountStep
  <1>4. CASE InFlight(e) /\ ~InFlight(e)' /\ waitGroup' = waitGroup - 1
    <2>1. e \in Flying /\ Flying' = Flying \ {e}
      BY <1>1, <1>4 DEF Flying
    <2>. QED
      BY <1>4, <2>1, CountStep
  <1>. QED
    BY <1>2, <1>3, <1>4

(* Steps that leave the goroutines alone.                                  *)
LEMMA SameWorkers ==
  ASSUME Counted, UNCHANGED <<worker, outcome, waitGroup>>
  PROVE  Counted'
  <1>1. Flying' = Flying
    BY DEF Flying, InFlight
  <1>. QED
    BY <1>1 DEF Counted

(* Every step keeps the counter exact.                                     *)
LEMMA CountedStep ==
  ASSUME TypeOK, PhaseInv, Counted, [Next]_vars
  PROVE  Counted'
  <1>. USE DEF TypeOK
  <1>1. ASSUME NEW e \in Exec, NEW m \in Modes, Request(e, m)
        PROVE  Counted'
    BY <1>1, SameWorkers DEF Request, AddExecution, registryVars
  <1>2. ASSUME NEW e \in Exec, ExecuteAsync(e)
        PROVE  Counted'
    <2>1. worker[e] = "none"
      BY <1>2 DEF ExecuteAsync, PhaseInv, Consistent, Phase
    <2>2. ~InFlight(e) /\ InFlight(e)'
      BY <1>2, <2>1 DEF ExecuteAsync, StartWorker, InFlight
    <2>. QED
      BY <1>2, <2>2, OneWorker DEF ExecuteAsync, StartWorker
  <1>3. ASSUME NEW e \in Exec,
               \/ AddAnother(e) \/ FindExecution(e) \/ BindRun(e) \/ WaitCancelled(e) \/ WaitResponse(e)
               \/ Answer(e) \/ AnswerInline(e) \/ Respond(e) \/ LeaveOnce(e)
        PROVE  Counted'
    BY <1>3, SameWorkers DEF AddAnother, AddExecution, FindExecution, BindRun, WaitCancelled, WaitResponse, Answer,
       AnswerInline, Respond, LeaveOnce, SetRun, registryVars
  <1>4. ASSUME NEW e \in Exec, WaitEnd(e)
        PROVE  Counted'
    <2>1. /\ InFlight(e)' <=> InFlight(e)
          /\ UNCHANGED <<waitGroup, outcome>>
      BY <1>4 DEF WaitEnd, HandOver, InFlight
    <2>2. \A x \in Exec \ {e} : worker'[x] = worker[x]
      BY <1>4 DEF WaitEnd, HandOver
    <2>. QED
      BY <2>1, <2>2, OneWorker
  <1>5. ASSUME NEW e \in Exec, NEW o \in Outcomes, Return(e, o)
        PROVE  Counted'
    <2>1. InFlight(e)
      BY <1>5 DEF Return, InFlight
    <2>2. /\ o = "panic" => ~InFlight(e)' /\ waitGroup' = waitGroup - 1
          /\ o # "panic" => InFlight(e)' /\ waitGroup' = waitGroup
      BY <1>5 DEF Return, InFlight
    <2>3. \A x \in Exec \ {e} : worker'[x] = worker[x] /\ outcome'[x] = outcome[x]
      BY <1>5 DEF Return
    <2>. QED
      BY <2>1, <2>2, <2>3, OneWorker
  <1>6. ASSUME NEW e \in Exec, RemoveExecution(e)
        PROVE  Counted'
    <2>1. /\ InFlight(e)' <=> InFlight(e)
          /\ UNCHANGED <<waitGroup, outcome>>
          /\ \A x \in Exec \ {e} : worker'[x] = worker[x]
      BY <1>6 DEF RemoveExecution, InFlight
    <2>. QED
      BY <2>1, OneWorker
  <1>7. ASSUME NEW e \in Exec, WorkerDone(e)
        PROVE  Counted'
    <2>1. /\ InFlight(e) /\ ~InFlight(e)' /\ waitGroup' = waitGroup - 1
          /\ \A x \in Exec \ {e} : worker'[x] = worker[x] /\ outcome'[x] = outcome[x]
      BY <1>7 DEF WorkerDone, InFlight
    <2>. QED
      BY <2>1, OneWorker
  <1>8. ASSUME NEW e \in Exec, Stop(e)
        PROVE  Counted'
    BY <1>8, SameWorkers DEF Stop, StopFind, StopCancel, StopRemove
  <1>9. ASSUME Shutdown
        PROVE  Counted'
    BY <1>9, SameWorkers DEF Shutdown, ShutdownBegin, ShutdownEnd
  <1>11. ASSUME NEW e \in Exec, NEW f \in Exec, StartFromTriggerData(e, f)
         PROVE  Counted'
    BY <1>11, SameWorkers DEF StartFromTriggerData, AddExecution, registryVars
  <1>10. ASSUME UNCHANGED vars
         PROVE  Counted'
    BY <1>10, SameWorkers DEF vars, registryVars
  <1>. QED
    BY <1>1, <1>2, <1>3, <1>4, <1>5, <1>6, <1>7, <1>8, <1>9, <1>10, <1>11
       DEF Next, Handler, Worker, EndExecutable

-----------------------------------------------------------------------------
(* What a handler writes.                                                  *)

(* Sequences of at most one element.                                       *)
LEMMA Short ==
  /\ \A a, b : <<a>> = <<b>> => a = b
  /\ \A a : <<a>> # << >>
  OBVIOUS

(* A response is a response.                                               *)
LEMMA WriteType ==
  ASSUME TypeOK, NEW e \in Exec, NEW r \in Responses, Write(e, r)
  PROVE  written' \in [Exec -> Seq(Responses)]
  BY DEF TypeOK, Write

(* The first response is the only one.                                     *)
LEMMA WriteFirst ==
  ASSUME TypeOK, NEW e \in Exec, NEW r \in Responses, Write(e, r), written[e] = << >>
  PROVE  written'[e] = <<r>>
  <1>1. written'[e] = Append(written[e], r)
    BY DEF TypeOK, Write
  <1>. QED
    BY <1>1

(* One more response after none keeps what is said about responses, when   *)
(* it is true.                                                             *)
LEMMA WriteTrue ==
  ASSUME TypeOK, NEW e \in Exec, NEW r \in Responses, Write(e, r), written[e] = << >>,
         True(e, r)',
         once'[e] # "new" \/ handler'[e] = "returned"
  PROVE  Answered(e)' /\ Truthful(e)'
  <1>1. written'[e] = <<r>>
    BY WriteFirst
  <1>2. Answered(e)'
    BY <1>1 DEF Answered
  <1>3. Truthful(e)'
    BY <1>1, Short DEF Truthful, True
  <1>. QED
    BY <1>2, <1>3

-----------------------------------------------------------------------------
(* A step of one request says nothing about another one.                   *)

Own(e) == <<handler[e], mode[e], answer[e], once[e], written[e],
            worker[e], outcome[e], stop[e]>>

(* What a step leaves alone for a request stays consistent for it.         *)
LEMMA Frame ==
  ASSUME NEW x \in Exec, Consistent(x), Own(x)' = Own(x),
         (x \in listed)' <=> x \in listed,
         (x \in hasRun)' <=> x \in hasRun,
         (x \in cancelled)' <=> x \in cancelled
  PROVE  Consistent(x)'
  <1>1. /\ handler'[x] = handler[x] /\ mode'[x] = mode[x] /\ answer'[x] = answer[x]
        /\ once'[x] = once[x] /\ written'[x] = written[x] /\ worker'[x] = worker[x]
        /\ outcome'[x] = outcome[x] /\ stop'[x] = stop[x]
    BY DEF Own
  <1>2. Phase(x)'
    BY <1>1 DEF Consistent, Phase
  <1>3. Answered(x)' /\ Intended(x)'
    BY <1>1 DEF Consistent, Answered, Intended, True
  <1>4. Truthful(x)'
    BY <1>1 DEF Consistent, Truthful, True
  <1>5. Listed(x)'
    BY <1>1 DEF Consistent, Listed
  <1>. QED
    BY <1>2, <1>3, <1>4, <1>5 DEF Consistent

(* Request.                                                                *)
LEMMA RequestInv ==
  ASSUME TypeOK, PhaseInv, waitGroup' \in Nat, NEW e \in Exec,
         NEW m \in Modes, Request(e, m)
  PROVE  TypeOK' /\ PhaseInv'
  <1>. USE ModesAssumption DEF AllModes, Request, AddExecution, InternalError, Goto, registryVars
  <1>3. Phase(e) /\ Answered(e) /\ Intended(e) /\ Truthful(e) /\ Listed(e)
    BY DEF PhaseInv, Consistent
  <1>1. TypeOK'
    <2>1. CASE AddExecution(e) /\ Goto(e, "added") /\ UNCHANGED written
      BY <2>1 DEF TypeOK
    <2>2. CASE InternalError(e) /\ UNCHANGED registryVars
      <3>1. written' \in [Exec -> Seq(Responses)]
        BY <2>2, WriteType DEF Responses
      <3>. QED
        BY <2>2, <3>1 DEF TypeOK
    <2>. QED
      BY <2>1, <2>2
  <1>2. ASSUME NEW x \in Exec, x # e
        PROVE  Consistent(x)'
    <2>1. Own(x)' = Own(x)
      BY <1>2 DEF Own, TypeOK, Write
    <2>. QED
      BY <1>2, <2>1, Frame DEF PhaseInv, TypeOK
  <1>4. Answered(e)' /\ Truthful(e)'
    <2>1. written[e] = << >> /\ worker[e] = "none"
      BY <1>3 DEF Answered, Phase
    <2>2. CASE AddExecution(e) /\ Goto(e, "added") /\ UNCHANGED written
      BY <1>3, <2>1, <2>2 DEF TypeOK, Answered, Truthful, True, Phase
    <2>3. CASE InternalError(e) /\ UNCHANGED registryVars
      <3>1. True(e, "internal")' /\ handler'[e] = "returned" /\ "internal" \in Responses
        BY <2>3 DEF TypeOK, True, Responses
      <3>. QED
        BY <2>1, <2>3, <3>1, WriteTrue
    <2>. QED
      BY <2>2, <2>3
  <1>5. Phase(e)'
    BY <1>3 DEF TypeOK, Phase, Outcomes
  <1>6. Intended(e)'
    BY <1>3 DEF TypeOK, Phase, Intended, True, Answers, Outcomes
  <1>7. Listed(e)'
    BY <1>3 DEF TypeOK, Phase, Listed
  <1>. QED
    BY <1>1, <1>2, <1>4, <1>5, <1>6, <1>7 DEF PhaseInv, Consistent

(* StartFromTriggerData: two executions change at once.                    *)
LEMMA FormInv ==
  ASSUME TypeOK, PhaseInv, waitGroup' \in Nat, NEW e \in Exec, NEW f \in Exec,
         StartFromTriggerData(e, f)
  PROVE  TypeOK' /\ PhaseInv'
  <1>. USE ModesAssumption DEF AllModes, StartFromTriggerData, AddExecution, InternalError,
           Goto, registryVars
  <1>3. Consistent(e) /\ Consistent(f) /\ e # f /\ mode'[e] = "form" /\ mode'[f] = mode[f]
    BY DEF PhaseInv, TypeOK
  <1>4. /\ written[e] = << >> /\ worker[e] = "none" /\ mode[f] = "inline"
        /\ once[e] = "new" /\ e \notin listed /\ f \notin listed
    BY <1>3 DEF Consistent, Answered, Phase, Listed
  <1>5. CASE AddExecution(f) /\ handler' = [handler EXCEPT ![e] = "adding", ![f] = "unused"]
               /\ UNCHANGED written
    <2>1. TypeOK'
      BY <1>5 DEF TypeOK
    <2>2. handler'[e] = "adding" /\ handler'[f] = "unused"
      BY <1>3, <1>5 DEF TypeOK
    <2>3. ASSUME NEW x \in Exec, x # e, x # f
          PROVE  Consistent(x)'
      <3>1. Own(x)' = Own(x)
        BY <1>5, <2>3 DEF Own, TypeOK
      <3>. QED
        BY <1>5, <2>3, <3>1, Frame DEF PhaseInv
    <2>4. Consistent(e)'
      BY <1>3, <1>4, <1>5, <2>2 DEF Consistent, Phase, Answered, Intended, Truthful, True, Listed
    <2>5. Consistent(f)'
      BY <1>3, <1>4, <1>5, <2>2 DEF Consistent, Phase, Answered, Intended, Truthful, True, Listed
    <2>. QED
      BY <2>1, <2>3, <2>4, <2>5 DEF PhaseInv
  <1>6. CASE InternalError(e) /\ UNCHANGED registryVars
    <2>1. TypeOK'
      <3>1. written' \in [Exec -> Seq(Responses)]
        BY <1>6, WriteType DEF Responses
      <3>. QED
        BY <1>6, <3>1 DEF TypeOK
    <2>2. handler'[e] = "returned"
      BY <1>6 DEF TypeOK
    <2>3. ASSUME NEW x \in Exec, x # e
          PROVE  Consistent(x)'
      <3>1. Own(x)' = Own(x)
        BY <1>6, <2>3 DEF Own, TypeOK, Write
      <3>. QED
        BY <1>6, <2>3, <3>1, Frame DEF PhaseInv
    <2>4. Answered(e)' /\ Truthful(e)'
      <3>1. True(e, "internal")' /\ "internal" \in Responses
        BY DEF True, Responses
      <3>. QED
        BY <1>4, <1>6, <2>2, <3>1, WriteTrue
    <2>5. Phase(e)' /\ Intended(e)' /\ Listed(e)'
      BY <1>3, <1>4, <1>6, <2>2 DEF Consistent, Phase, Intended, Listed
    <2>. QED
      BY <2>1, <2>3, <2>4, <2>5 DEF PhaseInv, Consistent
  <1>. QED
    BY <1>5, <1>6

(* AddAnother.                                                             *)
LEMMA AddAnotherInv ==
  ASSUME TypeOK, PhaseInv, waitGroup' \in Nat, NEW e \in Exec,
         AddAnother(e)
  PROVE  TypeOK' /\ PhaseInv'
  <1>. USE DEF AddAnother, AddExecution, InternalError, Goto, registryVars
  <1>3. Phase(e) /\ Answered(e) /\ Intended(e) /\ Truthful(e) /\ Listed(e)
    BY DEF PhaseInv, Consistent
  <1>1. TypeOK'
    <2>1. CASE AddExecution(e) /\ Goto(e, "added") /\ UNCHANGED written
      BY <2>1 DEF TypeOK
    <2>2. CASE InternalError(e) /\ UNCHANGED registryVars
      <3>1. written' \in [Exec -> Seq(Responses)]
        BY <2>2, WriteType DEF Responses
      <3>. QED
        BY <2>2, <3>1 DEF TypeOK
    <2>. QED
      BY <2>1, <2>2
  <1>2. ASSUME NEW x \in Exec, x # e
        PROVE  Consistent(x)'
    <2>1. Own(x)' = Own(x)
      BY <1>2 DEF Own, TypeOK, Write
    <2>. QED
      BY <1>2, <2>1, Frame DEF PhaseInv, TypeOK
  <1>4. Answered(e)' /\ Truthful(e)'
    <2>1. written[e] = << >> /\ worker[e] = "none"
      BY <1>3 DEF Answered, Phase
    <2>2. CASE AddExecution(e) /\ Goto(e, "added") /\ UNCHANGED written
      BY <1>3, <2>1, <2>2 DEF TypeOK, Answered, Truthful, True, Phase
    <2>3. CASE InternalError(e) /\ UNCHANGED registryVars
      <3>1. True(e, "internal")' /\ handler'[e] = "returned" /\ "internal" \in Responses
        BY <2>3 DEF TypeOK, True, Responses
      <3>. QED
        BY <2>1, <2>3, <3>1, WriteTrue
    <2>. QED
      BY <2>2, <2>3
  <1>5. Phase(e)'
    BY <1>3 DEF TypeOK, Phase, Outcomes
  <1>6. Intended(e)'
    BY <1>3 DEF TypeOK, Phase, Intended, True, Answers, Outcomes
  <1>7. Listed(e)'
    BY <1>3 DEF TypeOK, Phase, Listed
  <1>. QED
    BY <1>1, <1>2, <1>4, <1>5, <1>6, <1>7 DEF PhaseInv, Consistent

(* ExecuteAsync.                                                           *)
LEMMA ExecuteAsyncInv ==
  ASSUME TypeOK, PhaseInv, waitGroup' \in Nat, NEW e \in Exec,
         ExecuteAsync(e)
  PROVE  TypeOK' /\ PhaseInv'
  <1>. USE ModesAssumption DEF AllModes, ExecuteAsync, StartWorker, Goto
  <1>3. Phase(e) /\ Answered(e) /\ Intended(e) /\ Truthful(e) /\ Listed(e)
    BY DEF PhaseInv, Consistent
  <1>1. TypeOK'
    BY DEF TypeOK, Outcomes, Answers, Responses
  <1>2. ASSUME NEW x \in Exec, x # e
        PROVE  Consistent(x)'
    <2>1. Own(x)' = Own(x)
      BY <1>2 DEF Own, TypeOK
    <2>. QED
      BY <1>2, <2>1, Frame DEF PhaseInv, TypeOK
  <1>4. Answered(e)' /\ Truthful(e)'
    BY <1>3 DEF TypeOK, Phase, Answered, Truthful, True, Outcomes
  <1>5. Phase(e)'
    BY <1>3 DEF TypeOK, Phase, Outcomes
  <1>6. Intended(e)'
    BY <1>3 DEF TypeOK, Phase, Intended, True, Answers, Outcomes
  <1>7. Listed(e)'
    BY <1>3 DEF TypeOK, Phase, Listed
  <1>. QED
    BY <1>1, <1>2, <1>4, <1>5, <1>6, <1>7 DEF PhaseInv, Consistent

(* FindExecution.                                                          *)
LEMMA FindExecutionInv ==
  ASSUME TypeOK, PhaseInv, waitGroup' \in Nat, NEW e \in Exec,
         FindExecution(e)
  PROVE  TypeOK' /\ PhaseInv'
  <1>. USE ModesAssumption DEF AllModes, AnswersOnReceipt, FindExecution, InternalError, Goto, registryVars
  <1>3. Phase(e) /\ Answered(e) /\ Intended(e) /\ Truthful(e) /\ Listed(e)
    BY DEF PhaseInv, Consistent
  <1>1. TypeOK'
    <2>1. CASE UNCHANGED written
      BY ZenonT(40), <2>1 DEF TypeOK, Answers
    <2>2. CASE InternalError(e) /\ UNCHANGED answer
      <3>1. written' \in [Exec -> Seq(Responses)]
        BY <2>2, WriteType DEF Responses
      <3>. QED
        BY <2>2, <3>1 DEF TypeOK
    <2>. QED
      BY <2>1, <2>2
  <1>2. ASSUME NEW x \in Exec, x # e
        PROVE  Consistent(x)'
    <2>1. Own(x)' = Own(x)
      BY <1>2 DEF Own, TypeOK, Write
    <2>. QED
      BY <1>2, <2>1, Frame DEF PhaseInv, TypeOK
  <1>4. Answered(e)' /\ Truthful(e)'
    <2>1. CASE UNCHANGED written /\ handler'[e] # "returned"
      BY <1>3, <2>1 DEF TypeOK, Answered, Truthful, True, Phase
    <2>2. CASE InternalError(e) /\ e \notin listed /\ once[e] = "new"
      <3>1. True(e, "internal")' /\ handler'[e] = "returned" /\ "internal" \in Responses
        BY <2>2 DEF TypeOK, True, Responses
      <3>2. written[e] = << >>
        BY <1>3, <2>2 DEF Answered
      <3>. QED
        BY <2>2, <3>1, <3>2, WriteTrue
    <2>3. CASE InternalError(e) /\ e \notin listed /\ once[e] # "new"
      <3>. QED
        BY <1>3, <2>3 DEF TypeOK, Phase, Listed
    <2>. QED
      BY <2>1, <2>2, <2>3 DEF TypeOK
  <1>5. Phase(e)'
    <2>1. CASE e \in listed
      BY <1>3, <2>1 DEF TypeOK, Phase
    <2>2. CASE e \notin listed /\ AnswersOnReceipt(e)
      BY <1>3, <2>2 DEF TypeOK, Phase
    <2>3. CASE e \notin listed /\ ~AnswersOnReceipt(e)
      <3>1. worker[e] \in {"sending", "sent", "over"}
        BY <1>3, <2>3 DEF TypeOK, Phase, Listed
      <3>. QED
        BY <1>3, <2>3, <3>1 DEF TypeOK, Phase
    <2>. QED
      BY <2>1, <2>2, <2>3
  <1>6. Intended(e)'
    BY <1>3 DEF TypeOK, Phase, Intended, True, Answers, Outcomes
  <1>7. Listed(e)'
    BY <1>3 DEF TypeOK, Phase, Listed
  <1>. QED
    BY <1>1, <1>2, <1>4, <1>5, <1>6, <1>7 DEF PhaseInv, Consistent

(* BindRun.                                                                *)
LEMMA BindRunInv ==
  ASSUME TypeOK, PhaseInv, waitGroup' \in Nat, NEW e \in Exec,
         BindRun(e)
  PROVE  TypeOK' /\ PhaseInv'
  <1>. USE ModesAssumption DEF AllModes, AnswersOnReceipt, BindRun, SetRun, Goto
  <1>3. Phase(e) /\ Answered(e) /\ Intended(e) /\ Truthful(e) /\ Listed(e)
    BY DEF PhaseInv, Consistent
  <1>1. TypeOK'
    <2>1. handler' \in [Exec -> {"idle", "adding", "unused", "added", "spawned", "found",
                                 "waiting", "answering", "returned"}]
      <3>1. \E h \in {"answering", "waiting"} : handler' = [handler EXCEPT ![e] = h]
        OBVIOUS
      <3>. QED
        BY <3>1 DEF TypeOK
    <2>2. answer' \in [Exec -> Answers]
      BY ZenonT(40) DEF TypeOK, Answers
    <2>. QED
      BY <2>1, <2>2 DEF TypeOK
  <1>2. ASSUME NEW x \in Exec, x # e
        PROVE  Consistent(x)'
    <2>1. Own(x)' = Own(x)
      BY <1>2 DEF Own, TypeOK
    <2>. QED
      BY <1>2, <2>1, Frame DEF PhaseInv, TypeOK
  <1>4. Answered(e)' /\ Truthful(e)'
    BY <1>3 DEF TypeOK, Phase, Answered, Truthful, True, Outcomes
  <1>5. Phase(e)'
    BY <1>3 DEF TypeOK, Phase, Outcomes
  <1>6. Intended(e)'
    BY <1>3 DEF TypeOK, Phase, Intended, True, Answers, Outcomes
  <1>7. Listed(e)'
    BY <1>3 DEF TypeOK, Phase, Listed
  <1>. QED
    BY <1>1, <1>2, <1>4, <1>5, <1>6, <1>7 DEF PhaseInv, Consistent

(* WaitCancelled.                                                          *)
LEMMA WaitCancelledInv ==
  ASSUME TypeOK, PhaseInv, waitGroup' \in Nat, NEW e \in Exec,
         WaitCancelled(e)
  PROVE  TypeOK' /\ PhaseInv'
  <1>. USE ModesAssumption DEF AllModes, WaitCancelled, Waited, Goto, registryVars
  <1>3. Phase(e) /\ Answered(e) /\ Intended(e) /\ Truthful(e) /\ Listed(e)
    BY DEF PhaseInv, Consistent
  <1>1. TypeOK'
    BY DEF TypeOK, Outcomes, Answers, Responses
  <1>2. ASSUME NEW x \in Exec, x # e
        PROVE  Consistent(x)'
    <2>1. Own(x)' = Own(x)
      BY <1>2 DEF Own, TypeOK
    <2>. QED
      BY <1>2, <2>1, Frame DEF PhaseInv, TypeOK
  <1>4. Answered(e)' /\ Truthful(e)'
    BY <1>3 DEF TypeOK, Phase, Answered, Truthful, True, Outcomes
  <1>5. Phase(e)'
    BY <1>3 DEF TypeOK, Phase, Outcomes
  <1>6. Intended(e)'
    BY <1>3 DEF TypeOK, Phase, Intended, True, Answers, Outcomes
  <1>7. Listed(e)'
    BY <1>3 DEF TypeOK, Phase, Listed
  <1>. QED
    BY <1>1, <1>2, <1>4, <1>5, <1>6, <1>7 DEF PhaseInv, Consistent

(* WaitEnd.                                                                *)
LEMMA WaitEndInv ==
  ASSUME TypeOK, PhaseInv, waitGroup' \in Nat, NEW e \in Exec,
         WaitEnd(e)
  PROVE  TypeOK' /\ PhaseInv'
  <1>. USE ModesAssumption DEF AllModes, WaitEnd, HandOver, AnswerTo, Waited, Goto
  <1>3. Phase(e) /\ Answered(e) /\ Intended(e) /\ Truthful(e) /\ Listed(e)
    BY DEF PhaseInv, Consistent
  <1>1. TypeOK'
    BY DEF TypeOK, Outcomes, Answers, Responses
  <1>2. ASSUME NEW x \in Exec, x # e
        PROVE  Consistent(x)'
    <2>1. Own(x)' = Own(x)
      BY <1>2 DEF Own, TypeOK
    <2>. QED
      BY <1>2, <2>1, Frame DEF PhaseInv, TypeOK
  <1>4. Answered(e)' /\ Truthful(e)'
    BY <1>3 DEF TypeOK, Phase, Answered, Truthful, True, Outcomes
  <1>5. Phase(e)'
    BY <1>3 DEF TypeOK, Phase, Outcomes
  <1>6. Intended(e)'
    BY <1>3 DEF TypeOK, Phase, Intended, True, Answers, Outcomes
  <1>7. Listed(e)'
    BY <1>3 DEF TypeOK, Phase, Listed
  <1>. QED
    BY <1>1, <1>2, <1>4, <1>5, <1>6, <1>7 DEF PhaseInv, Consistent

(* WaitResponse.                                                           *)
LEMMA WaitResponseInv ==
  ASSUME TypeOK, PhaseInv, waitGroup' \in Nat, NEW e \in Exec,
         WaitResponse(e)
  PROVE  TypeOK' /\ PhaseInv'
  <1>. USE ModesAssumption DEF AllModes, WaitResponse, Waited, Goto, registryVars
  <1>3. Phase(e) /\ Answered(e) /\ Intended(e) /\ Truthful(e) /\ Listed(e)
    BY DEF PhaseInv, Consistent
  <1>1. TypeOK'
    BY DEF TypeOK, Outcomes, Answers, Responses
  <1>2. ASSUME NEW x \in Exec, x # e
        PROVE  Consistent(x)'
    <2>1. Own(x)' = Own(x)
      BY <1>2 DEF Own, TypeOK
    <2>. QED
      BY <1>2, <2>1, Frame DEF PhaseInv, TypeOK
  <1>4. Answered(e)' /\ Truthful(e)'
    BY <1>3 DEF TypeOK, Phase, Answered, Truthful, True, Outcomes
  <1>5. Phase(e)'
    BY <1>3 DEF TypeOK, Phase, Outcomes
  <1>6. Intended(e)'
    BY <1>3 DEF TypeOK, Phase, Intended, True, Answers, Outcomes
  <1>7. Listed(e)'
    BY <1>3 DEF TypeOK, Phase, Listed
  <1>. QED
    BY <1>1, <1>2, <1>4, <1>5, <1>6, <1>7 DEF PhaseInv, Consistent

(* Answer.                                                                 *)
LEMMA AnswerInv ==
  ASSUME TypeOK, PhaseInv, waitGroup' \in Nat, NEW e \in Exec,
         Answer(e)
  PROVE  TypeOK' /\ PhaseInv'
  <1>. USE ModesAssumption DEF AllModes, Answer, Goto, registryVars
  <1>3. Phase(e) /\ Answered(e) /\ Intended(e) /\ Truthful(e) /\ Listed(e)
    BY DEF PhaseInv, Consistent
  <1>0. answer[e] \in Responses
    BY <1>3 DEF Intended, TypeOK, Responses
  <1>1. TypeOK'
    <2>1. CASE UNCHANGED <<once, written>>
      BY <2>1 DEF TypeOK
    <2>2. CASE Write(e, answer[e])
      <3>1. written' \in [Exec -> Seq(Responses)]
        BY <1>0, <2>2, WriteType
      <3>. QED
        BY <3>1 DEF TypeOK
    <2>. QED
      BY <2>1, <2>2
  <1>2. ASSUME NEW x \in Exec, x # e
        PROVE  Consistent(x)'
    <2>1. Own(x)' = Own(x)
      BY <1>2 DEF Own, TypeOK, Write
    <2>. QED
      BY <1>2, <2>1, Frame DEF PhaseInv, TypeOK
  <1>4. Answered(e)' /\ Truthful(e)'
    <2>1. CASE UNCHANGED <<once, written>> /\ once[e] = "done"
      BY <1>3, <2>1 DEF Answered, Truthful, True
    <2>2. CASE Write(e, answer[e]) /\ once[e] = "new"
      <3>1. True(e, answer[e])' /\ handler'[e] = "returned"
        BY <1>3, <2>2 DEF TypeOK, Intended, True
      <3>2. written[e] = << >>
        BY <1>3, <2>2 DEF Answered
      <3>. QED
        BY <1>0, <2>2, <3>1, <3>2, WriteTrue
    <2>. QED
      BY <1>3, <2>1, <2>2 DEF Phase
  <1>5. Phase(e)'
    BY <1>3 DEF TypeOK, Phase, Outcomes
  <1>6. Intended(e)'
    BY <1>3 DEF TypeOK, Phase, Intended, True, Answers, Outcomes
  <1>7. Listed(e)'
    BY <1>3 DEF TypeOK, Phase, Listed
  <1>. QED
    BY <1>1, <1>2, <1>4, <1>5, <1>6, <1>7 DEF PhaseInv, Consistent

(* AnswerInline.                                                           *)
LEMMA AnswerInlineInv ==
  ASSUME TypeOK, PhaseInv, waitGroup' \in Nat, NEW e \in Exec,
         AnswerInline(e)
  PROVE  TypeOK' /\ PhaseInv'
  <1>. USE ModesAssumption DEF AllModes, AnswerInline, Goto, registryVars
  <1>3. Phase(e) /\ Answered(e) /\ Intended(e) /\ Truthful(e) /\ Listed(e)
    BY DEF PhaseInv, Consistent
  <1>1. TypeOK'
    <2>1. written' \in [Exec -> Seq(Responses)]
      BY WriteType DEF Responses, Answers
    <2>. QED
      BY <2>1 DEF TypeOK
  <1>2. ASSUME NEW x \in Exec, x # e
        PROVE  Consistent(x)'
    <2>1. Own(x)' = Own(x)
      BY <1>2 DEF Own, TypeOK, Write
    <2>. QED
      BY <1>2, <2>1, Frame DEF PhaseInv, TypeOK
  <1>4. Answered(e)' /\ Truthful(e)'
    <2>1. True(e, "result")' /\ handler'[e] = "returned" /\ "result" \in Responses
      BY DEF TypeOK, True, Responses, Answers
    <2>2. written[e] = << >>
      BY <1>3 DEF Answered, Phase
    <2>. QED
      BY <2>1, <2>2, WriteTrue
  <1>5. Phase(e)'
    BY <1>3 DEF TypeOK, Phase, Outcomes
  <1>6. Intended(e)'
    BY <1>3 DEF TypeOK, Phase, Intended, True, Answers, Outcomes
  <1>7. Listed(e)'
    BY <1>3 DEF TypeOK, Phase, Listed
  <1>. QED
    BY <1>1, <1>2, <1>4, <1>5, <1>6, <1>7 DEF PhaseInv, Consistent

(* Respond.                                                                *)
LEMMA RespondInv ==
  ASSUME TypeOK, PhaseInv, waitGroup' \in Nat, NEW e \in Exec,
         Respond(e)
  PROVE  TypeOK' /\ PhaseInv'
  <1>. USE ModesAssumption DEF AllModes, Respond, InNode, registryVars
  <1>3. Phase(e) /\ Answered(e) /\ Intended(e) /\ Truthful(e) /\ Listed(e)
    BY DEF PhaseInv, Consistent
  <1>1. TypeOK'
    <2>1. written' \in [Exec -> Seq(Responses)]
      BY WriteType DEF Responses
    <2>. QED
      BY <2>1 DEF TypeOK
  <1>2. ASSUME NEW x \in Exec, x # e
        PROVE  Consistent(x)'
    <2>1. Own(x)' = Own(x)
      BY <1>2 DEF Own, TypeOK, Write
    <2>. QED
      BY <1>2, <2>1, Frame DEF PhaseInv, TypeOK
  <1>4. Answered(e)' /\ Truthful(e)'
    <2>1. True(e, "node")' /\ once'[e] # "new" /\ "node" \in Responses
      BY DEF TypeOK, True, Responses
    <2>2. written[e] = << >>
      BY <1>3 DEF Answered, Phase
    <2>. QED
      BY <2>1, <2>2, WriteTrue
  <1>5. Phase(e)'
    BY <1>3 DEF TypeOK, Phase, Outcomes
  <1>6. Intended(e)'
    BY <1>3 DEF TypeOK, Phase, Intended, True, Answers, Outcomes
  <1>7. Listed(e)'
    BY <1>3 DEF TypeOK, Phase, Listed
  <1>. QED
    BY <1>1, <1>2, <1>4, <1>5, <1>6, <1>7 DEF PhaseInv, Consistent

(* LeaveOnce.                                                              *)
LEMMA LeaveOnceInv ==
  ASSUME TypeOK, PhaseInv, waitGroup' \in Nat, NEW e \in Exec,
         LeaveOnce(e)
  PROVE  TypeOK' /\ PhaseInv'
  <1>. USE ModesAssumption DEF AllModes, LeaveOnce, registryVars
  <1>3. Phase(e) /\ Answered(e) /\ Intended(e) /\ Truthful(e) /\ Listed(e)
    BY DEF PhaseInv, Consistent
  <1>1. TypeOK'
    BY DEF TypeOK, Outcomes, Answers, Responses
  <1>2. ASSUME NEW x \in Exec, x # e
        PROVE  Consistent(x)'
    <2>1. Own(x)' = Own(x)
      BY <1>2 DEF Own, TypeOK
    <2>. QED
      BY <1>2, <2>1, Frame DEF PhaseInv, TypeOK
  <1>4. Answered(e)' /\ Truthful(e)'
    BY <1>3 DEF TypeOK, Phase, Answered, Truthful, True, Outcomes
  <1>5. Phase(e)'
    BY <1>3 DEF TypeOK, Phase, Outcomes
  <1>6. Intended(e)'
    BY <1>3 DEF TypeOK, Phase, Intended, True, Answers, Outcomes
  <1>7. Listed(e)'
    BY <1>3 DEF TypeOK, Phase, Listed
  <1>. QED
    BY <1>1, <1>2, <1>4, <1>5, <1>6, <1>7 DEF PhaseInv, Consistent

(* Return.                                                                 *)
LEMMA ReturnInv ==
  ASSUME TypeOK, PhaseInv, waitGroup' \in Nat, NEW e \in Exec,
         NEW o \in Outcomes, InNode(e), Return(e, o), UNCHANGED handlerVars
  PROVE  TypeOK' /\ PhaseInv'
  <1>. USE ModesAssumption DEF AllModes, InNode, Return, handlerVars
  <1>3. Phase(e) /\ Answered(e) /\ Intended(e) /\ Truthful(e) /\ Listed(e)
    BY DEF PhaseInv, Consistent
  <1>1. TypeOK'
    BY DEF TypeOK, Outcomes, Answers, Responses
  <1>2. ASSUME NEW x \in Exec, x # e
        PROVE  Consistent(x)'
    <2>1. Own(x)' = Own(x)
      BY <1>2 DEF Own, TypeOK
    <2>. QED
      BY <1>2, <2>1, Frame DEF PhaseInv, TypeOK
  <1>4. Answered(e)' /\ Truthful(e)'
    BY <1>3 DEF TypeOK, Phase, Answered, Truthful, True, Outcomes
  <1>5. Phase(e)'
    BY <1>3 DEF TypeOK, Phase, Outcomes
  <1>6. Intended(e)'
    BY <1>3 DEF TypeOK, Phase, Intended, True, Answers, Outcomes
  <1>7. Listed(e)'
    BY <1>3 DEF TypeOK, Phase, Listed
  <1>. QED
    BY <1>1, <1>2, <1>4, <1>5, <1>6, <1>7 DEF PhaseInv, Consistent

(* RemoveExecution.                                                        *)
LEMMA RemoveExecutionInv ==
  ASSUME TypeOK, PhaseInv, waitGroup' \in Nat, NEW e \in Exec,
         RemoveExecution(e), UNCHANGED handlerVars
  PROVE  TypeOK' /\ PhaseInv'
  <1>. USE ModesAssumption DEF AllModes, RemoveExecution, handlerVars
  <1>3. Phase(e) /\ Answered(e) /\ Intended(e) /\ Truthful(e) /\ Listed(e)
    BY DEF PhaseInv, Consistent
  <1>1. TypeOK'
    BY DEF TypeOK, Outcomes, Answers, Responses
  <1>2. ASSUME NEW x \in Exec, x # e
        PROVE  Consistent(x)'
    <2>1. Own(x)' = Own(x)
      BY <1>2 DEF Own, TypeOK
    <2>. QED
      BY <1>2, <2>1, Frame DEF PhaseInv, TypeOK
  <1>4. Answered(e)' /\ Truthful(e)'
    BY <1>3 DEF TypeOK, Phase, Answered, Truthful, True, Outcomes
  <1>5. Phase(e)'
    BY <1>3 DEF TypeOK, Phase, Outcomes
  <1>6. Intended(e)'
    BY <1>3 DEF TypeOK, Phase, Intended, True, Answers, Outcomes
  <1>7. Listed(e)'
    BY <1>3 DEF TypeOK, Phase, Listed
  <1>. QED
    BY <1>1, <1>2, <1>4, <1>5, <1>6, <1>7 DEF PhaseInv, Consistent

(* WorkerDone.                                                             *)
LEMMA WorkerDoneInv ==
  ASSUME TypeOK, PhaseInv, waitGroup' \in Nat, NEW e \in Exec,
         WorkerDone(e), UNCHANGED handlerVars
  PROVE  TypeOK' /\ PhaseInv'
  <1>. USE ModesAssumption DEF AllModes, WorkerDone, handlerVars
  <1>3. Phase(e) /\ Answered(e) /\ Intended(e) /\ Truthful(e) /\ Listed(e)
    BY DEF PhaseInv, Consistent
  <1>1. TypeOK'
    BY DEF TypeOK, Outcomes, Answers, Responses
  <1>2. ASSUME NEW x \in Exec, x # e
        PROVE  Consistent(x)'
    <2>1. Own(x)' = Own(x)
      BY <1>2 DEF Own, TypeOK
    <2>. QED
      BY <1>2, <2>1, Frame DEF PhaseInv, TypeOK
  <1>4. Answered(e)' /\ Truthful(e)'
    BY <1>3 DEF TypeOK, Phase, Answered, Truthful, True, Outcomes
  <1>5. Phase(e)'
    BY <1>3 DEF TypeOK, Phase, Outcomes
  <1>6. Intended(e)'
    BY <1>3 DEF TypeOK, Phase, Intended, True, Answers, Outcomes
  <1>7. Listed(e)'
    BY <1>3 DEF TypeOK, Phase, Listed
  <1>. QED
    BY <1>1, <1>2, <1>4, <1>5, <1>6, <1>7 DEF PhaseInv, Consistent

(* Stop.                                                                   *)
LEMMA StopInv ==
  ASSUME TypeOK, PhaseInv, waitGroup' \in Nat, NEW e \in Exec,
         Stop(e)
  PROVE  TypeOK' /\ PhaseInv'
  <1>. USE ModesAssumption DEF AllModes, Stop, StopFind, StopCancel, StopRemove, handlerVars
  <1>3. Phase(e) /\ Answered(e) /\ Intended(e) /\ Truthful(e) /\ Listed(e)
    BY DEF PhaseInv, Consistent
  <1>1. TypeOK'
    <2>1. CASE StopFind(e)
      BY <2>1 DEF TypeOK
    <2>2. CASE StopCancel(e)
      <3>1. cancelled' \subseteq Exec
        BY <2>2 DEF TypeOK
      <3>2. stop' \in [Exec -> {"idle", "found", "cancelled", "stopped", "failed"}]
        <4>1. \E s \in {"cancelled", "failed"} : stop' = [stop EXCEPT ![e] = s]
          BY <2>2
        <4>. QED
          BY <4>1 DEF TypeOK
      <3>. QED
        BY <2>2, <3>1, <3>2 DEF TypeOK
    <2>3. CASE StopRemove(e)
      BY <2>3 DEF TypeOK
    <2>. QED
      BY <2>1, <2>2, <2>3
  <1>2. ASSUME NEW x \in Exec, x # e
        PROVE  Consistent(x)'
    <2>1. Own(x)' = Own(x)
      BY <1>2 DEF Own, TypeOK
    <2>. QED
      BY <1>2, <2>1, Frame DEF PhaseInv, TypeOK
  <1>4. Answered(e)' /\ Truthful(e)'
    BY <1>3 DEF TypeOK, Phase, Answered, Truthful, True, Outcomes
  <1>5. Phase(e)'
    BY <1>3 DEF TypeOK, Phase, Outcomes
  <1>6. Intended(e)'
    BY <1>3 DEF TypeOK, Phase, Intended, True, Answers, Outcomes
  <1>7. Listed(e)'
    BY <1>3 DEF TypeOK, Phase, Listed
  <1>. QED
    BY <1>1, <1>2, <1>4, <1>5, <1>6, <1>7 DEF PhaseInv, Consistent

-----------------------------------------------------------------------------
(* The invariant.                                                          *)

IInv == TypeOK /\ PhaseInv /\ Counted

(* The registry is empty and no request was made.                          *)
LEMMA InitInv ==
  ASSUME Init
  PROVE  IInv
  <1>. USE DEF Init, InitRegistry
  <1>1. TypeOK
    BY DEF TypeOK, Outcomes, Answers, AllModes
  <1>2. Counted
    <2>1. Flying = {}
      BY DEF Flying, InFlight
    <2>. QED
      BY <2>1, FS_EmptySet DEF Counted
  <1>3. ASSUME NEW e \in Exec
        PROVE  Consistent(e)
    <2>1. Phase(e) /\ Intended(e) /\ Listed(e)
      BY DEF Phase, Intended, Listed
    <2>2. written[e] = << >> /\ once[e] = "new" /\ handler[e] = "idle"
      OBVIOUS
    <2>3. Answered(e)
      BY <2>2 DEF Answered
    <2>4. Truthful(e)
      BY <2>2, Short DEF Truthful
    <2>. QED
      BY <2>1, <2>3, <2>4 DEF Consistent
  <1>. QED
    BY <1>1, <1>2, <1>3 DEF IInv, PhaseInv

(* Steps of the shutdown and steps that change nothing.                    *)
LEMMA ShutdownInv ==
  ASSUME TypeOK, PhaseInv,
         UNCHANGED <<handlerVars, listed, hasRun, cancelled, worker, outcome, waitGroup, stop>>,
         shutdown' \in {"no", "waiting", "closed", "forced"}
  PROVE  TypeOK' /\ PhaseInv'
  <1>1. TypeOK'
    BY DEF TypeOK, handlerVars
  <1>2. ASSUME NEW x \in Exec
        PROVE  Consistent(x)'
    <2>1. Own(x)' = Own(x)
      BY DEF Own, handlerVars
    <2>. QED
      BY <2>1, Frame DEF PhaseInv
  <1>. QED
    BY <1>1, <1>2 DEF PhaseInv

(* Every step keeps the invariant.                                         *)
LEMMA StepInv ==
  ASSUME IInv, [Next]_vars
  PROVE  IInv'
  <1>. USE DEF IInv
  <1>1. Counted'
    BY CountedStep
  <1>2. waitGroup' \in Nat
    BY <1>1, FS_CardinalityType DEF Counted
  <1>3. ASSUME NEW e \in Exec, NEW m \in Modes, Request(e, m)
        PROVE  TypeOK' /\ PhaseInv'
    BY <1>2, <1>3, RequestInv
  <1>4. ASSUME NEW e \in Exec, Handler(e)
        PROVE  TypeOK' /\ PhaseInv'
    BY <1>2, <1>4, AddAnotherInv, ExecuteAsyncInv, FindExecutionInv, BindRunInv, WaitCancelledInv,
       WaitEndInv, WaitResponseInv, AnswerInv, AnswerInlineInv DEF Handler
  <1>5. ASSUME NEW e \in Exec, Worker(e)
        PROVE  TypeOK' /\ PhaseInv'
    BY <1>2, <1>5, RespondInv, LeaveOnceInv, ReturnInv, RemoveExecutionInv, WorkerDoneInv
       DEF Worker, EndExecutable
  <1>6. ASSUME NEW e \in Exec, Stop(e)
        PROVE  TypeOK' /\ PhaseInv'
    BY <1>2, <1>6, StopInv
  <1>7. ASSUME Shutdown
        PROVE  TypeOK' /\ PhaseInv'
    BY <1>7, ShutdownInv DEF Shutdown, ShutdownBegin, ShutdownEnd
  <1>8. ASSUME UNCHANGED vars
        PROVE  TypeOK' /\ PhaseInv'
    BY <1>8, ShutdownInv DEF vars, registryVars, TypeOK
  <1>9. ASSUME NEW e \in Exec, NEW f \in Exec, StartFromTriggerData(e, f)
        PROVE  TypeOK' /\ PhaseInv'
    BY <1>2, <1>9, FormInv
  <1>. QED
    BY <1>1, <1>3, <1>4, <1>5, <1>6, <1>7, <1>8, <1>9 DEF Next

(* The invariant holds of every reachable state.                           *)
THEOREM Invariant == Spec => []IInv
  <1>1. Init => IInv
    BY InitInv
  <1>2. IInv /\ [Next]_vars => IInv'
    BY StepInv
  <1>. QED
    BY <1>1, <1>2, PTL DEF Spec

-----------------------------------------------------------------------------
(* What it says.                                                           *)

(* The variables keep their types; in particular the counter of the wait   *)
(* group is never negative.                                                *)
THEOREM TypeCorrect == Spec => []TypeOK
  <1>1. IInv => TypeOK
    BY DEF IInv
  <1>. QED
    BY <1>1, Invariant, PTL

(* Every request is answered once, and has been when it returns.           *)
THEOREM AnsweredOnce == Spec => []OneResponse
  <1>1. IInv => OneResponse
    <2>. SUFFICES ASSUME IInv, NEW e \in Exec
                  PROVE  /\ Len(written[e]) <= 1
                         /\ handler[e] = "returned" => Len(written[e]) = 1
      BY DEF OneResponse
    <2>1. Answered(e)
      BY DEF IInv, PhaseInv, Consistent
    <2>2. CASE once[e] = "new" /\ handler[e] # "returned"
      BY <2>1, <2>2 DEF Answered
    <2>3. CASE once[e] # "new" \/ handler[e] = "returned"
      <3>1. PICK response \in Responses : written[e] = <<response>>
        BY <2>1, <2>3 DEF Answered
      <3>2. Len(<<response>>) = 1
        OBVIOUS
      <3>. QED
        BY <3>1, <3>2
    <2>. QED
      BY <2>2, <2>3
  <1>. QED
    BY <1>1, Invariant, PTL

(* The answer tells the truth about the run.                               *)
THEOREM AnswersAreTrue == Spec => []AnswerMatchesRun
  <1>1. IInv => AnswerMatchesRun
    <2>. SUFFICES ASSUME IInv, NEW e \in Exec
                  PROVE  /\ written[e] = <<"default">> => outcome[e] = "data"
                         /\ written[e] = <<"dataError">> => outcome[e] = "dataError"
                         /\ written[e] = <<"error">> =>
                              outcome[e] \in {"err", "panic"} \/ e \in cancelled
      BY DEF AnswerMatchesRun
    <2>1. Truthful(e)
      BY DEF IInv, PhaseInv, Consistent
    <2>. QED
      BY <2>1 DEF Truthful, True, Responses, Answers
  <1>. QED
    BY <1>1, Invariant, PTL

(* The wait group counts the goroutines that have not called Done.         *)
THEOREM WaitGroupIsExact == Spec => []WaitGroupCounts
  <1>1. IInv => WaitGroupCounts
    BY DEF IInv, Counted, Flying, WaitGroupCounts
  <1>. QED
    BY <1>1, Invariant, PTL

(* The registry lists an execution that runs until it is stopped, and no   *)
(* other for ever but those of requests that run their workflow themselves *)
(* and the first ones of forms.                                            *)
THEOREM RunningIsListed == Spec => []ListedWhileRunning
  <1>1. IInv => ListedWhileRunning
    <2>. SUFFICES ASSUME IInv, NEW e \in Exec
                  PROVE  /\ (worker[e] = "running" /\ stop[e] # "stopped") => e \in listed
                         /\ e \in listed => \/ mode[e] = "inline"
                                            \/ handler[e] = "added"
                                            \/ worker[e] \in {"running", "returned"}
      BY DEF IInv, TypeOK, ListedWhileRunning
    <2>1. Phase(e) /\ Listed(e)
      BY DEF IInv, PhaseInv, Consistent
    <2>2. worker[e] \in {"none", "running", "returned", "sending", "sent", "over"}
      BY DEF IInv, TypeOK
    <2>. QED
      BY <2>1, <2>2 DEF Phase, Listed
  <1>. QED
    BY <1>1, Invariant, PTL

(* Nobody writes to the context of a request whose handler has returned.   *)
THEOREM NothingWrittenLate == Spec => NoLateWrite
  <1>1. ASSUME IInv, [Next]_vars, NEW e \in Exec, handler[e] = "returned"
        PROVE  written'[e] = written[e]
    <2>0. Phase(e)
      BY <1>1 DEF IInv, PhaseInv, Consistent
    <2>1. CASE UNCHANGED written
      BY <2>1
    <2>2. ASSUME NEW x \in Exec, x # e, NEW r, Write(x, r)
          PROVE  written'[e] = written[e]
      BY <2>2, <1>1 DEF Write, IInv, TypeOK
    <2>3. ASSUME NEW x \in Exec, NEW m \in Modes, Request(x, m)
          PROVE  written'[e] = written[e]
      BY <1>1, <2>1, <2>2, <2>3 DEF Request, InternalError
    <2>4. ASSUME NEW x \in Exec, Handler(x)
          PROVE  written'[e] = written[e]
      BY <1>1, <2>1, <2>2, <2>4 DEF Handler, AddAnother, ExecuteAsync, FindExecution, BindRun,
         WaitCancelled, WaitEnd, WaitResponse, Waited, Answer, AnswerInline, InternalError
    <2>5. ASSUME NEW x \in Exec, Worker(x)
          PROVE  written'[e] = written[e]
      <3>1. CASE Respond(x)
        BY <1>1, <2>0, <2>2, <3>1 DEF Respond, InNode, Phase
      <3>2. CASE ~Respond(x)
        BY <2>5, <3>2 DEF Worker, LeaveOnce, EndExecutable, handlerVars
      <3>. QED
        BY <3>1, <3>2
    <2>6. ASSUME NEW x \in Exec, Stop(x)
          PROVE  written'[e] = written[e]
      BY <2>6 DEF Stop, handlerVars
    <2>7. ASSUME NEW x \in Exec, NEW f \in Exec, StartFromTriggerData(x, f)
          PROVE  written'[e] = written[e]
      BY <1>1, <2>1, <2>2, <2>7 DEF StartFromTriggerData, InternalError
    <2>. QED
      BY <1>1, <2>3, <2>4, <2>5, <2>6, <2>7 DEF Next, Shutdown, vars, handlerVars
  <1>2. IInv /\ [Next]_vars =>
          [\A e \in Exec : handler[e] = "returned" => written'[e] = written[e]]_vars
    BY <1>1
  <1>. QED
    BY <1>2, Invariant, PTL DEF Spec, NoLateWrite

=============================================================================
