-------------------------- MODULE ActiveExecutions --------------------------
(***************************************************************************)
(* The registry of running executions (core/active_executions.go): the     *)
(* map of current executions, the goroutine ExecuteAsync starts for one,   *)
(* the two unbuffered channels on which it hands over its result, the      *)
(* request that stops an execution, and the shutdown that waits for all.   *)
(* The lock makes each access to the map atomic and nothing else.          *)
(*                                                                         *)
(* HandleWebhook composes this module with the handlers that use it.       *)
(***************************************************************************)
EXTENDS Integers, FiniteSets

CONSTANT Exec         \* execution ids

VARIABLES
  listed,      \* keys of currentExecutions
  hasRun,      \* executions whose WorkflowExecutionRun is set
  cancelled,   \* executions whose context was cancelled
  worker,      \* where the goroutine of an execution is
  outcome,     \* how its executable ended
  waitGroup,   \* the counter of waitGroup
  stop,        \* where the request to stop an execution is
  shutdown     \* where ShutdownActiveExecutions is

registryVars == <<listed, hasRun, cancelled, worker, outcome, waitGroup, stop, shutdown>>

Outcomes == {"data", "dataError", "err", "panic"}

InitRegistry ==
  /\ listed = {}
  /\ hasRun = {}
  /\ cancelled = {}
  /\ worker = [e \in Exec |-> "none"]
  /\ outcome = [e \in Exec |-> "none"]
  /\ waitGroup = 0
  /\ stop = [e \in Exec |-> "idle"]
  /\ shutdown = "no"

-----------------------------------------------------------------------------
(* AddExecution and ExecuteAsync, called by a handler.                     *)

AddExecution(e) ==
  /\ listed' = listed \cup {e}
  /\ UNCHANGED <<hasRun, cancelled, worker, outcome, waitGroup, stop, shutdown>>

StartWorker(e) ==
  /\ worker' = [worker EXCEPT ![e] = "running"]
  /\ waitGroup' = waitGroup + 1
  /\ UNCHANGED <<listed, hasRun, cancelled, outcome, stop, shutdown>>

(* The run is stored through the pointer getExecution returned; the entry  *)
(* may be gone from the map by then.                                       *)
SetRun(e) ==
  /\ hasRun' = hasRun \cup {e}
  /\ UNCHANGED <<listed, cancelled, worker, outcome, waitGroup, stop, shutdown>>

-----------------------------------------------------------------------------
(* The goroutine.                                                          *)

(* Mutant: Done is not deferred, so a panic skips it.                      *)
ReturnWithoutDone(e, o) ==
  /\ worker[e] = "running"
  /\ worker' = [worker EXCEPT ![e] = "returned"]
  /\ outcome' = [outcome EXCEPT ![e] = o]
  /\ UNCHANGED <<listed, hasRun, cancelled, waitGroup, stop, shutdown>>

(* Mutant: Done also comes early on an error, and once more at the end. *)
ReturnErrorDone(e, o) ==
  /\ worker[e] = "running"
  /\ worker' = [worker EXCEPT ![e] = "returned"]
  /\ outcome' = [outcome EXCEPT ![e] = o]
  /\ waitGroup' = IF o \in {"err", "panic"} THEN waitGroup - 1 ELSE waitGroup
  /\ UNCHANGED <<listed, hasRun, cancelled, stop, shutdown>>

(* The executable ends.  A panic unwinds the deferred calls in reverse     *)
(* order: Done comes before the recovery that removes the entry and sends. *)
Return(e, o) ==
  /\ worker[e] = "running"
  /\ worker' = [worker EXCEPT ![e] = "returned"]
  /\ outcome' = [outcome EXCEPT ![e] = o]
  /\ waitGroup' = IF o = "panic" THEN waitGroup - 1 ELSE waitGroup
  /\ UNCHANGED <<listed, hasRun, cancelled, stop, shutdown>>

(* Mutant: the recovery of a panic does not remove the entry.              *)
RemoveUnlessPanic(e) ==
  /\ worker[e] = "returned"
  /\ listed' = IF outcome[e] = "panic" THEN listed ELSE listed \ {e}
  /\ worker' = [worker EXCEPT ![e] = "sending"]
  /\ UNCHANGED <<hasRun, cancelled, outcome, waitGroup, stop, shutdown>>

RemoveExecution(e) ==
  /\ worker[e] = "returned"
  /\ listed' = listed \ {e}
  /\ worker' = [worker EXCEPT ![e] = "sending"]
  /\ UNCHANGED <<hasRun, cancelled, outcome, waitGroup, stop, shutdown>>

(* The rendezvous on waitErr or waitData; without a receiver the goroutine *)
(* stays here for ever.                                                    *)
HandOver(e) ==
  /\ worker[e] = "sending"
  /\ worker' = [worker EXCEPT ![e] = IF outcome[e] = "panic" THEN "over" ELSE "sent"]
  /\ UNCHANGED <<listed, hasRun, cancelled, outcome, waitGroup, stop, shutdown>>

WorkerDone(e) ==
  /\ worker[e] = "sent"
  /\ worker' = [worker EXCEPT ![e] = "over"]
  /\ waitGroup' = waitGroup - 1
  /\ UNCHANGED <<listed, hasRun, cancelled, outcome, stop, shutdown>>

-----------------------------------------------------------------------------
(* StopExecution, on behalf of StopWorkflowCurrentExecution.  A missing    *)
(* entry (nil result) and an entry without a run are nil dereferences: the *)
(* request fails, its handler panics.                                      *)

StopFind(e) ==
  /\ stop[e] = "idle"
  /\ stop' = [stop EXCEPT ![e] = IF e \in listed THEN "found" ELSE "failed"]
  /\ UNCHANGED <<listed, hasRun, cancelled, worker, outcome, waitGroup, shutdown>>

StopCancel(e) ==
  /\ stop[e] = "found"
  /\ IF e \in hasRun
     THEN /\ cancelled' = cancelled \cup {e}
          /\ stop' = [stop EXCEPT ![e] = "cancelled"]
     ELSE /\ stop' = [stop EXCEPT ![e] = "failed"]
          /\ UNCHANGED cancelled
  /\ UNCHANGED <<listed, hasRun, worker, outcome, waitGroup, shutdown>>

StopRemove(e) ==
  /\ stop[e] = "cancelled"
  /\ stop' = [stop EXCEPT ![e] = "stopped"]
  /\ listed' = listed \ {e}
  /\ UNCHANGED <<hasRun, cancelled, worker, outcome, waitGroup, shutdown>>

-----------------------------------------------------------------------------
(* ShutdownActiveExecutions: the first of an empty wait group and the      *)
(* timeout of 30 seconds ends it.                                          *)

ShutdownBegin ==
  /\ shutdown = "no"
  /\ shutdown' = "waiting"
  /\ UNCHANGED <<listed, hasRun, cancelled, worker, outcome, waitGroup, stop>>

ShutdownEnd ==
  /\ shutdown = "waiting"
  /\ \/ waitGroup = 0 /\ shutdown' = "closed"
     \/ shutdown' = "forced"
  /\ UNCHANGED <<listed, hasRun, cancelled, worker, outcome, waitGroup, stop>>

-----------------------------------------------------------------------------
(* The counter of the wait group is the number of goroutines that have not *)
(* called Done: a shutdown that ends "closed" cuts off nobody's work, and  *)
(* the counter never goes negative, which would be a panic (Add, Done).    *)
InFlight(e) ==
  \/ worker[e] \in {"running", "sent"}
  \/ worker[e] \in {"returned", "sending"} /\ outcome[e] # "panic"

WaitGroupCounts == waitGroup = Cardinality({e \in Exec : InFlight(e)})

=============================================================================
