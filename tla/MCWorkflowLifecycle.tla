------------------------- MODULE MCWorkflowLifecycle -------------------------
(***************************************************************************)
(* Small workflows for WorkflowLifecycle: a definition with one webhook    *)
(* and a schedule, one with another webhook or the same with another       *)
(* method, with another schedule or none.                                  *)
(***************************************************************************)
EXTENDS WorkflowLifecycle

Hook(id, method) == [id |-> id, method |-> method]

TwoDefinitions == {"d1", "d2"}
TwoWebhooks == [d \in TwoDefinitions |-> IF d = "d1" THEN <<Hook("h1", "GET")>>
                                         ELSE <<Hook("h1", "POST"), Hook("h2", "GET")>>]
TwoCrons == [d \in TwoDefinitions |-> IF d = "d1" THEN "hourly" ELSE "daily"]
OneCron == [d \in TwoDefinitions |-> IF d = "d1" THEN "hourly" ELSE None]

(* Bound: the workflow that is stored as active when the system starts;    *)
(* the others start in any state.                                          *)
CONSTANT StoredActive

MCInit ==
  /\ Init
  /\ Exists(StoredActive)
  /\ row[StoredActive] = [active |-> TRUE, def |-> "d1", static |-> None]
MCSpec == MCInit /\ [][Next]_vars
MCFairSpec == MCSpec /\ Fairness
=============================================================================
