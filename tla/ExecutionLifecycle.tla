-------------------------- MODULE ExecutionLifecycle --------------------------
(***************************************************************************)
(* What an execution row promises to everyone who reads it: an execution   *)
(* is created, may report progress any number of times, ends once, and     *)
(* keeps that verdict until somebody removes the row for good.  The states *)
(* are those of WorkflowExecutionStatus the service stores                 *)
(* (shared/structs/workflow.go:88-97).                                     *)
(***************************************************************************)
CONSTANT Exec

VARIABLE life

Open == {"new", "running"}
Verdict == {"success", "failed"}

Init == life = [e \in Exec |-> "absent"]

Create(e) ==
  /\ life[e] = "absent"
  /\ life' = [life EXCEPT ![e] = "new"]

Progress(e) ==
  /\ life[e] \in Open
  /\ life' = [life EXCEPT ![e] = "running"]

Conclude(e) ==
  /\ life[e] \in Open
  /\ \E v \in Verdict : life' = [life EXCEPT ![e] = v]

Remove(e) ==
  /\ life[e] \in Open \cup Verdict
  /\ life' = [life EXCEPT ![e] = "removed"]

Next == \E e \in Exec : Create(e) \/ Progress(e) \/ Conclude(e) \/ Remove(e)

Spec == Init /\ [][Next]_life
=============================================================================
