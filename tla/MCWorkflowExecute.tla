-------------------------- MODULE MCWorkflowExecute --------------------------
(***************************************************************************)
(* Small workflows for WorkflowExecute.  A configuration picks one of them *)
(* for the constants of the graph.                                         *)
(***************************************************************************)
EXTENDS WorkflowExecute

MCSymmetry == Permutations(Exec)

Edge(s, o, d, i) == [src |-> s, out |-> o, dst |-> d, in |-> i]

OneList == {<<"items">>}                              \* a node that returns a list
MaybeEmpty == {<<"items">>, <<"empty">>}                 \* ... that may be empty
TwoWay == {<<"items", "nil">>, <<"nil", "items">>, <<"items", "items">>}

(* "trigger" -> "if", both branches of which lead, through "a" and "b", to *)
(* the two inputs of "merge"; "end" follows it.                            *)
BranchNode == {"trigger", "if", "a", "b", "merge", "end"}
BranchConn ==
  {Edge("trigger", 0, "if", 0), Edge("if", 0, "a", 0), Edge("if", 1, "b", 0),
   Edge("a", 0, "merge", 0), Edge("b", 0, "merge", 1), Edge("merge", 0, "end", 0)}
BranchRank ==
  [n \in BranchNode |-> CASE n = "trigger" -> 0 [] n = "if" -> 1 [] n = "a" -> 2
                          [] n = "b" -> 3 [] n = "merge" -> 4 [] n = "end" -> 5]
BranchShapes ==
  [n \in BranchNode |-> CASE n = "if" -> TwoWay [] n = "trigger" -> OneList [] OTHER -> MaybeEmpty]

(* A tree: "trigger" fans out to "a" and "b"; "a" leads to "c".            *)
TreeNode == {"trigger", "a", "b", "c"}
TreeConn ==
  {Edge("trigger", 0, "a", 0), Edge("trigger", 0, "b", 0), Edge("a", 0, "c", 0)}
TreeRank ==
  [n \in TreeNode |-> CASE n = "trigger" -> 0 [] n = "a" -> 1 [] n = "c" -> 2 [] n = "b" -> 3]
TreeShapes == [n \in TreeNode |-> OneList]

(* Two triggers feed "x", which may take either output or both; "t1" and   *)
(* "x" feed both inputs of "merge", the first of which has two sources;    *)
(* "end" and "del" (Delete Execution) follow an output of "x"; "off" is    *)
(* disabled and leads to "respond" (Respond to Webhook), which as a type   *)
(* with "webhook" in its name is a starter too.                            *)
MeshNode == {"t1", "t2", "x", "merge", "end", "off", "respond", "del"}
MeshConn ==
  {Edge("t1", 0, "x", 0), Edge("t2", 0, "x", 0), Edge("x", 1, "del", 0),
   Edge("t1", 0, "merge", 0), Edge("x", 0, "merge", 0), Edge("x", 1, "merge", 1),
   Edge("x", 0, "end", 0), Edge("t1", 0, "off", 0), Edge("off", 0, "respond", 0)}
MeshRank ==
  [n \in MeshNode |-> CASE n = "t1" -> 0 [] n = "t2" -> 1 [] n = "del" -> 2 [] n = "x" -> 3
                        [] n = "off" -> 3 [] n = "respond" -> 4 [] n = "merge" -> 5
                        [] n = "end" -> 6]
MeshShapes ==
  [n \in MeshNode |-> CASE n = "x" -> {<<"items", "empty">>, <<"empty">>, <<"nil", "items">>}
                        [] n = "merge" -> MaybeEmpty
                        [] n = "del" -> {<<>>} [] OTHER -> OneList]
MeshStarters == <<"t1", "t2", "respond">>

OnlyTrigger == <<"trigger">>
=============================================================================
