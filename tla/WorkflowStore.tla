---------------------------- MODULE WorkflowStore ----------------------------
(***************************************************************************)
(* The two tables the lifecycle of a workflow lives in, with the queries   *)
(* the service sends them (rds-db/lib): workflow_entity, and               *)
(* webhook_entity, the registrations that make a webhook node reachable.   *)
(*                                                                         *)
(* A definition stands for the nodes of one version of a workflow; what    *)
(* matters of it is the webhooks of its enabled nodes, in canvas order,    *)
(* and the cron expression of its first enabled schedule trigger.          *)
(***************************************************************************)
EXTENDS Integers, Sequences, FiniteSets, Functions

CONSTANTS
  Workflow,     \* ids of workflows
  Definition,   \* versions of their nodes
  Webhooks,     \* [Definition -> Seq([id, method])], see GetWorkflowWebhooks
  Cron,         \* [Definition -> a cron expression or None]
  None

VARIABLES
  row,          \* workflow_entity: [active, def, static] of the workflows that exist
  hook          \* webhook_entity: a set of [path, method, workflow]

tables == <<row, hook>>

Crons == Range(Cron) \cup {None}
WebhooksOf(d) == Range(Webhooks[d])
AllWebhooks == UNION {WebhooksOf(d) : d \in Definition}

ASSUME StoreAssumption ==
  /\ IsFiniteSet(Workflow) /\ None \notin Workflow
  /\ DOMAIN Cron = Definition
  /\ \A d \in Definition : Webhooks[d] \in Seq(WebhooksOf(d))
  /\ \A h \in AllWebhooks : h = [id |-> h.id, method |-> h.method]

(* The path of a registration is the id of its webhook, with the suffix    *)
(* "/test" for a test registration.                                        *)
Path(id, test) == [id |-> id, test |-> test]

HookFor(w, h, test) == [path |-> Path(h.id, test), method |-> h.method, workflow |-> w]

Exists(w) == w \in DOMAIN row

-----------------------------------------------------------------------------
(* workflow_entity.  Every query names one row; UPDATE and DELETE ... :one *)
(* RETURNING fail with sql.ErrNoRows where there is none, so the caller's  *)
(* guard is Exists(w).                                                     *)

CreateWorkflowEntity(w, active, d) ==
  /\ row' = [v \in DOMAIN row \cup {w} |->
               IF v = w THEN [active |-> active, def |-> d, static |-> None] ELSE row[v]]
  /\ UNCHANGED hook

UpdateWorkflowEntity(w, active, d) ==
  /\ row' = [row EXCEPT ![w] = [active |-> active, def |-> d, static |-> d]]
  /\ UNCHANGED hook

UpdateWorkflowEntityActive(w, active) ==
  /\ row' = [row EXCEPT ![w].active = active]
  /\ UNCHANGED hook

UpdateWorkflowEntityStaticDataByID(w, static) ==
  /\ row' = [row EXCEPT ![w].static = static]
  /\ UNCHANGED hook

(* Mutant: the foreign key does not cascade.                               *)
DeleteRowOnly(w) ==
  /\ row' = [v \in DOMAIN row \ {w} |-> row[v]]
  /\ UNCHANGED hook

(* The foreign key of webhook_entity deletes the registrations of w too.   *)
DeleteWorkflowEntity(w) ==
  /\ row' = [v \in DOMAIN row \ {w} |-> row[v]]
  /\ hook' = {h \in hook : h.workflow # w}

ListAllActiveWorkflowEntities == {w \in DOMAIN row : row[w].active}

-----------------------------------------------------------------------------
(* webhook_entity.  The primary key is (webhookPath, method), the foreign  *)
(* key wants the workflow to exist.                                        *)

MayInsert(h) ==
  /\ \A other \in hook : <<other.path, other.method>> # <<h.path, h.method>>
  /\ Exists(h.workflow)

CreateWebhookEntity(h) ==
  /\ hook' = hook \cup {h}
  /\ UNCHANGED row

(* Mutant: the DELETE names path and method but not the workflow.          *)
DeleteByPathAndMethod(h) ==
  /\ hook' = {other \in hook : <<other.path, other.method>> # <<h.path, h.method>>}
  /\ UNCHANGED row

DeleteWebhookEntityByWorkflowId_Path_Method(h) ==
  /\ hook' = hook \ {h}
  /\ UNCHANGED row

DeleteAllWebhookEntities ==
  /\ hook' = {}
  /\ UNCHANGED row

ListDistinctWorkflowIdsFromWebhookEntities == {h.workflow : h \in hook}

ListWebhookEntities(w, id) == {h \in hook : h.workflow = w /\ h.path.id = id}

-----------------------------------------------------------------------------
(* How a webhook request finds its node: GetWebhookEntity takes the first  *)
(* registration with the path, in no particular order, and its method must *)
(* be that of the request; then the workflow as it is now must have a node *)
(* with this webhook.                                                      *)

GetWebhookEntity(w, id, test) ==
  {h \in ListWebhookEntities(w, id) : h.path = Path(id, test)}

Accepts(w, h, test) ==
  LET found == GetWebhookEntity(w, h.id, test)
  IN  /\ found # {}
      /\ \A f \in found : f.method = h.method
      /\ \E n \in WebhooksOf(row[w].def) : n.id = h.id
=============================================================================
