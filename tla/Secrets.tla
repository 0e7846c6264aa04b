------------------------------- MODULE Secrets ------------------------------
(***************************************************************************)
(* The private key of a BigQuery integration (integration/bigquery/util.go *)
(* and shared/aws_lib/aws_sdk_clients.go).  It is kept in the secrets      *)
(* manager of AWS, under a name made from the organisation, and taken out  *)
(* of the integration once it is there.  Callers store, read and delete it *)
(* at the same time.  Every call of the manager may fail, and one that     *)
(* fails for its caller may have had its effect, have it later or never.   *)
(***************************************************************************)
EXTENDS Integers, FiniteSets

CONSTANTS Callers, PrivateKeys, NoKey, MaxFailures

VARIABLES secret,       \* what the manager has: a key or NoKey
          holding,      \* per caller, the key in its copy of the integration
          given,        \* per caller, the key its copy came with
          phase,        \* per caller, what it does or how that ended
          late,         \* requests without an answer that may still take effect: [caller, ask, nr]
          failures

secretVars == <<secret, holding, given, phase, late, failures>>

SecretsIdle ==
  /\ secret = NoKey /\ late = {} /\ failures = 0
  /\ holding = [c \in Callers |-> NoKey]
  /\ given = holding
  /\ phase = [c \in Callers |-> "asleep"]
SecretsInit ==
  /\ secret = NoKey /\ late = {} /\ failures = 0
  /\ holding \in [Callers -> PrivateKeys \cup {NoKey}]
  /\ given = holding
  /\ phase = [c \in Callers |-> "idle"]

Goto(c, to) == phase' = [phase EXCEPT ![c] = to]

(* StoreOrUpdateBigqueryIntegrationPrivateKey.                             *)
Store(c) ==
  /\ phase[c] = "idle"
  /\ Goto(c, IF holding[c] = NoKey THEN "failed" ELSE "looking")
  /\ UNCHANGED <<secret, holding, given, late, failures>>

(* CreateOrUpdateSecretInSecretManager asks first, then creates or         *)
(* updates.                                                                *)
Look(c) ==
  /\ phase[c] = "looking"
  /\ Goto(c, IF secret = NoKey THEN "creating" ELSE "updating")
  /\ UNCHANGED <<secret, holding, given, late, failures>>

(* What the manager makes of a request.  A secret that somebody else has   *)
(* created since cannot be created, one that was deleted since cannot be   *)
(* updated.                                                                *)
Accepts(ask) == (ask = "creating") = (secret = NoKey)
After(c, ask) ==
  IF ask = "deleting" THEN NoKey ELSE IF Accepts(ask) THEN given[c] ELSE secret

(* Mutant: the integration forgets its key before it is stored.            *)
ClearedAlways(c, ok) == [holding EXCEPT ![c] = NoKey]

Cleared(c, ok) == IF ok THEN [holding EXCEPT ![c] = NoKey] ELSE holding

(* CreateSecretInSecretManager or UpdateSecretInSecretManager, answered.   *)
Save(c, ask) ==
  /\ phase[c] = ask
  /\ secret' = After(c, ask)
  /\ holding' = Cleared(c, Accepts(ask))
  /\ Goto(c, IF Accepts(ask) THEN "stored" ELSE "unsaved")
  /\ UNCHANGED <<given, late, failures>>
Create(c) == Save(c, "creating")
Update(c) == Save(c, "updating")

(* GetBigqueryIntegration: an integration that has its key does not ask    *)
(* for it.                                                                 *)
Read(c) ==
  /\ phase[c] = "idle"
  /\ LET key == IF holding[c] # NoKey THEN holding[c] ELSE secret
     IN  /\ holding' = [holding EXCEPT ![c] = key]
         /\ Goto(c, IF key = NoKey THEN "failed" ELSE "read")
  /\ UNCHANGED <<secret, given, late, failures>>

(* DeleteBigqueryIntegrationServiceAccountPrivateKey: nothing to delete is *)
(* a success.                                                              *)
Forget(c) ==
  /\ phase[c] = "idle"
  /\ Goto(c, "deleting")
  /\ UNCHANGED <<secret, holding, given, late, failures>>
Delete(c) ==
  /\ phase[c] = "deleting"
  /\ secret' = After(c, "deleting")
  /\ Goto(c, "deleted")
  /\ UNCHANGED <<holding, given, late, failures>>

-----------------------------------------------------------------------------
(* A request that only asks for the secret fails.                          *)
AskFails(c) ==
  /\ failures < MaxFailures
  /\ phase[c] \in {"idle", "looking"}
  /\ failures' = failures + 1
  /\ Goto(c, "failed")
  /\ UNCHANGED <<secret, holding, given, late>>

(* A request that changes the secret gets no answer: the client of AWS     *)
(* sends it once more, or gives up and the caller keeps what it has.       *)
Unanswered == {"creating", "updating", "deleting"}
AnswerLost(c) ==
  /\ failures < MaxFailures
  /\ phase[c] \in Unanswered
  /\ failures' = failures + 1
  /\ late' = late \cup {[caller |-> c, ask |-> phase[c], nr |-> failures]}
  /\ holding' = Cleared(c, FALSE)
  /\ \/ phase' = phase
     \/ Goto(c, IF phase[c] = "deleting" THEN "undeleted" ELSE "unsaved")
  /\ UNCHANGED <<secret, given>>

(* The manager deals with such a request, at once or later.                *)
LateRequest(r) ==
  /\ r \in late
  /\ secret' = After(r.caller, r.ask)
  /\ late' = late \ {r}
  /\ UNCHANGED <<holding, given, phase, failures>>

CallerNext(c) ==
  \/ Store(c) \/ Look(c) \/ Create(c) \/ Update(c) \/ Read(c) \/ Forget(c) \/ Delete(c)
  \/ AskFails(c) \/ AnswerLost(c)
SecretsNext == (\E c \in Callers : CallerNext(c)) \/ (\E r \in late : LateRequest(r))

SecretsSpec == SecretsInit /\ [][SecretsNext]_secretVars

-----------------------------------------------------------------------------
AsksToDelete(c) == phase[c] \in {"deleting", "deleted", "undeleted"}
AsksToSave(c) == phase[c] \in {"creating", "updating", "stored", "unsaved"}

(* As long as nobody asks to delete the secret no key is lost: what a      *)
(* caller brought is in its integration, unless it was told that it is     *)
(* stored, and from then on there is a key to be read, one that a caller   *)
(* asked to save.  That may be one whose caller was told that it could not *)
(* be saved, and may have come after the one of a caller told otherwise.   *)
KeyNotLost ==
  ~(\E c \in Callers : AsksToDelete(c)) =>
    \A c \in Callers :
      /\ given[c] # NoKey => holding[c] = given[c] \/ phase[c] = "stored"
      /\ phase[c] = "stored" => \E d \in Callers : AsksToSave(d) /\ secret = given[d] /\ secret # NoKey
=============================================================================
