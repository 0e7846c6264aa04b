--------------------------- MODULE MCHandleWebhook ---------------------------
(***************************************************************************)
(* One request, which may come in any mode, may be stopped once and meets  *)
(* one shutdown.  A form takes two executions: bound, the spare ones are   *)
(* there for the first of them alone, no request of their own comes.       *)
(***************************************************************************)
EXTENDS HandleWebhook

CONSTANT Spare

EveryMode == AllModes

MCNext == Next /\ \A f \in Spare : handler'[f] \in {"idle", "unused"}
MCFairSpec == Init /\ [][MCNext]_vars /\ Fairness
=============================================================================
