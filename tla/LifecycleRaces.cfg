SPECIFICATION MCFairSpec
CONSTANTS
  Workflow = {w1}
  Definition <- TwoDefinitions
  Webhooks <- TwoWebhooks
  Cron <- TwoCrons
  Slot = {p1, p2}
  MainSlot = {p1}
  Faults = {"read", "crash"}
  MaxRequests = 2
  MaxFaults = 1
  StoredActive = w1
  None = None
INVARIANTS HookHasWorkflow
PROPERTIES StaticDataKept TestWebhooksExpire
CHECK_DEADLOCK FALSE
