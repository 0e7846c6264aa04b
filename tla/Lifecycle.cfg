SPECIFICATION MCSpec
CONSTANTS
  Workflow = {w1, w2}
  Definition <- TwoDefinitions
  Webhooks <- TwoWebhooks
  Cron <- OneCron
  Slot = {p1}
  MainSlot = {p1}
  Faults = {"read", "write", "temporal", "crash"}
  MaxRequests = 2
  MaxFaults = 2
  StoredActive = w2
  None = None
INVARIANTS WebhooksFollowActivation ScheduleFollowsActivation
CHECK_DEADLOCK FALSE
