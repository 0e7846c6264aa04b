SPECIFICATION MCSpec
CONSTANTS
  Workflow = {w1}
  Definition <- TwoDefinitions
  Webhooks <- TwoWebhooks
  Cron <- TwoCrons
  Slot = {p1}
  MainSlot = {p1}
  Faults = {}
  MaxRequests = 1
  MaxFaults = 0
  StoredActive = w1
  None = None
INVARIANTS NewTriggerTakesEffect
CHECK_DEADLOCK FALSE
