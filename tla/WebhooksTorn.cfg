\* Two registrations and a crash.
SPECIFICATION WebhooksSpec
CONSTANTS
  MaxHooks = 2
  MaxEvents = 1
  MaxFaults = 1
INVARIANT FileWhole
CHECK_DEADLOCK FALSE
