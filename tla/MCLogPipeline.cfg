SPECIFICATION Spec
CONSTANTS
  Entries = {e1, e2, bad}
  Invalid = {bad}
  MaxFaults = 3
INVARIANTS
  TypeOK
  OnceWithoutFaults
PROPERTIES
  DeliversAtLeastOnce
  RefusedIsNeverDropped
  SentIsStored
CHECK_DEADLOCK FALSE
