SPECIFICATION Spec
CONSTANTS
  Devices = {d1, d2}
  Lookups = {l1}
  Pci = {}
  PersistentAttributes = TRUE
  Mobile = {d1}
  MaxChanges = 3
INVARIANTS NoLostWakeup AllocatedStaysPublished
PROPERTIES PublishedCatchesUp StoreCatchesUp
