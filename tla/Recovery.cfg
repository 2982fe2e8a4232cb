SPECIFICATION Spec
CONSTANTS
  Sessions = {1, 2}
  MaxScanned = 2
  MaxBoots = 3
INVARIANTS
  EveryInterruptedIsOffered
PROPERTIES
  PublishedIsFinal
  PublishedIsWhole
  ExportableStays
