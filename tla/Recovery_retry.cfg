SPECIFICATION Spec
CONSTANTS
  Sessions = {1}
  MaxScanned = 1
  MaxBoots = 2
INVARIANTS
  CandidateRetryable
