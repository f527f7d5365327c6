SPECIFICATION Spec
CONSTANTS
  Jobs <- MCJobs
  MaxSets = 3
  MaxVobs = 2
INVARIANTS Released Duplicate InOrder FeatureRight
