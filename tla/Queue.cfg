SPECIFICATION Spec
CONSTANTS
  Labels = {l1, l2, l3}
  MaxCost = 8
  Costs <- MCCosts
  MinCosts <- MCMinCosts
  BucketSize = 2
  BucketRange = 5
  kInvalidLabel = kInvalidLabel
  NoLabel = NoLabel
  DriftBound = 12
SYMMETRY MCSymmetry
INVARIANTS TypeOK LabelsPlaced
PROPERTIES ImplementsLabelQueue
