\* Redundancy and signal reviews of batches, repeated and cut short, and their artifact reviews.
CONSTANTS
  None = None
  Cases <- MCCases
  MaxCrashes = 1
SPECIFICATION Spec
INVARIANTS
  DecisionsStand
  RelationsAreSymmetric
  EvidenceIsPerInstrument
  
PROPERTIES
  ImplementsArtifacts
