SPECIFICATION Spec
CONSTANTS
  c1 = c1
  c2 = c2
  a1 = a1
  a2 = a2
  Card <- MCCard
  Artifact <- MCArtifact
  Theirs = Theirs
  Absent = Absent
  FailuresBeforeOverride = 2
  MaxHits = 2
  MaxSigned = 2
INVARIANTS FinalIsWhole DeliveredIsThere FailsForCause
PROPERTIES ReplacedOnRequest NotStranded
