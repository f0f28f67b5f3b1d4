SPECIFICATION Spec
CONSTANTS
  Workers = {w1, w2}
  Users = {"ann", "bob"}
  Activities = {"k1", "k2", "k3", "k4", "k5", "anonymous", "untracked"}
  Actor <- MCActor
  Kind <- MCKind
  Weight <- MCWeight
  Sightings <- MCSightings
  OldSightings <- MCOldSightings
  Tiers = {"committer1", "committer2", "lander", "streak", "regular", "owl", "nomad"}
  CriteriaKey <- MCCriteriaKey
  Threshold <- MCThreshold
  ExpReward <- MCExpReward
  Isolation = "read_committed"
  None = None
INVARIANTS
  TypeOK
  ExactlyOnce
  HeldTiersAreReached
  ExpMatchesAwards
  DerivedCountersCurrent
PROPERTIES
  NothingCountedWhileExcluded
  ImplementsLedger
