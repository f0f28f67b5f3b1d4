SPECIFICATION Spec
CONSTANTS
  Workers = {w1, w2}
  Users = {"ann", "bob"}
  Activities = {"k1", "k2", "k3", "k6"}
  Actor <- MCActor
  Kind <- MCKind
  Weight <- MCWeight
  Sightings <- MCSightings
  OldSightings <- MCOldSightings
  Tiers = {"committer1", "committer2", "lander", "streak", "regular", "owl", "nomad"}
  CriteriaKey <- MCCriteriaKey
  Threshold <- MCThreshold
  ExpReward <- MCExpReward
  Isolation = "repeatable_read"
  None = None
INVARIANTS
  ExactlyOnce
