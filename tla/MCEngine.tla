------------------------------ MODULE MCEngine ------------------------------
(* A small instance of the engine: two callers, two users, five tracked      *)
(* activities. One of them weighs two, one was counted by an older release,  *)
(* one is seen with two different projects and times of day, and one is a    *)
(* landed merge request, at which its actor was absent.                      *)
EXTENDS Engine, FiniteSetsExt

ActorTable == [k1 |-> "ann", k2 |-> "ann", k3 |-> "ann", k4 |-> "ann", k5 |-> "bob", k6 |-> "ann",
               anonymous |-> "nobody", untracked |-> "bob"]
KindTable == [k1 |-> "commit", k2 |-> "commit", k3 |-> "comment", k4 |-> "merge_request_landed",
              k5 |-> "commit", k6 |-> "commit",
              anonymous |-> "push", untracked |-> "milestone_opened"]
MCActor  == [k \in Activities |-> ActorTable[k]]
MCKind   == [k \in Activities |-> KindTable[k]]
MCWeight == [k \in Activities |-> IF k = "k1" THEN 2 ELSE 1]

Sighting(k, d, h, p) == [key |-> k, day |-> d, hour |-> h, project |-> p]
MCOldSightings == {Sighting("k3", 1, 12, 1)}
MCSightings ==
  {s \in {Sighting("k3", 1, 12, 1),
          Sighting("k1", 2, 3, 2), Sighting("k2", 2, 6, 1), Sighting("k2", 4, 6, 2),
          Sighting("k4", 3, 12, 1), Sighting("k5", 0, 0, 1), Sighting("k6", 2, 3, 1),
          Sighting("anonymous", 1, 1, 1), Sighting("untracked", 1, 1, 1)} :
     s.key \in Activities}

MCCriteriaKey ==
  [committer1 |-> "commits", committer2 |-> "commits", lander |-> "merge_requests_landed",
   streak |-> "activity_streak", regular |-> "active_days", owl |-> "night_owl_days",
   nomad |-> "projects_contributed"]
MCThreshold ==
  [committer1 |-> 1, committer2 |-> 2, lander |-> 1, streak |-> 2, regular |-> 3, owl |-> 1,
   nomad |-> 2]
MCExpReward ==
  [committer1 |-> 1, committer2 |-> 2, lander |-> 1, streak |-> 3, regular |-> 1, owl |-> 0,
   nomad |-> 2]

\* The sum written as the size of a disjoint union is the usual sum.
ASSUME SumOverIsSum ==
  /\ \A T \in SUBSET Tiers : SumOver(T, ExpReward) = MapThenSumSet(LAMBDA t : ExpReward[t], T)
  /\ \A K \in SUBSET Activities : SumOver(K, Weight) = MapThenSumSet(LAMBDA k : Weight[k], K)

\* The longest run counted by its lengths is the longest run.
ASSUME LongestRunIsMax ==
  \A days \in (SUBSET (1 .. 6)) \ {{}} :
    LongestRun(days) = Max({n \in 1 .. 6 : \E d \in days : d .. (d + n - 1) \subseteq days})

=============================================================================
