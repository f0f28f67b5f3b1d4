------------------------------- MODULE Ledger -------------------------------
(***************************************************************************)
(* What the evaluation engine promises, free of transactions and            *)
(* concurrency: a set of counted activities that grows one activity at a    *)
(* time, each counted in a step of its own, whole, at a moment its actor    *)
(* takes part; and the cumulative counters and tiers that follow from it.   *)
(***************************************************************************)
EXTENDS Criteria

CONSTANTS Users, Activities, Actor, Kind, Weight, Tiers, CriteriaKey, Threshold,
          Initial   \* the activities counted to begin with

VARIABLES counted,  \* the activities counted so far
          excluded, \* the users left out of achievements
          score,    \* each user's cumulative counters
          held      \* the tiers of cumulative criteria each user holds

vars == <<counted, excluded, score, held>>

\* The weight of the activities in K that advance criteria c of user u.
Total(K, u, c) == SumOver({k \in K : Actor[k] = u /\ c \in criteriaFor(Kind[k])}, Weight)

ReachedBy(s) ==
  [u \in Users |-> {t \in Tiers : /\ CriteriaKey[t] \in Cumulative
                                  /\ Threshold[t] <= s[u][CriteriaKey[t]]}]

Init ==
  /\ counted  = Initial
  /\ excluded = {}
  /\ score    = [u \in Users |-> [c \in Cumulative |-> Total(Initial, u, c)]]
  /\ held     = ReachedBy(score)

Count(k) ==
  /\ k \notin counted
  /\ Actor[k] \in Users \ excluded
  /\ counted' = counted \cup {k}
  /\ score' = [score EXCEPT ![Actor[k]] =
                 [c \in Cumulative |-> @[c] + (IF c \in criteriaFor(Kind[k]) THEN Weight[k] ELSE 0)]]
  /\ held' = ReachedBy(score')
  /\ UNCHANGED excluded

Exclude(u) ==
  /\ excluded' = excluded \cup {u}
  /\ UNCHANGED <<counted, score, held>>

Include(u) ==
  /\ excluded' = excluded \ {u}
  /\ UNCHANGED <<counted, score, held>>

Next ==
  \/ \E k \in Activities : Count(k)
  \/ \E u \in Users : Exclude(u) \/ Include(u)

Spec == Init /\ [][Next]_vars

=============================================================================
