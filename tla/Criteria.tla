------------------------------ MODULE Criteria ------------------------------
(***************************************************************************)
(* The constant-level vocabulary of the evaluation engine: which criteria   *)
(* an activity advances (internal/engine/criteria.go), and how a set of     *)
(* active days is reduced to the day-derived criteria                       *)
(* (internal/engine/days.go). A calendar day is a positive natural number;  *)
(* day 0 stands for Go's zero time, an activity with no usable timestamp.   *)
(***************************************************************************)
EXTENDS Naturals, FiniteSets

\* The criteria each kind of activity advances; kinds that are not in the
\* domain are ignored by the engine.
kindCriteria ==
  [commit                    |-> {"commits"},
   push                      |-> {"pushes"},
   branch_created            |-> {"branches_created"},
   tag_created               |-> {"tags_created"},
   release_published         |-> {"releases_published"},
   merge_request_opened      |-> {"merge_requests_opened"},
   merge_request_merged      |-> {"merge_requests_merged"},
   merge_request_merged_fast |-> {"merge_requests_merged_fast"},
   merge_request_landed      |-> {"merge_requests_landed"},
   merge_request_approved    |-> {"merge_requests_approved"},
   merge_request_closed      |-> {"merge_requests_closed"},
   issue_opened              |-> {"issues_opened"},
   issue_closed              |-> {"issues_closed"},
   comment                   |-> {"comments"},
   review_comment            |-> {"review_comments"},
   discussion_resolved       |-> {"discussions_resolved"},
   pipeline_run              |-> {"pipelines_run"},
   pipeline_succeeded        |-> {"pipelines_succeeded"},
   pipeline_failed           |-> {"pipelines_failed"},
   pipeline_fixed            |-> {"pipelines_fixed"},
   job_run                   |-> {"jobs_run"},
   deployment                |-> {"deployments"},
   deployment_succeeded      |-> {"deployments_succeeded"},
   emoji_awarded             |-> {"emoji_awarded"},
   wiki_page_created         |-> {"wiki_pages_created"}]

criteriaFor(kind) == IF kind \in DOMAIN kindCriteria THEN kindCriteria[kind] ELSE {}

\* Criteria accumulated event by event, those recomputed from the set of
\* active days, and the one recomputed from the set of projects.
Cumulative  == UNION {kindCriteria[kind] : kind \in DOMAIN kindCriteria}
dayCriteria == {"active_days", "activity_streak", "night_owl_days", "early_bird_days"}
AllCriteria == Cumulative \cup dayCriteria \cup {"projects_contributed"}

\* A landed merge request is credited to its author, who was not there when
\* somebody else merged it.
absentKinds      == {"merge_request_landed"}
presentFor(kind) == kind \notin absentKinds

-----------------------------------------------------------------------------

NoDay == 0

\* The two notable parts of the clock, exclusive of each other.
nightOwlUntilHour  == 5
earlyBirdUntilHour == 8
isNightOwl(hour)   == hour < nightOwlUntilHour
isEarlyBird(hour)  == nightOwlUntilHour <= hour /\ hour < earlyBirdUntilHour

\* The longest run of consecutive days in a set of days. A run can be
\* shortened to any length, so the longest is as long as there are lengths.
LongestRun(days) ==
  Cardinality({n \in 1 .. Cardinality(days) : \E d \in days : d .. (d + n - 1) \subseteq days})

\* What a set of days adds up to, given those flagged as night-owl days and
\* as early-bird days.
computeDayTotals(days, owl, early) ==
  [active_days     |-> Cardinality(days),
   activity_streak |-> LongestRun(days),
   night_owl_days  |-> Cardinality(owl),
   early_bird_days |-> Cardinality(early)]

-----------------------------------------------------------------------------

\* The sum of w over the finite set S, written as the size of a disjoint
\* union so that the theorems about finite sets apply to it.
Units(S, w)   == UNION {{s} \X (1 .. w[s]) : s \in S}
SumOver(S, w) == Cardinality(Units(S, w))

=============================================================================
