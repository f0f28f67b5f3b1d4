------------------------------- MODULE History -------------------------------
(***************************************************************************)
(* How activity reaches the engine over time: live ingestion while the       *)
(* process serves, the historical walk up to the moment it started           *)
(* (internal/backfill), and the reconciliation passes (internal/reconcile)   *)
(* that re-read a recent window, through restarts, failures and lost         *)
(* deliveries.                                                               *)
(*                                                                          *)
(* GitLab's side is a fixed table of records, each of which happens as the   *)
(* clock passes it; an identifier orders them as GitLab lists them. The      *)
(* engine is the set of activities it counted: presenting one again changes  *)
(* nothing. The walk takes a record at a time, a pass a project at a time.   *)
(* Processing records, persisting the cursor and the watermarks are separate *)
(* steps, between which the process may stop.                                *)
(*                                                                          *)
(* BACKFILL_SINCE is unset, BACKFILL is auto and RECONCILE is on, the        *)
(* defaults; pipelines are listed once they ended; a project has one ref.    *)
(***************************************************************************)
EXTENDS Integers, FiniteSets

CONSTANTS
  Projects,     \* their identifiers, positive
  Records,      \* [id, project, phase, at, stamp, ended]
  FlushRecords, \* records between two writes of the cursor
  DayLength, Lookback, Slack, \* in ticks of the clock
  MaxClock,     \* bound
  MaxFaults,    \* bound: failed walks and passes, unreadable projects
  None          \* no watermark, nothing in hand

projectPhases == <<"events", "pipelines", "merge_requests", "releases">>
Phases == {projectPhases[i] : i \in 1 .. 4}

\* Identifiers follow the order of events, up to what clocks disagree about;
\* only pipelines end one way or the other.
ASSUME HistoryAssumption ==
  /\ IsFiniteSet(Projects) /\ Projects \subseteq Nat \ {0}
  /\ IsFiniteSet(Records)
  /\ Records \subseteq [id : Nat \ {0}, project : Projects, phase : Phases, at : Nat, stamp : Int,
                        ended : {"success", "failed", "canceled", ""}]
  /\ \A r, s \in Records : r.id < s.id => r.at <= s.at /\ r.stamp <= s.stamp
  /\ \A r, s \in Records : r.id = s.id => r = s
  /\ \A r \in Records : r.phase # "pipelines" => r.ended = ""
  /\ \A r \in Records : r.stamp \in r.at - Slack .. r.at + Slack
  /\ FlushRecords \in Nat \ {0} /\ DayLength \in Nat \ {0} /\ Lookback \in Nat /\ Slack \in Nat
  /\ MaxClock \in Nat \ {0} /\ MaxFaults \in Nat /\ None \notin Nat /\ None \notin Records

VARIABLES
  clock,
  counted,     \* what the engine counted: pairs of a record's id and a kind
  mode,        \* of the process: "down", "booting", "serving"
  liveFrom,    \* when it started, the walk's ceiling
  saved,       \* the persisted cursor
  completed,   \* the backfill's watermark is set
  walk,        \* the walk in progress
  reconciled,  \* the reconciliation's watermark
  pass,        \* the pass in progress
  faults,
  walkedUntil, \* history: the ceiling under which each phase was walked
  passedOver,  \* history: projects skipped as unreadable
  firstSince   \* history: how far back the first successful pass reached

process == <<mode, liveFrom>>
ghosts  == <<walkedUntil, passedOver, firstSince>>
vars == <<clock, counted, process, saved, completed, walk, reconciled, pass, faults, ghosts>>

Day(t) == t \div DayLength
Fault == faults < MaxFaults /\ faults' = faults + 1
Least(S) == CHOOSE x \in S : \A y \in S : x <= y

-----------------------------------------------------------------------------
(* GitLab. *)

Happened == {r \in Records : r.at < clock}
Of(p, ph) == {r \in Happened : r.project = p /\ r.phase = ph}

\* recordOutcome: only passing and failing say whether the build is broken.
recordOutcome(outcome, r) == IF r.ended \in {"success", "failed"} THEN r.ended ELSE outcome

\* NormalizePipelineFix and the other normalisers: the activities a record
\* stands for, given how the pipeline before it ended.
Normalized(r, previous) ==
  {<<r.id, "done">>} \cup
  (IF r.ended = "success" /\ previous = "failed" THEN {<<r.id, "fixed">>} ELSE {})

\* LastPipelineOutcome.
lastOutcome(r) ==
  LET before == {q \in Records : /\ q.project = r.project /\ q.phase = r.phase
                                 /\ q.id < r.id /\ q.ended \in {"success", "failed"}}
  IN  IF before = {} THEN "" ELSE (CHOOSE q \in before : \A o \in before : o.id <= q.id).ended

Activities(r) == Normalized(r, lastOutcome(r))
AllOf(R) == UNION {Activities(r) : r \in R}

\* Time passes. What happens is delivered while the process serves, but a
\* delivery may be lost, or miss the lookup that tells a fix.
Tick ==
  /\ clock < MaxClock
  /\ clock' = clock + 1
  /\ LET now == {r \in Records : r.at = clock} IN
     /\ \E delivered \in IF mode = "serving" THEN SUBSET AllOf(now) ELSE {{}} :
          counted' = counted \cup delivered
  /\ UNCHANGED <<process, saved, completed, walk, reconciled, pass, faults, walkedUntil, passedOver,
                 firstSince>>

-----------------------------------------------------------------------------
(* The process. *)

NoProgress == [last |-> 0, current |-> 0, phase |-> "", events |-> None, pipeline |-> 0]

Off(progress) ==
  [at |-> "off", progress |-> progress, listed |-> 0, pos |-> 0, outcome |-> "",
   record |-> None, due |-> {}, sinceFlush |-> 0]
NoPass == [busy |-> FALSE, since |-> 0, startedAt |-> 0, listed |-> 0]

\* liveFrom is taken before bootstrap registers the hooks.
Boot ==
  /\ mode = "down"
  /\ mode' = "booting" /\ liveFrom' = clock
  /\ UNCHANGED <<clock, counted, saved, completed, walk, reconciled, pass, faults, ghosts>>

\* serve, and backfill.Run up to the walk: nothing to do once completed.
Serve ==
  /\ mode = "booting"
  /\ mode' = "serving"
  /\ walk' = IF completed THEN walk
             ELSE [Off(saved) EXCEPT !.at = "projects", !.listed = saved.last]
  /\ UNCHANGED <<clock, counted, liveFrom, saved, completed, reconciled, pass, faults, ghosts>>

\* A crash, or an orderly stop.
Stop ==
  /\ mode # "down"
  /\ mode' = "down"
  /\ walk' = Off(NoProgress) /\ pass' = NoPass
  /\ UNCHANGED <<clock, counted, liveFrom, saved, completed, reconciled, faults, ghosts>>

-----------------------------------------------------------------------------
(* The walk. *)

walkOnly == <<clock, process, completed, reconciled, pass>>

\* startProject: the cursors of the project that was interrupted are kept.
startProject(progress, p) ==
  IF progress.current = p THEN progress
  ELSE [progress EXCEPT !.current = p, !.phase = "events", !.events = None, !.pipeline = 0]

\* Faulty variant: the project's own cursors are left behind.
finishProjectKeeping(progress, p) ==
  [progress EXCEPT !.last = p, !.current = 0, !.phase = ""]

finishProject(progress, p) == [NoProgress EXCEPT !.last = p]

\* walkProjects: ascending identifiers.
WalkProject ==
  LET ahead == {p \in Projects : p > walk.listed} IN
  /\ walk.at = "projects"
  /\ walk' = IF ahead = {} THEN [walk EXCEPT !.at = "completed"]
             ELSE [walk EXCEPT !.at = "listing", !.listed = Least(ahead), !.pos = 0, !.outcome = "",
                               !.progress = startProject(@, Least(ahead))]
  /\ UNCHANGED <<walkOnly, counted, saved, faults, ghosts>>

\* Faulty variant: GitLab's "after" is exclusive of the date it is given.
afterFloor(progress, r) == progress.events = None \/ Day(r.stamp) > progress.events

\* eventsFloor, at the granularity of GitLab's filter: the cursor's own day is
\* read again.
eventsFloor(progress, r) == progress.events = None \/ Day(r.stamp) >= progress.events

\* What the listing of the current phase has yet to yield.
Listing ==
  {r \in Of(walk.progress.current, walk.progress.phase) :
     /\ r.id > walk.pos
     /\ r.phase = "events" => eventsFloor(walk.progress, r)}

\* Counted by this walk: below the ceiling, and not a pipeline it did before.
afterCeiling(r) == r.stamp >= liveFrom
Passed(r) == afterCeiling(r) \/ (r.phase = "pipelines" /\ r.id <= walk.progress.pipeline)

\* Faulty variant: only the outcomes of pipelines it processes are remembered.
ReadForgetful ==
  /\ walk.at = "listing" /\ Listing # {}
  /\ LET r == CHOOSE x \in Listing : \A y \in Listing : x.id <= y.id IN
     walk' = IF Passed(r) THEN [walk EXCEPT !.pos = r.id]
             ELSE [walk EXCEPT !.pos = r.id, !.outcome = recordOutcome(@, r), !.at = "processing",
                               !.record = r, !.due = Normalized(r, walk.outcome)]
  /\ UNCHANGED <<walkOnly, counted, saved, faults, ghosts>>

\* The next record is passed by, or picked up with the activities it stands
\* for; outcomes are remembered of all pipelines listed.
Read ==
  /\ walk.at = "listing" /\ Listing # {}
  /\ LET r == CHOOSE x \in Listing : \A y \in Listing : x.id <= y.id IN
     walk' = IF Passed(r) THEN [walk EXCEPT !.pos = r.id, !.outcome = recordOutcome(@, r)]
             ELSE [walk EXCEPT !.pos = r.id, !.outcome = recordOutcome(@, r), !.at = "processing",
                               !.record = r, !.due = Normalized(r, walk.outcome)]
  /\ UNCHANGED <<walkOnly, counted, saved, faults, ghosts>>

\* The cursor of the phase moves up to the record; only two phases have one.
Advanced(progress, r) ==
  CASE r.phase = "events" ->
         IF progress.events = None \/ Day(r.stamp) > progress.events
         THEN [progress EXCEPT !.events = Day(r.stamp)] ELSE progress
    [] r.phase = "pipelines" -> [progress EXCEPT !.pipeline = r.id]
    [] OTHER -> progress

\* process, one activity after the other, and maybeFlush.
Process ==
  /\ walk.at = "processing"
  /\ \E k \in walk.due :
       /\ counted' = counted \cup {k}
       /\ walk' = IF walk.due # {k} THEN [walk EXCEPT !.due = @ \ {k}]
                  ELSE [walk EXCEPT !.due = {}, !.record = None,
                                    !.progress = Advanced(@, walk.record),
                                    !.sinceFlush = @ + 1,
                                    !.at = IF walk.sinceFlush + 1 >= FlushRecords THEN "flush"
                                           ELSE "listing"]
  /\ UNCHANGED <<walkOnly, saved, faults, ghosts>>

\* A phase ends when its listing does; the last one finishes the project.
EndPhase ==
  LET p == walk.progress.current
      i == CHOOSE j \in 1 .. 4 : projectPhases[j] = walk.progress.phase IN
  /\ walk.at = "listing" /\ Listing = {}
  /\ walk' = IF i = 4 THEN [walk EXCEPT !.at = "flush", !.progress = finishProject(@, p)]
             ELSE [walk EXCEPT !.pos = 0, !.outcome = "", !.progress.phase = projectPhases[i + 1]]
  /\ walkedUntil' = [walkedUntil EXCEPT ![p][walk.progress.phase] = liveFrom]
  /\ UNCHANGED <<walkOnly, counted, saved, faults, passedOver, firstSince>>

\* handleProjectError: unreadable, or gone, in whichever phase.
SkipProject ==
  /\ walk.at = "listing" /\ Fault
  /\ walk' = [walk EXCEPT !.at = "flush", !.progress = finishProject(@, walk.listed)]
  /\ passedOver' = passedOver \cup {walk.listed}
  /\ UNCHANGED <<walkOnly, counted, saved, walkedUntil, firstSince>>

Flush ==
  /\ walk.at = "flush"
  /\ saved' = walk.progress
  /\ walk' = [walk EXCEPT !.sinceFlush = 0,
                          !.at = IF walk.progress.current = 0 THEN "projects" ELSE "listing"]
  /\ UNCHANGED <<walkOnly, counted, faults, ghosts>>

\* Any other error ends the walk until the next start, with a last flush that
\* may fail as well.
WalkFails ==
  /\ walk.at \notin {"off", "completed", "clear"} /\ Fault
  /\ saved' \in {saved, walk.progress}
  /\ walk' = Off(NoProgress)
  /\ UNCHANGED <<walkOnly, counted, ghosts>>

\* markCompleted, in two writes.
Complete ==
  /\ walk.at = "completed"
  /\ completed' = TRUE
  /\ walk' = [walk EXCEPT !.at = "clear"]
  /\ UNCHANGED <<clock, process, reconciled, pass, counted, saved, faults, ghosts>>
ClearProgress ==
  /\ walk.at = "clear"
  /\ saved' = NoProgress
  /\ walk' = Off(NoProgress)
  /\ UNCHANGED <<walkOnly, counted, faults, ghosts>>

-----------------------------------------------------------------------------
(* Reconciliation passes. *)

passOnly == <<clock, process, saved, completed, walk>>

\* Faulty variant: what was missed is not made up for.
windowLookbackOnly == clock - Lookback

\* window: the look-back, or as far as the last successful pass.
window ==
  IF reconciled = None \/ reconciled - Slack >= clock - Lookback
  THEN clock - Lookback ELSE reconciled - Slack

\* executeReconcile waits for the walk to have completed.
PassBegin ==
  /\ mode = "serving" /\ completed /\ ~pass.busy
  /\ pass' = [busy |-> TRUE, since |-> window, startedAt |-> clock, listed |-> 0]
  /\ UNCHANGED <<passOnly, counted, reconciled, faults, ghosts>>

\* Events are filtered by day, the others by their timestamp.
InWindow(r) == IF r.phase = "events" THEN Day(r.stamp) >= Day(pass.since) ELSE r.stamp >= pass.since

Unvisited == {p \in Projects : p > pass.listed}

\* The records the pass reads of the project it is at.
Reread == {r \in Happened : InWindow(r) /\ r.project \in Unvisited
                            /\ \A p \in Unvisited : r.project <= p}

PassProject ==
  /\ pass.busy /\ Unvisited # {}
  /\ counted' = counted \cup AllOf(Reread)
  /\ pass' = [pass EXCEPT !.listed = Least(Unvisited)]
  /\ UNCHANGED <<passOnly, reconciled, faults, ghosts>>

\* handleProjectError: some of the project may have been counted.
PassSkipProject ==
  /\ pass.busy /\ Unvisited # {} /\ Fault
  /\ \E some \in SUBSET AllOf(Reread) : counted' = counted \cup some
  /\ passedOver' = passedOver \cup {Least(Unvisited)}
  /\ pass' = [pass EXCEPT !.listed = Least(Unvisited)]
  /\ UNCHANGED <<passOnly, reconciled, walkedUntil, firstSince>>

\* Any other error ends the pass, half-way through a project as well.
PassFails ==
  /\ pass.busy /\ Fault
  /\ \E some \in SUBSET AllOf(Reread) : counted' = counted \cup some
  /\ pass' = NoPass
  /\ UNCHANGED <<passOnly, reconciled, ghosts>>

\* Faulty variant: the watermark is the moment the pass ended.
PassEndFinishLine ==
  /\ pass.busy /\ Unvisited = {}
  /\ reconciled' = clock
  /\ firstSince' = IF reconciled = None THEN pass.since ELSE firstSince
  /\ pass' = NoPass
  /\ UNCHANGED <<passOnly, counted, faults, walkedUntil, passedOver>>

\* The watermark is the moment the pass began.
PassEnd ==
  /\ pass.busy /\ Unvisited = {}
  /\ reconciled' = pass.startedAt
  /\ firstSince' = IF reconciled = None THEN pass.since ELSE firstSince
  /\ pass' = NoPass
  /\ UNCHANGED <<passOnly, counted, faults, walkedUntil, passedOver>>

-----------------------------------------------------------------------------

Init ==
  /\ clock = 1 /\ counted = {}
  /\ mode = "down" /\ liveFrom = 0
  /\ saved = NoProgress /\ completed = FALSE /\ walk = Off(NoProgress)
  /\ reconciled = None /\ pass = NoPass
  /\ faults = 0
  /\ walkedUntil = [p \in Projects |-> [ph \in Phases |-> 0]]
  /\ passedOver = {} /\ firstSince = None

WalkStep == WalkProject \/ Read \/ Process \/ EndPhase \/ Flush \/ Complete \/ ClearProgress
PassStep == PassProject \/ PassEnd

Next ==
  \/ Tick \/ Boot \/ Serve \/ Stop
  \/ WalkStep \/ SkipProject \/ WalkFails
  \/ PassBegin \/ PassStep \/ PassSkipProject \/ PassFails

\* The process is restarted, the walk runs on, passes are run again and again
\* and run on. Nothing says that it stays up.
Fairness ==
  /\ WF_vars(Boot) /\ WF_vars(Serve)
  /\ WF_vars(WalkStep) /\ WF_vars(PassBegin) /\ WF_vars(PassStep)

Spec == Init /\ [][Next]_vars /\ Fairness

-----------------------------------------------------------------------------
(* What must hold. *)

Progresses ==
  {g \in [last : Projects \cup {0}, current : Projects \cup {0}, phase : Phases \cup {""},
          events : {Day(r.stamp) : r \in Records} \cup {None},
          pipeline : {r.id : r \in Records} \cup {0}] :
     IF g.current = 0 THEN g.phase = "" /\ g.events = None /\ g.pipeline = 0
                      ELSE g.phase \in Phases /\ g.current > g.last}

Kinds == {r.id : r \in Records} \X {"done", "fixed"}
Walks ==
  [at : {"off", "projects", "listing", "processing", "flush", "completed", "clear"},
   progress : Progresses, listed : Projects \cup {0}, pos : Nat,
   outcome : {"", "success", "failed"}, record : Records \cup {None}, due : SUBSET Kinds,
   sinceFlush : 0 .. FlushRecords]

ProcessType ==
  /\ clock \in 1 .. MaxClock /\ liveFrom \in 0 .. MaxClock /\ liveFrom <= clock
  /\ mode \in {"down", "booting", "serving"} /\ completed \in BOOLEAN
  /\ faults \in 0 .. MaxFaults
CountType ==
  /\ counted \subseteq Kinds /\ passedOver \subseteq Projects
  /\ walkedUntil \in [Projects -> [Phases -> 0 .. MaxClock]]
WalkType ==
  /\ saved \in Progresses /\ walk \in Walks
  /\ walk.at = "processing" <=> walk.record \in Records
PassType ==
  /\ pass \in [busy : BOOLEAN, since : Int, startedAt : 0 .. MaxClock, listed : Projects \cup {0}]
  /\ pass.since <= pass.startedAt /\ pass.startedAt <= clock
  /\ reconciled \in 0 .. MaxClock \cup {None} /\ firstSince \in Int \cup {None}
TypeOK == ProcessType /\ CountType /\ WalkType /\ PassType

Counted(r) == Activities(r) \subseteq counted

\* What the walk is done with was walked whole, through any number of
\* interruptions: what happened before the ceiling under which a phase ended
\* is counted, with the fixes it amounts to and no others ("a coarse cursor
\* costs a few repeated reads", progress, startProject, recordOutcome).
WalkCountsExactly ==
  \A r \in Records :
    LET ceiling == walkedUntil[r.project][r.phase] IN
    r.stamp < ceiling /\ r.at < ceiling =>
      {k \in counted : k[1] = r.id} = Activities(r)

\* What the watermark says: from the first window on, everything that
\* happened before it is counted, by whichever path, unless its project was
\* passed over ("the record of how far back the read side is known to be
\* correct", watermark.go).
CorrectUpToWatermark ==
  reconciled # None =>
    \A r \in Records :
      /\ r.at < reconciled /\ r.stamp >= firstSince /\ r.project \notin passedOver
      => Counted(r)

\* Whatever happens after a successful pass is counted in the end, however
\* many deliveries are lost and however long the process is down, once it
\* stays up ("made up rather than leaving a hole",
\* docs/content/docs/reconciliation.md).
LostIsMadeUp ==
  <>[](mode = "serving") =>
    \A r \in Records :
      (r \in Happened /\ reconciled # None /\ reconciled <= r.at)
        ~> (Counted(r) \/ r.project \in passedOver)

=============================================================================
