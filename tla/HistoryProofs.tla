---------------------------- MODULE HistoryProofs ----------------------------
(***************************************************************************)
(* Theorems about the way activity reaches the engine, for any number of     *)
(* projects and records, any clock, and any number of failures, restarts,    *)
(* lost deliveries and unreadable projects; and about the keys under which    *)
(* it is counted, for any identifiers, users and names.                      *)
(***************************************************************************)
EXTENDS MCHistory, FiniteSetTheorems, SequenceTheorems, WellFoundedInduction, TLAPS

-----------------------------------------------------------------------------
(* The inductive invariant. *)

\* A process that does not serve neither walks nor runs a pass.
Quiet == mode # "serving" => walk.at = "off" /\ ~pass.busy

\* Where the walk is in its list of projects.
Placed ==
  /\ walk.at \in {"projects", "listing", "processing"} => walk.sinceFlush < FlushRecords
  /\ walk.at # "off" => walk.progress.last <= walk.listed
  /\ walk.at \in {"listing", "processing"} => walk.listed # 0 /\ walk.progress.current = walk.listed
  /\ walk.at = "flush" => walk.progress.current \in {0, walk.listed}

\* What a cursor says was done, if c is what was counted.
Done(r, c) == Activities(r) \subseteq c
CursorsTrue(g, c) ==
  /\ g.events # None =>
       \A r \in Records :
         r.project = g.current /\ r.phase = "events" /\ Day(r.stamp) < g.events => Done(r, c)
  /\ \A r \in Records :
       r.project = g.current /\ r.phase = "pipelines" /\ r.id <= g.pipeline => Done(r, c)

\* The records up to the place of a walk in the listing, and how they ended.
Within(q, w) == q.project = w.progress.current /\ q.phase = w.progress.phase /\ q.id <= w.pos
Outcomes(w)  == {q \in Records : Within(q, w) /\ q.ended \in {"success", "failed"}}
LastOf(S)    == IF S = {} THEN "" ELSE (CHOOSE q \in S : \A o \in S : o.id <= q.id).ended

InListing(w) == w.at \in {"listing", "processing", "flush"} /\ w.progress.current # 0

\* What was listed below the ceiling is counted but for the record in hand,
\* and the outcome remembered is that of the last of them.
Listed(w, c, ceiling) ==
  InListing(w) =>
    /\ \A q \in Records : Within(q, w) /\ q.stamp < ceiling /\ q # w.record => Done(q, c)
    /\ w.outcome = LastOf(Outcomes(w))

\* The record in hand is due what it stands for, less what was counted.
InHand(w, c, ceiling) ==
  w.at = "processing" =>
    /\ Within(w.record, w) /\ w.record.id = w.pos /\ w.record.stamp < ceiling
    /\ w.due # {} /\ w.due \subseteq Activities(w.record)
    /\ Activities(w.record) \subseteq c \cup w.due

\* Nothing is counted that no record stands for, and what was walked is.
NothingElse == counted \subseteq AllOf(Records)
Walked ==
  \A r \in Records :
    LET ceiling == walkedUntil[r.project][r.phase] IN
    r.stamp < ceiling /\ r.at < ceiling => Counted(r)

WalkTrue(w, c, ceiling) ==
  CursorsTrue(w.progress, c) /\ Listed(w, c, ceiling) /\ InHand(w, c, ceiling)
WalkInv ==
  /\ CursorsTrue(saved, counted) /\ WalkTrue(walk, counted, liveFrom)
  /\ NothingElse /\ Walked

\* A pass reaches back to the watermark and what is in doubt before it; what
\* had happened when it began is counted of the projects behind it.
Reaches ==
  pass.busy =>
    /\ reconciled # None => pass.since <= reconciled - Slack
    /\ \A r \in Records :
         /\ r.project <= pass.listed /\ r.at < pass.startedAt /\ r.stamp >= pass.since
         /\ r.project \notin passedOver
         => Counted(r)
PassInv == Reaches /\ CorrectUpToWatermark /\ (reconciled # None => firstSince \in Int)

Framed     == TypeOK /\ Quiet /\ Placed
HistoryInv == Framed /\ WalkInv /\ PassInv

-----------------------------------------------------------------------------
(* Lemmas about the operators. *)

\* A set of natural numbers that is not empty has a least one.
LEMMA LeastOf ==
  ASSUME NEW S, S \subseteq Nat, S # {}
  PROVE  Least(S) \in S /\ \A y \in S : Least(S) <= y
<1> DEFINE R == OpToRel(<, Nat)
<1>1. IsWellFoundedOn(R, Nat)
  BY NatLessThanWellFounded, Zenon
<1>2. R = {ss \in Nat \X Nat : ss[1] < ss[2]}
  BY Zenon DEF OpToRel
<1> HIDE DEF R
<1>3. PICK x \in S : \A y \in S : ~ (<<y, x>> \in R)
  BY <1>1, WFMin
<1>4. \A y \in S : x <= y
  <2> SUFFICES ASSUME NEW y \in S PROVE x <= y
    OBVIOUS
  <2> DEFINE ss == <<y, x>>
  <2>1. ss \in Nat \X Nat /\ ss[1] = y /\ ss[2] = x
    OBVIOUS
  <2>2. ss \notin R
    BY <1>3
  <2> HIDE DEF ss
  <2>3. ~ (ss[1] < ss[2])
    BY <2>1, <2>2, <1>2, Zenon
  <2> QED BY <2>1, <2>3
<1> QED BY <1>4 DEF Least

\* What the constants are.
LEMMA Parameters ==
  /\ IsFiniteSet(Projects) /\ Projects \subseteq Nat \ {0}
  /\ FlushRecords \in Nat \ {0} /\ DayLength \in Nat \ {0} /\ Lookback \in Nat /\ Slack \in Nat
  /\ MaxClock \in Nat \ {0} /\ MaxFaults \in Nat /\ None \notin Nat /\ None \notin Records
  BY HistoryAssumption

\* What a record is.
LEMMA RecordType ==
  ASSUME NEW r \in Records
  PROVE  /\ r.id \in Nat \ {0} /\ r.project \in Projects /\ r.phase \in Phases
         /\ r.at \in Nat /\ r.stamp \in Int /\ r.project \in Nat \ {0}
         /\ r.ended \in {"success", "failed", "canceled", ""}
         /\ r.at - Slack <= r.stamp /\ r # None
<1>1. r \in [id : Nat \ {0}, project : Projects, phase : Phases, at : Nat, stamp : Int,
              ended : {"success", "failed", "canceled", ""}]
  BY HistoryAssumption, Zenon
<1>2. /\ r.id \in Nat \ {0} /\ r.project \in Projects /\ r.phase \in Phases
      /\ r.at \in Nat /\ r.stamp \in Int /\ r.ended \in {"success", "failed", "canceled", ""}
  BY <1>1
<1>3. r.stamp \in r.at - Slack .. r.at + Slack
  BY HistoryAssumption, Zenon
<1>4. ASSUME NEW a \in Nat, NEW t \in Int, NEW d \in Nat, t \in a - d .. a + d PROVE a - d <= t
  BY <1>4
<1>5. r.at - Slack <= r.stamp
  BY <1>2, <1>3, <1>4, Parameters
<1> QED BY <1>2, <1>5, Parameters

\* Identifiers and projects are numbered from 1.
LEMMA Positive == \A r \in Records : r.id <= r.id /\ ~(r.id <= 0) /\ ~(r.project <= 0)
<1> SUFFICES ASSUME NEW r \in Records PROVE r.id <= r.id /\ ~(r.id <= 0) /\ ~(r.project <= 0)
  OBVIOUS
<1>1. r.id \in Nat \ {0} /\ r.project \in Nat \ {0}
  BY RecordType
<1> QED BY ONLY <1>1

\* A record of a set that is not empty has the least identifier.
LEMMA FirstOf ==
  ASSUME NEW S, S \subseteq Records, S # {}
  PROVE  LET r == CHOOSE x \in S : \A y \in S : x.id <= y.id
         IN  r \in S /\ \A y \in S : r.id <= y.id
<1> DEFINE ids == {x.id : x \in S}
<1>1. ids \subseteq Nat /\ ids # {}
  BY RecordType
<1>2. Least(ids) \in ids /\ \A y \in ids : Least(ids) <= y
  <2> HIDE DEF ids
  <2> QED BY <1>1, LeastOf
<1>3. PICK x \in S : x.id = Least(ids)
  BY <1>2
<1>4. \A y \in S : x.id <= y.id
  BY <1>2, <1>3
<1> QED BY <1>4

\* Days are as their moments.
LEMMA Quotients ==
  ASSUME NEW t \in Int, NEW u \in Int, t <= u, NEW d \in Nat \ {0}
  PROVE  t \div d \in Int /\ t \div d <= u \div d
  OBVIOUS

\* Later times fall on later days.
LEMMA DayOf ==
  /\ \A t \in Int : Day(t) \in Int
  /\ \A t, u \in Int : t <= u => Day(t) <= Day(u)
  BY Quotients, Parameters DEF Day

\* Identifiers order records as they happened and as they are stamped.
LEMMA InOrder ==
  ASSUME NEW q \in Records, NEW r \in Records
  PROVE  /\ q.id = r.id => q = r
         /\ q.id <= r.id => q.at <= r.at /\ q.stamp <= r.stamp
         /\ q.stamp < r.stamp => q.id < r.id
<1>1. q.id = r.id => q = r
  BY HistoryAssumption, Zenon
<1>2. q.id < r.id => q.at <= r.at /\ q.stamp <= r.stamp
  BY HistoryAssumption, Zenon
<1>3. r.id < q.id => r.at <= q.at /\ r.stamp <= q.stamp
  BY HistoryAssumption, Zenon
<1>4. /\ q.id \in Nat /\ q.at \in Nat /\ q.stamp \in Int
      /\ r.id \in Nat /\ r.at \in Nat /\ r.stamp \in Int
  BY RecordType
<1> QED BY <1>1, <1>2, <1>3, <1>4

\* What records stand for.
LEMMA ActivitiesOf ==
  ASSUME NEW r \in Records
  PROVE  /\ \A o : Normalized(r, o) \subseteq Kinds /\ Normalized(r, o) # {}
         /\ \A k \in Activities(r) : k[1] = r.id
         /\ Activities(r) \subseteq Kinds
<1>1. r.id \in {q.id : q \in Records}
  OBVIOUS
<1>2. <<r.id, "done">> \in Kinds /\ <<r.id, "fixed">> \in Kinds
  BY <1>1 DEF Kinds
<1>3. \A o : /\ <<r.id, "done">> \in Normalized(r, o)
             /\ Normalized(r, o) \subseteq {<<r.id, "done">>, <<r.id, "fixed">>}
  BY DEF Normalized
<1> QED BY <1>2, <1>3 DEF Activities

\* What a set of records amounts to are activities there are.
LEMMA AllOfType ==
  ASSUME NEW R, R \subseteq Records
  PROVE  AllOf(R) \subseteq Kinds /\ AllOf(R) \subseteq AllOf(Records)
  BY ActivitiesOf DEF AllOf

-----------------------------------------------------------------------------
(* What the walk does with its cursors. *)

\* Nothing in hand, nothing done.
LEMMA NoProgressType == NoProgress \in Progresses
  BY DEF NoProgress, Progresses

\* A project that is started is the current one; its cursors are its own or
\* empty.
LEMMA Started ==
  ASSUME NEW g \in Progresses, NEW p \in Projects, g.last < p
  PROVE  LET s == startProject(g, p) IN
         /\ s \in Progresses /\ s.last = g.last /\ s.current = p
         /\ s = g \/ (s.events = None /\ s.pipeline = 0)
<1>1. p # 0
  BY Parameters
<1>2. CASE g.current = p
  BY <1>2, <1>1 DEF startProject, Progresses
<1>3. CASE g.current # p
  <2> DEFINE s == [g EXCEPT !.current = p, !.phase = "events", !.events = None, !.pipeline = 0]
  <2>1. startProject(g, p) = s
    BY <1>3 DEF startProject
  <2>2. "events" \in Phases
    BY DEF Phases, projectPhases
  <2> HIDE DEF s
  <2>3. s \in [last : Projects \cup {0}, current : Projects \cup {0}, phase : Phases \cup {""},
               events : {Day(r.stamp) : r \in Records} \cup {None},
               pipeline : {r.id : r \in Records} \cup {0}]
    BY <2>2 DEF Progresses, s
  <2>4. s.last = g.last /\ s.current = p /\ s.phase = "events"
        /\ s.events = None /\ s.pipeline = 0
    BY DEF Progresses, s
  <2>5. s \in Progresses
    BY <2>2, <2>3, <2>4, <1>1 DEF Progresses
  <2> QED BY <2>1, <2>4, <2>5
<1> QED BY <1>2, <1>3

\* The cursor after a project, and after a phase.
LEMMA Finished ==
  ASSUME NEW g \in Progresses, NEW p \in Projects
  PROVE  LET f == finishProject(g, p) IN
         f \in Progresses /\ f.last = p /\ f.current = 0 /\ f.phase = ""
               /\ f.events = None /\ f.pipeline = 0
  BY DEF finishProject, NoProgress, Progresses

\* A cursor that moves up stays in its project and phase.
LEMMA AdvancedKeeps ==
  ASSUME NEW g \in Progresses, NEW r \in Records, g.current # 0
  PROVE  LET a == Advanced(g, r) IN
         a \in Progresses /\ a.last = g.last /\ a.current = g.current /\ a.phase = g.phase
<1>1. Day(r.stamp) \in {Day(q.stamp) : q \in Records} /\ r.id \in {q.id : q \in Records}
  OBVIOUS
<1>2. LET e == [g EXCEPT !.events = Day(r.stamp)] IN
      e \in Progresses /\ e.last = g.last /\ e.current = g.current /\ e.phase = g.phase
  BY <1>1 DEF Progresses
<1>3. LET e == [g EXCEPT !.pipeline = r.id] IN
      e \in Progresses /\ e.last = g.last /\ e.current = g.current /\ e.phase = g.phase
  BY <1>1 DEF Progresses
<1>4. Advanced(g, r) \in {g, [g EXCEPT !.events = Day(r.stamp)], [g EXCEPT !.pipeline = r.id]}
  BY DEF Advanced
<1> QED BY <1>2, <1>3, <1>4, Zenon

\* A phase has a place among the four, and the next one follows it.
LEMMA PhaseAt ==
  ASSUME NEW ph \in Phases
  PROVE  (CHOOSE j \in 1 .. 4 : projectPhases[j] = ph) \in 1 .. 4
  BY DEF Phases

LEMMA NextPhase ==
  ASSUME NEW g \in Progresses, g.current # 0, NEW i \in 1 .. 3
  PROVE  LET n == [g EXCEPT !.phase = projectPhases[i + 1]] IN
         /\ n \in Progresses /\ n.last = g.last /\ n.current = g.current
         /\ n.events = g.events /\ n.pipeline = g.pipeline
<1>1. projectPhases[i + 1] \in Phases
  BY DEF Phases
<1> QED BY <1>1 DEF Progresses

-----------------------------------------------------------------------------
(* The types, and where the walk is. *)

\* The initial states are well typed, and (below) every step keeps them so.
LEMMA InitFramed == Init => Framed
<1> SUFFICES ASSUME Init PROVE Framed
  OBVIOUS
<1>0. 0 \in 0 .. MaxClock /\ 1 \in 1 .. MaxClock /\ 0 \in 0 .. MaxFaults /\ 0 \in 0 .. FlushRecords
  BY ONLY Parameters
<1> USE DEF Init, Off, NoPass
<1>1. ProcessType
  <2>1. clock = 1 /\ liveFrom = 0 /\ mode = "down" /\ completed = FALSE /\ faults = 0
    OBVIOUS
  <2>2. completed \in BOOLEAN
    BY <2>1, Zenon
  <2> QED BY ONLY <1>0, <2>1, <2>2 DEF ProcessType
<1>2. CountType
  <2>1. walkedUntil \in [Projects -> [Phases -> 0 .. MaxClock]]
    BY <1>0
  <2> QED BY <2>1 DEF CountType
<1>3. WalkType
  <2>1. NoProgress \in Progresses
    BY NoProgressType
  <2>2. walk \in Walks
    BY <1>0, <2>1 DEF Walks
  <2> QED BY <2>1, <2>2, Parameters DEF WalkType
<1>4. PassType
  <2>1. pass = [busy |-> FALSE, since |-> 0, startedAt |-> 0, listed |-> 0]
        /\ clock = 1 /\ reconciled = None /\ firstSince = None
    OBVIOUS
  <2> QED BY ONLY <1>0, <2>1 DEF PassType
<1>5. Quiet /\ Placed
  BY DEF Quiet, Placed
<1> QED BY <1>1, <1>2, <1>3, <1>4, <1>5 DEF Framed, TypeOK

\* A fault more is within the bound.
LEMMA FaultCounts ==
  ASSUME faults \in 0 .. MaxFaults, Fault \/ UNCHANGED faults
  PROVE  faults' \in 0 .. MaxFaults
  BY Parameters DEF Fault

\* A step of the walk leaves the process and the passes as they are.
LEMMA WalkLeaves ==
  ASSUME Framed, UNCHANGED walkOnly, UNCHANGED firstSince, Fault \/ UNCHANGED faults, walk.at # "off"
  PROVE  ProcessType' /\ PassType' /\ Quiet'
<1>1. faults' \in 0 .. MaxFaults
  BY FaultCounts DEF Framed, TypeOK, ProcessType
<1>2. /\ clock' = clock /\ mode' = mode /\ liveFrom' = liveFrom /\ completed' = completed
      /\ reconciled' = reconciled /\ pass' = pass /\ firstSince' = firstSince
  BY DEF walkOnly, process
<1>3. ProcessType'
  BY <1>1, <1>2 DEF Framed, TypeOK, ProcessType
<1>4. PassType'
  BY <1>2, Zenon DEF Framed, TypeOK, PassType
<1>5. mode = "serving"
  BY DEF Framed, Quiet
<1> QED BY <1>2, <1>3, <1>4, <1>5 DEF Quiet

\* A step of the passes leaves the process and the walk as they are.
LEMMA PassLeaves ==
  ASSUME Framed, UNCHANGED passOnly, Fault \/ UNCHANGED faults, mode = "serving"
  PROVE  ProcessType' /\ WalkType' /\ Placed' /\ Quiet'
<1>1. faults' \in 0 .. MaxFaults
  BY FaultCounts DEF Framed, TypeOK, ProcessType
<1>2. /\ clock' = clock /\ mode' = mode /\ liveFrom' = liveFrom /\ completed' = completed
      /\ saved' = saved /\ walk' = walk
  BY DEF passOnly, process
<1>3. ProcessType'
  BY <1>1, <1>2 DEF Framed, TypeOK, ProcessType
<1>4. WalkType' /\ Placed'
  BY <1>2, Zenon DEF Framed, TypeOK, WalkType, Placed
<1> QED BY <1>2, <1>3, <1>4 DEF Quiet

\* What is counted stays within the kinds there are.
LEMMA CountKept ==
  ASSUME Framed, counted' \subseteq Kinds, UNCHANGED <<walkedUntil, passedOver>>
  PROVE  CountType'
  BY DEF Framed, TypeOK, CountType

\* The parts of a walk.
LEMMA Numbered ==
  /\ Projects \cup {0} \subseteq Nat
  /\ {r.id : r \in Records} \cup {0} \subseteq Nat
  /\ 0 .. FlushRecords \subseteq Nat /\ 0 .. MaxClock \subseteq Nat
<1>1. Projects \subseteq Nat
  BY Parameters
<1>2. \A r \in Records : r.id \in Nat
  BY RecordType
<1>3. 0 .. FlushRecords \subseteq Nat /\ 0 .. MaxClock \subseteq Nat
  BY Parameters
<1> QED BY ONLY <1>1, <1>2, <1>3

\* What a cursor is, and what a walk is.
LEMMA ProgressFields ==
  ASSUME NEW g \in Progresses
  PROVE  /\ g.last \in Nat /\ g.last \in Projects \cup {0}
         /\ g.current \in Nat /\ g.current \in Projects \cup {0}
         /\ g.current # 0 => g.phase \in Phases /\ g.current > g.last
         /\ g.current = 0 => g.phase = "" /\ g.events = None /\ g.pipeline = 0
         /\ g.pipeline \in Nat
<1>1. /\ g.last \in Projects \cup {0} /\ g.current \in Projects \cup {0}
      /\ g.current # 0 => g.phase \in Phases /\ g.current > g.last
      /\ g.current = 0 => g.phase = "" /\ g.events = None /\ g.pipeline = 0
      /\ g.pipeline \in {r.id : r \in Records} \cup {0}
  BY DEF Progresses
<1> QED BY <1>1, Numbered, Zenon

LEMMA WalkFields ==
  ASSUME Framed
  PROVE  /\ walk \in Walks /\ walk.progress \in Progresses /\ saved \in Progresses
         /\ walk.listed \in Nat /\ walk.listed \in Projects \cup {0} /\ walk.pos \in Nat
         /\ walk.due \subseteq Kinds /\ walk.sinceFlush \in 0 .. FlushRecords
         /\ walk.outcome \in {"", "success", "failed"}
         /\ walk.at = "processing" => walk.record \in Records
         /\ walk.at # "processing" => walk.record = None
<1>1. walk \in Walks /\ saved \in Progresses /\ (walk.at = "processing" <=> walk.record \in Records)
  BY DEF Framed, TypeOK, WalkType
<1>2. /\ walk.progress \in Progresses /\ walk.listed \in Projects \cup {0} /\ walk.pos \in Nat
      /\ walk.due \subseteq Kinds /\ walk.sinceFlush \in 0 .. FlushRecords
      /\ walk.outcome \in {"", "success", "failed"} /\ walk.record \in Records \cup {None}
  BY <1>1 DEF Walks
<1>3. walk.listed \in Nat
  BY <1>2, Numbered, Zenon
<1> QED BY <1>1, <1>2, <1>3

LEMMA WalkProjectFramed == Framed /\ WalkProject => Framed'
<1> SUFFICES ASSUME Framed, WalkProject PROVE Framed'
  OBVIOUS
<1> DEFINE ahead == {p \in Projects : p > walk.listed}
<1>1. /\ walk.at = "projects" /\ UNCHANGED walkOnly /\ firstSince' = firstSince /\ faults' = faults
      /\ counted' = counted /\ saved' = saved /\ walkedUntil' = walkedUntil
      /\ passedOver' = passedOver
      /\ walk' = IF ahead = {} THEN [walk EXCEPT !.at = "completed"]
                 ELSE [walk EXCEPT !.at = "listing", !.listed = Least(ahead), !.pos = 0,
                                   !.outcome = "", !.progress = startProject(@, Least(ahead))]
  BY DEF WalkProject, ghosts
<1>2. /\ walk \in Walks /\ walk.progress \in Progresses /\ walk.record \notin Records
      /\ walk.listed \in Nat /\ walk.progress.last <= walk.listed /\ walk.sinceFlush < FlushRecords
  BY <1>1, WalkFields, Parameters DEF Framed, Placed
<1>3. ProcessType' /\ PassType' /\ Quiet'
  BY <1>1, WalkLeaves
<1>4. CountType'
  BY <1>1, CountKept DEF Framed, TypeOK, CountType
<1>5. saved' \in Progresses
  BY <1>1 DEF Framed, TypeOK, WalkType
<1>6. CASE ahead = {}
  <2>1. walk' = [walk EXCEPT !.at = "completed"]
    BY <1>1, <1>6
  <2>2. walk' \in Walks /\ walk'.record = walk.record /\ walk'.at = "completed"
        /\ walk'.progress = walk.progress /\ walk'.listed = walk.listed
    BY <2>1, <1>2 DEF Walks
  <2>3. WalkType' /\ Placed'
    BY <2>2, <1>2, <1>5 DEF WalkType, Placed
  <2> QED BY <1>3, <1>4, <2>3 DEF Framed, TypeOK
<1>7. CASE ahead # {}
  <2> DEFINE p == Least(ahead)
  <2>1. ahead \subseteq Nat
    BY Parameters
  <2>2. p \in Projects /\ p > walk.listed /\ p # 0
    BY <2>1, <1>7, <1>2, LeastOf, Parameters
  <2> HIDE DEF p
  <2>3. walk.progress.last < p /\ p \in Nat /\ walk.progress.last \in Nat
    <3>1. walk.progress.last \in Nat
      BY <1>2, ProgressFields
    <3>2. p \in Nat
      BY <2>2, Parameters
    <3> QED BY <3>1, <3>2, <2>2, <1>2
  <2> DEFINE g == startProject(walk.progress, p)
  <2>4. g \in Progresses /\ g.last = walk.progress.last /\ g.current = p
    BY <2>2, <2>3, <1>2, Started
  <2> HIDE DEF g
  <2>5. walk' = [walk EXCEPT !.at = "listing", !.listed = p, !.pos = 0, !.outcome = "", !.progress = g]
    BY <1>1, <1>7 DEF p, g
  <2>6. /\ walk' \in Walks /\ walk'.record = walk.record /\ walk'.at = "listing" /\ walk'.progress = g
        /\ walk'.listed = p /\ walk'.sinceFlush = walk.sinceFlush
    BY <2>5, <2>2, <2>4, <1>2 DEF Walks
  <2>7. WalkType' /\ Placed'
    BY <2>2, <2>3, <2>4, <2>6, <1>2, <1>5 DEF WalkType, Placed
  <2> QED BY <1>3, <1>4, <2>7 DEF Framed, TypeOK
<1> QED BY <1>6, <1>7

\* The next record of a listing.
LEMMA NextListed ==
  ASSUME Framed, Listing # {}
  PROVE  LET r == CHOOSE x \in Listing : \A y \in Listing : x.id <= y.id IN
         /\ r \in Listing /\ r \in Records /\ r.id \in Nat
         /\ \A y \in Listing : r.id <= y.id
<1>1. Listing \subseteq Records
  BY DEF Listing, Of, Happened
<1> QED BY <1>1, FirstOf, RecordType

LEMMA ReadFramed == Framed /\ Read => Framed'
<1> SUFFICES ASSUME Framed, Read PROVE Framed'
  OBVIOUS
<1> DEFINE r == CHOOSE x \in Listing : \A y \in Listing : x.id <= y.id
           o == recordOutcome(walk.outcome, r)
           d == Normalized(r, walk.outcome)
           w == [walk EXCEPT !.pos = r.id, !.outcome = o]
           v == [walk EXCEPT !.pos = r.id, !.outcome = o, !.at = "processing", !.record = r, !.due = d]
<1>1. /\ walk.at = "listing" /\ Listing # {} /\ UNCHANGED walkOnly
      /\ firstSince' = firstSince /\ faults' = faults
      /\ counted' = counted /\ saved' = saved /\ walkedUntil' = walkedUntil
      /\ passedOver' = passedOver
      /\ walk' \in {w, v}
  BY DEF Read, ghosts
<1>2. r \in Records /\ r.id \in Nat
  BY <1>1, NextListed
<1>3. o \in {"", "success", "failed"}
  BY WalkFields DEF recordOutcome
<1>4. d \subseteq Kinds
  BY <1>2, ActivitiesOf
<1> HIDE DEF r, o, d
<1>5. /\ walk' \in Walks /\ walk'.progress = walk.progress /\ walk'.listed = walk.listed
      /\ walk'.sinceFlush = walk.sinceFlush
      /\ \/ walk'.at = "listing" /\ walk'.record = walk.record
         \/ walk'.at = "processing" /\ walk'.record = r
  <2>1. walk \in Walks
    BY WalkFields
  <2>2. w \in Walks
    BY <1>2, <1>3, <2>1 DEF Walks
  <2>3. v \in Walks
    BY <1>2, <1>3, <1>4, <2>1 DEF Walks
  <2>4. /\ w.progress = walk.progress /\ w.listed = walk.listed /\ w.sinceFlush = walk.sinceFlush
        /\ w.at = walk.at /\ w.record = walk.record
    BY <2>1 DEF Walks
  <2>5. /\ v.progress = walk.progress /\ v.listed = walk.listed /\ v.sinceFlush = walk.sinceFlush
        /\ v.at = "processing" /\ v.record = r
    BY <2>1 DEF Walks
  <2> HIDE DEF w, v
  <2> QED BY <1>1, <2>2, <2>3, <2>4, <2>5
<1>6. ProcessType' /\ PassType' /\ Quiet'
  BY <1>1, WalkLeaves
<1>7. CountType'
  BY <1>1, CountKept DEF Framed, TypeOK, CountType
<1>8. WalkType'
  BY <1>1, <1>2, <1>5, WalkFields, Parameters DEF WalkType
<1>9. Placed'
  BY <1>1, <1>5 DEF Framed, Placed
<1> QED BY <1>6, <1>7, <1>8, <1>9 DEF Framed, TypeOK

LEMMA ProcessFramed == Framed /\ Process => Framed'
<1> SUFFICES ASSUME Framed, Process PROVE Framed'
  OBVIOUS
<1>1. PICK k \in walk.due :
        /\ counted' = counted \cup {k}
        /\ walk' = IF walk.due # {k} THEN [walk EXCEPT !.due = @ \ {k}]
                   ELSE [walk EXCEPT !.due = {}, !.record = None,
                                     !.progress = Advanced(@, walk.record),
                                     !.sinceFlush = @ + 1,
                                     !.at = IF walk.sinceFlush + 1 >= FlushRecords THEN "flush"
                                            ELSE "listing"]
  BY DEF Process
<1>2. /\ walk.at = "processing" /\ UNCHANGED walkOnly /\ firstSince' = firstSince /\ faults' = faults
      /\ saved' = saved /\ walkedUntil' = walkedUntil /\ passedOver' = passedOver
  BY DEF Process, ghosts
<1>3. /\ walk \in Walks /\ walk.progress \in Progresses /\ saved \in Progresses
      /\ walk.record \in Records /\ walk.due \subseteq Kinds
      /\ walk.sinceFlush \in Nat /\ walk.sinceFlush < FlushRecords
      /\ walk.listed # 0 /\ walk.progress.current = walk.listed
      /\ walk.progress.last <= walk.listed
  <2>1. Placed
    BY DEF Framed
  <2>2. walk.sinceFlush \in Nat
    BY WalkFields, Numbered, Zenon
  <2> QED BY <1>2, <2>1, <2>2, WalkFields DEF Placed
<1>4. ProcessType' /\ PassType' /\ Quiet'
  BY <1>2, WalkLeaves
<1>5. CountType'
  BY <1>1, <1>2, <1>3, CountKept DEF Framed, TypeOK, CountType
<1>6. CASE walk.due # {k}
  <2>1. walk' = [walk EXCEPT !.due = @ \ {k}]
    BY <1>1, <1>6
  <2>2. /\ walk' \in Walks /\ walk'.progress = walk.progress /\ walk'.listed = walk.listed
        /\ walk'.sinceFlush = walk.sinceFlush /\ walk'.at = walk.at /\ walk'.record = walk.record
    BY <2>1, <1>3 DEF Walks
  <2>3. WalkType' /\ Placed'
    BY <2>2, <1>2, <1>3 DEF WalkType, Placed
  <2> QED BY <1>4, <1>5, <2>3 DEF Framed, TypeOK
<1>7. CASE walk.due = {k}
  <2> DEFINE g == Advanced(walk.progress, walk.record)
             a == IF walk.sinceFlush + 1 >= FlushRecords THEN "flush" ELSE "listing"
             n == walk.sinceFlush + 1
  <2>1. g \in Progresses /\ g.last = walk.progress.last /\ g.current = walk.progress.current
    BY <1>3, AdvancedKeeps
  <2>2. n \in 0 .. FlushRecords /\ (a = "listing" => n < FlushRecords) /\ a \in {"flush", "listing"}
    BY <1>3, Parameters
  <2> HIDE DEF g, a, n
  <2>3. walk' = [walk EXCEPT !.due = {}, !.record = None, !.progress = g, !.sinceFlush = n, !.at = a]
    BY <1>1, <1>7 DEF g, a, n
  <2>4. /\ walk' \in Walks /\ walk'.progress = g /\ walk'.listed = walk.listed
        /\ walk'.sinceFlush = n /\ walk'.at = a /\ walk'.record = None
    BY <2>1, <2>2, <2>3, <1>3 DEF Walks
  <2>5. WalkType' /\ Placed'
    BY <2>1, <2>2, <2>4, <1>2, <1>3, Parameters DEF WalkType, Placed
  <2> QED BY <1>4, <1>5, <2>5 DEF Framed, TypeOK
<1> QED BY <1>6, <1>7

LEMMA EndPhaseFramed == Framed /\ EndPhase => Framed'
<1> SUFFICES ASSUME Framed, EndPhase PROVE Framed'
  OBVIOUS
<1> DEFINE g == walk.progress
           p == g.current
           i == CHOOSE j \in 1 .. 4 : projectPhases[j] = g.phase
           f == finishProject(g, p)
           n == [g EXCEPT !.phase = projectPhases[i + 1]]
<1>1. /\ walk.at = "listing" /\ UNCHANGED walkOnly
      /\ firstSince' = firstSince /\ faults' = faults
      /\ counted' = counted /\ saved' = saved /\ passedOver' = passedOver
      /\ walkedUntil' = [walkedUntil EXCEPT ![p][g.phase] = liveFrom]
      /\ walk' = IF i = 4 THEN [walk EXCEPT !.at = "flush", !.progress = f]
                 ELSE [walk EXCEPT !.pos = 0, !.outcome = "", !.progress.phase = projectPhases[i + 1]]
  BY DEF EndPhase
<1>2. /\ walk \in Walks /\ g \in Progresses /\ saved \in Progresses /\ walk.record \notin Records
      /\ walk.listed # 0 /\ p = walk.listed /\ p \in Projects /\ g.phase \in Phases
      /\ g.last <= walk.listed /\ walk.sinceFlush < FlushRecords /\ p \in Nat
  <2>1. Placed
    BY DEF Framed
  <2>2. /\ walk.listed # 0 /\ p = walk.listed /\ g.last <= walk.listed
        /\ walk.sinceFlush < FlushRecords
    BY <1>1, <2>1 DEF Placed
  <2>3. walk \in Walks /\ g \in Progresses /\ saved \in Progresses /\ walk.record = None
    BY <1>1, WalkFields
  <2>4. p \in Projects /\ g.phase \in Phases /\ p \in Nat
    BY <2>2, <2>3, ProgressFields
  <2> QED BY <2>2, <2>3, <2>4, Parameters
<1>3. i \in 1 .. 4
  BY <1>2, PhaseAt
<1>4. f \in Progresses /\ f.last = p /\ f.current = 0
  BY <1>2, Finished
<1>5. i # 4 => n \in Progresses /\ n.last = g.last /\ n.current = p
  <2> SUFFICES ASSUME i # 4 PROVE n \in Progresses /\ n.last = g.last /\ n.current = p
    OBVIOUS
  <2>1. i \in 1 .. 3
    BY <1>3
  <2>2. g.current # 0 /\ g \in Progresses
    BY <1>2
  <2> HIDE DEF i, g
  <2> QED BY <2>1, <2>2, NextPhase
<1>6. ProcessType' /\ PassType' /\ Quiet'
  BY <1>1, WalkLeaves
<1>7. CountType'
  <2>1. walkedUntil \in [Projects -> [Phases -> 0 .. MaxClock]] /\ liveFrom \in 0 .. MaxClock
    BY DEF Framed, TypeOK, CountType, ProcessType
  <2>2. walkedUntil' \in [Projects -> [Phases -> 0 .. MaxClock]]
    BY <1>1, <1>2, <2>1
  <2> QED BY <1>1, <2>2 DEF Framed, TypeOK, CountType
<1>8. CASE i = 4
  <2> HIDE DEF f, i, p
  <2>1. walk' = [walk EXCEPT !.at = "flush", !.progress = f]
    BY <1>1, <1>8
  <2>2. /\ walk' \in Walks /\ walk'.progress = f /\ walk'.at = "flush" /\ walk'.record = walk.record
        /\ walk'.listed = walk.listed
    BY <2>1, <1>2, <1>4 DEF Walks
  <2>3. WalkType' /\ Placed'
    BY <2>2, <1>1, <1>2, <1>4 DEF WalkType, Placed
  <2> QED BY <1>6, <1>7, <2>3 DEF Framed, TypeOK
<1>9. CASE i # 4
  <2>1. walk' = [walk EXCEPT !.pos = 0, !.outcome = "", !.progress = n]
    BY <1>1, <1>9
  <2>2. n \in Progresses /\ n.last = g.last /\ n.current = p
    BY <1>5, <1>9
  <2>3. walk \in Walks /\ walk.at = "listing"
    BY <1>1, <1>2
  <2> HIDE DEF n, i, p, g
  <2>4. /\ walk' \in Walks /\ walk'.progress = n /\ walk'.at = "listing"
        /\ walk'.record = walk.record /\ walk'.listed = walk.listed
        /\ walk'.sinceFlush = walk.sinceFlush
    BY <2>1, <2>2, <2>3 DEF Walks
  <2>5. WalkType' /\ Placed'
    BY <2>2, <2>4, <1>1, <1>2 DEF WalkType, Placed
  <2> QED BY <1>6, <1>7, <2>5 DEF Framed, TypeOK
<1> QED BY <1>8, <1>9

LEMMA SkipProjectFramed == Framed /\ SkipProject => Framed'
<1> SUFFICES ASSUME Framed, SkipProject PROVE Framed'
  OBVIOUS
<1> DEFINE f == finishProject(walk.progress, walk.listed)
<1>1. /\ walk.at = "listing" /\ Fault /\ UNCHANGED walkOnly /\ firstSince' = firstSince
      /\ counted' = counted /\ saved' = saved /\ walkedUntil' = walkedUntil
      /\ passedOver' = passedOver \cup {walk.listed}
      /\ walk' = [walk EXCEPT !.at = "flush", !.progress = f]
  BY DEF SkipProject
<1>2. walk.listed \in Projects /\ walk.listed \in Nat
  BY <1>1, WalkFields DEF Framed, Placed
<1>3. f \in Progresses /\ f.last = walk.listed /\ f.current = 0
  BY <1>2, WalkFields, Finished
<1> HIDE DEF f
<1>4. ProcessType' /\ PassType' /\ Quiet'
  BY <1>1, WalkLeaves
<1>5. CountType'
  BY <1>1, <1>2 DEF Framed, TypeOK, CountType
<1>6. /\ walk' \in Walks /\ walk'.progress = f /\ walk'.at = "flush" /\ walk'.record = walk.record
      /\ walk'.listed = walk.listed
  BY <1>1, <1>3, WalkFields DEF Walks
<1>7. WalkType'
  <2>1. walk.record \notin Records /\ saved \in Progresses
    BY <1>1, WalkFields, Parameters
  <2> QED BY <1>1, <1>6, <2>1 DEF WalkType
<1>8. Placed'
  BY <1>2, <1>3, <1>6 DEF Placed
<1> QED BY <1>4, <1>5, <1>7, <1>8 DEF Framed, TypeOK

LEMMA FlushFramed == Framed /\ Flush => Framed'
<1> SUFFICES ASSUME Framed, Flush PROVE Framed'
  OBVIOUS
<1> DEFINE a == IF walk.progress.current = 0 THEN "projects" ELSE "listing"
<1>1. /\ walk.at = "flush" /\ UNCHANGED walkOnly /\ firstSince' = firstSince /\ faults' = faults
      /\ counted' = counted /\ walkedUntil' = walkedUntil /\ passedOver' = passedOver
      /\ saved' = walk.progress
      /\ walk' = [walk EXCEPT !.sinceFlush = 0, !.at = a]
  BY DEF Flush, ghosts
<1>2. a \in {"projects", "listing"} /\ (a = "listing" => walk.progress.current # 0)
  OBVIOUS
<1> HIDE DEF a
<1>3. ProcessType' /\ PassType' /\ Quiet'
  BY <1>1, WalkLeaves
<1>4. CountType'
  BY <1>1 DEF Framed, TypeOK, CountType
<1>5. 0 \in 0 .. FlushRecords /\ 0 < FlushRecords
  BY Parameters
<1>6. /\ walk' \in Walks /\ walk'.progress = walk.progress /\ walk'.at = a
      /\ walk'.record = walk.record /\ walk'.listed = walk.listed /\ walk'.sinceFlush = 0
  BY <1>1, <1>2, <1>5, WalkFields DEF Walks
<1>7. WalkType'
  BY <1>1, <1>2, <1>6, WalkFields, Parameters DEF WalkType
<1>8. Placed'
  <2>1. walk.progress.last <= walk.listed /\ walk.progress.current \in {0, walk.listed}
    BY <1>1 DEF Framed, Placed
  <2> QED BY <2>1, <1>2, <1>5, <1>6 DEF Placed
<1> QED BY <1>3, <1>4, <1>7, <1>8 DEF Framed, TypeOK

\* A walk that is off.
LEMMA OffType ==
  ASSUME NEW g \in Progresses
  PROVE  /\ Off(g) \in Walks /\ Off(g).at = "off" /\ Off(g).progress = g
         /\ Off(g).record = None /\ Off(g).sinceFlush = 0
<1>1. 0 \in 0 .. FlushRecords
  BY Parameters
<1> QED BY <1>1 DEF Off, Walks

LEMMA WalkFailsFramed == Framed /\ (WalkFails \/ ClearProgress) => Framed'
<1> SUFFICES ASSUME Framed, WalkFails \/ ClearProgress PROVE Framed'
  OBVIOUS
<1>1. /\ walk.at # "off" /\ UNCHANGED walkOnly /\ firstSince' = firstSince
      /\ Fault \/ UNCHANGED faults
      /\ counted' = counted /\ walkedUntil' = walkedUntil /\ passedOver' = passedOver
      /\ saved' \in {saved, walk.progress, NoProgress}
      /\ walk' = Off(NoProgress)
  BY DEF WalkFails, ClearProgress, ghosts
<1>2. ProcessType' /\ PassType' /\ Quiet'
  BY <1>1, WalkLeaves
<1>3. CountType'
  BY <1>1 DEF Framed, TypeOK, CountType
<1>4. WalkType'
  <2>1. saved' \in Progresses
    BY <1>1, WalkFields, NoProgressType
  <2> QED BY <1>1, <2>1, NoProgressType, OffType, Parameters DEF WalkType
<1>5. Placed'
  BY <1>1, NoProgressType, OffType DEF Placed
<1> QED BY <1>2, <1>3, <1>4, <1>5 DEF Framed, TypeOK

LEMMA CompleteFramed == Framed /\ Complete => Framed'
<1> SUFFICES ASSUME Framed, Complete PROVE Framed'
  OBVIOUS
<1>1. /\ walk.at = "completed" /\ completed' = TRUE /\ clock' = clock /\ mode' = mode
      /\ liveFrom' = liveFrom /\ reconciled' = reconciled /\ pass' = pass /\ counted' = counted
      /\ saved' = saved /\ faults' = faults /\ walkedUntil' = walkedUntil
      /\ passedOver' = passedOver /\ firstSince' = firstSince
      /\ walk' = [walk EXCEPT !.at = "clear"]
  BY DEF Complete, process, ghosts
<1>2. completed' \in BOOLEAN
  BY <1>1, Zenon
<1>3. ProcessType'
  BY <1>1, <1>2 DEF Framed, TypeOK, ProcessType
<1>4. CountType'
  BY <1>1 DEF Framed, TypeOK, CountType
<1>5. PassType'
  BY <1>1, Zenon DEF Framed, TypeOK, PassType
<1>6. /\ walk' \in Walks /\ walk'.progress = walk.progress /\ walk'.at = "clear"
      /\ walk'.record = walk.record /\ walk'.listed = walk.listed
  BY <1>1, WalkFields DEF Walks
<1>7. WalkType'
  BY <1>1, <1>6, WalkFields, Parameters DEF WalkType
<1>8. Placed'
  BY <1>1, <1>6 DEF Framed, Placed
<1>9. Quiet'
  BY <1>1 DEF Framed, Quiet
<1> QED BY <1>3, <1>4, <1>5, <1>7, <1>8, <1>9 DEF Framed, TypeOK

LEMMA TickFramed == Framed /\ Tick => Framed'
<1> SUFFICES ASSUME Framed, Tick PROVE Framed'
  OBVIOUS
<1>1. /\ clock < MaxClock /\ clock' = clock + 1 /\ mode' = mode /\ liveFrom' = liveFrom
      /\ completed' = completed /\ faults' = faults
  BY DEF Tick, process
<1>2. /\ saved' = saved /\ walk' = walk /\ pass' = pass /\ reconciled' = reconciled
      /\ walkedUntil' = walkedUntil /\ passedOver' = passedOver /\ firstSince' = firstSince
  BY DEF Tick
<1>3. counted' \subseteq Kinds
  <2> DEFINE now == {r \in Records : r.at = clock}
  <2>1. PICK delivered \in IF mode = "serving" THEN SUBSET AllOf(now) ELSE {{}} :
          counted' = counted \cup delivered
    BY DEF Tick
  <2>2. delivered \subseteq AllOf(now) /\ AllOf(now) \subseteq Kinds
    BY <2>1, AllOfType
  <2> QED BY <2>1, <2>2 DEF Framed, TypeOK, CountType
<1>4. ProcessType'
  <2>1. clock' \in 1 .. MaxClock /\ liveFrom <= clock'
    BY <1>1, Parameters DEF Framed, TypeOK, ProcessType
  <2> QED BY <1>1, <2>1 DEF Framed, TypeOK, ProcessType
<1>5. CountType'
  BY <1>2, <1>3, CountKept
<1>6. WalkType' /\ Placed'
  BY <1>2, Zenon DEF Framed, TypeOK, WalkType, Placed
<1>7. PassType'
  <2>1. pass.startedAt <= clock'
    <3>1. pass.startedAt \in Int
      BY Numbered DEF Framed, TypeOK, PassType
    <3> QED BY <3>1, <1>1 DEF Framed, TypeOK, ProcessType, PassType
  <2> QED BY <2>1, <1>2, Zenon DEF Framed, TypeOK, PassType
<1>8. Quiet'
  BY <1>1, <1>2 DEF Framed, Quiet
<1> QED BY <1>4, <1>5, <1>6, <1>7, <1>8 DEF Framed, TypeOK

LEMMA BootFramed == Framed /\ Boot => Framed'
<1> SUFFICES ASSUME Framed, Boot PROVE Framed'
  OBVIOUS
<1>1. /\ mode = "down" /\ mode' = "booting" /\ liveFrom' = clock
      /\ clock' = clock /\ completed' = completed /\ faults' = faults
  BY DEF Boot
<1>2. /\ counted' = counted /\ saved' = saved /\ walk' = walk /\ pass' = pass
      /\ reconciled' = reconciled
      /\ walkedUntil' = walkedUntil /\ passedOver' = passedOver /\ firstSince' = firstSince
  BY DEF Boot, ghosts
<1>3. ProcessType'
  <2>1. clock \in 0 .. MaxClock /\ clock <= clock
    BY Parameters DEF Framed, TypeOK, ProcessType
  <2> QED BY <1>1, <2>1 DEF Framed, TypeOK, ProcessType
<1>4. CountType'
  BY <1>2 DEF Framed, TypeOK, CountType
<1>5. WalkType' /\ Placed'
  BY <1>2, Zenon DEF Framed, TypeOK, WalkType, Placed
<1>6. PassType'
  BY <1>1, <1>2, Zenon DEF Framed, TypeOK, PassType
<1>7. Quiet'
  BY <1>1, <1>2 DEF Framed, Quiet
<1> QED BY <1>3, <1>4, <1>5, <1>6, <1>7 DEF Framed, TypeOK

LEMMA ServeFramed == Framed /\ Serve => Framed'
<1> SUFFICES ASSUME Framed, Serve PROVE Framed'
  OBVIOUS
<1>1. /\ mode = "booting" /\ mode' = "serving" /\ liveFrom' = liveFrom
      /\ clock' = clock /\ completed' = completed /\ faults' = faults
      /\ counted' = counted /\ saved' = saved /\ pass' = pass /\ reconciled' = reconciled
      /\ walkedUntil' = walkedUntil /\ passedOver' = passedOver /\ firstSince' = firstSince
      /\ walk' = IF completed THEN walk
                 ELSE [Off(saved) EXCEPT !.at = "projects", !.listed = saved.last]
  BY DEF Serve, ghosts
<1>2. ProcessType'
  BY <1>1 DEF Framed, TypeOK, ProcessType
<1>3. CountType'
  BY <1>1 DEF Framed, TypeOK, CountType
<1>4. PassType'
  BY <1>1, Zenon DEF Framed, TypeOK, PassType
<1>5. Quiet'
  BY <1>1 DEF Quiet
<1>6. CASE completed
  <2>1. walk' = walk
    BY <1>1, <1>6
  <2>2. WalkType' /\ Placed'
    BY <2>1, <1>1, Zenon DEF Framed, TypeOK, WalkType, Placed
  <2> QED BY <1>2, <1>3, <1>4, <1>5, <2>2 DEF Framed, TypeOK
<1>7. CASE ~completed
  <2> DEFINE w == Off(saved)
  <2>1. walk' = [w EXCEPT !.at = "projects", !.listed = saved.last]
    BY <1>1, <1>7
  <2>2. saved \in Progresses /\ saved.last \in Projects \cup {0} /\ saved.last \in Nat
    BY WalkFields, ProgressFields
  <2>3. w \in Walks /\ w.progress = saved /\ w.record = None /\ w.sinceFlush = 0
    BY <2>2, OffType
  <2> HIDE DEF w
  <2>4. /\ walk' \in Walks /\ walk'.progress = saved /\ walk'.at = "projects"
        /\ walk'.record = None /\ walk'.listed = saved.last /\ walk'.sinceFlush = 0
    BY <2>1, <2>2, <2>3 DEF Walks
  <2>5. WalkType'
    BY <1>1, <2>2, <2>4, Parameters DEF WalkType
  <2>6. 0 < FlushRecords
    BY Parameters
  <2>7. Placed'
    BY <2>2, <2>4, <2>6 DEF Placed
  <2> QED BY <1>2, <1>3, <1>4, <1>5, <2>5, <2>7 DEF Framed, TypeOK
<1> QED BY <1>6, <1>7

LEMMA StopFramed == Framed /\ Stop => Framed'
<1> SUFFICES ASSUME Framed, Stop PROVE Framed'
  OBVIOUS
<1>1. /\ mode' = "down" /\ liveFrom' = liveFrom
      /\ clock' = clock /\ completed' = completed /\ faults' = faults
      /\ counted' = counted /\ saved' = saved /\ reconciled' = reconciled
      /\ walkedUntil' = walkedUntil /\ passedOver' = passedOver /\ firstSince' = firstSince
      /\ walk' = Off(NoProgress) /\ pass' = NoPass
  BY DEF Stop, ghosts
<1>2. ProcessType'
  BY <1>1 DEF Framed, TypeOK, ProcessType
<1>3. CountType'
  BY <1>1 DEF Framed, TypeOK, CountType
<1>4. PassType'
  <2>1. /\ pass' \in [busy : BOOLEAN, since : Int, startedAt : 0 .. MaxClock,
                      listed : Projects \cup {0}]
        /\ pass'.startedAt = 0 /\ pass'.since <= pass'.startedAt
    BY <1>1, Parameters DEF NoPass
  <2>2. 0 <= clock
    BY Parameters DEF Framed, TypeOK, ProcessType
  <2> QED BY <1>1, <2>1, <2>2 DEF Framed, TypeOK, PassType
<1>5. WalkType' /\ Placed' /\ walk'.at = "off"
  BY <1>1, NoProgressType, OffType, WalkFields, Parameters DEF WalkType, Placed
<1>6. Quiet'
  BY <1>1, <1>5 DEF Quiet, NoPass
<1> QED BY <1>2, <1>3, <1>4, <1>5, <1>6 DEF Framed, TypeOK

\* The parts of a pass.
LEMMA PassFields ==
  ASSUME Framed
  PROVE  /\ pass.since \in Int /\ pass.startedAt \in Nat /\ pass.startedAt \in 0 .. MaxClock
         /\ pass.listed \in Nat /\ pass.listed \in Projects \cup {0} /\ pass.startedAt <= clock
         /\ clock \in Nat /\ liveFrom \in Nat /\ liveFrom <= clock
         /\ reconciled # None => reconciled \in Nat
<1>1. /\ pass.since \in Int /\ pass.startedAt \in 0 .. MaxClock /\ pass.listed \in Projects \cup {0}
      /\ pass.startedAt <= clock /\ (reconciled # None => reconciled \in 0 .. MaxClock)
  BY DEF Framed, TypeOK, PassType
<1>2. clock \in Nat /\ liveFrom \in Nat /\ liveFrom <= clock
  BY Parameters DEF Framed, TypeOK, ProcessType
<1> QED BY <1>1, <1>2, Numbered, Zenon

\* The project a pass is at, and what it reads of it.
LEMMA NextUnvisited ==
  ASSUME Unvisited # {}
  PROVE  /\ Least(Unvisited) \in Projects /\ Least(Unvisited) \in Unvisited
         /\ \A p \in Unvisited : Least(Unvisited) <= p
         /\ AllOf(Reread) \subseteq Kinds /\ AllOf(Reread) \subseteq AllOf(Records)
<1>1. Unvisited \subseteq Projects
  BY DEF Unvisited
<1>2. Unvisited \subseteq Nat
  BY <1>1, Parameters
<1>3. Reread \subseteq Records
  BY DEF Reread, Happened
<1> QED BY <1>1, <1>2, <1>3, LeastOf, AllOfType

LEMMA PassBeginFramed == Framed /\ PassBegin => Framed'
<1> SUFFICES ASSUME Framed, PassBegin PROVE Framed'
  OBVIOUS
<1>1. /\ mode = "serving" /\ UNCHANGED passOnly /\ counted' = counted /\ faults' = faults
      /\ reconciled' = reconciled
      /\ walkedUntil' = walkedUntil /\ passedOver' = passedOver /\ firstSince' = firstSince
      /\ clock' = clock /\ mode' = mode
      /\ pass' = [busy |-> TRUE, since |-> window, startedAt |-> clock, listed |-> 0]
  BY DEF PassBegin, ghosts, passOnly, process
<1>2. ProcessType' /\ WalkType' /\ Placed' /\ Quiet'
  BY <1>1, PassLeaves
<1>3. CountType'
  BY <1>1 DEF Framed, TypeOK, CountType
<1>4. window \in Int /\ window <= clock
  BY PassFields, Parameters DEF window
<1>5. clock \in 0 .. MaxClock /\ clock <= clock
  BY Parameters DEF Framed, TypeOK, ProcessType
<1>6. /\ pass' \in [busy : BOOLEAN, since : Int, startedAt : 0 .. MaxClock, listed : Projects \cup {0}]
      /\ pass'.startedAt = clock /\ pass'.since <= clock
  BY <1>1, <1>4, <1>5
<1>7. PassType'
  BY <1>1, <1>5, <1>6 DEF Framed, TypeOK, PassType
<1> QED BY <1>2, <1>3, <1>7 DEF Framed, TypeOK

\* A pass that moves on to the next project.
LEMMA PassMovesFramed == Framed /\ (PassProject \/ PassSkipProject) => Framed'
<1> SUFFICES ASSUME Framed, PassProject \/ PassSkipProject PROVE Framed'
  OBVIOUS
<1>1. /\ pass.busy /\ Unvisited # {} /\ UNCHANGED passOnly /\ (Fault \/ UNCHANGED faults)
      /\ reconciled' = reconciled /\ walkedUntil' = walkedUntil /\ firstSince' = firstSince
      /\ pass' = [pass EXCEPT !.listed = Least(Unvisited)]
      /\ passedOver' \in {passedOver, passedOver \cup {Least(Unvisited)}}
      /\ clock' = clock
  BY DEF PassProject, PassSkipProject, ghosts, passOnly
<1>2. counted' \subseteq counted \cup AllOf(Reread)
  BY DEF PassProject, PassSkipProject
<1>3. mode = "serving"
  BY <1>1 DEF Framed, Quiet
<1>4. ProcessType' /\ WalkType' /\ Placed' /\ Quiet'
  BY <1>1, <1>3, PassLeaves
<1>5. Least(Unvisited) \in Projects /\ AllOf(Reread) \subseteq Kinds
  BY <1>1, NextUnvisited
<1>6. CountType'
  BY <1>1, <1>2, <1>5 DEF Framed, TypeOK, CountType
<1>7. pass \in [busy : BOOLEAN, since : Int, startedAt : 0 .. MaxClock, listed : Projects \cup {0}]
  BY DEF Framed, TypeOK, PassType
<1>8. /\ pass' \in [busy : BOOLEAN, since : Int, startedAt : 0 .. MaxClock, listed : Projects \cup {0}]
      /\ pass'.startedAt = pass.startedAt /\ pass'.since = pass.since
  BY <1>1, <1>5, <1>7
<1>9. PassType'
  BY <1>1, <1>8 DEF Framed, TypeOK, PassType
<1> QED BY <1>4, <1>6, <1>9 DEF Framed, TypeOK

\* A pass that is over, one way or the other.
LEMMA PassOverFramed == Framed /\ (PassFails \/ PassEnd) => Framed'
<1> SUFFICES ASSUME Framed, PassFails \/ PassEnd PROVE Framed'
  OBVIOUS
<1>1. /\ pass.busy /\ UNCHANGED passOnly /\ (Fault \/ UNCHANGED faults)
      /\ reconciled' \in {reconciled, pass.startedAt} /\ firstSince' \in {firstSince, pass.since}
      /\ walkedUntil' = walkedUntil /\ passedOver' = passedOver /\ clock' = clock
      /\ pass' = NoPass
  BY DEF PassFails, PassEnd, ghosts, passOnly
<1>2. counted' \subseteq counted \cup AllOf(Reread)
  BY DEF PassFails, PassEnd
<1>3. mode = "serving"
  BY <1>1 DEF Framed, Quiet
<1>4. ProcessType' /\ WalkType' /\ Placed' /\ Quiet'
  BY <1>1, <1>3, PassLeaves
<1>5. Reread \subseteq Records
  BY DEF Reread, Happened
<1>6. counted' \subseteq Kinds
  BY <1>2, <1>5, AllOfType DEF Framed, TypeOK, CountType
<1>7. CountType'
  BY <1>1, <1>6, CountKept
<1>8. /\ pass' \in [busy : BOOLEAN, since : Int, startedAt : 0 .. MaxClock, listed : Projects \cup {0}]
      /\ pass'.startedAt = 0 /\ pass'.since = 0
  BY <1>1, Parameters DEF NoPass
<1>9. PassType'
  BY <1>1, <1>8, PassFields DEF Framed, TypeOK, PassType
<1> QED BY <1>4, <1>7, <1>9 DEF Framed, TypeOK

LEMMA StutterFramed == Framed /\ UNCHANGED vars => Framed'
<1> SUFFICES ASSUME Framed, UNCHANGED vars PROVE Framed'
  OBVIOUS
<1>1. /\ clock' = clock /\ counted' = counted /\ mode' = mode /\ liveFrom' = liveFrom
      /\ saved' = saved /\ completed' = completed /\ walk' = walk /\ reconciled' = reconciled
      /\ pass' = pass /\ faults' = faults /\ walkedUntil' = walkedUntil
      /\ passedOver' = passedOver /\ firstSince' = firstSince
  BY DEF vars, process, ghosts
<1>2. ProcessType' /\ CountType'
  BY <1>1, Zenon DEF Framed, TypeOK, ProcessType, CountType
<1>3. WalkType' /\ PassType'
  BY <1>1, Zenon DEF Framed, TypeOK, WalkType, PassType
<1>4. Quiet' /\ Placed'
  BY <1>1, Zenon DEF Framed, Quiet, Placed
<1> QED BY <1>2, <1>3, <1>4 DEF Framed, TypeOK

\* Every step keeps the types.
LEMMA StepFramed == Framed /\ [Next]_vars => Framed'
  BY TickFramed, BootFramed, ServeFramed, StopFramed, WalkProjectFramed, ReadFramed, ProcessFramed,
     EndPhaseFramed, SkipProjectFramed, FlushFramed, WalkFailsFramed, CompleteFramed, PassBeginFramed,
     PassMovesFramed, PassOverFramed, StutterFramed, Zenon DEF Next, WalkStep, PassStep

\* The types, and where the walk is among its projects and phases, hold in every
\* reachable state.
THEOREM HistoryTyped == Spec => []Framed
BY InitFramed, StepFramed, PTL DEF Spec

\* The clock, liveFrom, the watermarks, the cursors, the walk and the passes
\* always hold what their types say.
THEOREM HistoryTypeCorrect == Spec => []TypeOK
<1>1. Framed => TypeOK
  BY DEF Framed
<1> QED BY <1>1, HistoryTyped, PTL

-----------------------------------------------------------------------------
(* Passes. *)

\* Nothing that was counted is ever uncounted.
LEMMA CountedStays ==
  ASSUME [Next]_vars
  PROVE  counted \subseteq counted'
<1>1. CASE Tick
  BY <1>1 DEF Tick
<1>2. CASE Process
  BY <1>2 DEF Process
<1>3. CASE PassProject \/ PassSkipProject \/ PassFails
  BY <1>3 DEF PassProject, PassSkipProject, PassFails
<1>4. CASE UNCHANGED counted
  BY <1>4
<1>5. Next => Tick \/ Process \/ PassProject \/ PassSkipProject \/ PassFails \/ UNCHANGED counted
  BY DEF Next, WalkStep, PassStep, Boot, Serve, Stop, WalkProject, Read, EndPhase, Flush, Complete,
         ClearProgress, SkipProject, WalkFails, PassBegin, PassEnd
<1>6. UNCHANGED vars => UNCHANGED counted
  BY DEF vars
<1> QED BY <1>1, <1>2, <1>3, <1>4, <1>5, <1>6

\* What is counted stays counted.
LEMMA CountedKept ==
  ASSUME counted \subseteq counted'
  PROVE  \A r : Counted(r) => Counted(r)'
  BY DEF Counted

\* What neither begins a pass nor moves one on disturbs no pass.
LEMMA PassInvKept ==
  ASSUME PassInv, counted \subseteq counted', passedOver \subseteq passedOver',
         UNCHANGED <<reconciled, firstSince>>, UNCHANGED pass \/ ~pass'.busy
  PROVE  PassInv'
<1>1. \A r : Counted(r) => Counted(r)'
  BY CountedKept
<1>2. reconciled' = reconciled /\ firstSince' = firstSince
  OBVIOUS
<1>3. CorrectUpToWatermark'
  BY <1>1, <1>2 DEF PassInv, CorrectUpToWatermark
<1>4. Reaches'
  <2>1. CASE ~pass'.busy
    BY <2>1 DEF Reaches
  <2>2. CASE pass' = pass
    BY <1>1, <1>2, <2>2 DEF PassInv, Reaches
  <2> QED BY <2>1, <2>2
<1> QED BY <1>2, <1>3, <1>4 DEF PassInv

\* A pass begins at the watermark less the look-back, which leaves no gap.
LEMMA PassBeginReaches ==
  ASSUME Framed, PassInv, PassBegin
  PROVE  PassInv'
<1>1. /\ counted' = counted /\ reconciled' = reconciled /\ passedOver' = passedOver
      /\ firstSince' = firstSince
      /\ pass' = [busy |-> TRUE, since |-> window, startedAt |-> clock, listed |-> 0]
  BY DEF PassBegin, ghosts
<1>2. CorrectUpToWatermark'
  BY <1>1, CountedKept DEF PassInv, CorrectUpToWatermark
<1>3. reconciled # None => window <= reconciled - Slack
  BY PassFields, Parameters DEF window
<1>4. \A r \in Records : ~(r.project <= 0)
  BY Positive
<1>5. Reaches'
  BY <1>1, <1>3, <1>4 DEF Reaches
<1> QED BY <1>1, <1>2, <1>5 DEF PassInv

\* The pass counts what it reads of a project, or passes it over.
LEMMA PassMovesReaches ==
  ASSUME Framed, PassInv, PassProject \/ PassSkipProject
  PROVE  PassInv'
<1> DEFINE p == Least(Unvisited)
<1>1. /\ pass.busy /\ Unvisited # {} /\ reconciled' = reconciled /\ firstSince' = firstSince
      /\ counted \subseteq counted' /\ passedOver \subseteq passedOver'
      /\ pass' = [pass EXCEPT !.listed = p]
      /\ p \in passedOver' \/ AllOf(Reread) \subseteq counted'
  BY DEF PassProject, PassSkipProject, ghosts
<1>2. p \in Projects /\ p \in Unvisited /\ \A q \in Unvisited : p <= q
  BY <1>1, NextUnvisited
<1>3. \A r : Counted(r) => Counted(r)'
  BY <1>1, CountedKept
<1> HIDE DEF p
<1>4. CorrectUpToWatermark'
  BY <1>1, <1>3 DEF PassInv, CorrectUpToWatermark
<1>5. /\ pass'.busy = pass.busy /\ pass'.since = pass.since /\ pass'.startedAt = pass.startedAt
      /\ pass'.listed = p
  <2>1. pass \in [busy : BOOLEAN, since : Int, startedAt : 0 .. MaxClock, listed : Projects \cup {0}]
    BY DEF Framed, TypeOK, PassType
  <2> QED BY <1>1, <2>1
<1>6. ASSUME NEW r \in Records, r.project <= p, r.at < pass.startedAt, r.stamp >= pass.since,
             r.project \notin passedOver'
      PROVE  Counted(r)'
  <2>1. CASE r.project <= pass.listed
    <3>1. r.project \notin passedOver
      BY <1>1, <1>6
    <3>2. Counted(r)
      BY <1>1, <1>6, <2>1, <3>1 DEF PassInv, Reaches
    <3> QED BY <1>3, <3>2
  <2>2. CASE ~(r.project <= pass.listed)
    <3>0. /\ r.project \in Projects /\ r.project \in Nat /\ r.at \in Nat /\ pass.listed \in Nat
          /\ pass.startedAt \in Nat /\ clock \in Nat /\ pass.startedAt <= clock /\ p \in Nat
      BY <1>2, RecordType, PassFields, Numbered
    <3>1. r.project \in Unvisited
      BY <2>2, <3>0 DEF Unvisited
    <3>2. p <= r.project
      BY <1>2, <3>1
    <3>3. r.project = p
      BY <1>6, <3>0, <3>2
    <3>4. r \in Happened
      BY <1>6, <3>0 DEF Happened
    <3>5. InWindow(r)
      BY <1>6, RecordType, PassFields, DayOf DEF InWindow
    <3>6. r \in Reread
      BY <1>2, <3>1, <3>3, <3>4, <3>5 DEF Reread
    <3>7. AllOf(Reread) \subseteq counted'
      BY <1>1, <1>6, <3>3
    <3>8. Activities(r) \subseteq counted'
      BY <3>6, <3>7 DEF AllOf
    <3> QED BY <3>8 DEF Counted
  <2> QED BY <2>1, <2>2
<1>7. Reaches'
  BY <1>1, <1>5, <1>6 DEF PassInv, Reaches
<1> QED BY <1>1, <1>4, <1>7 DEF PassInv

\* A pass that has been through every project makes its start the watermark.
LEMMA PassEndReaches ==
  ASSUME Framed, PassInv, PassEnd
  PROVE  PassInv'
<1>1. /\ pass.busy /\ Unvisited = {} /\ reconciled' = pass.startedAt /\ pass' = NoPass
      /\ firstSince' = IF reconciled = None THEN pass.since ELSE firstSince
      /\ counted' = counted /\ passedOver' = passedOver
  BY DEF PassEnd
<1>2. \A r : Counted(r) => Counted(r)'
  BY <1>1, CountedKept
<1>3. ASSUME NEW r \in Records, r.at < pass.startedAt, r.stamp >= pass.since,
             r.project \notin passedOver
      PROVE  Counted(r)
  <2>1. r.project <= pass.listed
    <3>1. r.project \in Projects /\ r.project \in Nat /\ pass.listed \in Nat
      BY RecordType, PassFields
    <3> QED BY <1>1, <3>1 DEF Unvisited
  <2> QED BY <1>1, <1>3, <2>1 DEF PassInv, Reaches
<1>4. ASSUME NEW r \in Records, r.at < reconciled', r.stamp >= firstSince', r.project \notin passedOver
      PROVE  Counted(r)
  <2>1. CASE reconciled = None
    BY <1>1, <1>3, <1>4, <2>1
  <2>2. CASE reconciled # None /\ r.at < reconciled
    BY <1>1, <1>4, <2>2 DEF PassInv, CorrectUpToWatermark
  <2>3. CASE reconciled # None /\ ~(r.at < reconciled)
    <3>1. /\ r.at \in Nat /\ r.stamp \in Int /\ reconciled \in Nat /\ Slack \in Nat
          /\ pass.since \in Int /\ r.at - Slack <= r.stamp
      BY <2>3, RecordType, PassFields, Parameters
    <3>2. pass.since <= reconciled - Slack
      BY <1>1, <2>3 DEF PassInv, Reaches
    <3>3. r.stamp >= pass.since
      BY <2>3, <3>1, <3>2
    <3> QED BY <1>1, <1>3, <1>4, <3>3
  <2> QED BY <2>1, <2>2, <2>3
<1>5. CorrectUpToWatermark'
  BY <1>1, <1>2, <1>4 DEF CorrectUpToWatermark
<1>6. Reaches'
  BY <1>1 DEF Reaches, NoPass
<1>7. firstSince' \in Int
  BY <1>1, PassFields DEF PassInv
<1> QED BY <1>5, <1>6, <1>7 DEF PassInv

\* What a pass has read, and what the watermark says, stays true.
LEMMA StepReaches == Framed /\ PassInv /\ [Next]_vars => PassInv'
<1> SUFFICES ASSUME Framed, PassInv, [Next]_vars PROVE PassInv'
  OBVIOUS
<1>1. counted \subseteq counted'
  BY CountedStays
<1>2. CASE PassBegin
  BY <1>2, PassBeginReaches
<1>3. CASE PassProject \/ PassSkipProject
  BY <1>3, PassMovesReaches
<1>4. CASE PassEnd
  BY <1>4, PassEndReaches
<1>5. CASE Tick \/ WalkStep \/ WalkFails \/ SkipProject \/ Boot \/ Serve \/ Stop \/ PassFails
           \/ UNCHANGED vars
  <2>1. passedOver \subseteq passedOver' /\ UNCHANGED <<reconciled, firstSince>>
        /\ (UNCHANGED pass \/ pass' = NoPass)
    <3> USE DEF ghosts, walkOnly, passOnly
    <3>1. CASE Tick \/ Boot \/ Serve \/ Stop \/ PassFails
      BY <3>1 DEF Tick, Boot, Serve, Stop, PassFails
    <3>2. CASE SkipProject \/ WalkFails
      BY <3>2 DEF SkipProject, WalkFails
    <3>3. CASE WalkStep
      BY <3>3 DEF WalkStep, WalkProject, Read, Process, EndPhase, Flush, Complete, ClearProgress
    <3>4. CASE UNCHANGED vars
      BY <3>4 DEF vars
    <3> QED BY <1>5, <3>1, <3>2, <3>3, <3>4
  <2>2. UNCHANGED pass \/ ~pass'.busy
    BY <2>1 DEF NoPass
  <2> QED BY <1>1, <2>1, <2>2, PassInvKept
<1> QED BY <1>2, <1>3, <1>4, <1>5 DEF Next, PassStep

\* From the first window on, what happened before the watermark is counted,
\* by whichever path, unless its project was passed over.
THEOREM WatermarkIsTrue == Spec => []CorrectUpToWatermark
<1>1. Init => PassInv
  BY DEF Init, PassInv, Reaches, NoPass, CorrectUpToWatermark
<1>2. PassInv => CorrectUpToWatermark
  BY DEF PassInv
<1> QED BY <1>1, <1>2, StepReaches, HistoryTyped, PTL DEF Spec

-----------------------------------------------------------------------------
(* The walk: lemmas. *)

\* What a cursor leaves behind stays counted.
LEMMA DoneKept ==
  ASSUME NEW c, NEW d, c \subseteq d
  PROVE  /\ \A r : Done(r, c) => Done(r, d)
         /\ \A g : CursorsTrue(g, c) => CursorsTrue(g, d)
<1>1. \A r : Done(r, c) => Done(r, d)
  BY DEF Done
<1> QED BY <1>1 DEF CursorsTrue

\* Cursors that are empty say nothing.
LEMMA NoCursors ==
  ASSUME NEW g, NEW c, g.events = None, g.pipeline = 0
  PROVE  CursorsTrue(g, c)
<1>1. \A r \in Records : ~(r.id <= 0)
  BY Positive
<1> QED BY <1>1 DEF CursorsTrue

\* A fresh cursor leaves nothing behind.
LEMMA NothingDone == \A c : CursorsTrue(NoProgress, c)
<1>1. NoProgress.events = None /\ NoProgress.pipeline = 0
  BY DEF NoProgress
<1> QED BY <1>1, NoCursors

\* A walk that stands still stays true as more is counted.
LEMMA TrueKept ==
  ASSUME NEW w, NEW c, NEW d, NEW ceiling, c \subseteq d, WalkTrue(w, c, ceiling)
  PROVE  WalkTrue(w, d, ceiling)
<1>1. CursorsTrue(w.progress, d) /\ \A r : Done(r, c) => Done(r, d)
  BY DoneKept DEF WalkTrue
<1>2. Listed(w, d, ceiling)
  BY <1>1, Zenon DEF WalkTrue, Listed
<1>3. InHand(w, d, ceiling)
  BY DEF WalkTrue, InHand
<1> QED BY <1>1, <1>2, <1>3 DEF WalkTrue

\* A walk that is in no listing has nothing but its cursors to be true about.
LEMMA IdleTrue ==
  ASSUME NEW w, NEW c, NEW ceiling, ~InListing(w), w.at # "processing", CursorsTrue(w.progress, c)
  PROVE  WalkTrue(w, c, ceiling)
  BY DEF WalkTrue, Listed, InHand

\* A listing that begins.
LEMMA FreshTrue ==
  ASSUME NEW w, NEW c, NEW ceiling, w.pos = 0, w.outcome = "", w.at # "processing",
         CursorsTrue(w.progress, c)
  PROVE  WalkTrue(w, c, ceiling)
<1>1. \A r \in Records : ~(r.id <= 0)
  BY Positive
<1>2. \A r \in Records : ~Within(r, w)
  BY <1>1 DEF Within
<1>3. Outcomes(w) = {}
  BY <1>2 DEF Outcomes
<1> QED BY <1>2, <1>3 DEF WalkTrue, Listed, InHand, LastOf

\* The last of a set to which a later one is added.
LEMMA LastAdded ==
  ASSUME NEW S, S \subseteq Records, NEW r \in Records, \A q \in S : q.id <= r.id
  PROVE  LastOf(S \cup {r}) = r.ended
<1> DEFINE T == S \cup {r}
           l == CHOOSE q \in T : \A o \in T : o.id <= q.id
<1>1. r \in T /\ \A o \in T : o.id <= r.id
  BY Positive
<1>2. l \in T /\ \A o \in T : o.id <= l.id
  BY <1>1
<1>3. l \in Records /\ l.id <= r.id /\ r.id <= l.id
  BY <1>1, <1>2
<1> HIDE DEF l
<1>4. l.id = r.id
  <2>1. l.id \in Nat /\ r.id \in Nat
    BY <1>3, RecordType
  <2> QED BY <1>3, <2>1
<1>5. l = r
  BY <1>3, <1>4, InOrder
<1> QED BY <1>5 DEF LastOf, l

-----------------------------------------------------------------------------
(* The walk: steps. *)

\* Nothing is counted that did not happen.
LEMMA StepNothingElse == Framed /\ WalkInv /\ [Next]_vars => NothingElse'
<1> SUFFICES ASSUME Framed, WalkInv, [Next]_vars PROVE NothingElse'
  OBVIOUS
<1>1. counted \subseteq AllOf(Records)
  BY DEF WalkInv, NothingElse
<1>2. CASE Tick
  <2>1. PICK delivered \in IF mode = "serving" THEN SUBSET AllOf({r \in Records : r.at = clock}) ELSE {{}} :
          counted' = counted \cup delivered
    BY <1>2 DEF Tick
  <2>2. AllOf({r \in Records : r.at = clock}) \subseteq AllOf(Records)
    BY AllOfType
  <2> QED BY <1>1, <2>1, <2>2 DEF NothingElse
<1>3. CASE Process
  <2>1. PICK k \in walk.due : counted' = counted \cup {k}
    BY <1>3 DEF Process
  <2>2. walk.at = "processing"
    BY <1>3 DEF Process
  <2>3. k \in Activities(walk.record) /\ walk.record \in Records
    BY <2>1, <2>2, WalkFields DEF WalkInv, WalkTrue, InHand
  <2>4. k \in AllOf(Records)
    BY <2>3 DEF AllOf
  <2> QED BY <1>1, <2>1, <2>4 DEF NothingElse
<1>4. CASE PassProject \/ PassSkipProject \/ PassFails
  <2>1. counted' \subseteq counted \cup AllOf(Reread)
    BY <1>4 DEF PassProject, PassSkipProject, PassFails
  <2>2. Reread \subseteq Records
    BY DEF Reread, Happened
  <2> QED BY <1>1, <2>1, <2>2, AllOfType DEF NothingElse
<1>5. CASE UNCHANGED counted
  BY <1>1, <1>5 DEF NothingElse
<1>6. Next => Tick \/ Process \/ PassProject \/ PassSkipProject \/ PassFails \/ UNCHANGED counted
  BY DEF Next, WalkStep, PassStep, Boot, Serve, Stop, WalkProject, Read, EndPhase, Flush, Complete,
         ClearProgress, SkipProject, WalkFails, PassBegin, PassEnd
<1>7. UNCHANGED vars => UNCHANGED counted
  BY DEF vars
<1> QED BY <1>2, <1>3, <1>4, <1>5, <1>6, <1>7

\* What is persisted is what the walk knew.
LEMMA StepSaved == WalkInv /\ [Next]_vars => CursorsTrue(saved', counted')
<1> SUFFICES ASSUME WalkInv, [Next]_vars PROVE CursorsTrue(saved', counted')
  OBVIOUS
<1>1. saved' \in {saved, walk.progress, NoProgress}
  <2> USE DEF walkOnly, passOnly
  <2>1. CASE Next
    BY <2>1 DEF Next, WalkStep, PassStep, Tick, Boot, Serve, Stop, WalkProject, Read, Process, EndPhase,
       Flush, Complete, ClearProgress, SkipProject, WalkFails, PassBegin, PassEnd, PassProject,
       PassSkipProject, PassFails
  <2>2. CASE UNCHANGED vars
    BY <2>2 DEF vars
  <2> QED BY <2>1, <2>2
<1>2. CursorsTrue(saved, counted) /\ CursorsTrue(walk.progress, counted)
  BY DEF WalkInv, WalkTrue
<1>3. CursorsTrue(NoProgress, counted)
  BY NothingDone
<1>4. CursorsTrue(saved', counted)
  BY <1>1, <1>2, <1>3
<1> QED BY <1>4, CountedStays, DoneKept

\* The project and the phase of a walk in a listing.
LEMMA ListingFields ==
  ASSUME Framed, walk.at = "listing"
  PROVE  /\ InListing(walk) /\ walk.progress.current \in Projects /\ walk.progress.phase \in Phases
         /\ walk.record \notin Records /\ walk.progress.current # 0
<1>1. walk.progress.current # 0
  BY DEF Framed, Placed
<1>2. walk.progress.current \in Projects /\ walk.progress.phase \in Phases
  BY <1>1, WalkFields, ProgressFields
<1> QED BY <1>1, <1>2, WalkFields, Parameters DEF InListing

\* What the listing passes over without yielding it was counted, and is no
\* pipeline.
LEMMA Unlisted ==
  ASSUME Framed, WalkInv, walk.at = "listing",
         NEW q \in Happened, q \notin Listing, q.id > walk.pos,
         q.project = walk.progress.current, q.phase = walk.progress.phase
  PROVE  Counted(q) /\ q.ended = ""
<1>1. q \in Of(walk.progress.current, walk.progress.phase) /\ q \in Records
  BY DEF Of, Happened
<1>2. q.phase = "events" /\ ~eventsFloor(walk.progress, q)
  BY <1>1 DEF Listing
<1>3. walk.progress.events # None /\ ~(Day(q.stamp) >= walk.progress.events)
  BY <1>2 DEF eventsFloor
<1>4. Day(q.stamp) < walk.progress.events
  <2>1. walk.progress.events \in {Day(r.stamp) : r \in Records}
    BY <1>3, WalkFields DEF Progresses
  <2>2. walk.progress.events \in Int /\ Day(q.stamp) \in Int
    BY <1>1, <2>1, DayOf, RecordType
  <2> QED BY <1>3, <2>2
<1>5. Done(q, counted)
  BY <1>1, <1>2, <1>3, <1>4 DEF WalkInv, WalkTrue, CursorsTrue
<1>6. q.ended = ""
  BY <1>1, <1>2, HistoryAssumption
<1> QED BY <1>5, <1>6 DEF Done, Counted

\* A record is picked up with what it stands for, or passed by because it is
\* above the ceiling or was counted before.
LEMMA ReadTrue ==
  ASSUME Framed, WalkInv, Read
  PROVE  WalkTrue(walk', counted', liveFrom')
<1> DEFINE g == walk.progress
           r == CHOOSE x \in Listing : \A y \in Listing : x.id <= y.id
           o == recordOutcome(walk.outcome, r)
           d == Normalized(r, walk.outcome)
           w == [walk EXCEPT !.pos = r.id, !.outcome = o]
           v == [walk EXCEPT !.pos = r.id, !.outcome = o, !.at = "processing", !.record = r, !.due = d]
<1>1. /\ walk.at = "listing" /\ Listing # {} /\ counted' = counted /\ liveFrom' = liveFrom
      /\ walk' = IF Passed(r) THEN w ELSE v
  BY DEF Read, walkOnly, process
<1>2. r \in Listing /\ r \in Records /\ r.id \in Nat /\ \A y \in Listing : r.id <= y.id
  BY <1>1, NextListed
<1>3. r \in Happened /\ r.project = g.current /\ r.phase = g.phase /\ r.id > walk.pos
  BY <1>2 DEF Listing, Of
<1>4. /\ InListing(walk) /\ walk.record \notin Records /\ g.current # 0
      /\ walk \in Walks /\ walk.pos \in Nat
  BY <1>1, WalkFields, ListingFields
<1> HIDE DEF r
<1>5. /\ walk'.progress = g /\ walk'.pos = r.id /\ walk'.outcome = o
      /\ Passed(r) => walk'.at = "listing" /\ walk'.record = walk.record
      /\ ~Passed(r) => walk'.at = "processing" /\ walk'.record = r /\ walk'.due = d
  <2> HIDE DEF o, d
  <2> QED BY <1>1, <1>4 DEF Walks
<1> HIDE DEF w, v
\* What lies before r in the listing was listed, or was counted and is no
\* pipeline.
<1>6. ASSUME NEW q \in Records, q.project = g.current, q.phase = g.phase, q.id < r.id, q.id > walk.pos
      PROVE  Counted(q) /\ q.ended = ""
  <2>1. /\ q.id \in Nat /\ q.at \in Nat /\ r.at \in Nat /\ r.id \in Nat /\ clock \in Nat
    BY <1>2, RecordType, PassFields
  <2>2. q.at <= r.at
    BY <1>2, <1>6, <2>1, InOrder
  <2>3. q \in Happened
    BY <1>3, <2>1, <2>2 DEF Happened
  <2>4. q \notin Listing
    BY <1>2, <1>6, <2>1
  <2> QED BY <1>1, <1>6, <2>3, <2>4, Unlisted
<1>7. ASSUME NEW q \in Records, Within(q, walk'), q # r
      PROVE  Within(q, walk) \/ (Counted(q) /\ q.ended = "")
  <2>1. q.project = g.current /\ q.phase = g.phase /\ q.id <= r.id
    BY <1>5, <1>7 DEF Within
  <2>2. q.id \in Nat /\ q.id # r.id
    BY <1>2, <1>7, InOrder, RecordType
  <2>3. CASE q.id <= walk.pos
    BY <2>1, <2>3 DEF Within
  <2>4. CASE ~(q.id <= walk.pos)
    <3>1. q.id > walk.pos /\ q.id < r.id
      BY <1>2, <1>4, <2>1, <2>2, <2>4
    <3> QED BY <1>6, <2>1, <3>1
  <2> QED BY <2>3, <2>4
<1>8. Within(r, walk') /\ ~Within(r, walk)
  BY <1>2, <1>3, <1>4, <1>5 DEF Within
<1>9. \A q \in Records : Within(q, walk) => Within(q, walk')
  <2> SUFFICES ASSUME NEW q \in Records, Within(q, walk) PROVE Within(q, walk')
    OBVIOUS
  <2>1. q.id \in Nat
    BY RecordType
  <2> QED BY <1>2, <1>3, <1>4, <1>5, <2>1 DEF Within
<1>10. Outcomes(walk') = Outcomes(walk) \cup (IF r.ended \in {"success", "failed"} THEN {r} ELSE {})
  BY <1>2, <1>7, <1>8, <1>9 DEF Outcomes
<1>11. walk.outcome = LastOf(Outcomes(walk))
  BY <1>4 DEF WalkInv, WalkTrue, Listed
<1>12. o = LastOf(Outcomes(walk'))
  <2>1. CASE r.ended \in {"success", "failed"}
    <3>1. Outcomes(walk') = Outcomes(walk) \cup {r} /\ Outcomes(walk) \subseteq Records
      BY <1>10, <2>1 DEF Outcomes
    <3>2. ASSUME NEW q \in Outcomes(walk) PROVE q.id <= r.id
      <4>1. q.id \in Nat /\ q.id <= walk.pos
        BY RecordType DEF Outcomes, Within
      <4> QED BY <1>2, <1>3, <1>4, <4>1
    <3>3. LastOf(Outcomes(walk')) = r.ended
      BY <1>2, <3>1, <3>2, LastAdded
    <3> QED BY <2>1, <3>3 DEF recordOutcome
  <2>2. CASE r.ended \notin {"success", "failed"}
    BY <1>10, <1>11, <2>2 DEF recordOutcome
  <2> QED BY <2>1, <2>2
<1>13. d = Activities(r)
  <2> DEFINE before == {q \in Records : /\ q.project = r.project /\ q.phase = r.phase
                                        /\ q.id < r.id /\ q.ended \in {"success", "failed"}}
  <2>1. before = Outcomes(walk)
    <3>1. ASSUME NEW q \in before PROVE q \in Outcomes(walk)
      <4>1. q.id \in Nat /\ q \in Records /\ q.id < r.id
        BY RecordType
      <4>2. ~(q.id > walk.pos)
        BY <1>3, <1>6, <4>1
      <4> QED BY <1>3, <1>4, <4>1, <4>2 DEF Outcomes, Within
    <3>2. ASSUME NEW q \in Outcomes(walk) PROVE q \in before
      <4>1. q.id \in Nat /\ q \in Records
        BY RecordType DEF Outcomes
      <4> QED BY <1>2, <1>3, <1>4, <4>1 DEF Outcomes, Within
    <3> QED BY <3>1, <3>2
  <2>2. lastOutcome(r) = LastOf(before)
    BY DEF lastOutcome, LastOf
  <2> QED BY <1>11, <2>1, <2>2 DEF Activities
<1>14. Passed(r) => r.stamp >= liveFrom \/ Counted(r)
  <2>1. r.phase = "pipelines" /\ r.id <= g.pipeline => Done(r, counted)
    BY <1>2, <1>3 DEF WalkInv, WalkTrue, CursorsTrue
  <2> QED BY <2>1 DEF Passed, afterCeiling, Done, Counted
<1> HIDE DEF o, d
<1>15. ASSUME NEW q \in Records, Within(q, walk'), q.stamp < liveFrom, q # walk'.record
       PROVE  Done(q, counted)
  <2>1. CASE q = r
    <3>1. Passed(r)
      BY <1>5, <1>15, <2>1
    <3>2. ~(r.stamp >= liveFrom)
      <4>1. r.stamp \in Int /\ liveFrom \in Nat /\ r.stamp < liveFrom
        BY <1>2, <1>15, <2>1, RecordType, PassFields
      <4> QED BY <4>1
    <3> QED BY <1>14, <2>1, <3>1, <3>2 DEF Done, Counted
  <2>2. CASE q # r /\ Within(q, walk)
    BY <1>4, <1>15, <2>2 DEF WalkInv, WalkTrue, Listed
  <2>3. CASE q # r /\ ~Within(q, walk)
    BY <1>7, <1>15, <2>3 DEF Counted, Done
  <2> QED BY <2>1, <2>2, <2>3
<1>16. Listed(walk', counted', liveFrom')
  BY <1>1, <1>5, <1>12, <1>15 DEF Listed
<1>17. InHand(walk', counted', liveFrom')
  <2>1. CASE Passed(r)
    BY <1>5, <2>1 DEF InHand
  <2>2. CASE ~Passed(r)
    <3>1. r.stamp < liveFrom
      <4>1. r.stamp \in Int /\ liveFrom \in Nat /\ ~(r.stamp >= liveFrom)
        BY <1>2, <2>2, RecordType, PassFields DEF Passed, afterCeiling
      <4> QED BY <4>1
    <3>2. d # {}
      BY <1>2, ActivitiesOf DEF d
    <3> QED BY <1>1, <1>5, <1>8, <1>13, <2>2, <3>1, <3>2 DEF InHand
  <2> QED BY <2>1, <2>2
<1>18. CursorsTrue(walk'.progress, counted')
  BY <1>1, <1>5 DEF WalkInv, WalkTrue
<1> QED BY <1>16, <1>17, <1>18 DEF WalkTrue

\* The activities in hand are counted one by one; the cursor moves up when
\* the last of them was.
LEMMA ProcessTrue ==
  ASSUME Framed, WalkInv, Process
  PROVE  WalkTrue(walk', counted', liveFrom')
<1> DEFINE r == walk.record
           g == walk.progress
           a == Advanced(g, r)
<1>1. PICK k \in walk.due :
        /\ counted' = counted \cup {k}
        /\ walk' = IF walk.due # {k} THEN [walk EXCEPT !.due = @ \ {k}]
                   ELSE [walk EXCEPT !.due = {}, !.record = None,
                                     !.progress = Advanced(@, walk.record),
                                     !.sinceFlush = @ + 1,
                                     !.at = IF walk.sinceFlush + 1 >= FlushRecords THEN "flush"
                                            ELSE "listing"]
  BY DEF Process
<1>2. walk.at = "processing" /\ liveFrom' = liveFrom
  BY DEF Process, walkOnly, process
<1>3. r \in Records /\ walk \in Walks /\ g \in Progresses /\ g.current # 0 /\ walk.pos \in Nat
  BY <1>2, WalkFields DEF Framed, Placed
<1>4. /\ Within(r, walk) /\ r.id = walk.pos /\ r.stamp < liveFrom
      /\ walk.due \subseteq Activities(r) /\ Activities(r) \subseteq counted \cup walk.due
  BY <1>2 DEF WalkInv, WalkTrue, InHand
<1>5. /\ \A q \in Records : Within(q, walk) /\ q.stamp < liveFrom /\ q # r => Done(q, counted)
      /\ walk.outcome = LastOf(Outcomes(walk))
  BY <1>2, <1>3 DEF WalkInv, WalkTrue, Listed, InListing
<1>6. counted \subseteq counted'
  BY <1>1
<1>7. /\ \A q : Done(q, counted) => Done(q, counted')
      /\ CursorsTrue(g, counted')
  BY <1>6, DoneKept DEF WalkInv, WalkTrue
<1>8. CASE walk.due # {k}
  <2>1. walk' = [walk EXCEPT !.due = @ \ {k}]
    BY <1>1, <1>8
  <2>2. /\ walk'.at = "processing" /\ walk'.progress = g /\ walk'.pos = walk.pos
        /\ walk'.outcome = walk.outcome /\ walk'.record = r /\ walk'.due = walk.due \ {k}
    BY <2>1, <1>2, <1>3 DEF Walks
  <2>3. \A q : Within(q, walk') <=> Within(q, walk)
    BY <2>2, Zenon DEF Within
  <2>4. Outcomes(walk') = Outcomes(walk)
    BY <2>3 DEF Outcomes
  <2>5. Listed(walk', counted', liveFrom')
    BY <1>2, <1>5, <1>7, <2>2, <2>3, <2>4 DEF Listed
  <2>6. InHand(walk', counted', liveFrom')
    BY <1>1, <1>2, <1>4, <1>8, <2>2, <2>3 DEF InHand
  <2> QED BY <1>7, <2>2, <2>5, <2>6 DEF WalkTrue
<1>9. CASE walk.due = {k}
  <2>1. walk' = [walk EXCEPT !.due = {}, !.record = None, !.progress = a, !.sinceFlush = @ + 1,
                             !.at = IF walk.sinceFlush + 1 >= FlushRecords THEN "flush"
                                    ELSE "listing"]
    BY <1>1, <1>9
  <2>2. a \in Progresses /\ a.last = g.last /\ a.current = g.current /\ a.phase = g.phase
    BY <1>3, AdvancedKeeps
  <2> HIDE DEF a
  <2>3. /\ walk'.at \in {"flush", "listing"} /\ walk'.progress = a /\ walk'.pos = walk.pos
        /\ walk'.outcome = walk.outcome /\ walk'.record = None
    BY <2>1, <1>3 DEF Walks
  <2>4. \A q : Within(q, walk') <=> Within(q, walk)
    BY <2>2, <2>3, Zenon DEF Within
  <2>5. Outcomes(walk') = Outcomes(walk)
    BY <2>4 DEF Outcomes
  <2>6. Done(r, counted')
    BY <1>1, <1>4, <1>9 DEF Done
  <2>7. \A q \in Records : Within(q, walk) /\ q.stamp < liveFrom => Done(q, counted')
    BY <1>5, <1>7, <2>6
  <2>8. Listed(walk', counted', liveFrom')
    BY <1>2, <1>5, <2>3, <2>4, <2>5, <2>7 DEF Listed
  <2>9. ASSUME NEW q \in Records, q.project = g.current, q.phase = g.phase, q.id <= r.id
        PROVE  Done(q, counted')
    <3>1. Within(q, walk)
      BY <1>4, <2>9 DEF Within
    <3>2. q.stamp <= r.stamp /\ q.stamp \in Int /\ r.stamp \in Int /\ liveFrom \in Nat
      BY <1>3, <2>9, InOrder, RecordType, PassFields
    <3>3. q.stamp < liveFrom
      BY <1>4, <3>2
    <3> QED BY <2>7, <3>1, <3>3
  <2>10. r.project = g.current /\ r.phase = g.phase
    BY <1>4 DEF Within
  <2>11. CursorsTrue(a, counted')
    <3>1. CASE a = g
      BY <1>7, <3>1
    <3>2. CASE r.phase = "pipelines" /\ a = [g EXCEPT !.pipeline = r.id]
      <4>1. a.pipeline = r.id /\ a.events = g.events
        BY <1>3, <3>2 DEF Progresses
      <4> QED BY <1>7, <2>2, <2>9, <2>10, <3>2, <4>1 DEF CursorsTrue
    <3>3. CASE r.phase = "events" /\ a = [g EXCEPT !.events = Day(r.stamp)]
      <4>1. a.events = Day(r.stamp) /\ a.pipeline = g.pipeline
        BY <1>3, <3>3 DEF Progresses
      <4>2. ASSUME NEW q \in Records, q.project = g.current, q.phase = "events",
                   Day(q.stamp) < Day(r.stamp)
            PROVE  Done(q, counted')
        <5>1. /\ q.stamp \in Int /\ r.stamp \in Int /\ Day(q.stamp) \in Int /\ Day(r.stamp) \in Int
              /\ q.id \in Nat /\ r.id \in Nat
          BY <1>3, RecordType, DayOf
        <5>2. ~(r.stamp <= q.stamp)
          BY <4>2, <5>1, DayOf
        <5>3. q.stamp < r.stamp
          BY <5>1, <5>2
        <5>4. q.id <= r.id
          BY <1>3, <5>1, <5>3, InOrder
        <5> QED BY <2>9, <2>10, <3>3, <4>2, <5>4
      <4> QED BY <1>7, <2>2, <4>1, <4>2 DEF CursorsTrue
    <3> QED BY <3>1, <3>2, <3>3 DEF a, Advanced
  <2>12. InHand(walk', counted', liveFrom')
    BY <2>3 DEF InHand
  <2> QED BY <2>3, <2>8, <2>11, <2>12 DEF WalkTrue
<1> QED BY <1>8, <1>9

\* A project starts with cursors of its own, or with none.
LEMMA WalkProjectTrue ==
  ASSUME Framed, WalkInv, WalkProject
  PROVE  WalkTrue(walk', counted', liveFrom')
<1> DEFINE ahead == {p \in Projects : p > walk.listed}
           p == Least(ahead)
           s == startProject(walk.progress, p)
<1>1. /\ walk.at = "projects" /\ counted' = counted
      /\ walk' = IF ahead = {} THEN [walk EXCEPT !.at = "completed"]
                 ELSE [walk EXCEPT !.at = "listing", !.listed = p, !.pos = 0, !.outcome = "",
                                   !.progress = s]
  BY DEF WalkProject
<1>2. walk \in Walks /\ CursorsTrue(walk.progress, counted)
  BY WalkFields DEF WalkInv, WalkTrue
<1>3. CASE ahead = {}
  <2>1. walk'.at = "completed" /\ walk'.progress = walk.progress
    BY <1>1, <1>2, <1>3 DEF Walks
  <2> QED BY <1>1, <1>2, <2>1, IdleTrue DEF InListing
<1>4. CASE ahead # {}
  <2>1. CursorsTrue(s, counted)
    <3>1. s = walk.progress \/ (s.events = None /\ s.pipeline = 0)
      <4>1. CASE walk.progress.current = p
        BY <4>1 DEF startProject
      <4>2. CASE walk.progress.current # p
        BY <4>2, WalkFields DEF startProject, Progresses
      <4> QED BY <4>1, <4>2
    <3> QED BY <1>2, <3>1, NoCursors
  <2> HIDE DEF s, p
  <2>2. /\ walk'.at = "listing" /\ walk'.pos = 0 /\ walk'.outcome = "" /\ walk'.progress = s
    BY <1>1, <1>2, <1>4 DEF Walks
  <2> QED BY <1>1, <2>1, <2>2, FreshTrue
<1> QED BY <1>3, <1>4

\* The next phase begins at the top; a project that is finished leaves no
\* cursors.
LEMMA EndPhaseTrue ==
  ASSUME Framed, WalkInv, EndPhase
  PROVE  WalkTrue(walk', counted', liveFrom')
<1> DEFINE g == walk.progress
           i == CHOOSE j \in 1 .. 4 : projectPhases[j] = g.phase
           f == finishProject(g, g.current)
           n == [g EXCEPT !.phase = projectPhases[i + 1]]
<1>1. /\ walk.at = "listing" /\ counted' = counted
      /\ walk' = IF i = 4 THEN [walk EXCEPT !.at = "flush", !.progress = f]
                 ELSE [walk EXCEPT !.pos = 0, !.outcome = "", !.progress = n]
  BY DEF EndPhase
<1>2. /\ walk \in Walks /\ g \in Progresses /\ g.current \in Projects
      /\ CursorsTrue(g, counted)
  BY <1>1, WalkFields, ListingFields DEF WalkInv, WalkTrue
<1>3. f.current = 0 /\ f.events = None /\ f.pipeline = 0
  BY <1>2, Finished
<1>4. n.current = g.current /\ n.events = g.events /\ n.pipeline = g.pipeline
  BY <1>2 DEF Progresses
<1>5. CASE i = 4
  <2> HIDE DEF f, i
  <2>1. walk'.at = "flush" /\ walk'.progress = f
    BY <1>1, <1>2, <1>5 DEF Walks
  <2>2. CursorsTrue(f, counted)
    BY <1>3, NoCursors
  <2> QED BY <1>1, <1>3, <2>1, <2>2, IdleTrue DEF InListing
<1>6. CASE i # 4
  <2> HIDE DEF n, i
  <2>1. walk'.at = "listing" /\ walk'.pos = 0 /\ walk'.outcome = "" /\ walk'.progress = n
    BY <1>1, <1>2, <1>6 DEF Walks
  <2>2. CursorsTrue(n, counted)
    BY <1>2, <1>4, Zenon DEF CursorsTrue
  <2> QED BY <1>1, <2>1, <2>2, FreshTrue
<1> QED BY <1>5, <1>6

\* A project that is skipped, and a cursor that is written, leave what is true of
\* the cursors true.
LEMMA SkipProjectTrue ==
  ASSUME Framed, WalkInv, SkipProject
  PROVE  WalkTrue(walk', counted', liveFrom')
<1> DEFINE f == finishProject(walk.progress, walk.listed)
<1>1. counted' = counted /\ walk' = [walk EXCEPT !.at = "flush", !.progress = f]
  BY DEF SkipProject
<1>2. f.current = 0 /\ f.events = None /\ f.pipeline = 0
  BY DEF finishProject, NoProgress
<1> HIDE DEF f
<1>3. walk'.at = "flush" /\ walk'.progress = f
  BY <1>1, WalkFields DEF Walks
<1>4. CursorsTrue(f, counted)
  BY <1>2, NoCursors
<1> QED BY <1>1, <1>2, <1>3, <1>4, IdleTrue DEF InListing

LEMMA FlushTrue ==
  ASSUME Framed, WalkInv, Flush
  PROVE  WalkTrue(walk', counted', liveFrom')
<1>1. /\ walk.at = "flush" /\ counted' = counted /\ liveFrom' = liveFrom
      /\ walk' = [walk EXCEPT !.sinceFlush = 0,
                              !.at = IF walk.progress.current = 0 THEN "projects" ELSE "listing"]
  BY DEF Flush, walkOnly, process
<1>2. /\ walk'.at = IF walk.progress.current = 0 THEN "projects" ELSE "listing"
      /\ walk'.progress = walk.progress /\ walk'.pos = walk.pos /\ walk'.outcome = walk.outcome
      /\ walk'.record = walk.record
  BY <1>1, WalkFields DEF Walks
<1>3. CursorsTrue(walk'.progress, counted')
  BY <1>1, <1>2 DEF WalkInv, WalkTrue
<1>4. \A q : Within(q, walk') <=> Within(q, walk)
  BY <1>2, Zenon DEF Within
<1>5. Outcomes(walk') = Outcomes(walk)
  BY <1>4 DEF Outcomes
<1>6. Listed(walk', counted', liveFrom')
  BY <1>1, <1>2, <1>4, <1>5 DEF WalkInv, WalkTrue, Listed, InListing
<1>7. InHand(walk', counted', liveFrom')
  BY <1>2 DEF InHand
<1> QED BY <1>3, <1>6, <1>7 DEF WalkTrue

\* The steps after which there is no walk in a listing.
LEMMA IdleSteps ==
  ASSUME Framed, WalkInv, Boot \/ Serve \/ Stop \/ WalkFails \/ Complete \/ ClearProgress
  PROVE  WalkTrue(walk', counted', liveFrom')
<1>0. CursorsTrue(saved, counted) /\ CursorsTrue(walk.progress, counted)
  BY DEF WalkInv, WalkTrue
<1>1. CASE Boot
  <2>1. walk' = walk /\ counted' = counted /\ walk.at = "off"
    BY <1>1 DEF Boot, Framed, Quiet
  <2> QED BY <1>0, <2>1, IdleTrue DEF InListing
<1>2. CASE Serve
  <2>1. CASE completed
    <3>1. walk' = walk /\ counted' = counted /\ walk.at = "off"
      BY <1>2, <2>1 DEF Serve, Framed, Quiet
    <3> QED BY <1>0, <3>1, IdleTrue DEF InListing
  <2>2. CASE ~completed
    <3>1. counted' = counted /\ walk' = [Off(saved) EXCEPT !.at = "projects", !.listed = saved.last]
      BY <1>2, <2>2 DEF Serve
    <3>2. walk'.at = "projects" /\ walk'.progress = saved
      BY <3>1 DEF Off
    <3> QED BY <1>0, <3>1, <3>2, IdleTrue DEF InListing
  <2> QED BY <2>1, <2>2
<1>3. CASE Stop \/ WalkFails \/ ClearProgress
  <2>1. counted' = counted /\ walk' = Off(NoProgress)
    BY <1>3 DEF Stop, WalkFails, ClearProgress
  <2>2. walk'.at = "off" /\ walk'.progress = NoProgress
    BY <2>1 DEF Off
  <2> QED BY <2>2, NothingDone, IdleTrue DEF InListing
<1>4. CASE Complete
  <2>1. counted' = counted /\ walk' = [walk EXCEPT !.at = "clear"]
    BY <1>4 DEF Complete
  <2>2. walk'.at = "clear" /\ walk'.progress = walk.progress
    BY <2>1, WalkFields DEF Walks
  <2> QED BY <1>0, <2>1, <2>2, IdleTrue DEF InListing
<1> QED BY <1>1, <1>2, <1>3, <1>4

\* The cursors in memory stay true.
LEMMA StepWalkTrue ==
  ASSUME Framed, WalkInv, [Next]_vars
  PROVE  WalkTrue(walk', counted', liveFrom')
<1>1. CASE Tick \/ PassBegin \/ PassStep \/ PassSkipProject \/ PassFails \/ UNCHANGED vars
  <2>1. walk' = walk /\ liveFrom' = liveFrom
    BY <1>1 DEF Tick, PassBegin, PassStep, PassProject, PassEnd, PassSkipProject, PassFails, vars,
                passOnly, process
  <2> QED BY <2>1, CountedStays, TrueKept DEF WalkInv
<1> QED BY <1>1, ReadTrue, ProcessTrue, WalkProjectTrue, EndPhaseTrue, SkipProjectTrue, FlushTrue,
           IdleSteps DEF Next, WalkStep

\* A phase that ends was walked up to the ceiling.
LEMMA EndPhaseWalked ==
  ASSUME Framed, WalkInv, EndPhase
  PROVE  Walked'
<1> DEFINE g == walk.progress
<1>1. /\ walk.at = "listing" /\ Listing = {} /\ counted' = counted
      /\ walkedUntil' = [walkedUntil EXCEPT ![g.current][g.phase] = liveFrom]
  BY DEF EndPhase
<1>2. g.current \in Projects /\ g.phase \in Phases /\ InListing(walk) /\ walk.record \notin Records
  BY <1>1, ListingFields
<1>3. walkedUntil \in [Projects -> [Phases -> 0 .. MaxClock]]
  BY DEF Framed, TypeOK, CountType
<1>4. ASSUME NEW r \in Records, r.project = g.current, r.phase = g.phase,
             r.stamp < liveFrom, r.at < liveFrom
      PROVE  Counted(r)
  <2>1. /\ r.id \in Nat /\ r.at \in Nat /\ clock \in Nat /\ liveFrom \in Nat /\ liveFrom <= clock
        /\ walk.pos \in Nat
    BY RecordType, PassFields, WalkFields
  <2>2. r \in Happened
    BY <1>4, <2>1 DEF Happened
  <2>3. CASE r.id > walk.pos
    BY <1>1, <1>4, <2>2, <2>3, Unlisted
  <2>4. CASE ~(r.id > walk.pos)
    <3>1. Within(r, walk)
      BY <1>4, <2>1, <2>4 DEF Within
    <3>2. Done(r, counted)
      BY <1>2, <1>4, <3>1 DEF WalkInv, WalkTrue, Listed
    <3> QED BY <3>2 DEF Done, Counted
  <2> QED BY <2>3, <2>4
<1>5. ASSUME NEW r \in Records,
             r.stamp < walkedUntil'[r.project][r.phase], r.at < walkedUntil'[r.project][r.phase]
      PROVE  Counted(r)
  <2>1. r.project \in Projects /\ r.phase \in Phases
    BY RecordType
  <2>2. CASE r.project = g.current /\ r.phase = g.phase
    <3>1. walkedUntil'[r.project][r.phase] = liveFrom
      BY <1>1, <1>2, <1>3, <2>2
    <3> QED BY <1>4, <1>5, <2>2, <3>1
  <2>3. CASE ~(r.project = g.current /\ r.phase = g.phase)
    <3>1. walkedUntil'[r.project][r.phase] = walkedUntil[r.project][r.phase]
      BY <1>1, <1>2, <1>3, <2>1, <2>3
    <3> QED BY <1>5, <3>1 DEF WalkInv, Walked
  <2> QED BY <2>2, <2>3
<1>6. \A r : Counted(r) => Counted(r)'
  BY <1>1, CountedKept
<1> QED BY <1>5, <1>6 DEF Walked

\* A phase that ended was walked whole.
LEMMA StepWalked ==
  ASSUME Framed, WalkInv, [Next]_vars
  PROVE  Walked'
<1>1. CASE EndPhase
  BY <1>1, EndPhaseWalked
<1>2. CASE UNCHANGED walkedUntil
  <2>1. \A r : Counted(r) => Counted(r)'
    BY CountedStays, CountedKept
  <2> QED BY <1>2, <2>1 DEF WalkInv, Walked
<1>3. EndPhase \/ UNCHANGED walkedUntil
  <2> USE DEF ghosts
  <2>1. CASE Next
    BY <2>1 DEF Next, WalkStep, PassStep, Tick, Boot, Serve, Stop, WalkProject, Read, Process, Flush,
       Complete, ClearProgress, SkipProject, WalkFails, PassBegin, PassEnd, PassProject,
       PassSkipProject, PassFails
  <2>2. CASE UNCHANGED vars
    BY <2>2 DEF vars
  <2> QED BY <2>1, <2>2
<1> QED BY <1>1, <1>2, <1>3

\* All of it together.
LEMMA StepWalk == Framed /\ WalkInv /\ [Next]_vars => WalkInv'
  BY StepNothingElse, StepSaved, StepWalkTrue, StepWalked DEF WalkInv

-----------------------------------------------------------------------------
(* The walk and the passes together. *)

LEMMA InitWalk == Init => WalkInv
<1> SUFFICES ASSUME Init PROVE WalkInv
  OBVIOUS
<1>1. /\ counted = {} /\ saved = NoProgress /\ walk = Off(NoProgress)
      /\ walkedUntil = [p \in Projects |-> [ph \in Phases |-> 0]]
  BY DEF Init
<1>2. CursorsTrue(saved, counted)
  BY <1>1, NothingDone
<1>3. WalkTrue(walk, counted, liveFrom)
  <2>1. walk.at = "off" /\ walk.progress = NoProgress
    BY <1>1 DEF Off
  <2> QED BY <2>1, NothingDone, IdleTrue DEF InListing
<1>4. Walked
  <2> SUFFICES ASSUME NEW r \in Records, r.at < walkedUntil[r.project][r.phase] PROVE FALSE
    BY DEF Walked
  <2>1. r.project \in Projects /\ r.phase \in Phases /\ r.at \in Nat
    BY RecordType
  <2>2. walkedUntil[r.project][r.phase] = 0
    BY <1>1, <2>1
  <2> QED BY <2>1, <2>2
<1> QED BY <1>1, <1>2, <1>3, <1>4 DEF WalkInv, NothingElse

\* The inductive invariant: the types, what the cursors say of what is counted,
\* and what the passes say of it.
THEOREM HistoryInvariant == Spec => []HistoryInv
<1>1. Init => HistoryInv
  <2>1. Init => PassInv
    BY DEF Init, PassInv, Reaches, NoPass, CorrectUpToWatermark
  <2> QED BY <2>1, InitFramed, InitWalk DEF HistoryInv
<1>2. HistoryInv /\ [Next]_vars => HistoryInv'
  BY StepFramed, StepWalk, StepReaches DEF HistoryInv
<1> QED BY <1>1, <1>2, PTL DEF Spec

\* What the walk is done with was walked whole, through any number of
\* interruptions: what happened before the ceiling under which a phase ended
\* is counted, with the fixes it amounts to and no others.
THEOREM WalkIsExact == Spec => []WalkCountsExactly
<1>1. ASSUME HistoryInv, NEW r \in Records,
             r.stamp < walkedUntil[r.project][r.phase], r.at < walkedUntil[r.project][r.phase]
      PROVE  {k \in counted : k[1] = r.id} = Activities(r)
  <2>1. Activities(r) \subseteq counted
    BY <1>1 DEF HistoryInv, WalkInv, Walked, Counted
  <2>2. ASSUME NEW k \in counted, k[1] = r.id PROVE k \in Activities(r)
    <3>1. PICK q \in Records : k \in Activities(q)
      BY <1>1 DEF HistoryInv, WalkInv, NothingElse, AllOf
    <3>2. k[1] = q.id
      BY <3>1, ActivitiesOf
    <3>3. q = r
      BY <2>2, <3>2, InOrder
    <3> QED BY <3>1, <3>3
  <2>3. \A k \in Activities(r) : k[1] = r.id
    BY ActivitiesOf
  <2> QED BY <2>1, <2>2, <2>3
<1>2. HistoryInv => WalkCountsExactly
  BY <1>1 DEF WalkCountsExactly
<1> QED BY <1>2, HistoryInvariant, PTL

-----------------------------------------------------------------------------
(* The keys: one stands for one thing done, in either path's words, for any   *)
(* identifiers, users and names.                                             *)

\* What a key says was done, and about what.
MergeRequestMeaning(k) ==
  CASE k[3] = "opened"      -> <<"merge_request_opened", k[2]>>
    [] k[3] = "merged"      -> <<"merge_request_merged", k[2]>>
    [] k[3] = "merged_fast" -> <<"merge_request_merged_fast", k[2]>>
    [] k[3] = "landed"      -> <<"merge_request_landed", k[2]>>
    [] k[3] = "closed"      -> <<"merge_request_closed", k[2]>>
    [] k[3] = "approved"    -> <<"merge_request_approved", <<k[2], k[4]>>>>
MeaningOf(k) ==
  CASE k[1] = "push"          -> <<k[5], <<FALSE, k[2], k[3].name, k[4]>>>>
    [] k[1] = "tag_push"      -> <<k[5], <<TRUE, k[2], k[3].name, k[4]>>>>
    [] k[1] = "merge_request" -> MergeRequestMeaning(k)
    [] k[1] = "issue"         -> <<IF k[3] = "opened" THEN "issue_opened" ELSE "issue_closed", k[2]>>
    [] k[1] = "note"          -> <<IF Len(k) = 2 THEN "comment" ELSE "review_comment", k[2]>>
    [] k[1] = "job"           -> <<"job_run", k[2]>>
    [] k[1] = "emoji"         -> <<"emoji_awarded", k[2]>>
    [] k[1] = "wiki_page"     -> <<"wiki_page_created", <<k[2], k[3]>>>>
    [] k[1] = "release"       -> <<"release_published", <<k[2], k[3]>>>>
    [] k[1] = "discussion"    -> <<"discussion_resolved", k[2]>>
    [] k[1] = "pipeline"      -> <<k[3], k[2]>>
    [] k[1] = "deployment"    -> <<k[3], k[2]>>

\* And the key under which it is counted.
KeyOf(kind, s) ==
  CASE kind \in {"push", "commit", "branch_created", "tag_created"} ->
         IF s[1] THEN <<"tag_push", s[2], Ref("refs/tags/", s[3]), s[4], kind>>
         ELSE <<"push", s[2], Ref("refs/heads/", s[3]), s[4], kind>>
    [] kind = "merge_request_opened"      -> <<"merge_request", s, "opened">>
    [] kind = "merge_request_merged"      -> <<"merge_request", s, "merged">>
    [] kind = "merge_request_merged_fast" -> <<"merge_request", s, "merged_fast">>
    [] kind = "merge_request_landed"      -> <<"merge_request", s, "landed">>
    [] kind = "merge_request_closed"      -> <<"merge_request", s, "closed">>
    [] kind = "merge_request_approved"    -> <<"merge_request", s[1], "approved", s[2]>>
    [] kind = "issue_opened"   -> <<"issue", s, "opened">>
    [] kind = "issue_closed"   -> <<"issue", s, "closed">>
    [] kind = "comment"        -> <<"note", s>>
    [] kind = "review_comment" -> <<"note", s, "review_comment">>
    [] kind = "job_run"        -> <<"job", s>>
    [] kind = "emoji_awarded"  -> <<"emoji", s>>
    [] kind = "wiki_page_created"   -> <<"wiki_page", s[1], s[2]>>
    [] kind = "release_published"   -> <<"release", s[1], s[2]>>
    [] kind = "discussion_resolved" -> <<"discussion", s, "resolved">>
    [] kind \in {"pipeline_run", "pipeline_succeeded", "pipeline_failed", "pipeline_fixed"} -> <<"pipeline", s, kind>>
    [] kind \in {"deployment", "deployment_succeeded"} -> <<"deployment", s, kind>>

\* An activity made of an occurrence has a key that says what it is, no more and
\* no less.
Stands(key, kind, s) == MeaningOf(key) = <<kind, s>> /\ KeyOf(kind, s) = key
Fits(x, a) == Stands(a.key, a.kind, Subject(x, a))

\* What each key stands for, but for a push's, whose subject is of four parts.
LEMMA KeysStand ==
  ASSUME NEW s, NEW u
  PROVE  /\ Stands(<<"merge_request", s, "opened">>, "merge_request_opened", s)
         /\ Stands(<<"merge_request", s, "merged">>, "merge_request_merged", s)
         /\ Stands(<<"merge_request", s, "merged_fast">>, "merge_request_merged_fast", s)
         /\ Stands(<<"merge_request", s, "landed">>, "merge_request_landed", s)
         /\ Stands(<<"merge_request", s, "closed">>, "merge_request_closed", s)
         /\ Stands(<<"merge_request", s, "approved", u>>, "merge_request_approved", <<s, u>>)
         /\ Stands(<<"issue", s, "opened">>, "issue_opened", s)
         /\ Stands(<<"issue", s, "closed">>, "issue_closed", s)
         /\ Stands(<<"note", s>>, "comment", s)
         /\ Stands(<<"note", s, "review_comment">>, "review_comment", s)
         /\ Stands(<<"job", s>>, "job_run", s)
         /\ Stands(<<"emoji", s>>, "emoji_awarded", s)
         /\ Stands(<<"wiki_page", s, u>>, "wiki_page_created", <<s, u>>)
         /\ Stands(<<"release", s, u>>, "release_published", <<s, u>>)
         /\ Stands(<<"discussion", s, "resolved">>, "discussion_resolved", s)
         /\ \A kind \in {"pipeline_run", "pipeline_succeeded", "pipeline_failed", "pipeline_fixed"} :
              Stands(<<"pipeline", s, kind>>, kind, s)
         /\ \A kind \in {"deployment", "deployment_succeeded"} : Stands(<<"deployment", s, kind>>, kind, s)
<1>1. Stands(<<"merge_request", s, "opened">>, "merge_request_opened", s)
  BY DEF Stands, MeaningOf, KeyOf, MergeRequestMeaning
<1>2. Stands(<<"merge_request", s, "merged">>, "merge_request_merged", s)
  BY DEF Stands, MeaningOf, KeyOf, MergeRequestMeaning
<1>3. Stands(<<"merge_request", s, "merged_fast">>, "merge_request_merged_fast", s)
  BY DEF Stands, MeaningOf, KeyOf, MergeRequestMeaning
<1>4. Stands(<<"merge_request", s, "landed">>, "merge_request_landed", s)
  BY DEF Stands, MeaningOf, KeyOf, MergeRequestMeaning
<1>5. Stands(<<"merge_request", s, "closed">>, "merge_request_closed", s)
  BY DEF Stands, MeaningOf, KeyOf, MergeRequestMeaning
<1>6. Stands(<<"merge_request", s, "approved", u>>, "merge_request_approved", <<s, u>>)
  BY DEF Stands, MeaningOf, KeyOf, MergeRequestMeaning
<1>7. Stands(<<"issue", s, "opened">>, "issue_opened", s)
  BY DEF Stands, MeaningOf, KeyOf
<1>8. Stands(<<"issue", s, "closed">>, "issue_closed", s)
  BY DEF Stands, MeaningOf, KeyOf
<1>9. Stands(<<"note", s>>, "comment", s)
  <2>1. Len(<<"note", s>>) = 2
    OBVIOUS
  <2> QED BY <2>1 DEF Stands, MeaningOf, KeyOf
<1>10. Stands(<<"note", s, "review_comment">>, "review_comment", s)
  <2>1. Len(<<"note", s, "review_comment">>) = 3
    OBVIOUS
  <2> QED BY <2>1 DEF Stands, MeaningOf, KeyOf
<1>11. Stands(<<"job", s>>, "job_run", s)
  BY DEF Stands, MeaningOf, KeyOf
<1>12. Stands(<<"emoji", s>>, "emoji_awarded", s)
  BY DEF Stands, MeaningOf, KeyOf
<1>13. Stands(<<"wiki_page", s, u>>, "wiki_page_created", <<s, u>>)
  BY DEF Stands, MeaningOf, KeyOf
<1>14. Stands(<<"release", s, u>>, "release_published", <<s, u>>)
  BY DEF Stands, MeaningOf, KeyOf
<1>15. Stands(<<"discussion", s, "resolved">>, "discussion_resolved", s)
  BY DEF Stands, MeaningOf, KeyOf
<1>16. \A kind \in {"pipeline_run", "pipeline_succeeded", "pipeline_failed", "pipeline_fixed"} :
       Stands(<<"pipeline", s, kind>>, kind, s)
  BY DEF Stands, MeaningOf, KeyOf
<1>17. \A kind \in {"deployment", "deployment_succeeded"} : Stands(<<"deployment", s, kind>>, kind, s)
  BY DEF Stands, MeaningOf, KeyOf
<1> QED BY <1>1, <1>2, <1>3, <1>4, <1>5, <1>6, <1>7, <1>8, <1>9, <1>10, <1>11, <1>12, <1>13, <1>14, <1>15, <1>16, <1>17

\* A key of several activities is told apart by its kind.
LEMMA AppendKey ==
  ASSUME NEW a, NEW b, NEW c, NEW d, NEW kind
  PROVE  /\ Append(<<a, b>>, kind) = <<a, b, kind>>
         /\ Append(<<a, b, c, d>>, kind) = <<a, b, c, d, kind>>
<1>1. Append(<<a, b>>, kind) = <<a, b, kind>>
  <2> DEFINE S == {a, b, kind}
             s == Append(<<a, b>>, kind)
             t == <<a, b, kind>>
  <2>1. <<a, b>> \in Seq(S) /\ kind \in S
    OBVIOUS
  <2>2. s \in Seq(S)
    BY <2>1, AppendProperties
  <2>3. Len(s) = 3 /\ s[1] = a /\ s[2] = b /\ s[3] = kind
    OBVIOUS
  <2>4. t \in Seq(S) /\ Len(t) = 3 /\ t[1] = a /\ t[2] = b /\ t[3] = kind
    OBVIOUS
  <2> HIDE DEF S, s, t
  <2>5. \A i \in 1 .. Len(s) : s[i] = t[i]
    BY <2>3, <2>4
  <2>6. s = t
    BY <2>2, <2>3, <2>4, <2>5, SeqEqual
  <2> QED BY <2>6 DEF s, t
<1>2. Append(<<a, b, c, d>>, kind) = <<a, b, c, d, kind>>
  <2> DEFINE S == {a, b, c, d, kind}
             s == Append(<<a, b, c, d>>, kind)
             t == <<a, b, c, d, kind>>
  <2>1. <<a, b, c, d>> \in Seq(S) /\ kind \in S
    OBVIOUS
  <2>2. s \in Seq(S)
    BY <2>1, AppendProperties
  <2>3. Len(s) = 5 /\ s[1] = a /\ s[2] = b /\ s[3] = c /\ s[4] = d /\ s[5] = kind
    OBVIOUS
  <2>4. t \in Seq(S) /\ Len(t) = 5 /\ t[1] = a /\ t[2] = b /\ t[3] = c /\ t[4] = d /\ t[5] = kind
    OBVIOUS
  <2> HIDE DEF S, s, t
  <2>5. \A i \in 1 .. Len(s) : s[i] = t[i]
    BY <2>3, <2>4
  <2>6. s = t
    BY <2>2, <2>3, <2>4, <2>5, SeqEqual
  <2> QED BY <2>6 DEF s, t
<1> QED BY <1>1, <1>2

LEMMA PushFits == ASSUME NEW x \in Pushes, x.by # 0, NEW a \in FromHooks(x) PROVE Fits(x, a)
<1>1. x.what = "push" /\ x.tag \in BOOLEAN
  BY DEF Pushes
<1>2. CASE x.tag
  <2> DEFINE key == <<"tag_push", x.project, Ref("refs/tags/", x.name), x.after>>
  <2>1. a \in normalizeTagPush(x)
    BY <1>1, <1>2 DEF FromHooks
  <2>2. PICK kind \in {"push", "tag_created"} : a.kind = kind /\ a.key = Append(key, kind)
    BY <2>1 DEF normalizeTagPush, When, activityFrom, Activity
  <2>3. a.key = <<"tag_push", x.project, Ref("refs/tags/", x.name), x.after, kind>>
    <3>1. \A p, ref, after : Append(<<"tag_push", p, ref, after>>, kind) = <<"tag_push", p, ref, after, kind>>
      BY AppendKey
    <3> QED BY <2>2, <3>1
  <2>4. x.tag = TRUE
    BY <1>1, <1>2, Zenon
  <2>5. Subject(x, a) = <<TRUE, x.project, x.name, x.after>>
    <3>1. Subject(x, a) = <<x.tag, x.project, x.name, x.after>>
      BY <1>1, <2>2, Zenon DEF Subject
    <3> QED BY <2>4, <3>1, Zenon
  <2>6. MeaningOf(a.key) = <<kind, <<TRUE, x.project, x.name, x.after>>>>
    <3>1. /\ a.key[1] = "tag_push" /\ a.key[2] = x.project /\ a.key[3].name = x.name
          /\ a.key[4] = x.after /\ a.key[5] = kind
      BY <2>3 DEF Ref
    <3>2. MeaningOf(a.key) = <<a.key[5], <<TRUE, a.key[2], a.key[3].name, a.key[4]>>>>
      BY <3>1, Zenon DEF MeaningOf
    <3> QED BY <3>1, <3>2, Zenon
  <2>7. KeyOf(kind, <<TRUE, x.project, x.name, x.after>>) = a.key
    BY <2>3 DEF KeyOf
  <2> QED BY <2>2, <2>5, <2>6, <2>7, Zenon DEF Fits, Stands
<1>3. CASE ~ x.tag
  <2> DEFINE key == <<"push", x.project, Ref("refs/heads/", x.name), x.after>>
  <2>1. a \in normalizePush(x)
    BY <1>1, <1>3 DEF FromHooks
  <2>2. PICK kind \in {"push", "branch_created", "commit"} : a.kind = kind /\ a.key = Append(key, kind)
    <3>1. \/ a = activityFrom(key, "push", x.by, 1)
          \/ a = activityFrom(key, "branch_created", x.by, 1)
          \/ a = activityFrom(key, "commit", x.by, x.commits)
      BY <2>1 DEF normalizePush, When
    <3> QED BY <3>1 DEF activityFrom, Activity
  <2>3. a.key = <<"push", x.project, Ref("refs/heads/", x.name), x.after, kind>>
    <3>1. \A p, ref, after : Append(<<"push", p, ref, after>>, kind) = <<"push", p, ref, after, kind>>
      BY AppendKey
    <3> QED BY <2>2, <3>1
  <2>4. x.tag = FALSE
    BY <1>1, <1>3, Zenon
  <2>5. Subject(x, a) = <<FALSE, x.project, x.name, x.after>>
    <3>1. Subject(x, a) = <<x.tag, x.project, x.name, x.after>>
      BY <1>1, <2>2, Zenon DEF Subject
    <3> QED BY <2>4, <3>1, Zenon
  <2>6. MeaningOf(a.key) = <<kind, <<FALSE, x.project, x.name, x.after>>>>
    <3>1. /\ a.key[1] = "push" /\ a.key[2] = x.project /\ a.key[3].name = x.name
          /\ a.key[4] = x.after /\ a.key[5] = kind
      BY <2>3 DEF Ref
    <3>2. MeaningOf(a.key) = <<a.key[5], <<FALSE, a.key[2], a.key[3].name, a.key[4]>>>>
      BY <3>1, Zenon DEF MeaningOf
    <3> QED BY <3>1, <3>2, Zenon
  <2>7. KeyOf(kind, <<FALSE, x.project, x.name, x.after>>) = a.key
    BY <2>3 DEF KeyOf
  <2> QED BY <2>2, <2>5, <2>6, <2>7, Zenon DEF Fits, Stands
<1> QED BY <1>1, <1>2, <1>3

LEMMA MergeRequestFits ==
  ASSUME NEW x \in MergeRequestActions, NEW a, a \in FromHooks(x) \/ a \in NormalizeMergedMergeRequest(x)
  PROVE  Fits(x, a)
<1>1. x.what = "merge request"
  BY DEF MergeRequestActions
<1>2. \/ a \in normalizeMergeRequest(x) \/ a \in NormalizeMergedMergeRequest(x)
  BY <1>1 DEF FromHooks
<1>3. \/ a = Activity("merge_request_opened", <<"merge_request", x.id, "opened">>, x.by, 1)
      \/ a = Activity("merge_request_merged", <<"merge_request", x.id, "merged">>, x.by, 1)
      \/ a = Activity("merge_request_merged_fast", <<"merge_request", x.id, "merged_fast">>, x.by, 1)
      \/ a = Activity("merge_request_landed", <<"merge_request", x.id, "landed">>, x.author, 1)
      \/ a = Activity("merge_request_closed", <<"merge_request", x.id, "closed">>, x.by, 1)
      \/ a = Activity("merge_request_approved", <<"merge_request", x.id, "approved", x.by>>, x.by, 1)
  BY <1>2 DEF normalizeMergeRequest, mergeFollowUps, approval, NormalizeMergedMergeRequest, When
<1>4. CASE a = Activity("merge_request_approved", <<"merge_request", x.id, "approved", x.by>>, x.by, 1)
  <2>1. a.kind = "merge_request_approved" /\ a.key = <<"merge_request", x.id, "approved", x.by>> /\ a.actor = x.by
    BY <1>4 DEF Activity
  <2>2. Subject(x, a) = <<x.id, x.by>>
    BY <1>1, <2>1 DEF Subject
  <2> QED BY <2>1, <2>2, KeysStand DEF Fits
<1>5. CASE a.kind # "merge_request_approved"
  <2>1. Subject(x, a) = x.id
    BY <1>1, <1>5 DEF Subject
  <2>2. \/ a.kind = "merge_request_opened" /\ a.key = <<"merge_request", x.id, "opened">>
        \/ a.kind = "merge_request_merged" /\ a.key = <<"merge_request", x.id, "merged">>
        \/ a.kind = "merge_request_merged_fast" /\ a.key = <<"merge_request", x.id, "merged_fast">>
        \/ a.kind = "merge_request_landed" /\ a.key = <<"merge_request", x.id, "landed">>
        \/ a.kind = "merge_request_closed" /\ a.key = <<"merge_request", x.id, "closed">>
    BY <1>3, <1>5 DEF Activity
  <2> QED BY <2>1, <2>2, KeysStand DEF Fits
<1> QED BY <1>3, <1>4, <1>5 DEF Activity

LEMMA IssueFits == ASSUME NEW x \in IssueActions, NEW a \in FromHooks(x) PROVE Fits(x, a)
<1>1. x.what = "issue"
  BY DEF IssueActions
<1>2. a \in normalizeIssue(x)
  BY <1>1 DEF FromHooks
<1>3. \/ a = Activity("issue_opened", <<"issue", x.id, "opened">>, x.by, 1)
      \/ a = Activity("issue_closed", <<"issue", x.id, "closed">>, x.by, 1)
  BY <1>2 DEF normalizeIssue
<1>4. \/ a.kind = "issue_opened" /\ a.key = <<"issue", x.id, "opened">>
      \/ a.kind = "issue_closed" /\ a.key = <<"issue", x.id, "closed">>
  BY <1>3 DEF Activity
<1>5. Subject(x, a) = x.id
  BY <1>1, <1>4 DEF Subject
<1> QED BY <1>4, <1>5, KeysStand DEF Fits

LEMMA CommentFits == ASSUME NEW x \in Comments, NEW a \in FromHooks(x) PROVE Fits(x, a)
<1>1. x.what = "comment"
  BY DEF Comments
<1>2. a \in normalizeComment(x)
  BY <1>1 DEF FromHooks
<1>3. \/ a = Activity("comment", <<"note", x.id>>, x.by, 1)
      \/ a = activityFrom(<<"note", x.id>>, "review_comment", x.by, 1)
  BY <1>2 DEF normalizeComment, When
<1>4. \/ a.kind = "comment" /\ a.key = <<"note", x.id>>
      \/ a.kind = "review_comment" /\ a.key = <<"note", x.id, "review_comment">>
  BY <1>3, AppendKey DEF activityFrom, Activity
<1>5. Subject(x, a) = x.id
  BY <1>1, <1>4 DEF Subject
<1> QED BY <1>4, <1>5, KeysStand DEF Fits

LEMMA PipelineFits == ASSUME NEW x \in Pipelines, NEW a \in FromHooks(x) PROVE Fits(x, a)
<1>1. x.what = "pipeline"
  BY DEF Pipelines
<1>2. PICK status : a \in pipelineHook(x, status)
  BY <1>1 DEF FromHooks, normalizePipeline
<1>3. PICK kind \in {"pipeline_run", "pipeline_succeeded", "pipeline_failed", "pipeline_fixed"} :
        a = activityFrom(<<"pipeline", x.id>>, kind, x.by, 1)
  BY <1>2 DEF pipelineHook, When
<1>4. a.kind = kind /\ a.key = <<"pipeline", x.id, kind>>
  BY <1>3, AppendKey DEF activityFrom, Activity
<1>5. Subject(x, a) = x.id
  BY <1>1, <1>4 DEF Subject
<1> QED BY <1>4, <1>5, KeysStand DEF Fits

LEMMA DeploymentFits == ASSUME NEW x \in Deployments, NEW a \in FromHooks(x) PROVE Fits(x, a)
<1>1. x.what = "deployment"
  BY DEF Deployments
<1>2. a \in normalizeDeployment(x)
  BY <1>1 DEF FromHooks
<1>3. PICK kind \in {"deployment", "deployment_succeeded"} :
        a = activityFrom(<<"deployment", x.id>>, kind, x.by, 1)
  BY <1>2 DEF normalizeDeployment, When
<1>4. a.kind = kind /\ a.key = <<"deployment", x.id, kind>>
  BY <1>3, AppendKey DEF activityFrom, Activity
<1>5. Subject(x, a) = x.id
  BY <1>1, <1>4 DEF Subject
<1> QED BY <1>4, <1>5, KeysStand DEF Fits

\* The occurrences of which one activity is made.
LEMMA OtherFits ==
  ASSUME NEW x \in WikiPages \cup Releases \cup Jobs \cup Reactions \cup Threads, NEW a \in FromHooks(x)
  PROVE  Fits(x, a)
<1>1. CASE x \in WikiPages
  <2>1. x.what = "wiki page"
    BY <1>1 DEF WikiPages
  <2>2. a = Activity("wiki_page_created", <<"wiki_page", x.path, x.slug>>, x.by, 1)
    BY <2>1 DEF FromHooks, normalizeWikiPage, When
  <2> QED BY <2>1, <2>2, KeysStand DEF Fits, Subject, Activity
<1>2. CASE x \in Releases
  <2>1. x.what = "release"
    BY <1>2 DEF Releases
  <2>2. a = Activity("release_published", <<"release", x.project, x.tag>>, x.by, 1)
    BY <2>1 DEF FromHooks, normalizeRelease
  <2> QED BY <2>1, <2>2, KeysStand DEF Fits, Subject, Activity
<1>3. CASE x \in Jobs
  <2>1. x.what = "job"
    BY <1>3 DEF Jobs
  <2>2. a = Activity("job_run", <<"job", x.id>>, x.by, 1)
    BY <2>1 DEF FromHooks, normalizeJob
  <2> QED BY <2>1, <2>2, KeysStand DEF Fits, Subject, Activity
<1>4. CASE x \in Reactions
  <2>1. x.what = "reaction"
    BY <1>4 DEF Reactions
  <2>2. a = Activity("emoji_awarded", <<"emoji", x.id>>, x.by, 1)
    BY <2>1 DEF FromHooks, normalizeEmoji, When
  <2> QED BY <2>1, <2>2, KeysStand DEF Fits, Subject, Activity
<1>5. CASE x \in Threads
  <2>1. x.what = "thread"
    BY <1>5 DEF Threads
  <2>2. PICK u : a = Activity("discussion_resolved", <<"discussion", x.id, "resolved">>, u, 1)
    BY <2>1 DEF FromHooks, normalizeResolution, normalizeDiscussion, Resolved, discussionResolvedKey, When
  <2> QED BY <2>1, <2>2, KeysStand DEF Fits, Subject, Activity
<1> QED BY <1>1, <1>2, <1>3, <1>4, <1>5

-----------------------------------------------------------------------------
(* The two paths: what the APIs report of an occurrence is what the hooks say *)
(* of it, but for what they cannot report.                                   *)

\* The ways in which the APIs may report a merge request's events, and those on
\* issues, comments and wiki pages.
MergeRequestReports(x) ==
  {When(x.by # 0, mergeRequestKind(x, action)) \cup NormalizeMergedMergeRequest(x) : action \in ActionNames(x)}
TargetReports(x) ==
  {When(x.by # 0, targetActivities(x, type, action)) : type \in TargetTypes(x), action \in ActionNames(x)}

LEMMA Reported ==
  ASSUME NEW x
  PROVE  /\ x.what = "merge request" => FromAPIs(x) = MergeRequestReports(x)
         /\ x.what \in {"issue", "comment", "wiki page"} => FromAPIs(x) = TargetReports(x)
         /\ x.what \in {"job", "deployment", "reaction", "thread"} => FromAPIs(x) = {{}}
<1> DEFINE push == {When(x.by # 0, pushActivities(x, d)) : d \in PushData(x)}
           pipeline == {When(x.by # 0, NormalizePipeline(x) \cup NormalizePipelineFix(x))}
           release == {When(x.by # 0, NormalizeRelease(x))}
<1>1. FromAPIs(x) = CASE x.what = "push" -> push
                      [] x.what = "pipeline" -> pipeline
                      [] x.what = "release" -> release
                      [] x.what = "merge request" -> MergeRequestReports(x)
                      [] x.what \in {"issue", "comment", "wiki page"} -> TargetReports(x)
                      [] OTHER -> {{}}
  BY DEF FromAPIs, MergeRequestReports, TargetReports
<1> HIDE DEF push, pipeline, release
<1>2. x.what = "merge request" => FromAPIs(x) = MergeRequestReports(x)
  BY <1>1
<1>3. x.what \in {"issue", "comment", "wiki page"} => FromAPIs(x) = TargetReports(x)
  BY <1>1
<1>4. x.what \in {"job", "deployment", "reaction", "thread"} => FromAPIs(x) = {{}}
  BY <1>1
<1> QED BY <1>2, <1>3, <1>4

Agrees(x, reported) ==
  /\ {a \in FromHooks(x) : ~ HooksOnly(x, a)} \subseteq reported
  /\ x.by # 0 => reported \subseteq FromHooks(x)
  /\ x.by = 0 => reported \subseteq When(x \in MergeRequestActions, NormalizeMergedMergeRequest(x))

\* Both say when a push creates what it moves: before and after differ.
LEMMA PushAgrees ==
  ASSUME NEW x \in Pushes, ~ Misread(x), NEW reported \in FromAPIs(x) PROVE Agrees(x, reported)
<1>1. /\ x.what = "push" /\ x.tag \in BOOLEAN /\ x.before # x.after /\ x.after \in Shas \cup {nullSHA}
      /\ x.name \notin Qualified
  BY DEF Pushes, Misread
<1>2. CASE x.by = 0
  BY <1>1, <1>2 DEF FromAPIs, FromHooks, Agrees, When
<1>3. CASE x.by # 0
  <2>1. PICK d \in PushData(x) : reported = pushActivities(x, d)
    BY <1>1, <1>3 DEF FromAPIs, When
  <2>2. /\ d.ref_type = (IF x.tag THEN "tag" ELSE "branch")
        /\ d.action = (IF x.before = nullSHA THEN "created" ELSE IF x.after = nullSHA THEN "removed" ELSE "pushed")
        /\ d.ref \in {Ref("", x.name), Ref(IF x.tag THEN "refs/tags/" ELSE "refs/heads/", x.name)}
        /\ d.commit_to = (IF x.after = nullSHA THEN "" ELSE x.after) /\ d.commit_count = x.commits
    BY <2>1 DEF PushData
  <2> DEFINE prefix == IF x.tag THEN "refs/tags/" ELSE "refs/heads/"
             key == <<IF x.tag THEN "tag_push" ELSE "push", x.project, Ref(prefix, x.name), x.after>>
  <2>3. (IF HasPrefix(d.ref) THEN d.ref ELSE [d.ref EXCEPT !.prefix = prefix]) = Ref(prefix, x.name)
    <3> DEFINE ref == d.ref
    <3>1. ref \in {Ref("", x.name), Ref(prefix, x.name)} /\ prefix # ""
      BY <2>2
    <3> HIDE DEF ref, prefix
    <3>2. CASE ref = Ref("", x.name)
      <4>1. (IF HasPrefix(ref) THEN ref ELSE [ref EXCEPT !.prefix = prefix]) = Ref(prefix, x.name)
        BY <1>1, <3>2 DEF Ref, HasPrefix
      <4> QED BY <4>1 DEF ref
    <3>3. CASE ref = Ref(prefix, x.name)
      <4>1. (IF HasPrefix(ref) THEN ref ELSE [ref EXCEPT !.prefix = prefix]) = Ref(prefix, x.name)
        BY <3>1, <3>3 DEF Ref, HasPrefix
      <4> QED BY <4>1 DEF ref
    <3> QED BY <3>1, <3>2, <3>3
  <2>4. (IF d.commit_to = "" THEN nullSHA ELSE d.commit_to) = x.after
    BY <1>1, <2>2 DEF Shas, nullSHA
  <2>5. pushDedupKey(x, d) = key
    BY <2>2, <2>3, <2>4 DEF pushDedupKey
  <2>6. (d.action = "created") <=> x.before = nullSHA /\ x.after # nullSHA
    BY <1>1, <2>2
  <2> HIDE DEF key
  <2>7. CASE x.tag
    <3>1. FromHooks(x) = {activityFrom(key, "push", x.by, 1)} \cup
                         When(x.before = nullSHA /\ x.after # nullSHA, {activityFrom(key, "tag_created", x.by, 1)})
      BY <1>1, <1>3, <2>7 DEF FromHooks, normalizeTagPush, key
    <3>2. reported = {activityFrom(key, "push", x.by, 1)} \cup
                     When(d.action = "created", {activityFrom(key, "tag_created", x.by, 1)})
      BY <2>1, <2>2, <2>5, <2>7 DEF pushActivities
    <3> QED BY <1>3, <2>6, <3>1, <3>2 DEF Agrees, When
  <2>8. CASE ~ x.tag
    <3>1. FromHooks(x) = {activityFrom(key, "push", x.by, 1)} \cup
                         When(x.before = nullSHA /\ x.after # nullSHA, {activityFrom(key, "branch_created", x.by, 1)}) \cup
                         When(x.commits > 0, {activityFrom(key, "commit", x.by, x.commits)})
      BY <1>1, <1>3, <2>8 DEF FromHooks, normalizePush, key
    <3>2. reported = {activityFrom(key, "push", x.by, 1)} \cup
                     When(d.action = "created", {activityFrom(key, "branch_created", x.by, 1)}) \cup
                     When(x.commits > 0, {activityFrom(key, "commit", x.by, x.commits)})
      BY <2>1, <2>2, <2>5, <2>8 DEF pushActivities
    <3> QED BY <1>3, <2>6, <3>1, <3>2 DEF Agrees, When
  <2> QED BY <1>1, <2>7, <2>8
<1> QED BY <1>2, <1>3

\* A merge is reported in two words, and listed once more for its author. How
\* fast it was only the hook says.
LEMMA MergeRequestAgrees ==
  ASSUME NEW x \in MergeRequestActions, NEW reported \in FromAPIs(x) PROVE Agrees(x, reported)
<1>1. x.what = "merge request" /\ x.action \in {"open", "merge", "close", "approve", "update", "reopen"}
  BY DEF MergeRequestActions
<1>2. PICK action \in ActionNames(x) :
        reported = When(x.by # 0, mergeRequestKind(x, action)) \cup NormalizeMergedMergeRequest(x)
  <2>1. reported \in MergeRequestReports(x)
    BY <1>1, Reported
  <2> QED BY <2>1 DEF MergeRequestReports
<1>3. CASE x.by = 0
  BY <1>1, <1>2, <1>3 DEF FromHooks, Agrees, When
<1>4. CASE x.by # 0
  <2>1. FromHooks(x) = normalizeMergeRequest(x)
    BY <1>1, <1>4 DEF FromHooks
  <2>2. reported = mergeRequestKind(x, action) \cup NormalizeMergedMergeRequest(x)
    BY <1>2, <1>4 DEF When
  <2>3. CASE x.action = "merge"
    <3> DEFINE merged == {Activity("merge_request_merged", <<"merge_request", x.id, "merged">>, x.by, 1)}
               landed == When(x.author # 0,
                              {Activity("merge_request_landed", <<"merge_request", x.id, "landed">>, x.author, 1)})
               fast == Activity("merge_request_merged_fast", <<"merge_request", x.id, "merged_fast">>, x.by, 1)
    <3>1. action \in {"accepted", "merged"}
      BY <1>1, <2>3 DEF ActionNames
    <3>2. reported = merged \cup landed
      BY <2>2, <2>3, <3>1 DEF mergeRequestKind, NormalizeMergedMergeRequest, When
    <3>3. FromHooks(x) = merged \cup When(mergedFast(x), {fast}) \cup landed
      BY <2>1, <2>3 DEF normalizeMergeRequest, mergeFollowUps
    <3>4. HooksOnly(x, fast)
      BY DEF HooksOnly, Activity
    <3> HIDE DEF merged, landed, fast
    <3> QED BY <1>4, <3>2, <3>3, <3>4 DEF Agrees, When
  <2>4. CASE x.action # "merge"
    <3>1. NormalizeMergedMergeRequest(x) = {}
      BY <2>4 DEF NormalizeMergedMergeRequest, When
    <3>2. normalizeMergeRequest(x) = mergeRequestKind(x, action)
      BY <1>1, <2>4 DEF ActionNames, normalizeMergeRequest, mergeRequestKind, approval
    <3> QED BY <1>4, <2>1, <2>2, <3>1, <3>2 DEF Agrees
  <2> QED BY <2>3, <2>4
<1> QED BY <1>3, <1>4

LEMMA IssueAgrees == ASSUME NEW x \in IssueActions, NEW reported \in FromAPIs(x) PROVE Agrees(x, reported)
<1>1. x.what = "issue" /\ x.action \in {"open", "close", "reopen"}
  BY DEF IssueActions
<1>2. PICK type \in TargetTypes(x), action \in ActionNames(x) :
        reported = When(x.by # 0, targetActivities(x, type, action))
  <2>1. reported \in TargetReports(x)
    BY <1>1, Reported
  <2> QED BY <2>1 DEF TargetReports
<1>3. CASE x.by = 0
  BY <1>1, <1>2, <1>3 DEF FromHooks, Agrees, When
<1>4. CASE x.by # 0
  <2>1. FromHooks(x) = normalizeIssue(x)
    BY <1>1, <1>4 DEF FromHooks
  <2>2. type \in {"issue", "workitem"}
    BY <1>1 DEF TargetTypes
  <2>3. reported = issueKind(x, action)
    BY <1>2, <1>4, <2>2 DEF targetActivities, When
  <2>4. normalizeIssue(x) = issueKind(x, action)
    BY <1>1 DEF ActionNames, normalizeIssue, issueKind
  <2> QED BY <1>4, <2>1, <2>3, <2>4 DEF Agrees
<1> QED BY <1>3, <1>4

\* A comment on a diff may be one on a merge request or on a commit.
LEMMA CommentAgrees == ASSUME NEW x \in Comments, NEW reported \in FromAPIs(x) PROVE Agrees(x, reported)
<1>1. x.what = "comment" /\ x.type \in {"Note", "DiscussionNote", "DiffNote"}
  BY DEF Comments
<1>2. PICK type \in TargetTypes(x), action \in ActionNames(x) :
        reported = When(x.by # 0, targetActivities(x, type, action))
  <2>1. reported \in TargetReports(x)
    BY <1>1, Reported
  <2> QED BY <2>1 DEF TargetReports
<1>3. CASE x.by = 0
  BY <1>1, <1>2, <1>3 DEF FromHooks, Agrees, When
<1>4. CASE x.by # 0
  <2>1. FromHooks(x) = normalizeComment(x)
    BY <1>1, <1>4 DEF FromHooks
  <2>2. type \in {"note", "discussionnote", "diffnote"} /\ (type = "diffnote" <=> x.type = "DiffNote")
    BY <1>1 DEF TargetTypes
  <2>3. reported = noteActivities(x, type)
    BY <1>2, <1>4, <2>2 DEF targetActivities, When
  <2>4. (reviewNote(x, type)) <=> (x.on = "MergeRequest" /\ x.type = "DiffNote")
    BY <2>2 DEF reviewNote
  <2>5. normalizeComment(x) = noteActivities(x, type)
    BY <2>4 DEF normalizeComment, noteActivities, When
  <2> QED BY <1>4, <2>1, <2>3, <2>5 DEF Agrees
<1> QED BY <1>3, <1>4

\* A pipeline is listed as it ended; the hooks told how else it had been.
LEMMA PipelineAgrees == ASSUME NEW x \in Pipelines, NEW reported \in FromAPIs(x) PROVE Agrees(x, reported)
<1>1. x.what = "pipeline"
  BY DEF Pipelines
<1>2. CASE x.by = 0
  BY <1>1, <1>2 DEF FromAPIs, FromHooks, Agrees, When
<1>3. CASE x.by # 0
  <2> DEFINE made(kind) == activityFrom(<<"pipeline", x.id>>, kind, x.by, 1)
  <2>1. /\ FromHooks(x) = UNION {pipelineHook(x, status) : status \in x.statuses \cup {x.status}}
        /\ reported = NormalizePipeline(x) \cup NormalizePipelineFix(x)
    BY <1>1, <1>3 DEF FromAPIs, FromHooks, When, normalizePipeline
  <2>2. \A status : pipelineHook(x, status) =
          {made("pipeline_run")} \cup When(status = "success", {made("pipeline_succeeded")})
            \cup When(status = "failed", {made("pipeline_failed")})
            \cup When(status = "success" /\ x.previous = "failed", {made("pipeline_fixed")})
    BY DEF pipelineHook
  <2>3. reported =
          {made("pipeline_run")} \cup When(x.status = "success", {made("pipeline_succeeded")})
            \cup When(x.status = "failed", {made("pipeline_failed")})
            \cup When(x.previous = "failed" /\ x.status = "success", {made("pipeline_fixed")})
    BY <2>1 DEF NormalizePipeline, NormalizePipelineFix
  <2>4. \A kind : made(kind).kind = kind
    BY DEF activityFrom, Activity
  <2> HIDE DEF made
  <2>5. reported = pipelineHook(x, x.status)
    BY <2>2, <2>3 DEF When
  <2>6. ASSUME NEW a \in FromHooks(x), ~ HooksOnly(x, a) PROVE a \in reported
    <3>1. PICK status : a \in pipelineHook(x, status)
      BY <2>1
    <3>2. \/ a = made("pipeline_run")
          \/ a = made("pipeline_succeeded") /\ x.status = "success"
          \/ a = made("pipeline_failed") /\ x.status = "failed"
          \/ a = made("pipeline_fixed") /\ x.status = "success" /\ x.previous = "failed"
      BY <2>2, <2>4, <2>6, <3>1 DEF HooksOnly, When
    <3> QED BY <2>3, <3>2 DEF When
  <2> QED BY <1>3, <2>1, <2>5, <2>6 DEF Agrees
<1> QED BY <1>2, <1>3

LEMMA WikiPageAgrees == ASSUME NEW x \in WikiPages, NEW reported \in FromAPIs(x) PROVE Agrees(x, reported)
<1>1. x.what = "wiki page" /\ x.action \in {"create", "update"}
  BY DEF WikiPages
<1>2. PICK type \in TargetTypes(x), action \in ActionNames(x) :
        reported = When(x.by # 0, targetActivities(x, type, action))
  <2>1. reported \in TargetReports(x)
    BY <1>1, Reported
  <2> QED BY <2>1 DEF TargetReports
<1>3. type \in {"wikipage", "wikipage::meta"} /\ (action = "created" <=> x.action = "create")
  BY <1>1 DEF TargetTypes, ActionNames
<1>4. targetActivities(x, type, action) = normalizeWikiPage(x)
  BY <1>3 DEF targetActivities, NormalizeWikiPageEvent, normalizeWikiPage, When
<1> QED BY <1>1, <1>2, <1>4 DEF FromHooks, Agrees, When

LEMMA ReleaseAgrees == ASSUME NEW x \in Releases, NEW reported \in FromAPIs(x) PROVE Agrees(x, reported)
<1>1. x.what = "release"
  BY DEF Releases
<1>2. reported = When(x.by # 0, NormalizeRelease(x))
  BY <1>1 DEF FromAPIs
<1> QED BY <1>1, <1>2 DEF FromHooks, Agrees, When, NormalizeRelease, normalizeRelease

\* Jobs, deployments, reactions and resolved threads are the hooks' alone.
LEMMA HooksAlone ==
  ASSUME NEW x \in Jobs \cup Deployments \cup Reactions \cup Threads, NEW reported \in FromAPIs(x)
  PROVE  Agrees(x, reported)
<1>1. x.what \in {"job", "deployment", "reaction", "thread"}
  BY DEF Jobs, Deployments, Reactions, Threads
<1>2. reported = {}
  BY <1>1, Reported
<1>3. ASSUME NEW a \in FromHooks(x) PROVE HooksOnly(x, a)
  <2>1. CASE x.what = "job"
    BY <1>3, <2>1 DEF FromHooks, normalizeJob, Activity, HooksOnly
  <2>2. CASE x.what = "deployment"
    BY <1>3, <2>2 DEF FromHooks, normalizeDeployment, When, activityFrom, Activity, HooksOnly
  <2>3. CASE x.what = "reaction"
    BY <1>3, <2>3 DEF FromHooks, normalizeEmoji, When, Activity, HooksOnly
  <2>4. CASE x.what = "thread"
    BY <1>3, <2>4 DEF FromHooks, normalizeResolution, normalizeDiscussion, Resolved, When, Activity, HooksOnly
  <2> QED BY <1>1, <2>1, <2>2, <2>3, <2>4
<1> QED BY <1>2, <1>3 DEF Agrees

\* However an occurrence is reported, both paths make the same of it.
LEMMA AllAgree ==
  ASSUME NEW x \in Occurrences, ~ Misread(x), NEW reported \in FromAPIs(x) PROVE Agrees(x, reported)
  BY PushAgrees, MergeRequestAgrees, IssueAgrees, CommentAgrees, PipelineAgrees, WikiPageAgrees,
     ReleaseAgrees, HooksAlone DEF Occurrences

\* Every activity that either makes has a key that says what it is.
LEMMA AllFit ==
  ASSUME NEW x \in Occurrences, NEW a \in FromHooks(x) \cup When(~ Misread(x), UNION FromAPIs(x)) PROVE Fits(x, a)
<1>1. ASSUME a \in FromHooks(x) PROVE Fits(x, a)
  <2>1. CASE x \in Pushes
    <3>1. x.by # 0
      BY <1>1, <2>1 DEF FromHooks, Pushes
    <3> QED BY <1>1, <2>1, <3>1, PushFits
  <2> QED BY <1>1, <2>1, MergeRequestFits, IssueFits, CommentFits, PipelineFits, DeploymentFits, OtherFits
          DEF Occurrences
<1>2. ASSUME a \notin FromHooks(x) PROVE Fits(x, a)
  <2>1. /\ ~ Misread(x)
        /\ \E reported \in FromAPIs(x) : a \in reported
    BY <1>2 DEF When
  <2>2. x \in MergeRequestActions /\ a \in NormalizeMergedMergeRequest(x)
    BY <1>2, <2>1, AllAgree DEF Agrees, When
  <2> QED BY <2>2, MergeRequestFits
<1> QED BY <1>1, <1>2

\* One key stands for one thing done, whichever path reports it, for any
\* identifiers, users and names, but for what the APIs tell of a branch or tag
\* whose own name begins with "refs/" (internal/webhook/normalize.go, internal/eventsapi).
THEOREM KeysIdentify == KeyIsIdentity
<1>1. ASSUME NEW f \in Facts
      PROVE  MeaningOf(f[1]) = f[2] /\ KeyOf(f[2][1], f[2][2]) = f[1]
  <2>1. PICK x \in Occurrences :
          f \in {<<a.key, <<a.kind, Subject(x, a)>>>> :
                   a \in FromHooks(x) \cup When(~ Misread(x), UNION FromAPIs(x))}
    BY DEF Facts
  <2>2. PICK a \in FromHooks(x) \cup When(~ Misread(x), UNION FromAPIs(x)) : f = <<a.key, <<a.kind, Subject(x, a)>>>>
    BY <2>1
  <2>3. Fits(x, a)
    BY AllFit
  <2> QED BY <2>2, <2>3 DEF Fits, Stands
<1>2. \A f, g \in Facts : f[1] = g[1] <=> f[2] = g[2]
  BY <1>1
<1>3. PathsAgree
  BY AllAgree DEF PathsAgree, Agrees
<1> QED BY <1>2, <1>3 DEF KeyIsIdentity

\* Whatever is counted is counted under a key that stands for it alone, for any
\* records and any number of failures (internal/eventsapi/normalize.go, "match,
\* byte for byte"), with the exception KeyIsIdentity makes.
THEOREM CountedUnderItsKey == Spec => []CountedByItsKey
<1>1. CountedByItsKey
  BY KeysIdentify DEF CountedByItsKey
<1> QED BY <1>1, PTL

=============================================================================
