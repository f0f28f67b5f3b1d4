------------------------------- MODULE Engine -------------------------------
(***************************************************************************)
(* The evaluation engine (internal/engine): concurrent callers of Process,  *)
(* each running one activity event through the participation filter and     *)
(* then through one database transaction, while participation itself        *)
(* changes under them.                                                      *)
(*                                                                          *)
(* The callers are the webhook queue's workers, the backfill and the        *)
(* reconciliation pass, of one process or of two that overlap during a      *)
(* rolling restart. They may all see the same activity, so what a caller is *)
(* handed is a sighting of an activity; the activity is its dedup key.      *)
(*                                                                          *)
(* A transaction is broken up where another one can interfere with it: at   *)
(* the lookup and at the insertion of the processed mark, at the creation   *)
(* of the user's row, and at the claim that locks that row. From the claim  *)
(* to the commit no other transaction touches the user's rows, so that      *)
(* stretch is one step. A crash, a cancelled context and a database error   *)
(* all roll the transaction back (Abort); an error that hides a commit that *)
(* did happen leaves the caller free to present the sighting again, which   *)
(* every caller is free to do at any time.                                  *)
(***************************************************************************)
EXTENDS Criteria

CONSTANTS
  Workers,      \* concurrent callers of Process
  Users,        \* GitLab users
  Activities,   \* dedup keys
  Actor,        \* Activities -> Users, or anything else for a non-positive id
  Kind,         \* Activities -> kinds
  Weight,       \* Activities -> positive naturals
  Sightings,    \* [key, day, hour, project] records the producers may deliver
  Tiers,        \* achievement definitions
  CriteriaKey,  \* Tiers -> AllCriteria
  Threshold,    \* Tiers -> positive naturals
  ExpReward,    \* Tiers -> naturals
  OldSightings, \* those counted by a release that kept no set of projects
  Isolation,    \* "read_committed" or "repeatable_read"
  None          \* no lock holder, no sighting in hand, no snapshot taken

NoProject == 0
Projects  == {s.project : s \in Sightings} \ {NoProject}
Days      == {s.day : s \in Sightings} \ {NoDay}

\* Process ignores kinds it maps to nothing, and actors that are no user.
Tracked(k) == criteriaFor(Kind[k]) # {} /\ Actor[k] \in Users

ASSUME EngineAssumption ==
  /\ IsFiniteSet(Activities) /\ IsFiniteSet(Sightings) /\ IsFiniteSet(Tiers)
  /\ Kind \in [Activities -> STRING]
  /\ Weight \in [Activities -> Nat \ {0}]
  /\ DOMAIN Actor = Activities
  /\ Sightings \subseteq [key : Activities, day : Nat, hour : 0 .. 23, project : Nat]
  /\ CriteriaKey \in [Tiers -> AllCriteria]
  /\ Threshold \in [Tiers -> Nat \ {0}]
  /\ ExpReward \in [Tiers -> Nat]
  /\ OldSightings \subseteq {s \in Sightings : Tracked(s.key)}
  /\ Isolation \in {"read_committed", "repeatable_read"}
  /\ None \notin Workers /\ None \notin Sightings

VARIABLES
  processed,  \* dedup keys in the processed-event log
  known,      \* users that have a row
  excluded,   \* users whose row carries an excluded_reason
  exp,        \* the exp_total column
  rows,       \* each user's counters, active days, projects and awards
  lock,       \* the transaction holding each user's row
  pc,         \* where each caller is
  job,        \* the sighting each caller is evaluating
  fresh,      \* whether the caller's activity was new to the log
  snap        \* what the caller's transaction read first (repeatable read)

db   == <<processed, known, excluded, exp, rows>>
vars == <<processed, known, excluded, exp, rows, lock, pc, job, fresh, snap>>

-----------------------------------------------------------------------------
(* The rows of one user, and what evaluating an activity makes of them. *)

UserRows ==
  [count : [AllCriteria -> Nat], days : SUBSET Days, owl : SUBSET Days,
   early : SUBSET Days, projects : SUBSET Projects, awards : SUBSET Tiers]

NoRows ==
  [count |-> [c \in AllCriteria |-> 0], days |-> {}, owl |-> {}, early |-> {},
   projects |-> {}, awards |-> {}]

\* The tiers of the criteria in C that the counters reach.
Reached(count, C) ==
  {t \in Tiers : CriteriaKey[t] \in C /\ Threshold[t] <= count[CriteriaKey[t]]}

\* Faulty variants (the mutants of PROJECT.json put one in the place of the
\* definition that follows): only the highest tier reached is awarded; a tier
\* is awarded one occurrence early.
awardTopTierOnly(r, C) ==
  [r EXCEPT !.awards = @ \cup {t \in Reached(r.count, C) :
     \A o \in Reached(r.count, C) : CriteriaKey[o] = CriteriaKey[t] => Threshold[o] <= Threshold[t]}]

\* Every reached tier not held yet is awarded, not just the highest.
awardReachedTiers(r, C) == [r EXCEPT !.awards = @ \cup Reached(r.count, C)]

\* An activity adds its weight to each criteria its kind advances.
Incremented(r, k) ==
  awardReachedTiers(
    [r EXCEPT !.count =
       [c \in AllCriteria |-> @[c] + (IF c \in criteriaFor(Kind[k]) THEN Weight[k] ELSE 0)]],
    criteriaFor(Kind[k]))

\* The day the activity happened on, with the clock flags latched on.
recordActivityDay(r, s) ==
  IF s.day = NoDay THEN r
  ELSE [r EXCEPT !.days  = @ \cup {s.day},
                 !.owl   = @ \cup (IF isNightOwl(s.hour) THEN {s.day} ELSE {}),
                 !.early = @ \cup (IF isEarlyBird(s.hour) THEN {s.day} ELSE {})]

\* Faulty variant: a flag latched on a known day does not count as a change.
evaluateNewDayOnly(r, s) ==
  LET d == recordActivityDay(r, s)
      totals == computeDayTotals(d.days, d.owl, d.early)
  IN  IF d.days = r.days THEN d
      ELSE awardReachedTiers(
             [d EXCEPT !.count =
                [c \in AllCriteria |-> IF c \in dayCriteria THEN totals[c] ELSE @[c]]],
             dayCriteria)

\* Recomputed from the whole set of days, and only when the set changed.
evaluateDays(r, s) ==
  LET d == recordActivityDay(r, s)
      totals == computeDayTotals(d.days, d.owl, d.early)
  IN  IF d = r THEN r
      ELSE awardReachedTiers(
             [d EXCEPT !.count =
                [c \in AllCriteria |-> IF c \in dayCriteria THEN totals[c] ELSE @[c]]],
             dayCriteria)

evaluateProjects(r, s) ==
  IF s.project = NoProject \/ s.project \in r.projects THEN r
  ELSE awardReachedTiers(
         [r EXCEPT !.projects = @ \cup {s.project},
                   !.count["projects_contributed"] = Cardinality(r.projects \cup {s.project})],
         {"projects_contributed"})

evaluateSets(r, s) ==
  evaluateProjects(IF presentFor(Kind[s.key]) THEN evaluateDays(r, s) ELSE r, s)

evaluate(r, s) == evaluateSets(Incremented(r, s.key), s)

\* What the tiers in T are worth.
heldExp(T) == SumOver(T, ExpReward)

-----------------------------------------------------------------------------
(* What a transaction reads, and what its statements leave behind. Under     *)
(* read committed (PostgreSQL, SQL Server; SQLite's immediate transactions   *)
(* are serial, a restriction of it) a plain read sees the last commit. Under *)
(* InnoDB's repeatable read it sees the snapshot taken by the transaction's  *)
(* first read, while UPDATE and the unique indexes act on the last commit.   *)

Current(u) == [known |-> u \in known, excluded |-> u \in excluded, rows |-> rows[u]]
View(w)    == IF Isolation = "repeatable_read" THEN snap[w] ELSE Current(Actor[job[w].key])

\* A counter at 0 is one with no row yet. Inserting a row another transaction
\* committed since the snapshot violates its unique index.
UniqueViolation(cur, old, new) ==
  \/ \E c \in AllCriteria : old.count[c] = 0 /\ new.count[c] # 0 /\ cur.count[c] # 0
  \/ (new.days \ old.days) \cap cur.days # {}
  \/ (new.projects \ old.projects) \cap cur.projects # {}
  \/ (new.awards \ old.awards) \cap cur.awards # {}

\* Counters and flags are written as values computed from what was read; rows
\* the transaction did not write keep what is committed.
WriteBack(cur, old, new) ==
  LET written == {d \in Days : \/ (d \in old.days) # (d \in new.days)
                               \/ (d \in old.owl) # (d \in new.owl)
                               \/ (d \in old.early) # (d \in new.early)}
      latched(now, flags) == (now \ written) \cup (flags \cap written)
  IN  IF old = cur THEN new
      ELSE [count    |-> [c \in AllCriteria |->
                            IF new.count[c] # old.count[c] THEN new.count[c] ELSE cur.count[c]],
            days     |-> cur.days \cup new.days,
            owl      |-> latched(cur.owl, new.owl),
            early    |-> latched(cur.early, new.early),
            projects |-> cur.projects \cup new.projects,
            awards   |-> cur.awards \cup new.awards]

-----------------------------------------------------------------------------
(* Steps of Process. *)

Unlocked(w) == [u \in Users |-> IF lock[u] = w THEN None ELSE lock[u]]

\* The caller returns, whatever its outcome, and lets go of what it locked.
Return(w) ==
  /\ pc'    = [pc EXCEPT ![w] = "idle"]
  /\ job'   = [job EXCEPT ![w] = None]
  /\ fresh' = [fresh EXCEPT ![w] = FALSE]
  /\ snap'  = [snap EXCEPT ![w] = None]
  /\ lock'  = Unlocked(w)

Goto(w, label) ==
  /\ pc' = [pc EXCEPT ![w] = label]
  /\ UNCHANGED <<job, fresh, snap>>

\* The filter's verdict is reached outside the transaction. Activity that is
\* untracked, or whose actor is excluded, ends here with nothing recorded.
Check(w, s) ==
  /\ pc[w] = "idle"
  /\ Tracked(s.key)
  /\ Actor[s.key] \notin excluded
  /\ pc'  = [pc EXCEPT ![w] = "lookup"]
  /\ job' = [job EXCEPT ![w] = s]
  /\ UNCHANGED <<db, lock, fresh, snap>>

\* recordProcessed's lookup, the transaction's first read.
LookUp(w) ==
  /\ pc[w] = "lookup"
  /\ LET seen == job[w].key \in processed IN
     /\ pc'    = [pc EXCEPT ![w] = IF seen THEN "repeat" ELSE "insert"]
     /\ fresh' = [fresh EXCEPT ![w] = ~seen]
  /\ snap' = [snap EXCEPT ![w] = IF Isolation = "repeatable_read"
                                 THEN Current(Actor[job[w].key]) ELSE @]
  /\ UNCHANGED <<db, lock, job>>

\* Transactions that hold an uncommitted mark for activity k.
Marking(k) == {w \in Workers : /\ pc[w] \in {"upsert", "claim", "evaluate"}
                               /\ fresh[w] /\ job[w].key = k}

\* Faulty variant: no unique index on event_id.
InsertMarkTwice(w) ==
  /\ pc[w] = "insert"
  /\ Goto(w, "upsert")
  /\ UNCHANGED <<db, lock>>

\* recordProcessed's insert waits for another uncommitted insert of the same
\* mark, and fails on a committed one; the caller's retry starts over.
InsertMark(w) ==
  /\ pc[w] = "insert"
  /\ Marking(job[w].key) = {}
  /\ IF job[w].key \in processed
     THEN Return(w)
     ELSE Goto(w, "upsert") /\ UNCHANGED lock
  /\ UNCHANGED db

\* upsertUser: a row that is not there yet is inserted, which holds it; an
\* insert that waited for another one's commit fails.
UpsertUser(w) ==
  LET u == Actor[job[w].key] IN
  /\ pc[w] = "upsert"
  /\ \/ /\ View(w).known
        /\ Goto(w, "claim") /\ UNCHANGED lock
     \/ /\ ~View(w).known
        /\ lock[u] = None
        /\ IF u \in known
           THEN Return(w)
           ELSE Goto(w, "claim") /\ lock' = [lock EXCEPT ![u] = w]
  /\ UNCHANGED db

\* Faulty variants: the row is locked without looking at it again; the mark
\* of an excluded actor's activity is kept.
ClaimUnconditionally(w) ==
  LET u == Actor[job[w].key] IN
  /\ pc[w] = "claim"
  /\ lock[u] \in {None, w}
  /\ Goto(w, "evaluate")
  /\ lock' = [lock EXCEPT ![u] = w]
  /\ UNCHANGED db
ClaimOrMark(w) ==
  LET u == Actor[job[w].key] IN
  /\ pc[w] = "claim"
  /\ lock[u] \in {None, w}
  /\ IF u \in excluded
     THEN Return(w) /\ processed' = processed \cup {job[w].key}
     ELSE Goto(w, "evaluate") /\ lock' = [lock EXCEPT ![u] = w] /\ UNCHANGED processed
  /\ UNCHANGED <<known, excluded, exp, rows>>

\* claimParticipant's UPDATE waits for the row and re-checks its condition on
\* the last committed version; errActorExcluded rolls everything back.
ClaimParticipant(w) ==
  LET u == Actor[job[w].key] IN
  /\ pc[w] = "claim"
  /\ lock[u] \in {None, w}
  /\ IF u \in excluded
     THEN Return(w)
     ELSE Goto(w, "evaluate") /\ lock' = [lock EXCEPT ![u] = w]
  /\ UNCHANGED db

\* Faulty variant: EXP is totalled before the new awards are inserted.
CommitRowsExpFirst(w, new) ==
  LET u == Actor[job[w].key]
      old == View(w).rows
      stored == WriteBack(rows[u], old, new)
  IN  /\ ~UniqueViolation(rows[u], old, new)
      /\ rows' = [rows EXCEPT ![u] = stored]
      /\ exp'  = [exp EXCEPT ![u] = IF new.awards # old.awards THEN heldExp(rows[u].awards) ELSE @]
      /\ Return(w)

\* The rest of the transaction and its commit: `new` is what the rows become
\* in the transaction's eyes. EXP is settled in the same transaction, by a
\* statement that reads the last commit, and only if a tier was awarded.
CommitRows(w, new) ==
  LET u == Actor[job[w].key]
      old == View(w).rows
      stored == WriteBack(rows[u], old, new)
  IN  /\ ~UniqueViolation(rows[u], old, new)
      /\ rows' = [rows EXCEPT ![u] = stored]
      /\ exp'  = [exp EXCEPT ![u] = IF new.awards # old.awards THEN heldExp(stored.awards) ELSE @]
      /\ Return(w)

\* evaluate, for an activity that is new.
Evaluate(w) ==
  /\ pc[w] = "evaluate" /\ fresh[w]
  /\ CommitRows(w, evaluate(View(w).rows, job[w]))
  /\ processed' = processed \cup {job[w].key}
  /\ known'     = known \cup {Actor[job[w].key]}
  /\ UNCHANGED excluded

\* evaluateRepeat's reads: only a project the user is not known in, of a user
\* who takes part, is worth a claim.
Repeat(w) ==
  LET s == job[w] IN
  /\ pc[w] = "repeat"
  /\ IF /\ s.project # NoProject
        /\ View(w).known /\ ~View(w).excluded
        /\ s.project \notin View(w).rows.projects
     THEN Goto(w, "claim") /\ UNCHANGED lock
     ELSE Return(w)
  /\ UNCHANGED db

\* evaluateRepeat, for an activity counted before.
EvaluateRepeat(w) ==
  /\ pc[w] = "evaluate" /\ ~fresh[w]
  /\ CommitRows(w, evaluateProjects(View(w).rows, job[w]))
  /\ UNCHANGED <<processed, known, excluded>>

\* Rolled back: a crash, a cancelled context, a statement that failed.
Abort(w) ==
  /\ pc[w] # "idle"
  /\ Return(w)
  /\ UNCHANGED db

\* Faulty variant: the exclusion of a user with no row is remembered nowhere.
ExcludeWithoutRow(u) ==
  /\ lock[u] = None
  /\ excluded' = excluded \cup {u}
  /\ UNCHANGED <<processed, known, exp, rows, lock, pc, job, fresh, snap>>

\* A committed change of excluded_reason (OptOut, OptIn, the filter recording
\* a verdict), which waits for the row like any other UPDATE of it.
Exclude(u) ==
  /\ lock[u] = None
  /\ excluded' = excluded \cup {u}
  /\ known'    = known \cup {u}
  /\ UNCHANGED <<processed, exp, rows, lock, pc, job, fresh, snap>>

Include(u) ==
  /\ lock[u] = None
  /\ u \in excluded
  /\ excluded' = excluded \ {u}
  /\ UNCHANGED <<processed, known, exp, rows, lock, pc, job, fresh, snap>>

-----------------------------------------------------------------------------

\* The activities of user u that advance criteria c, and their weight.
Advancing(K, u, c) == {k \in K : Actor[k] = u /\ c \in criteriaFor(Kind[k])}
Tally(K, u, c)     == SumOver(Advancing(K, u, c), Weight)

\* A database an earlier release filled: counters, active days and awards,
\* but no set of projects.
OldActivities == {s.key : s \in OldSightings}
OldRows(u) ==
  LET seen   == {s \in OldSightings : Actor[s.key] = u /\ presentFor(Kind[s.key]) /\ s.day # NoDay}
      days   == {s.day : s \in seen}
      owl    == {s.day : s \in {x \in seen : isNightOwl(x.hour)}}
      early  == {s.day : s \in {x \in seen : isEarlyBird(x.hour)}}
      totals == computeDayTotals(days, owl, early)
      count  == [c \in AllCriteria |-> IF c \in dayCriteria THEN totals[c]
                                       ELSE Tally(OldActivities, u, c)]
  IN  [count |-> count, days |-> days, owl |-> owl, early |-> early,
       projects |-> {}, awards |-> Reached(count, AllCriteria)]

Init ==
  /\ processed = OldActivities
  /\ known     = {Actor[k] : k \in OldActivities}
  /\ excluded  = {}
  /\ rows      = [u \in Users |-> OldRows(u)]
  /\ exp       = [u \in Users |-> heldExp(OldRows(u).awards)]
  /\ lock      = [u \in Users |-> None]
  /\ pc        = [w \in Workers |-> "idle"]
  /\ job       = [w \in Workers |-> None]
  /\ fresh     = [w \in Workers |-> FALSE]
  /\ snap      = [w \in Workers |-> None]

Step(w) ==
  \/ \E s \in Sightings : Check(w, s)
  \/ LookUp(w) \/ InsertMark(w) \/ UpsertUser(w) \/ ClaimParticipant(w)
  \/ Evaluate(w) \/ Repeat(w) \/ EvaluateRepeat(w)
  \/ Abort(w)

Next ==
  \/ \E w \in Workers : Step(w)
  \/ \E u \in Users : Exclude(u) \/ Include(u)

Spec == Init /\ [][Next]_vars

(* What must hold. *)

InTransaction == {"lookup", "insert", "upsert", "claim", "evaluate", "repeat"}

\* Every variable has the values its table or local variable can hold.
TypeOK ==
  /\ processed \subseteq Activities
  /\ known \subseteq Users
  /\ excluded \subseteq known
  /\ exp \in [Users -> Nat]
  /\ rows \in [Users -> UserRows]
  /\ lock \in [Users -> Workers \cup {None}]
  /\ pc \in [Workers -> InTransaction \cup {"idle"}]
  /\ job \in [Workers -> Sightings \cup {None}]
  /\ fresh \in [Workers -> BOOLEAN]
  /\ snap \in [Workers -> [known : BOOLEAN, excluded : BOOLEAN, rows : UserRows] \cup {None}]

\* An activity is either fully counted or not counted at all, and counted
\* once however often and by however many callers it is presented: every
\* cumulative counter is the weight of the processed activities that advance
\* it (Process, recordProcessed, incrementCounter).
ExactlyOnce ==
  \A u \in Users : \A c \in Cumulative : rows[u].count[c] = Tally(processed, u, c)

\* The tiers held are the ones the counters reach, in every committed state.
\* None is missing, though tiers are awarded only by the activity that moves
\* their counter, which may pass several at once; and none is unjustified,
\* though awards are never taken back, so that no counter may fall and no
\* award may outlive a rollback (awardReachedTiers).
HeldTiersAreReached ==
  \A u \in Users : \A t \in Tiers :
    t \in rows[u].awards <=> Threshold[t] <= rows[u].count[CriteriaKey[t]]

\* The exp_total column "always equals the sum of ExpReward over the user's
\* awards" (internal/db/models.go), in every committed state.
ExpMatchesAwards == \A u \in Users : exp[u] = heldExp(rows[u].awards)

\* The recomputed counters agree with the sets they are derived from, though
\* they are only recomputed by the activity that changed the set.
DerivedCountersCurrent ==
  \A u \in Users :
    LET r == rows[u]
        totals == computeDayTotals(r.days, r.owl, r.early)
    IN  /\ \A c \in dayCriteria : r.count[c] = totals[c]
        /\ r.count["projects_contributed"] = Cardinality(r.projects)

\* Nothing is counted for a user from the commit that excludes them until the
\* one that includes them again, even for activity whose filter check passed
\* before (claimParticipant).
NothingCountedWhileExcluded ==
  [][\A u \in excluded :
       /\ rows'[u] = rows[u] /\ exp'[u] = exp[u]
       /\ \A k \in processed' \ processed : Actor[k] # u]_vars

\* The engine implements the ledger: each commit of a new activity counts it,
\* and every other step is invisible or changes who takes part.
Promised == INSTANCE Ledger WITH
  Initial <- OldActivities,
  counted <- processed,
  score   <- [u \in Users |-> [c \in Cumulative |-> rows[u].count[c]]],
  held    <- [u \in Users |-> {t \in rows[u].awards : CriteriaKey[t] \in Cumulative}]

ImplementsLedger == Promised!Spec

=============================================================================
