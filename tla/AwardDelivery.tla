---------------------------- MODULE AwardDelivery ----------------------------
(***************************************************************************)
(* Award delivery (internal/bootstrap/awards.go) under the awards lease      *)
(* (internal/db/lease.go): passes that bring what GitLab shows for one user  *)
(* in one criteria in line with the tiers the engine recorded, while more    *)
(* tiers are earned, calls fail with and without effect, and passes crash,   *)
(* give up, or lose their lease and carry on.                                *)
(*                                                                          *)
(* An action makes at most one access to what passes share: one statement    *)
(* on the database, or one call to GitLab. What a pass decides from its own  *)
(* memory belongs to the access it decides from.                             *)
(*                                                                          *)
(* The lease's clock is abstracted to whether the claim still stands: Expire *)
(* is a holder that did not renew in time, and it only happens to a pass     *)
(* that is alive when LeaseMayLapse (a stall, or a database out of reach     *)
(* for longer than the claim stands).                                        *)
(***************************************************************************)
EXTENDS Naturals, Sequences, FiniteSets

CONSTANTS
  Passes,        \* concurrent calls of ReconcileAwards, of any process
  Top,           \* tiers of the criteria, 1 .. Top
  LeaseMayLapse, \* whether a live pass may lose its lease
  MaxFaults,     \* bound: calls that fail, crashes and lapses
  None,          \* nobody, nothing listed, no tier in hand
  Failed         \* a listing that failed

Tiers == 1 .. Top

ASSUME AwardAssumption ==
  /\ IsFiniteSet(Passes) /\ None \notin Passes
  /\ Top \in Nat \ {0} /\ LeaseMayLapse \in BOOLEAN /\ MaxFaults \in Nat

VARIABLES
  rows,          \* the awards table: each tier's status and recorded GitLab ID
  awards,        \* GitLab's record of awards made, indexed by their ID
  participating, \* whether the user takes part
  holder,        \* the owner in the lease's row
  standing,      \* whether its claim has not run out
  live,          \* whether each pass's context has not been cancelled
  at,            \* where each pass is
  mine,          \* the award rows each pass loaded
  todo,          \* the tiers it has not dealt with yet
  tier,          \* the one it is dealing with
  listed,        \* the IDs GitLab listed to it, once it asked
  made,          \* the ID it awarded, adopts or takes off
  faults,        \* faults so far
  overlapped     \* history: a pass began while another one ran

shared   == <<rows, awards, participating>>
lease    == <<holder, standing>>
memory   == <<mine, todo, tier, listed, made>>
progress == <<live, at>>
vars     == <<shared, lease, progress, memory, faults, overlapped>>

NoID   == 0
Absent == [status |-> "none", id |-> NoID]

Earned(table) == {t \in Tiers : table[t].status # "none"}

\* The highest tier earned, whatever its delivery status.
topTier(table) == CHOOSE t \in Earned(table) : \A o \in Earned(table) : o <= t

\* What GitLab lists as not revoked.
Live    == {i \in DOMAIN awards : ~awards[i].revoked}
Under(t, ids) == {i \in ids : awards[i].tier = t}

Fault == faults < MaxFaults /\ faults' = faults + 1

-----------------------------------------------------------------------------
(* The lease. *)

Running(p) == at[p] # "idle"

\* waitForLease: a claim that was given up or ran out is taken over.
Acquire(p) ==
  /\ at[p] = "idle"
  /\ holder = None \/ ~standing
  /\ holder' = p /\ standing' = TRUE
  /\ live' = [live EXCEPT ![p] = TRUE]
  /\ at'   = [at EXCEPT ![p] = "select"]
  /\ overlapped' = (overlapped \/ \E o \in Passes : Running(o))
  /\ UNCHANGED <<shared, memory, faults>>

\* The claim runs out: its pass is gone without having released it, or is not
\* renewing it.
Expire ==
  /\ holder # None /\ standing
  /\ IF Running(holder) THEN LeaseMayLapse /\ Fault ELSE UNCHANGED faults
  /\ standing' = FALSE
  /\ UNCHANGED <<shared, holder, live, at, memory, overlapped>>

\* A renewal: one in time after all keeps the claim, one too late finds it
\* taken over.
Renew(p) ==
  /\ Running(p) /\ live[p]
  /\ \/ holder = p /\ ~standing /\ standing' = TRUE /\ UNCHANGED live
     \/ holder # p /\ live' = [live EXCEPT ![p] = FALSE] /\ UNCHANGED standing
  /\ UNCHANGED <<shared, holder, at, memory, faults, overlapped>>

\* No renewal succeeded for as long as the claim stands.
GiveUpLease(p) ==
  /\ Running(p) /\ live[p]
  /\ holder # p \/ ~standing
  /\ live' = [live EXCEPT ![p] = FALSE]
  /\ UNCHANGED <<shared, lease, at, memory, faults, overlapped>>

Forget(p) ==
  /\ at'     = [at EXCEPT ![p] = "idle"]
  /\ live'   = [live EXCEPT ![p] = FALSE]
  /\ mine'   = [mine EXCEPT ![p] = [t \in Tiers |-> Absent]]
  /\ todo'   = [todo EXCEPT ![p] = {}]
  /\ tier'   = [tier EXCEPT ![p] = None]
  /\ listed' = [listed EXCEPT ![p] = None]
  /\ made'   = [made EXCEPT ![p] = NoID]

\* The pass returns and releases the lease, if it is still its own.
Release(p) ==
  /\ Forget(p)
  /\ holder'   = IF holder = p THEN None ELSE holder
  /\ standing' = IF holder = p THEN FALSE ELSE standing

-----------------------------------------------------------------------------
(* The pass. *)

Goto(p, label) == at' = [at EXCEPT ![p] = label]

\* usersWithAwards.
SelectUsers(p) ==
  /\ at[p] = "select"
  /\ IF participating /\ Earned(rows) # {}
     THEN Goto(p, "load") /\ UNCHANGED <<lease, live, memory>>
     ELSE Release(p)
  /\ UNCHANGED <<shared, faults, overlapped>>

\* An award that needs nothing: delivered and identified, or superseded.
Settled(table, t) ==
  IF t = topTier(table)
  THEN table[t].status = "accepted" /\ table[t].id # NoID
  ELSE table[t].status = "superseded"

\* Faulty variant: only awards nobody has tried to deliver are considered.
LoadPending(p) ==
  /\ at[p] = "load"
  /\ IF live[p]
     THEN /\ Goto(p, "next")
          /\ mine' = [mine EXCEPT ![p] = rows]
          /\ todo' = [todo EXCEPT ![p] = {t \in Earned(rows) : rows[t].status = "pending"}]
          /\ UNCHANGED <<lease, live, tier, listed, made>>
     ELSE Release(p)
  /\ UNCHANGED <<shared, faults, overlapped>>

\* The context is looked at between users; then the user's awards are loaded.
LoadAwards(p) ==
  /\ at[p] = "load"
  /\ IF live[p]
     THEN /\ Goto(p, "next")
          /\ mine' = [mine EXCEPT ![p] = rows]
          /\ todo' = [todo EXCEPT ![p] = {t \in Earned(rows) : ~Settled(rows, t)}]
          /\ UNCHANGED <<lease, live, tier, listed, made>>
     ELSE Release(p)
  /\ UNCHANGED <<shared, faults, overlapped>>

\* A call to GitLab is refused under a cancelled context, and may be at any
\* other time; what the cancelled context costs is no fault of its own.
Refused(p) == IF live[p] THEN Fault ELSE UNCHANGED faults

\* heldAwards.load: the user's live awards are listed once per pass, if at
\* all, and a failure is remembered. A name that lists somebody else's awards
\* is one.
ListHeld(p) ==
  /\ at[p] = "next" /\ todo[p] # {} /\ listed[p] = None
  /\ \/ live[p] /\ listed' = [listed EXCEPT ![p] = Live] /\ UNCHANGED faults
     \/ listed' = [listed EXCEPT ![p] = Failed] /\ Refused(p)
  /\ UNCHANGED <<shared, lease, progress, mine, todo, tier, made, overlapped>>

Take(p, t) ==
  /\ at[p] = "next" /\ listed[p] # None
  /\ t \in todo[p]
  /\ tier' = [tier EXCEPT ![p] = t]
  /\ UNCHANGED <<shared, lease, live, mine, todo, listed, faults, overlapped>>

\* deliverAward: the award GitLab already holds is adopted, or a new one made.
Deliver(p, t) ==
  /\ Take(p, t) /\ t = topTier(mine[p])
  /\ IF listed[p] = Failed THEN Goto(p, "fail") /\ UNCHANGED made
     ELSE IF Under(t, listed[p]) = {} THEN Goto(p, "award") /\ UNCHANGED made
     ELSE \E i \in Under(t, listed[p]) : made' = [made EXCEPT ![p] = i] /\ Goto(p, "adopt")

\* Faulty variant: a tier with no ID recorded is taken never to have reached
\* GitLab.
heldUnderRecordedID(row, t, ids) == {row.id} \cap ids

\* The award to take off GitLab: the recorded one while it is still listed, or
\* with none recorded, one that is listed for the tier.
heldUnderAward(row, t, ids) ==
  IF row.id # NoID THEN {row.id} \cap ids ELSE Under(t, ids)

\* supersedeAward, up to its first effect.
Supersede(p, t) ==
  /\ Take(p, t) /\ t # topTier(mine[p])
  /\ IF listed[p] = Failed THEN Goto(p, "fail") /\ UNCHANGED made
     ELSE LET found == heldUnderAward(mine[p][t], t, listed[p]) IN
          IF found = {} THEN Goto(p, "supersede") /\ UNCHANGED made
          ELSE \E i \in found : made' = [made EXCEPT ![p] = i] /\ Goto(p, "revoke")

\* The tier is dealt with.
Done(p) ==
  /\ Goto(p, "next")
  /\ todo' = [todo EXCEPT ![p] = @ \ {tier[p]}]
  /\ tier' = [tier EXCEPT ![p] = None]
  /\ made' = [made EXCEPT ![p] = NoID]

NewAward(t) == awards' = Append(awards, [tier |-> t, revoked |-> FALSE])
OffGitLab(i) == awards' = [awards EXCEPT ![i].revoked = TRUE]

\* Faulty variant: the client replays a mutation whose answer was lost.
AwardTierReplayed(p) ==
  /\ at[p] = "award"
  /\ \/ /\ live[p] /\ Goto(p, "record")
        /\ \E times \in {1, 2} :
             awards' = awards \o [i \in 1 .. times |-> [tier |-> tier[p], revoked |-> FALSE]]
        /\ made' = [made EXCEPT ![p] = Len(awards')] /\ UNCHANGED faults
     \/ /\ Refused(p) /\ Goto(p, "fail") /\ UNCHANGED <<awards, made>>
  /\ UNCHANGED <<rows, participating, lease, live, mine, todo, tier, listed, overlapped>>

\* held.award. Awarding is not idempotent, and its answer may be lost.
AwardTier(p) ==
  /\ at[p] = "award"
  /\ \/ /\ live[p] /\ NewAward(tier[p]) /\ Goto(p, "record")
        /\ made' = [made EXCEPT ![p] = Len(awards')] /\ UNCHANGED faults
     \/ /\ live[p] /\ Fault /\ NewAward(tier[p]) /\ Goto(p, "fail") /\ UNCHANGED made
     \/ /\ Refused(p) /\ Goto(p, "fail") /\ UNCHANGED <<awards, made>>
  /\ UNCHANGED <<rows, participating, lease, live, mine, todo, tier, listed, overlapped>>

\* transitionAward writes only to a row that is still as this pass read it.
Unmoved(p) == rows[tier[p]] = mine[p][tier[p]]
Write(p, row) == rows' = [rows EXCEPT ![tier[p]] = row]

\* Faulty variants: the row is written whatever it has become; GitLab's ID of
\* the achievement is recorded as that of the award.
RecordAnyway(p) ==
  /\ at[p] \in {"adopt", "record"}
  /\ Write(p, [status |-> "accepted", id |-> made[p]]) /\ Done(p)
  /\ UNCHANGED <<awards, participating, lease, live, mine, listed, faults, overlapped>>
RecordAchievementID(p) ==
  /\ at[p] \in {"adopt", "record"}
  /\ Unmoved(p) /\ Write(p, [status |-> "accepted", id |-> tier[p]]) /\ Done(p)
  /\ UNCHANGED <<awards, participating, lease, live, mine, listed, faults, overlapped>>

\* recordAwardDelivered, of an award adopted or made. One made that finds the
\* row moved is taken to be a duplicate.
RecordDelivered(p) ==
  /\ at[p] \in {"adopt", "record"}
  /\ IF Unmoved(p) THEN Write(p, [status |-> "accepted", id |-> made[p]]) /\ Done(p)
     ELSE /\ UNCHANGED rows
          /\ IF at[p] = "adopt" THEN Done(p)
             ELSE Goto(p, "take back") /\ UNCHANGED <<todo, tier, made>>
  /\ UNCHANGED <<awards, participating, lease, live, mine, listed, faults, overlapped>>

\* The duplicate is taken off again; a failure to is only logged.
TakeBack(p) ==
  /\ at[p] = "take back"
  /\ \/ live[p] /\ OffGitLab(made[p]) /\ UNCHANGED faults
     \/ Refused(p) /\ UNCHANGED awards
  /\ Done(p)
  /\ UNCHANGED <<rows, participating, lease, live, mine, listed, overlapped>>

\* A superseded tier's award is revoked; the answer to that may be lost too.
RevokeLower(p) ==
  /\ at[p] = "revoke"
  /\ \/ live[p] /\ OffGitLab(made[p]) /\ Goto(p, "supersede") /\ UNCHANGED faults
     \/ live[p] /\ Fault /\ OffGitLab(made[p]) /\ Goto(p, "fail")
     \/ Refused(p) /\ Goto(p, "fail") /\ UNCHANGED awards
  /\ UNCHANGED <<rows, participating, lease, live, memory, overlapped>>

\* The end of supersedeAward, and recordAwardFailure.
RecordStatus(p) ==
  /\ \E status \in {"superseded", "failed"} :
       /\ at[p] = (IF status = "failed" THEN "fail" ELSE "supersede")
       /\ IF Unmoved(p) THEN Write(p, [mine[p][tier[p]] EXCEPT !.status = status])
                        ELSE UNCHANGED rows
  /\ Done(p)
  /\ UNCHANGED <<awards, participating, lease, live, mine, listed, faults, overlapped>>

\* Nothing left to do, or a database error.
Return(p) ==
  /\ \/ at[p] = "next" /\ todo[p] = {} /\ UNCHANGED faults
     \/ Running(p) /\ at[p] \notin {"next", "award", "revoke", "take back"} /\ Fault
  /\ Release(p)
  /\ UNCHANGED <<shared, overlapped>>

\* The process dies, or cannot release the lease.
Crash(p) ==
  /\ Running(p) /\ Fault
  /\ Forget(p)
  /\ UNCHANGED <<shared, lease, overlapped>>

-----------------------------------------------------------------------------

\* The engine records the next tier (awardReachedTiers).
Earn ==
  /\ \E t \in Tiers \ Earned(rows) :
       /\ \A o \in Tiers : o < t => o \in Earned(rows)
       /\ rows' = [rows EXCEPT ![t] = [status |-> "pending", id |-> NoID]]
  /\ UNCHANGED <<awards, participating, lease, progress, memory, faults, overlapped>>

\* The user opts out, or in again.
Participate ==
  /\ participating' = ~participating
  /\ UNCHANGED <<rows, awards, lease, progress, memory, faults, overlapped>>

Init ==
  /\ rows = [t \in Tiers |-> Absent]
  /\ awards = <<>>
  /\ participating = TRUE
  /\ holder = None /\ standing = FALSE
  /\ live   = [p \in Passes |-> FALSE]
  /\ at     = [p \in Passes |-> "idle"]
  /\ mine   = [p \in Passes |-> [t \in Tiers |-> Absent]]
  /\ todo   = [p \in Passes |-> {}]
  /\ tier   = [p \in Passes |-> None]
  /\ listed = [p \in Passes |-> None]
  /\ made   = [p \in Passes |-> NoID]
  /\ faults = 0 /\ overlapped = FALSE

Step(p) ==
  \/ SelectUsers(p) \/ LoadAwards(p) \/ ListHeld(p)
  \/ \E t \in Tiers : Deliver(p, t) \/ Supersede(p, t)
  \/ AwardTier(p) \/ RecordDelivered(p) \/ TakeBack(p)
  \/ RevokeLower(p) \/ RecordStatus(p) \/ Return(p)

Next ==
  \/ \E p \in Passes : Acquire(p) \/ Renew(p) \/ GiveUpLease(p) \/ Step(p) \/ Crash(p)
  \/ Expire \/ Earn \/ Participate

\* Passes are started again and again (hourly), each runs on, and a claim
\* nobody renews runs out.
Fairness ==
  /\ \A p \in Passes : WF_vars(Acquire(p)) /\ WF_vars(Step(p))
  /\ WF_vars(Expire)

Spec == Init /\ [][Next]_vars /\ Fairness

-----------------------------------------------------------------------------
(* What must hold. *)

Statuses == {"none", "pending", "accepted", "failed", "superseded"}
Tables   == [Tiers -> [status : Statuses, id : DOMAIN awards \cup {NoID}]]
Labels   == {"idle", "select", "load", "next", "award", "record", "adopt",
             "take back", "revoke", "supersede", "fail"}

AwardsType == awards \in Seq([tier : Tiers, revoked : BOOLEAN])
LeaseType ==
  /\ holder \in Passes \cup {None} /\ standing \in BOOLEAN
  /\ live \in [Passes -> BOOLEAN] /\ faults \in 0 .. MaxFaults
  /\ participating \in BOOLEAN /\ overlapped \in BOOLEAN
MemoryType ==
  /\ mine \in [Passes -> Tables]
  /\ todo \in [Passes -> SUBSET Tiers] /\ \A p \in Passes : todo[p] \subseteq Earned(mine[p])
  /\ tier \in [Passes -> Tiers \cup {None}]
  /\ listed \in [Passes -> {None, Failed} \cup SUBSET DOMAIN awards]
  /\ made \in [Passes -> DOMAIN awards \cup {NoID}]
TypeOK ==
  /\ AwardsType /\ rows \in Tables
  /\ LeaseType /\ at \in [Passes -> Labels] /\ MemoryType

\* "Awarding twice means two awards and two emails" (deliverAward): a tier is
\* awarded at most once, whatever answers were lost and wherever passes
\* crashed, as long as no two passes ran together.
AwardedOnce ==
  ~overlapped => \A t \in Tiers : Cardinality(Under(t, DOMAIN awards)) <= 1

\* An ID that is recorded and still stands for a live award is not lost track
\* of: nothing overwrites it, not even a pass that lost its lease
\* (transitionAward).
TrackedStaysTracked ==
  [][\A t \in Tiers : rows[t].id \in Live => rows'[t].id = rows[t].id]_vars

\* A recorded ID is an award of that very tier, even if passes overlap. The
\* top tier, once recorded as delivered, is on GitLab, and a superseded tier
\* is off it, as long as no two passes ran together (deliverAward,
\* supersedeAward, heldAwards.find).
RecordMatchesGitLab ==
  /\ \A t \in Tiers : rows[t].id # NoID => awards[rows[t].id].tier = t
  /\ ~overlapped => \A t \in Earned(rows) :
       /\ rows[t].status = "accepted" /\ t = topTier(rows) => rows[t].id \in Live
       /\ rows[t].status = "superseded" => Under(t, Live) = {}

\* "The one just made is a duplicate nothing would ever track" (deliverAward):
\* taking it back never takes off an award that is recorded, whether passes
\* overlap or not.
OnlyUntrackedTakenBack ==
  [][\A i \in Live \ Live' :
       (\E p \in Passes : at[p] = "take back" /\ made[p] = i) => \A t \in Tiers : rows[t].id # i]_vars

\* Once calls stop failing and tiers stop being earned, a user who takes part
\* comes to show their top tier and nothing else, and the rows say so
\* (ReconcileAwards), provided passes did not run together.
Delivered ==
  Earned(rows) # {} =>
    /\ \A t \in Earned(rows) : Settled(rows, t)
    /\ \E i \in Live : Live = {i} /\ rows[topTier(rows)].id = i
TopTierDelivered ==
  (<>[]participating /\ []~overlapped) => <>[]Delivered

=============================================================================
