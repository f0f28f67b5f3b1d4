----------------------------- MODULE AwardProofs -----------------------------
(***************************************************************************)
(* Theorems about award delivery, for any number of passes and tiers, and    *)
(* any number of failed calls, crashes and lapses of the lease.              *)
(***************************************************************************)
EXTENDS AwardDelivery, FiniteSetTheorems, SequenceTheorems, TLAPS

-----------------------------------------------------------------------------
(* The inductive invariant. *)

Lower(table, t) == \E o \in Earned(table) : t < o

\* What the award rows are like, and were like when a pass loaded them: tiers
\* are earned in order, a recorded ID is an award of that tier, and a tier
\* whose award was taken off, or was to be, is below another one.
Snapshot(table) ==
  /\ \E k \in 0 .. Top : Earned(table) = 1 .. k
  /\ \A t \in Tiers : table[t].id # NoID => awards[table[t].id].tier = t
  /\ \A t \in Tiers :
       \/ table[t].status = "superseded"
       \/ table[t].id # NoID /\ table[t].status # "accepted"
       => Lower(table, t)

Working(p)     == at[p] \notin {"idle", "select", "load"}
Delivering(p)  == at[p] \in {"award", "record", "adopt", "take back"}
Superseding(p) == at[p] \in {"revoke", "supersede"}
Holding(p)     == at[p] \in {"record", "adopt", "take back", "revoke"}

\* What a pass does follows from what it loaded; it lists nothing before.
Decided(p) ==
  /\ Earned(mine[p]) \subseteq Earned(rows)
  /\ \A t \in todo[p] : ~Lower(mine[p], t) => mine[p][t].id = NoID
  /\ Delivering(p) \/ Superseding(p) \/ at[p] = "fail" => tier[p] \in todo[p]
  /\ Delivering(p) => ~Lower(mine[p], tier[p])
  /\ Superseding(p) => Lower(mine[p], tier[p])
  /\ ~Working(p) => listed[p] = None
  /\ Holding(p) => made[p] \in DOMAIN awards /\ awards[made[p]].tier = tier[p]

Records == Snapshot(rows) /\ \A p \in Passes : Snapshot(mine[p]) /\ Decided(p)

\* A pass that runs alone: the rows it has not dealt with are as it loaded
\* them, its listing covers them, and it awards what GitLab never held.
Alone(p) ==
  /\ \A t \in todo[p] : rows[t] = mine[p][t]
  /\ \A i \in DOMAIN awards \ Live : Lower(mine[p], awards[i].tier)
  /\ listed[p] \notin {None, Failed} =>
       \A t \in todo[p] : at[p] = "next" \/ t # tier[p] => Under(t, Live) \subseteq listed[p]
  /\ at[p] = "award" => Under(tier[p], DOMAIN awards) = {}
  /\ at[p] = "supersede" => Under(tier[p], Live) = {}
  /\ at[p] # "take back"

OneRuns == \A p, q \in Passes : Running(p) /\ Running(q) => p = q

Once == \A i, j \in DOMAIN awards : awards[i].tier = awards[j].tier => i = j

Consistent ==
  /\ \A t \in Tiers : rows[t].status = "superseded" => Under(t, Live) = {}
  /\ \A t \in Tiers : rows[t].status = "accepted" /\ ~Lower(rows, t) => rows[t].id \in Live
  /\ \A i \in DOMAIN awards \ Live : Lower(rows, awards[i].tier)

Solo == ~overlapped => OneRuns /\ Once /\ Consistent /\ \A p \in Passes : Working(p) => Alone(p)

AwardInv == TypeOK /\ Records /\ Solo

-----------------------------------------------------------------------------
(* Facts about the model's operators. *)

\* The top tier is the last of those earned.
LEMMA TopTierIsTop ==
  ASSUME NEW table, NEW k \in 0 .. Top, Earned(table) = 1 .. k, k # 0
  PROVE  topTier(table) = k
<1>1. k \in Earned(table) /\ \A o \in Earned(table) : o <= k
  BY AwardAssumption
<1>2. topTier(table) \in Earned(table) /\ \A o \in Earned(table) : o <= topTier(table)
  BY <1>1 DEF topTier
<1> QED
  BY <1>1, <1>2, AwardAssumption

\* A tier earned is the top one, or lower than another: when they are earned in
\* order, not both.
LEMMA TopOrLower ==
  ASSUME NEW table, NEW t \in Earned(table), \E k \in 0 .. Top : Earned(table) = 1 .. k
  PROVE  t = topTier(table) <=> ~Lower(table, t)
<1>1. PICK k \in 0 .. Top : Earned(table) = 1 .. k
  OBVIOUS
<1>2. k \in Nat \ {0} /\ t \in 1 .. k
  BY <1>1, AwardAssumption
<1>3. topTier(table) = k
  BY <1>1, <1>2, TopTierIsTop
<1> QED
  BY <1>1, <1>2, <1>3 DEF Lower

\* GitLab forgets no award, nor what it was an award of.
AwardsGrow ==
  /\ DOMAIN awards \subseteq DOMAIN awards'
  /\ \A i \in DOMAIN awards : awards'[i].tier = awards[i].tier

\* GitLab numbers awards as it gives them.
LEMMA AwardsAreListed ==
  ASSUME AwardsType
  PROVE  /\ DOMAIN awards = 1 .. Len(awards) /\ Len(awards) \in Nat
         /\ \A i \in DOMAIN awards : awards[i] \in [tier : Tiers, revoked : BOOLEAN]
         /\ NoID \notin DOMAIN awards /\ Live \subseteq DOMAIN awards
<1>1. DOMAIN awards = 1 .. Len(awards) /\ Len(awards) \in Nat
  BY LenProperties DEF AwardsType
<1>2. \A i \in 1 .. Len(awards) : awards[i] \in [tier : Tiers, revoked : BOOLEAN]
  BY ElementOfSeq DEF AwardsType
<1> QED
  BY <1>1, <1>2 DEF NoID, Live

\* Awarding a tier adds an award that shows; revoking one takes it off the user.
LEMMA NewAwardAdds ==
  ASSUME AwardsType, NEW t \in Tiers, NewAward(t)
  PROVE  /\ AwardsType' /\ AwardsGrow
         /\ DOMAIN awards' = DOMAIN awards \cup {Len(awards')}
         /\ Len(awards') \notin DOMAIN awards /\ awards'[Len(awards')].tier = t
         /\ Live' = Live \cup {Len(awards')}
<1> DEFINE a == [tier |-> t, revoked |-> FALSE]
<1>1. a \in [tier : Tiers, revoked : BOOLEAN] /\ a.tier = t /\ ~a.revoked
  OBVIOUS
<1>2. awards' = Append(awards, a)
  BY DEF NewAward
<1> HIDE DEF a
<1>3. /\ awards' \in Seq([tier : Tiers, revoked : BOOLEAN]) /\ Len(awards') = Len(awards) + 1
      /\ \A i \in 1 .. Len(awards) : awards'[i] = awards[i]
      /\ awards'[Len(awards) + 1] = a
  BY <1>1, <1>2, AppendProperties DEF AwardsType
<1>4. AwardsType'
  BY <1>3 DEF AwardsType
<1>5. /\ DOMAIN awards = 1 .. Len(awards) /\ Len(awards) \in Nat
      /\ DOMAIN awards' = 1 .. Len(awards')
  BY <1>4, LenProperties DEF AwardsType
<1>6. DOMAIN awards' = DOMAIN awards \cup {Len(awards')} /\ Len(awards') \notin DOMAIN awards
  BY <1>3, <1>5
<1>7. AwardsGrow
  BY <1>3, <1>5, <1>6 DEF AwardsGrow
<1>8. Live' = Live \cup {Len(awards')}
  BY <1>1, <1>3, <1>5, <1>6 DEF Live
<1> QED
  BY <1>1, <1>3, <1>4, <1>6, <1>7, <1>8

LEMMA OffGitLabRevokes ==
  ASSUME AwardsType, NEW i \in DOMAIN awards, OffGitLab(i)
  PROVE  /\ AwardsType' /\ AwardsGrow
         /\ DOMAIN awards' = DOMAIN awards /\ Live' = Live \ {i}
<1>1. /\ DOMAIN awards' = DOMAIN awards
      /\ \A j \in DOMAIN awards : j # i => awards'[j] = awards[j]
      /\ awards'[i] = [awards[i] EXCEPT !.revoked = TRUE]
  BY DEF OffGitLab
<1>2. awards[i] \in [tier : Tiers, revoked : BOOLEAN]
  BY AwardsAreListed
<1>3. /\ awards'[i] \in [tier : Tiers, revoked : BOOLEAN]
      /\ awards'[i].tier = awards[i].tier
  BY <1>1, <1>2
<1>4. awards'[i].revoked
  BY <1>1, <1>2
<1>5. AwardsType'
  BY <1>1, <1>3, ExceptSeq DEF AwardsType, OffGitLab
<1>6. AwardsGrow
  BY <1>1, <1>3 DEF AwardsGrow
<1>7. Live' = Live \ {i}
  BY <1>1, <1>4 DEF Live
<1> QED
  BY <1>1, <1>5, <1>6, <1>7

\* What a step that leaves GitLab alone leaves as it was.
LEMMA UnchangedAwards ==
  UNCHANGED awards => (AwardsType => AwardsType') /\ AwardsGrow /\ Live' = Live
BY DEF AwardsType, AwardsGrow, Live

LEMMA GitLabKept ==
  ASSUME rows' = rows, awards' = awards
  PROVE  (Once => Once') /\ (Consistent => Consistent')
<1>1. Live' = Live
  BY UnchangedAwards
<1> QED
  BY <1>1, Zenon DEF Once, Consistent, Lower, Under

\* What a pass once read stays a table of awards that exist, as awards are only
\* added and revoked.
LEMMA TablesGrow == AwardsGrow => Tables \subseteq Tables'
BY DEF AwardsGrow, Tables

\* What was read of the rows holds on while awards are made and taken off.
LEMMA RowsKept ==
  ASSUME rows \in Tables, Snapshot(rows), rows' = rows, AwardsGrow
  PROVE  Snapshot(rows)'
<1>1. \A t \in Tiers : rows[t].id # NoID =>
        rows[t].id \in DOMAIN awards /\ awards'[rows[t].id].tier = t
  BY DEF Tables, Snapshot, AwardsGrow
<1> QED
  BY <1>1 DEF Snapshot, Lower

LEMMA MineKept ==
  ASSUME NEW q \in Passes, mine[q] \in Tables, Snapshot(mine[q]), mine'[q] = mine[q], AwardsGrow
  PROVE  Snapshot(mine[q])'
<1>1. \A t \in Tiers : mine[q][t].id # NoID =>
        mine[q][t].id \in DOMAIN awards /\ awards'[mine[q][t].id].tier = t
  BY DEF Tables, Snapshot, AwardsGrow
<1>2. Earned(mine'[q]) = Earned(mine[q]) /\ \A t \in Tiers : Lower(mine'[q], t) <=> Lower(mine[q], t)
  OBVIOUS
<1> QED
  BY <1>1, <1>2 DEF Snapshot, Lower

\* What a step does to other passes than the one that takes it.
LEMMA RecordsKept ==
  ASSUME TypeOK, NEW q \in Passes, Snapshot(mine[q]), Decided(q), AwardsGrow,
         Earned(rows) \subseteq Earned(rows'),
         at'[q] = at[q], mine'[q] = mine[q], todo'[q] = todo[q], tier'[q] = tier[q],
         listed'[q] = listed[q], made'[q] = made[q]
  PROVE  Snapshot(mine[q])' /\ Decided(q)'
<1>1. mine[q] \in Tables
  BY DEF TypeOK, MemoryType
<1>2. Earned(mine'[q]) = Earned(mine[q])
  OBVIOUS
<1>3. \A t \in Tiers : Lower(mine'[q], t) <=> Lower(mine[q], t)
  OBVIOUS
<1>4. Snapshot(mine[q])'
  BY <1>1, MineKept
<1>5. Decided(q)'
  BY <1>2, <1>3 DEF Decided, Working, Delivering, Superseding, Holding, AwardsGrow, Lower
<1> QED
  BY <1>4, <1>5

\* A pass that runs alone is the only one to consider.
LEMMA SoloKept ==
  ASSUME Solo, NEW p \in Passes, Running(p), overlapped' = overlapped,
         \A q \in Passes : q # p => at'[q] = at[q],
         ~overlapped => Once' /\ Consistent' /\ (Working(p)' => Alone(p)')
  PROVE  Solo'
<1> SUFFICES ASSUME ~overlapped
             PROVE  OneRuns' /\ \A q \in Passes : Working(q)' => Alone(q)'
  BY DEF Solo
<1>1. \A q \in Passes : q # p => at'[q] = "idle"
  BY DEF Solo, OneRuns, Running
<1>2. OneRuns'
  BY <1>1 DEF OneRuns, Running
<1>3. \A q \in Passes : Working(q)' => Alone(q)'
  BY <1>1 DEF Working
<1> QED
  BY <1>2, <1>3

\* The bound on faults, and the types of what surrounds the lease.
LEMMA FaultsCounted ==
  ASSUME LeaseType, UNCHANGED faults \/ Fault
  PROVE  faults' \in 0 .. MaxFaults
BY AwardAssumption DEF LeaseType, Fault

LEMMA LeaseKept ==
  ASSUME LeaseType, UNCHANGED faults \/ Fault,
         holder' = holder, standing' = standing, live' = live,
         participating' = participating, overlapped' = overlapped
  PROVE  LeaseType'
<1>1. faults' \in 0 .. MaxFaults
  BY FaultsCounted
<1> QED
  BY <1>1, Zenon DEF LeaseType

-----------------------------------------------------------------------------

\* The initial states satisfy the invariant, and (below) every action keeps it.
LEMMA InitCorrect == Init => AwardInv
<1> SUFFICES ASSUME Init PROVE AwardInv
  OBVIOUS
<1> DEFINE blank == [t \in Tiers |-> Absent]
<1>1. blank \in Tables /\ Earned(blank) = {} /\ \A t \in Tiers : blank[t].id = NoID /\ blank[t].status = "none"
  BY DEF Tables, Statuses, Absent, Earned
<1>2. Snapshot(blank)
  <2>1. 0 \in 0 .. Top /\ 1 .. 0 = {}
    BY AwardAssumption
  <2> QED
    BY <1>1, <2>1 DEF Snapshot
<1>3. rows = blank /\ \A p \in Passes : mine[p] = blank
  BY DEF Init
<1> HIDE DEF blank
<1>4. TypeOK
  <2>1. AwardsType
    BY EmptySeq DEF Init, AwardsType
  <2>2. LeaseType
    <3>1. 0 \in 0 .. MaxFaults
      BY AwardAssumption
    <3>2. live \in [Passes -> BOOLEAN]
      BY DEF Init
    <3> QED
      BY <3>1, <3>2, Zenon DEF Init, LeaseType
  <2>3. MemoryType
    BY <1>1, <1>3 DEF Init, MemoryType
  <2>4. at \in [Passes -> Labels]
    BY DEF Init, Labels
  <2> QED
    BY <1>1, <1>3, <2>1, <2>2, <2>3, <2>4 DEF TypeOK
<1>5. Records
  BY <1>1, <1>2, <1>3 DEF Init, Records, Decided, Working, Delivering, Superseding, Holding
<1>6. Solo
  <2>1. DOMAIN awards = {}
    BY EmptySeq DEF Init
  <2> QED
    BY <1>1, <1>3, <2>1 DEF Init, Solo, OneRuns, Running, Once, Consistent, Working
<1> QED
  BY <1>4, <1>5, <1>6 DEF AwardInv

-----------------------------------------------------------------------------
(* The lease, and the end of a pass. *)

\* Nothing is read but the lease.
LEMMA LeaseKeeps ==
  ASSUME AwardInv, LeaseType',
         UNCHANGED <<rows, awards, at, mine, todo, tier, listed, made, overlapped>>
  PROVE  AwardInv'
<1> USE DEF AwardInv
<1>0. /\ rows' = rows /\ awards' = awards /\ at' = at /\ mine' = mine /\ todo' = todo
      /\ tier' = tier /\ listed' = listed /\ made' = made /\ overlapped' = overlapped
  OBVIOUS
<1>1. TypeOK'
  <2>1. MemoryType'
    BY <1>0, Zenon DEF TypeOK, MemoryType, Tables
  <2> QED
    BY <1>0, <2>1 DEF TypeOK, AwardsType, Tables
<1>2. Records'
  <2>1. Snapshot(rows)'
    BY <1>0, Zenon DEF Records, Snapshot, Lower
  <2>2. ASSUME NEW q \in Passes PROVE Snapshot(mine[q])' /\ Decided(q)'
    BY <1>0, UnchangedAwards, RecordsKept DEF Records
  <2> QED
    BY <2>1, <2>2 DEF Records
<1>3. Solo'
  <2>1. Live' = Live
    BY <1>0 DEF Live
  <2>2. (OneRuns => OneRuns') /\ (Once => Once') /\ (Consistent => Consistent')
    BY <1>0, GitLabKept DEF OneRuns, Running
  <2>3. ASSUME NEW p \in Passes
        PROVE  (Alone(p) => Alone(p)') /\ (Working(p)' => Working(p))
    BY <1>0, <2>1, Zenon DEF Alone, Working, Lower, Under
  <2> QED
    BY <1>0, <2>2, <2>3 DEF Solo
<1> QED
  BY <1>1, <1>2, <1>3

\* A pass that ends forgets what it loaded, and leaves the rest as it is.
LEMMA ForgetKeeps ==
  ASSUME AwardInv, NEW p \in Passes, Running(p), Forget(p),
         holder' \in Passes \cup {None}, standing' \in BOOLEAN, UNCHANGED faults \/ Fault,
         UNCHANGED <<rows, awards, participating, overlapped>>
  PROVE  AwardInv'
<1> USE DEF AwardInv
<1> DEFINE blank == [t \in Tiers |-> Absent]
<1>0. /\ rows' = rows /\ awards' = awards /\ overlapped' = overlapped
      /\ at' = [at EXCEPT ![p] = "idle"] /\ live' = [live EXCEPT ![p] = FALSE]
      /\ mine' = [mine EXCEPT ![p] = blank] /\ todo' = [todo EXCEPT ![p] = {}]
      /\ tier' = [tier EXCEPT ![p] = None] /\ listed' = [listed EXCEPT ![p] = None]
      /\ made' = [made EXCEPT ![p] = NoID]
  BY DEF Forget, Goto
<1>1. blank \in Tables /\ Earned(blank) = {} /\ \A t \in Tiers : blank[t].id = NoID /\ blank[t].status = "none"
  BY DEF Tables, Statuses, Absent, Earned
<1> HIDE DEF blank
<1>2. AwardsGrow /\ Live' = Live /\ AwardsType' /\ Tables' = Tables
  BY <1>0, UnchangedAwards DEF TypeOK, Tables
<1>3. TypeOK'
  <2>1. LeaseType'
    <3>1. faults' \in 0 .. MaxFaults
      BY FaultsCounted DEF TypeOK
    <3>2. live' \in [Passes -> BOOLEAN]
      BY <1>0 DEF TypeOK, LeaseType
    <3> QED
      BY <3>1, <3>2, Zenon DEF TypeOK, LeaseType
  <2>2. MemoryType'
    BY <1>0, <1>1, <1>2 DEF TypeOK, MemoryType
  <2>3. at' \in [Passes -> Labels]
    BY <1>0 DEF TypeOK, Labels
  <2> QED
    BY <1>0, <1>2, <2>1, <2>2, <2>3 DEF TypeOK
<1>4. Records'
  <2>1. ASSUME NEW q \in Passes, q # p PROVE Snapshot(mine[q])' /\ Decided(q)'
    BY <1>0, <1>2, <2>1, RecordsKept DEF TypeOK, MemoryType, Records
  <2>2. mine'[p] = blank /\ todo'[p] = {} /\ at'[p] = "idle" /\ listed'[p] = None
    BY <1>0 DEF TypeOK, MemoryType
  <2>3. Snapshot(mine[p])'
    <3>1. 0 \in 0 .. Top /\ 1 .. 0 = {}
      BY AwardAssumption
    <3> QED
      BY <1>1, <2>2, <3>1 DEF Snapshot
  <2>4. Decided(p)'
    BY <1>1, <2>2 DEF Decided, Working, Delivering, Superseding, Holding
  <2>5. Snapshot(rows)'
    BY <1>0, Zenon DEF Records, Snapshot, Lower
  <2> QED
    BY <2>1, <2>3, <2>4, <2>5 DEF Records
<1>5. Solo'
  <2>1. ~Working(p)' /\ \A q \in Passes : q # p => at'[q] = at[q]
    BY <1>0 DEF TypeOK, Working
  <2>2. (Once => Once') /\ (Consistent => Consistent')
    BY <1>0, GitLabKept
  <2> QED
    BY <1>0, <2>1, <2>2, SoloKept DEF Solo
<1> QED
  BY <1>3, <1>4, <1>5

LEMMA ReleaseKeeps ==
  ASSUME AwardInv, NEW p \in Passes, Running(p), Release(p), UNCHANGED faults \/ Fault,
         UNCHANGED <<rows, awards, participating, overlapped>>
  PROVE  AwardInv'
<1>1. holder' \in Passes \cup {None}
  BY DEF Release, AwardInv, TypeOK, LeaseType
<1>2. standing' \in BOOLEAN
  BY Zenon DEF Release, AwardInv, TypeOK, LeaseType
<1> QED
  BY <1>1, <1>2, ForgetKeeps DEF Release

LEMMA ReturnKeeps ==
  ASSUME AwardInv, NEW p \in Passes, Return(p)
  PROVE  AwardInv'
<1>1. Running(p)
  BY DEF Return, Running
<1> QED
  BY <1>1, ReleaseKeeps DEF Return, shared

LEMMA CrashKeeps ==
  ASSUME AwardInv, NEW p \in Passes, Crash(p)
  PROVE  AwardInv'
<1>1. holder' \in Passes \cup {None}
  BY DEF Crash, lease, AwardInv, TypeOK, LeaseType
<1>2. standing' \in BOOLEAN
  BY Zenon DEF Crash, lease, AwardInv, TypeOK, LeaseType
<1> QED
  BY <1>1, <1>2, ForgetKeeps DEF Crash, shared

LEMMA ExpireKeeps == AwardInv /\ Expire => AwardInv'
<1> SUFFICES ASSUME AwardInv, Expire PROVE AwardInv'
  OBVIOUS
<1>1. faults' \in 0 .. MaxFaults
  BY FaultsCounted DEF Expire, AwardInv, TypeOK, LeaseType
<1>2. LeaseType'
  BY <1>1, Zenon DEF Expire, shared, AwardInv, TypeOK, LeaseType
<1> QED
  BY <1>2, LeaseKeeps DEF Expire, shared, memory

LEMMA RenewKeeps ==
  ASSUME AwardInv, NEW p \in Passes, Renew(p) \/ GiveUpLease(p)
  PROVE  AwardInv'
<1>1. live' \in [Passes -> BOOLEAN]
  BY DEF Renew, GiveUpLease, AwardInv, TypeOK, LeaseType
<1>2. standing' \in BOOLEAN
  BY Zenon DEF Renew, GiveUpLease, lease, AwardInv, TypeOK, LeaseType
<1>3. LeaseType'
  BY <1>1, <1>2, Zenon DEF Renew, GiveUpLease, shared, lease, AwardInv, TypeOK, LeaseType
<1> QED
  BY <1>3, LeaseKeeps DEF Renew, GiveUpLease, shared, memory

LEMMA ParticipateKeeps == AwardInv /\ Participate => AwardInv'
<1> SUFFICES ASSUME AwardInv, Participate PROVE AwardInv'
  OBVIOUS
<1>1. LeaseType'
  BY Zenon DEF Participate, lease, progress, AwardInv, TypeOK, LeaseType
<1> QED
  BY <1>1, LeaseKeeps DEF Participate, progress, memory

\* The label of a pass that has not loaded anything.
LEMMA GotoStart ==
  ASSUME AwardInv, NEW p \in Passes, NEW label \in {"select", "load"}, Goto(p, label),
         ~Working(p), LeaseType', UNCHANGED <<rows, awards, mine, todo, tier, listed, made>>,
         overlapped \/ overlapped' \/ ~\E q \in Passes : Running(q) /\ q # p,
         overlapped => overlapped'
  PROVE  AwardInv'
<1> USE DEF AwardInv
<1>0. /\ rows' = rows /\ awards' = awards /\ mine' = mine /\ todo' = todo
      /\ tier' = tier /\ listed' = listed /\ made' = made
      /\ at' = [at EXCEPT ![p] = label]
  BY DEF Goto
<1>1. AwardsGrow /\ Live' = Live
  BY <1>0, UnchangedAwards
<1>2. TypeOK'
  <2>1. MemoryType'
    BY <1>0, Zenon DEF TypeOK, MemoryType, Tables
  <2>2. at' \in [Passes -> Labels]
    BY <1>0 DEF TypeOK, Labels
  <2> QED
    BY <1>0, <2>1, <2>2 DEF TypeOK, AwardsType, Tables
<1>3. Records'
  <2>1. Snapshot(rows)'
    BY <1>0, Zenon DEF Records, Snapshot, Lower
  <2>2. ASSUME NEW q \in Passes, q # p PROVE Snapshot(mine[q])' /\ Decided(q)'
    BY <1>0, <1>1, <2>2, RecordsKept DEF TypeOK, Records
  <2>0. Snapshot(mine[p]) /\ Decided(p)
    BY DEF Records
  <2>3. Snapshot(mine[p])'
    BY <1>0, <2>0, Zenon DEF Snapshot, Lower
  <2>4. Decided(p)'
    <3>1. at'[p] = label
      BY <1>0 DEF TypeOK
    <3>2. (\A t \in todo[p] : ~Lower(mine[p], t) => mine[p][t].id = NoID)'
      BY <1>0, <2>0, Zenon DEF Decided, Lower
    <3> QED
      BY <1>0, <3>1, <3>2 DEF Records, Decided, Working, Delivering, Superseding, Holding
  <2> QED
    BY <2>1, <2>2, <2>3, <2>4 DEF Records
<1>4. Solo'
  <2> SUFFICES ASSUME ~overlapped'
               PROVE  OneRuns' /\ Once' /\ Consistent' /\ \A q \in Passes : ~Working(q)'
    BY DEF Solo
  <2>1. \A q \in Passes : q # p => at'[q] = "idle"
    BY <1>0 DEF TypeOK, Running
  <2>2. at'[p] = label
    BY <1>0 DEF TypeOK
  <2>3. OneRuns' /\ \A q \in Passes : ~Working(q)'
    BY <2>1, <2>2 DEF OneRuns, Running, Working
  <2>4. Once /\ Consistent
    BY DEF Solo
  <2>5. Once' /\ Consistent'
    BY <1>0, <2>4, GitLabKept
  <2> QED
    BY <2>3, <2>5
<1> QED
  BY <1>2, <1>3, <1>4

LEMMA AcquireKeeps ==
  ASSUME AwardInv, NEW p \in Passes, Acquire(p)
  PROVE  AwardInv'
<1>1. live' \in [Passes -> BOOLEAN]
  BY DEF Acquire, AwardInv, TypeOK, LeaseType
<1>2. overlapped' \in BOOLEAN
  BY DEF Acquire
<1>3. LeaseType'
  BY <1>1, <1>2, Zenon DEF Acquire, shared, AwardInv, TypeOK, LeaseType
<1>4. Goto(p, "select") /\ ~Working(p)
  BY DEF Acquire, Goto, Working
<1> QED
  BY <1>3, <1>4, GotoStart DEF Acquire, shared, memory

LEMMA SelectUsersKeeps ==
  ASSUME AwardInv, NEW p \in Passes, SelectUsers(p)
  PROVE  AwardInv'
<1>1. CASE Goto(p, "load") /\ UNCHANGED <<lease, live, memory>>
  <2>1. LeaseType'
    BY <1>1, LeaseKept DEF SelectUsers, lease, shared, AwardInv, TypeOK
  <2>2. ~Working(p) /\ Running(p)
    BY DEF SelectUsers, Working, Running
  <2>3. overlapped \/ ~\E q \in Passes : Running(q) /\ q # p
    BY <2>2 DEF AwardInv, Solo, OneRuns
  <2> QED
    BY <1>1, <2>1, <2>2, <2>3, GotoStart DEF SelectUsers, shared, memory
<1>2. CASE Release(p)
  <2>1. Running(p)
    BY DEF SelectUsers, Running
  <2> QED
    BY <1>2, <2>1, ReleaseKeeps DEF SelectUsers, shared
<1> QED
  BY <1>1, <1>2 DEF SelectUsers

-----------------------------------------------------------------------------
(* The pass. *)

\* What is left to show of a step that a pass takes within its run.
LEMMA PassKeeps ==
  ASSUME AwardInv, NEW p \in Passes, Running(p), overlapped' = overlapped,
         \A q \in Passes : q # p =>
           /\ at'[q] = at[q] /\ mine'[q] = mine[q] /\ todo'[q] = todo[q]
           /\ tier'[q] = tier[q] /\ listed'[q] = listed[q] /\ made'[q] = made[q],
         AwardsGrow, Earned(rows) \subseteq Earned(rows'),
         TypeOK', Snapshot(rows)', Snapshot(mine[p])', Decided(p)',
         ~overlapped => Once' /\ Consistent' /\ (Working(p)' => Alone(p)')
  PROVE  AwardInv'
<1> USE DEF AwardInv
<1>1. ASSUME NEW q \in Passes, q # p PROVE Snapshot(mine[q])' /\ Decided(q)'
  BY <1>1, RecordsKept DEF Records
<1>2. Records'
  BY <1>1 DEF Records
<1>3. Solo'
  BY SoloKept
<1> QED
  BY <1>2, <1>3

LEMMA LoadAwardsKeeps ==
  ASSUME AwardInv, NEW p \in Passes, LoadAwards(p)
  PROVE  AwardInv'
<1> USE DEF AwardInv
<1>1. CASE live[p]
  <2> DEFINE left == {t \in Earned(rows) : ~Settled(rows, t)}
  <2>0. /\ rows' = rows /\ awards' = awards /\ overlapped' = overlapped /\ tier' = tier
        /\ listed' = listed /\ made' = made /\ at' = [at EXCEPT ![p] = "next"]
        /\ mine' = [mine EXCEPT ![p] = rows] /\ todo' = [todo EXCEPT ![p] = left]
        /\ at[p] = "load"
    BY <1>1 DEF LoadAwards, Goto, shared
  <2>1. left \subseteq Earned(rows) /\ left \subseteq Tiers
    BY DEF Earned
  <2>2. \A t \in left : ~Lower(rows, t) => rows[t].id = NoID
    BY <2>1, TopOrLower DEF Records, Snapshot, Settled
  <2> HIDE DEF left
  <2>3. AwardsGrow /\ Live' = Live /\ AwardsType' /\ Tables' = Tables
    BY <2>0, UnchangedAwards DEF TypeOK, Tables
  <2>4. /\ at'[p] = "next" /\ mine'[p] = rows /\ todo'[p] = left
        /\ \A q \in Passes : q # p => at'[q] = at[q] /\ mine'[q] = mine[q] /\ todo'[q] = todo[q]
    BY <2>0 DEF TypeOK, MemoryType
  <2>5. TypeOK'
    <3>1. LeaseType'
      BY <1>1, LeaseKept DEF LoadAwards, shared, lease, TypeOK
    <3>2. MemoryType'
      BY <2>0, <2>1, <2>3, <2>4 DEF TypeOK, MemoryType
    <3>3. at' \in [Passes -> Labels]
      BY <2>0 DEF TypeOK, Labels
    <3> QED
      BY <2>0, <2>3, <3>1, <3>2, <3>3 DEF TypeOK
  <2>6. Snapshot(rows)' /\ Snapshot(mine[p])'
    <3>1. Snapshot(rows)'
      BY <2>0, Zenon DEF Records, Snapshot, Lower
    <3> QED
      BY <2>0, <2>4, <3>1, Zenon DEF Snapshot, Lower
  <2>7. Decided(p)'
    <3>1. \A t \in Tiers : Lower(mine'[p], t) <=> Lower(rows, t)
      BY <2>4
    <3> QED
      BY <2>0, <2>2, <2>4, <3>1 DEF Decided, Working, Delivering, Superseding, Holding, Lower
  <2>8. ASSUME ~overlapped PROVE Once' /\ Consistent' /\ Alone(p)'
    <3>1. Once /\ Consistent
      BY <2>8 DEF Solo
    <3>2. Once' /\ Consistent'
      BY <2>0, <3>1, GitLabKept
    <3>3. \A i \in DOMAIN awards \ Live : Lower(rows, awards[i].tier)
      BY <3>1 DEF Consistent
    <3>4. Alone(p)'
      <4>1. listed'[p] = None
        BY <2>0 DEF Records, Decided, Working
      <4> QED
        BY <2>0, <2>3, <2>4, <3>3, <4>1 DEF Alone, Lower
    <3> QED
      BY <3>2, <3>4
  <2>9. Running(p)
    BY <2>0 DEF Running
  <2> QED
    BY <2>0, <2>3, <2>4, <2>5, <2>6, <2>7, <2>8, <2>9, PassKeeps
<1>2. CASE ~live[p]
  <2>1. Release(p) /\ Running(p)
    BY <1>2 DEF LoadAwards, Running
  <2> QED
    BY <2>1, ReleaseKeeps DEF LoadAwards, shared
<1> QED
  BY <1>1, <1>2

\* A step in which a pass only decides: it writes no row and changes nothing
\* at GitLab.
LEMMA DecideKeeps ==
  ASSUME AwardInv, NEW p \in Passes, Working(p),
         UNCHANGED <<rows, awards, mine, todo, overlapped>>, LeaseType',
         at' \in [Passes -> Labels], tier' \in [Passes -> Tiers \cup {None}],
         listed' \in [Passes -> {None, Failed} \cup SUBSET DOMAIN awards],
         made' \in [Passes -> DOMAIN awards \cup {NoID}],
         \A q \in Passes : q # p =>
           at'[q] = at[q] /\ tier'[q] = tier[q] /\ listed'[q] = listed[q] /\ made'[q] = made[q],
         Decided(p)', ~overlapped => Alone(p)'
  PROVE  AwardInv'
<1> USE DEF AwardInv
<1>0. rows' = rows /\ awards' = awards /\ mine' = mine /\ todo' = todo /\ overlapped' = overlapped
  OBVIOUS
<1>1. AwardsGrow /\ Live' = Live /\ AwardsType' /\ Tables' = Tables
  BY <1>0, UnchangedAwards DEF TypeOK, Tables
<1>2. TypeOK'
  BY <1>0, <1>1 DEF TypeOK, MemoryType
<1>3. Snapshot(rows)'
  BY <1>0, Zenon DEF Records, Snapshot, Lower
<1>4. Snapshot(mine[p])'
  <2>1. Snapshot(mine[p])
    BY DEF Records
  <2> QED
    BY <1>0, <2>1, Zenon DEF Snapshot, Lower
<1>5. ASSUME ~overlapped PROVE Once' /\ Consistent'
  <2>1. Once /\ Consistent
    BY <1>5 DEF Solo
  <2> QED
    BY <1>0, <2>1, GitLabKept
<1>6. Running(p)
  BY DEF Working, Running
<1> QED
  BY <1>0, <1>1, <1>2, <1>3, <1>4, <1>5, <1>6, PassKeeps

LEMMA ListHeldKeeps ==
  ASSUME AwardInv, NEW p \in Passes, ListHeld(p)
  PROVE  AwardInv'
<1> USE DEF AwardInv
<1>0. /\ UNCHANGED <<rows, awards, participating, holder, standing, live, at>>
      /\ UNCHANGED <<mine, todo, tier, made, overlapped>> /\ at[p] = "next"
      /\ UNCHANGED faults \/ Fault
  BY DEF ListHeld, Refused, shared, lease, progress
<1>1. PICK l \in {Live, Failed} : listed' = [listed EXCEPT ![p] = l]
  BY DEF ListHeld
<1>2. Live \subseteq DOMAIN awards
  BY AwardsAreListed DEF TypeOK
<1>3. listed' \in [Passes -> {None, Failed} \cup SUBSET DOMAIN awards] /\ listed'[p] = l
  BY <1>1, <1>2 DEF TypeOK, MemoryType
<1>4. LeaseType'
  BY <1>0, LeaseKept DEF TypeOK
<1>5. Decided(p)'
  <2>1. Decided(p)
    BY DEF Records
  <2> QED
    BY <1>0, <2>1 DEF Decided, Working, Delivering, Superseding, Holding, Lower
<1>6. ASSUME ~overlapped PROVE Alone(p)'
  <2>1. Alone(p)
    BY <1>0, <1>6 DEF Solo, Working
  <2>2. (\A i \in DOMAIN awards \ Live : Lower(mine[p], awards[i].tier))'
    BY <1>0, <2>1, UnchangedAwards, Zenon DEF Alone, Lower
  <2>3. (listed[p] \notin {None, Failed} =>
          \A t \in todo[p] : at[p] = "next" \/ t # tier[p] => Under(t, Live) \subseteq listed[p])'
    BY <1>0, <1>3, UnchangedAwards DEF Under
  <2> QED
    BY <1>0, <2>1, <2>2, <2>3 DEF Alone
<1>7. Working(p)
  BY <1>0 DEF Working
<1>8. \A q \in Passes : q # p => listed'[q] = listed[q]
  BY <1>1 DEF TypeOK, MemoryType
<1> QED
  BY <1>0, <1>3, <1>4, <1>5, <1>6, <1>7, <1>8, DecideKeeps DEF TypeOK, MemoryType

\* Taking up a tier.
LEMMA TakeKeeps ==
  ASSUME AwardInv, NEW p \in Passes, NEW t \in Tiers, Take(p, t),
         NEW label \in {"award", "adopt", "revoke", "supersede", "fail"},
         NEW i \in DOMAIN awards \cup {NoID},
         Goto(p, label), made' = [made EXCEPT ![p] = i],
         label \in {"award", "adopt"} => ~Lower(mine[p], t),
         label \in {"revoke", "supersede"} => Lower(mine[p], t),
         label \in {"adopt", "revoke"} => i \in DOMAIN awards /\ awards[i].tier = t,
         ~overlapped /\ label = "award" => Under(t, DOMAIN awards) = {},
         ~overlapped /\ label = "supersede" => Under(t, Live) = {}
  PROVE  AwardInv'
<1> USE DEF AwardInv
<1>0. /\ UNCHANGED <<rows, awards, participating, holder, standing, live>>
      /\ UNCHANGED <<mine, todo, listed, faults, overlapped>>
      /\ at[p] = "next" /\ t \in todo[p]
      /\ tier' = [tier EXCEPT ![p] = t] /\ at' = [at EXCEPT ![p] = label]
  BY DEF Take, Goto, shared, lease
<1>1. /\ tier' \in [Passes -> Tiers \cup {None}] /\ tier'[p] = t
      /\ at' \in [Passes -> Labels] /\ at'[p] = label
      /\ made' \in [Passes -> DOMAIN awards \cup {NoID}] /\ made'[p] = i
      /\ \A q \in Passes : q # p => at'[q] = at[q] /\ tier'[q] = tier[q] /\ made'[q] = made[q]
  BY <1>0 DEF TypeOK, MemoryType, Labels
<1>2. LeaseType'
  BY <1>0, LeaseKept DEF TypeOK
<1>3. Decided(p)'
  <2>1. Decided(p)
    BY DEF Records
  <2> QED
    BY <1>0, <1>1, <2>1 DEF Decided, Working, Delivering, Superseding, Holding, Lower
<1>4. ASSUME ~overlapped PROVE Alone(p)'
  <2>1. Alone(p)
    BY <1>0, <1>4 DEF Solo, Working
  <2>2. (\A j \in DOMAIN awards \ Live : Lower(mine[p], awards[j].tier))'
    BY <1>0, <2>1, UnchangedAwards, Zenon DEF Alone, Lower
  <2>3. (listed[p] \notin {None, Failed} =>
          \A o \in todo[p] : at[p] = "next" \/ o # tier[p] => Under(o, Live) \subseteq listed[p])'
    BY <1>0, <2>1, UnchangedAwards DEF Alone, Under
  <2>4. (at[p] = "award" => Under(tier[p], DOMAIN awards) = {})'
    BY <1>0, <1>1, <1>4 DEF Under
  <2>5. (at[p] = "supersede" => Under(tier[p], Live) = {})'
    BY <1>0, <1>1, <1>4, UnchangedAwards DEF Under
  <2> QED
    BY <1>0, <1>1, <2>1, <2>2, <2>3, <2>4, <2>5 DEF Alone
<1>5. Working(p)
  BY <1>0 DEF Working
<1> QED
  BY <1>0, <1>1, <1>2, <1>3, <1>4, <1>5, DecideKeeps DEF TypeOK, MemoryType

LEMMA DeliverKeeps ==
  ASSUME AwardInv, NEW p \in Passes, NEW t \in Tiers, Deliver(p, t)
  PROVE  AwardInv'
<1> USE DEF AwardInv
<1>0. Take(p, t) /\ t \in todo[p] /\ at[p] = "next" /\ listed[p] # None
  BY DEF Deliver, Take
<1>1. ~Lower(mine[p], t)
  <2>1. t \in Earned(mine[p]) /\ t = topTier(mine[p])
    BY <1>0 DEF Deliver, TypeOK, MemoryType
  <2> QED
    BY <2>1, TopOrLower DEF Records, Snapshot
<1>2. made[p] \in DOMAIN awards \cup {NoID} /\ made = [made EXCEPT ![p] = made[p]]
  BY DEF TypeOK, MemoryType
<1>3. CASE listed[p] = Failed
  BY <1>0, <1>2, <1>3, TakeKeeps DEF Deliver
<1>4. CASE listed[p] # Failed /\ Under(t, listed[p]) = {}
  <2>1. ASSUME ~overlapped PROVE Under(t, DOMAIN awards) = {}
    <3>1. Alone(p)
      BY <1>0, <2>1 DEF Solo, Working
    <3>2. Under(t, Live) = {}
      BY <1>0, <1>4, <3>1 DEF Alone, Under
    <3>3. \A i \in DOMAIN awards \ Live : awards[i].tier # t
      BY <1>1, <3>1 DEF Alone
    <3> QED
      BY <3>2, <3>3 DEF Under
  <2> QED
    BY <1>0, <1>1, <1>2, <1>4, <2>1, TakeKeeps DEF Deliver
<1>5. CASE listed[p] # Failed /\ Under(t, listed[p]) # {}
  <2>1. PICK i \in Under(t, listed[p]) : made' = [made EXCEPT ![p] = i] /\ Goto(p, "adopt")
    BY <1>5 DEF Deliver
  <2>2. i \in DOMAIN awards /\ awards[i].tier = t
    BY <1>0, <1>5 DEF TypeOK, MemoryType, Under
  <2> QED
    BY <1>0, <1>1, <2>1, <2>2, TakeKeeps
<1> QED
  BY <1>3, <1>4, <1>5

LEMMA SupersedeKeeps ==
  ASSUME AwardInv, NEW p \in Passes, NEW t \in Tiers, Supersede(p, t)
  PROVE  AwardInv'
<1> USE DEF AwardInv
<1> DEFINE found == heldUnderAward(mine[p][t], t, listed[p])
<1>0. Take(p, t) /\ t \in todo[p] /\ at[p] = "next" /\ listed[p] # None
  BY DEF Supersede, Take
<1>1. Lower(mine[p], t)
  <2>1. t \in Earned(mine[p]) /\ t # topTier(mine[p])
    BY <1>0 DEF Supersede, TypeOK, MemoryType
  <2> QED
    BY <2>1, TopOrLower DEF Records, Snapshot
<1>2. made[p] \in DOMAIN awards \cup {NoID} /\ made = [made EXCEPT ![p] = made[p]]
  BY DEF TypeOK, MemoryType
<1>3. CASE listed[p] = Failed
  BY <1>0, <1>2, <1>3, TakeKeeps DEF Supersede
<1>4. CASE listed[p] # Failed
  <2>1. listed[p] \subseteq DOMAIN awards
    BY <1>0, <1>4 DEF TypeOK, MemoryType
  <2>2. \A j \in found : j \in DOMAIN awards /\ awards[j].tier = t
    BY <2>1 DEF heldUnderAward, Under, Records, Snapshot
  <2>3. CASE found = {}
    <3>1. ASSUME ~overlapped PROVE Under(t, Live) = {}
      <4>1. Alone(p) /\ Once
        BY <1>0, <3>1 DEF Solo, Working
      <4>2. Under(t, Live) \subseteq listed[p]
        BY <1>0, <1>4, <4>1 DEF Alone
      <4>3. CASE mine[p][t].id = NoID
        BY <2>3, <4>2, <4>3 DEF heldUnderAward, Under
      <4>4. CASE mine[p][t].id # NoID
        <5>1. mine[p][t].id \in DOMAIN awards /\ awards[mine[p][t].id].tier = t
          BY <4>4 DEF TypeOK, MemoryType, Tables, Records, Snapshot
        <5>2. \A j \in Under(t, Live) : j = mine[p][t].id
          BY <4>1, <5>1 DEF Once, Under, Live
        <5> QED
          BY <2>3, <4>2, <4>4, <5>2 DEF heldUnderAward
      <4> QED
        BY <4>3, <4>4
    <3>2. Goto(p, "supersede") /\ UNCHANGED made
      BY <1>4, <2>3 DEF Supersede
    <3> QED
      BY <1>0, <1>1, <1>2, <3>1, <3>2, TakeKeeps
  <2>4. CASE found # {}
    <3>1. PICK i \in found : made' = [made EXCEPT ![p] = i] /\ Goto(p, "revoke")
      BY <1>4, <2>4 DEF Supersede
    <3> QED
      BY <1>0, <1>1, <2>2, <3>1, TakeKeeps
  <2> QED
    BY <2>3, <2>4
<1> QED
  BY <1>3, <1>4

\* An award made, whether or not the pass is told.
LEMMA MakeKeeps ==
  ASSUME AwardInv, NEW p \in Passes, NEW label \in {"record", "fail"}, at[p] = "award",
         NewAward(tier[p]), Goto(p, label), UNCHANGED faults \/ Fault,
         made' = [made EXCEPT ![p] = Len(awards')] \/ (label = "fail" /\ UNCHANGED made),
         UNCHANGED <<rows, participating, lease, live, mine, todo, tier, listed, overlapped>>
  PROVE  AwardInv'
<1> USE DEF AwardInv
<1>0. /\ rows' = rows /\ mine' = mine /\ todo' = todo /\ tier' = tier /\ listed' = listed
      /\ overlapped' = overlapped /\ at' = [at EXCEPT ![p] = label]
  BY DEF Goto
<1>1. Decided(p) /\ Snapshot(rows) /\ Snapshot(mine[p])
  BY DEF Records
<1>2. tier[p] \in todo[p] /\ tier[p] \in Tiers /\ ~Lower(mine[p], tier[p])
  BY <1>1 DEF Decided, Delivering, TypeOK, MemoryType
<1>3. /\ AwardsType' /\ AwardsGrow /\ DOMAIN awards' = DOMAIN awards \cup {Len(awards')}
      /\ Len(awards') \notin DOMAIN awards /\ awards'[Len(awards')].tier = tier[p]
      /\ Live' = Live \cup {Len(awards')}
  BY <1>2, NewAwardAdds DEF TypeOK
<1>4. Tables \subseteq Tables'
  BY <1>3, TablesGrow
<1>5. made' \in [Passes -> DOMAIN awards' \cup {NoID}] /\ (label = "record" => made'[p] = Len(awards'))
  BY <1>3 DEF TypeOK, MemoryType
<1>6. at' \in [Passes -> Labels] /\ at'[p] = label
  BY <1>0 DEF TypeOK, Labels
<1>7. TypeOK'
  <2>1. LeaseType'
    BY LeaseKept DEF lease, TypeOK
  <2>2. MemoryType'
    <3>1. mine' \in [Passes -> Tables'] /\ todo' \in [Passes -> SUBSET Tiers] /\ tier' \in [Passes -> Tiers \cup {None}]
      BY <1>0, <1>4 DEF TypeOK, MemoryType
    <3>2. \A q \in Passes : todo'[q] \subseteq Earned(mine[q])
      BY <1>0 DEF TypeOK, MemoryType
    <3>3. listed' \in [Passes -> {None, Failed} \cup SUBSET DOMAIN awards']
      <4>1. {None, Failed} \cup SUBSET DOMAIN awards \subseteq {None, Failed} \cup SUBSET DOMAIN awards'
        BY <1>3, Zenon
      <4> QED BY <1>0, <4>1 DEF TypeOK, MemoryType
    <3> QED
      BY <1>0, <1>5, <3>1, <3>2, <3>3 DEF MemoryType
  <2> QED
    BY <1>0, <1>3, <1>4, <1>6, <2>1, <2>2 DEF TypeOK
<1>8. Snapshot(rows)' /\ Snapshot(mine[p])'
  BY <1>0, <1>1, <1>3, RowsKept, MineKept DEF TypeOK, MemoryType
<1>9. Decided(p)'
  BY <1>0, <1>1, <1>2, <1>3, <1>5, <1>6
     DEF Decided, Working, Delivering, Superseding, Holding, Lower
<1>10. ASSUME ~overlapped PROVE Once' /\ Consistent' /\ Alone(p)'
  <2>1. Once /\ Consistent /\ Alone(p) /\ Under(tier[p], DOMAIN awards) = {}
    BY <1>10 DEF Solo, Working, Alone
  <2>2. \A i \in DOMAIN awards : awards'[i].tier = awards[i].tier /\ awards[i].tier # tier[p]
    BY <1>3, <2>1 DEF AwardsGrow, Under
  <2>3. Once'
    BY <1>3, <2>1, <2>2 DEF Once
  <2>4. rows[tier[p]].status # "superseded"
    BY <1>1, <1>2, <2>1 DEF Alone, Snapshot
  <2>5. DOMAIN awards' \ Live' = DOMAIN awards \ Live
    BY <1>3
  <2>6. \A o \in Tiers : o # tier[p] => Under(o, Live)' = Under(o, Live)
    BY <1>3, <2>2, AwardsAreListed DEF Under, TypeOK
  <2>7. \A t \in Tiers : Lower(rows, t)' <=> Lower(rows, t)
    BY <1>0 DEF Lower
  <2>8. Consistent'
    <3>1. (\A t \in Tiers : rows[t].status = "superseded" => Under(t, Live) = {})'
      BY <1>0, <2>1, <2>4, <2>6 DEF Consistent
    <3>2. (\A t \in Tiers : rows[t].status = "accepted" /\ ~Lower(rows, t) => rows[t].id \in Live)'
      BY <1>0, <1>3, <2>1, <2>7 DEF Consistent
    <3>3. (\A i \in DOMAIN awards \ Live : Lower(rows, awards[i].tier))'
      BY <1>0, <2>1, <2>2, <2>5 DEF Consistent, Lower
    <3> QED
      BY <3>1, <3>2, <3>3 DEF Consistent
  <2>9. Alone(p)'
    <3>1. (\A i \in DOMAIN awards \ Live : Lower(mine[p], awards[i].tier))'
      BY <1>0, <2>1, <2>2, <2>5 DEF Alone, Lower
    <3>2. (\A t \in todo[p] : t # tier[p] => Under(t, Live) \subseteq listed[p])'
           \/ listed[p] \in {None, Failed}
      BY <1>0, <2>1, <2>6 DEF Alone, TypeOK, MemoryType
    <3> QED
      BY <1>0, <1>6, <2>1, <3>1, <3>2 DEF Alone
  <2> QED
    BY <2>3, <2>8, <2>9
<1>11. Running(p) /\ \A q \in Passes : q # p => at'[q] = at[q] /\ made'[q] = made[q]
  BY <1>0 DEF Running, TypeOK, MemoryType
<1> QED
  BY <1>0, <1>3, <1>7, <1>8, <1>9, <1>10, <1>11, PassKeeps

\* A call that is refused changes nothing but the label.
LEMMA RefusedKeeps ==
  ASSUME AwardInv, NEW p \in Passes, at[p] \in {"award", "revoke"}, Goto(p, "fail"),
         UNCHANGED faults \/ Fault,
         UNCHANGED <<shared, lease, live, memory, overlapped>>
  PROVE  AwardInv'
<1> USE DEF AwardInv
<1>0. /\ UNCHANGED <<rows, awards, participating, holder, standing, live, mine, todo>>
      /\ UNCHANGED <<tier, listed, made, overlapped>> /\ at' = [at EXCEPT ![p] = "fail"]
  BY DEF shared, lease, memory, Goto
<1>1. /\ at' \in [Passes -> Labels] /\ at'[p] = "fail"
      /\ \A q \in Passes : q # p => at'[q] = at[q]
  BY <1>0 DEF TypeOK, Labels
<1>2. LeaseType'
  BY <1>0, LeaseKept DEF TypeOK
<1>3. Decided(p)'
  BY <1>0, <1>1 DEF Records, Decided, Working, Delivering, Superseding, Holding, Lower
<1>4. Working(p)
  BY DEF Working
<1>5. ASSUME ~overlapped PROVE Alone(p)'
  <2>1. Alone(p)
    BY <1>4, <1>5 DEF Solo
  <2>2. (\A j \in DOMAIN awards \ Live : Lower(mine[p], awards[j].tier))'
    BY <1>0, <2>1, UnchangedAwards, Zenon DEF Alone, Lower
  <2>3. (listed[p] \notin {None, Failed} =>
          \A o \in todo[p] : at[p] = "next" \/ o # tier[p] => Under(o, Live) \subseteq listed[p])'
    BY <1>0, <1>1, <2>1, UnchangedAwards DEF Alone, Under
  <2> QED
    BY <1>0, <1>1, <2>1, <2>2, <2>3 DEF Alone
<1> QED
  BY <1>0, <1>1, <1>2, <1>3, <1>4, <1>5, DecideKeeps DEF TypeOK, MemoryType

LEMMA AwardTierKeeps ==
  ASSUME AwardInv, NEW p \in Passes, AwardTier(p)
  PROVE  AwardInv'
<1>1. CASE /\ NewAward(tier[p]) /\ Goto(p, "record") /\ UNCHANGED faults
           /\ made' = [made EXCEPT ![p] = Len(awards')]
  BY <1>1, MakeKeeps DEF AwardTier
<1>2. CASE Fault /\ NewAward(tier[p]) /\ Goto(p, "fail") /\ UNCHANGED made
  BY <1>2, MakeKeeps DEF AwardTier
<1>3. CASE Refused(p) /\ Goto(p, "fail") /\ UNCHANGED <<awards, made>>
  BY <1>3, RefusedKeeps DEF AwardTier, Refused, shared, memory
<1> QED
  BY <1>1, <1>2, <1>3 DEF AwardTier

\* The end of what a pass does about a tier.
LEMMA DoneKeeps ==
  ASSUME AwardInv, NEW p \in Passes, Working(p), Done(p), UNCHANGED faults \/ Fault,
         UNCHANGED <<participating, lease, live, mine, listed, overlapped>>,
         AwardsType', AwardsGrow, rows' \in Tables', Snapshot(rows)',
         Earned(rows) \subseteq Earned(rows'),
         \A t \in Tiers : t # tier[p] => rows'[t] = rows[t],
         ~overlapped => awards' = awards /\ Consistent'
  PROVE  AwardInv'
<1> USE DEF AwardInv
<1>0. /\ mine' = mine /\ listed' = listed /\ overlapped' = overlapped
      /\ at' = [at EXCEPT ![p] = "next"] /\ todo' = [todo EXCEPT ![p] = @ \ {tier[p]}]
      /\ tier' = [tier EXCEPT ![p] = None] /\ made' = [made EXCEPT ![p] = NoID]
  BY DEF Done, Goto
<1>1. /\ at'[p] = "next" /\ todo'[p] = todo[p] \ {tier[p]}
      /\ \A q \in Passes : q # p =>
           at'[q] = at[q] /\ todo'[q] = todo[q] /\ tier'[q] = tier[q] /\ made'[q] = made[q]
  BY <1>0 DEF TypeOK, MemoryType
<1>2. Decided(p) /\ Snapshot(mine[p])
  BY DEF Records
<1>3. TypeOK'
  <2>1. LeaseType'
    BY LeaseKept DEF lease, TypeOK
  <2>2. at' \in [Passes -> Labels]
    BY <1>0 DEF TypeOK, Labels
  <2>3. Tables \subseteq Tables' /\ DOMAIN awards \subseteq DOMAIN awards'
    BY TablesGrow DEF AwardsGrow
  <2>4. MemoryType'
    BY <1>0, <2>3 DEF TypeOK, MemoryType
  <2> QED
    BY <2>1, <2>2, <2>4 DEF TypeOK
<1>4. Snapshot(mine[p])'
  BY <1>0, <1>2, MineKept DEF TypeOK, MemoryType
<1>5. Decided(p)'
  BY <1>0, <1>1, <1>2 DEF Decided, Working, Delivering, Superseding, Holding, Lower
<1>6. ASSUME ~overlapped PROVE Once' /\ Consistent' /\ Alone(p)'
  <2>1. Once /\ Alone(p) /\ awards' = awards /\ Live' = Live
    BY <1>6, UnchangedAwards DEF Solo
  <2>2. Once'
    BY <2>1, Zenon DEF Once
  <2>3. (\A j \in DOMAIN awards \ Live : Lower(mine[p], awards[j].tier))'
    BY <1>0, <2>1, Zenon DEF Alone, Lower
  <2>4. \A t \in todo'[p] : t \in todo[p] /\ t # tier[p] /\ t \in Tiers
    BY <1>1 DEF TypeOK, MemoryType
  <2>5. (listed[p] \notin {None, Failed} =>
          \A t \in todo[p] : at[p] = "next" \/ t # tier[p] => Under(t, Live) \subseteq listed[p])'
    BY <1>0, <2>1, <2>4 DEF Alone, Under
  <2>6. \A t \in todo'[p] : rows'[t] = mine'[p][t]
    BY <1>0, <2>1, <2>4 DEF Alone
  <2> QED
    BY <1>1, <1>6, <2>2, <2>3, <2>5, <2>6 DEF Alone
<1>7. Running(p)
  BY DEF Working, Running
<1> QED
  BY <1>0, <1>1, <1>3, <1>4, <1>5, <1>6, <1>7, PassKeeps

\* Done without a word to the rows.
LEMMA LeftAsItIs ==
  ASSUME AwardInv, NEW p \in Passes, Working(p), Done(p), UNCHANGED faults,
         UNCHANGED <<rows, awards, participating, lease, live, mine, listed, overlapped>>
  PROVE  AwardInv'
<1> USE DEF AwardInv
<1>1. AwardsType' /\ AwardsGrow /\ Tables \subseteq Tables'
  BY UnchangedAwards, TablesGrow DEF TypeOK
<1>2. Snapshot(rows)'
  BY <1>1, RowsKept DEF TypeOK, Records
<1>3. ~overlapped => Consistent'
  BY GitLabKept DEF Solo
<1> QED
  BY <1>1, <1>2, <1>3, DoneKeeps DEF TypeOK

\* Done, and written to the row that is still as the pass read it.
LEMMA WriteKeeps ==
  ASSUME AwardInv, NEW p \in Passes, Working(p), Done(p), UNCHANGED faults,
         tier[p] \in todo[p], Unmoved(p),
         NEW status \in {"accepted", "failed", "superseded"}, NEW i \in DOMAIN awards \cup {NoID},
         Write(p, [status |-> status, id |-> i]),
         i # NoID => awards[i].tier = tier[p],
         status = "superseded" \/ (i # NoID /\ status # "accepted") => Lower(rows, tier[p]),
         ~overlapped =>
           /\ status = "accepted" => i \in Live
           /\ status = "superseded" => Under(tier[p], Live) = {},
         UNCHANGED <<awards, participating, lease, live, mine, listed, overlapped>>
  PROVE  AwardInv'
<1> USE DEF AwardInv
<1> DEFINE row == [status |-> status, id |-> i]
<1>1. tier[p] \in Tiers /\ tier[p] \in Earned(rows)
  BY DEF TypeOK, MemoryType, Records, Decided
<1>2. /\ row.status = status /\ row.id = i
      /\ row \in [status : Statuses, id : DOMAIN awards \cup {NoID}]
  BY DEF Statuses
<1>3. rows' = [rows EXCEPT ![tier[p]] = row]
  BY DEF Write
<1> HIDE DEF row
<1>4. /\ rows' \in Tables /\ rows'[tier[p]] = row
      /\ \A t \in Tiers : t # tier[p] => rows'[t] = rows[t]
  BY <1>1, <1>2, <1>3 DEF TypeOK, Tables
<1>5. Earned(rows') = Earned(rows)
  BY <1>1, <1>2, <1>4 DEF Earned
<1>6. AwardsType' /\ AwardsGrow /\ Tables \subseteq Tables' /\ awards' = awards /\ Live' = Live
  BY UnchangedAwards, TablesGrow DEF TypeOK
<1>7. Snapshot(rows)'
  <2>1. Snapshot(rows)
    BY DEF Records
  <2>2. \A t \in Tiers : Lower(rows', t) <=> Lower(rows, t)
    BY <1>5 DEF Lower
  <2>3. \A t \in Tiers : rows'[t].id # NoID => awards[rows'[t].id].tier = t
    BY <1>2, <1>4, <2>1 DEF Snapshot
  <2>4. \A t \in Tiers :
          rows'[t].status = "superseded" \/ (rows'[t].id # NoID /\ rows'[t].status # "accepted")
            => Lower(rows', t)
    BY <1>2, <1>4, <2>1, <2>2 DEF Snapshot
  <2> QED
    BY <1>5, <1>6, <2>1, <2>3, <2>4 DEF Snapshot, Lower
<1>8. ASSUME ~overlapped PROVE Consistent'
  <2>1. Consistent
    BY <1>8 DEF Solo
  <2>2. \A t \in Tiers : rows'[t].status = "superseded" => Under(t, Live) = {}
    BY <1>2, <1>4, <1>8, <2>1 DEF Consistent
  <2>3. \A t \in Tiers : rows'[t].status = "accepted" /\ ~Lower(rows, t) => rows'[t].id \in Live
    BY <1>2, <1>4, <1>8, <2>1 DEF Consistent
  <2> QED
    BY <1>5, <1>6, <2>1, <2>2, <2>3 DEF Consistent, Lower, Under
<1> QED
  BY <1>4, <1>5, <1>6, <1>7, <1>8, DoneKeeps

\* What a pass that runs alone is dealing with is as it loaded it, and an
\* award for its top tier is live.
LEMMA AloneUnmoved ==
  ASSUME AwardInv, ~overlapped, NEW p \in Passes, Working(p), tier[p] \in todo[p]
  PROVE  /\ Unmoved(p) /\ at[p] # "take back"
         /\ \A i \in DOMAIN awards : awards[i].tier = tier[p] /\ ~Lower(mine[p], tier[p]) => i \in Live
BY DEF AwardInv, Solo, Alone, Unmoved

LEMMA RecordDeliveredKeeps ==
  ASSUME AwardInv, NEW p \in Passes, RecordDelivered(p)
  PROVE  AwardInv'
<1> USE DEF AwardInv
<1>0. /\ at[p] \in {"adopt", "record"} /\ Working(p) /\ tier[p] \in todo[p]
      /\ made[p] \in DOMAIN awards /\ awards[made[p]].tier = tier[p]
      /\ ~Lower(mine[p], tier[p])
  BY DEF RecordDelivered, Records, Decided, Working, Delivering, Holding
<1>1. CASE Unmoved(p)
  <2>1. ~overlapped => made[p] \in Live
    BY <1>0, AloneUnmoved
  <2> QED
    BY <1>0, <1>1, <2>1, WriteKeeps DEF RecordDelivered
<1>2. CASE ~Unmoved(p) /\ at[p] = "adopt"
  BY <1>0, <1>2, LeftAsItIs DEF RecordDelivered
<1>3. CASE ~Unmoved(p) /\ at[p] = "record"
  <2>0. /\ UNCHANGED <<rows, awards, participating, holder, standing, live, mine, todo>>
        /\ UNCHANGED <<tier, listed, made, faults, overlapped>>
        /\ at' = [at EXCEPT ![p] = "take back"]
    BY <1>3 DEF RecordDelivered, lease, Goto
  <2>1. overlapped
    BY <1>0, <1>3, AloneUnmoved
  <2>2. /\ at' \in [Passes -> Labels] /\ at'[p] = "take back"
        /\ \A q \in Passes : q # p => at'[q] = at[q]
    BY <2>0 DEF TypeOK, Labels
  <2>3. LeaseType'
    BY <2>0, LeaseKept DEF TypeOK
  <2>4. Decided(p)'
    BY <1>0, <2>0, <2>2 DEF Records, Decided, Working, Delivering, Superseding, Holding, Lower
  <2> QED
    BY <1>0, <2>0, <2>1, <2>2, <2>3, <2>4, DecideKeeps DEF TypeOK, MemoryType
<1> QED
  BY <1>0, <1>1, <1>2, <1>3

LEMMA TakeBackKeeps ==
  ASSUME AwardInv, NEW p \in Passes, TakeBack(p)
  PROVE  AwardInv'
<1> USE DEF AwardInv
<1>0. at[p] = "take back" /\ Working(p) /\ tier[p] \in todo[p] /\ made[p] \in DOMAIN awards
  BY DEF TakeBack, Records, Decided, Working, Delivering, Holding
<1>1. overlapped
  BY <1>0, AloneUnmoved
<1>2. AwardsType' /\ AwardsGrow
  BY <1>0, OffGitLabRevokes, UnchangedAwards DEF TakeBack, TypeOK
<1>3. Snapshot(rows)' /\ rows' \in Tables'
  BY <1>2, RowsKept, TablesGrow DEF TakeBack, TypeOK, Records
<1> QED
  BY <1>0, <1>1, <1>2, <1>3, DoneKeeps DEF TakeBack, Refused

LEMMA RecordStatusKeeps ==
  ASSUME AwardInv, NEW p \in Passes, RecordStatus(p)
  PROVE  AwardInv'
<1> USE DEF AwardInv
<1>1. PICK status \in {"superseded", "failed"} :
        /\ at[p] = (IF status = "failed" THEN "fail" ELSE "supersede")
        /\ IF Unmoved(p) THEN Write(p, [mine[p][tier[p]] EXCEPT !.status = status])
                         ELSE UNCHANGED rows
  BY DEF RecordStatus
<1>2. /\ Decided(p) /\ Working(p) /\ tier[p] \in todo[p] /\ tier[p] \in Tiers
      /\ status = "superseded" => Lower(mine[p], tier[p])
  BY <1>1 DEF Records, Decided, Working, Superseding, TypeOK, MemoryType
<1>3. CASE Unmoved(p)
  <2> DEFINE row == mine[p][tier[p]]
  <2>1. row \in [status : Statuses, id : DOMAIN awards \cup {NoID}] /\ row = rows[tier[p]]
    BY <1>2, <1>3 DEF TypeOK, MemoryType, Tables, Unmoved
  <2>2. [row EXCEPT !.status = status] = [status |-> status, id |-> row.id]
    BY <2>1
  <2>3. row.id # NoID => awards[row.id].tier = tier[p]
    BY <1>2 DEF Records, Snapshot
  <2>4. status = "superseded" \/ row.id # NoID => Lower(rows, tier[p])
    BY <1>2 DEF Decided, Lower
  <2>5. ~overlapped /\ status = "superseded" => Under(tier[p], Live) = {}
    BY <1>1, <1>2 DEF Solo, Alone
  <2>6. row.id \in DOMAIN awards \cup {NoID}
    BY <2>1
  <2>7. Write(p, [status |-> status, id |-> row.id])
    BY <1>1, <1>3, <2>2
  <2> HIDE DEF row
  <2> QED
    BY <1>2, <1>3, <2>3, <2>4, <2>5, <2>6, <2>7, WriteKeeps DEF RecordStatus
<1>4. CASE ~Unmoved(p)
  BY <1>1, <1>2, <1>4, LeftAsItIs DEF RecordStatus
<1> QED
  BY <1>3, <1>4

\* The award of a superseded tier taken off, whether or not the pass is told.
LEMMA RevokeKeeps ==
  ASSUME AwardInv, NEW p \in Passes, NEW label \in {"supersede", "fail"}, at[p] = "revoke",
         OffGitLab(made[p]), Goto(p, label), UNCHANGED faults \/ Fault,
         UNCHANGED <<rows, participating, lease, live, memory, overlapped>>
  PROVE  AwardInv'
<1> USE DEF AwardInv
<1>0. /\ rows' = rows /\ mine' = mine /\ todo' = todo /\ tier' = tier /\ listed' = listed
      /\ made' = made /\ overlapped' = overlapped /\ at' = [at EXCEPT ![p] = label]
  BY DEF Goto, memory
<1>1. /\ Decided(p) /\ Snapshot(rows) /\ Snapshot(mine[p]) /\ tier[p] \in todo[p]
      /\ Lower(mine[p], tier[p]) /\ Lower(rows, tier[p])
      /\ made[p] \in DOMAIN awards /\ awards[made[p]].tier = tier[p]
  BY DEF Records, Decided, Superseding, Holding, Lower
<1>2. /\ AwardsType' /\ AwardsGrow /\ DOMAIN awards' = DOMAIN awards /\ Live' = Live \ {made[p]}
      /\ Tables' = Tables
  BY <1>1, OffGitLabRevokes DEF TypeOK, Tables
<1>3. at' \in [Passes -> Labels] /\ at'[p] = label
  BY <1>0 DEF TypeOK, Labels
<1>4. TypeOK'
  <2>1. LeaseType'
    BY LeaseKept DEF lease, TypeOK
  <2> QED
    BY <1>0, <1>2, <1>3, <2>1 DEF TypeOK, MemoryType
<1>5. Snapshot(rows)' /\ Snapshot(mine[p])'
  BY <1>0, <1>1, <1>2, RowsKept, MineKept DEF TypeOK, MemoryType
<1>6. Decided(p)'
  BY <1>0, <1>1, <1>2, <1>3
     DEF AwardsGrow, Decided, Working, Delivering, Superseding, Holding, Lower
<1>7. ASSUME ~overlapped PROVE Once' /\ Consistent' /\ Alone(p)'
  <2>1. Once /\ Consistent /\ Alone(p)
    BY <1>7 DEF Solo, Working
  <2>2. \A i \in DOMAIN awards : awards'[i].tier = awards[i].tier
    BY <1>2 DEF AwardsGrow
  <2>3. Once'
    BY <1>2, <2>1, <2>2 DEF Once
  <2>4. \A t \in Tiers : Under(t, Live)' \subseteq Under(t, Live)
    BY <1>2, <2>2, AwardsAreListed DEF Under, TypeOK
  <2>5. \A i \in (DOMAIN awards \ Live)' : i = made[p] \/ i \in DOMAIN awards \ Live
    BY <1>2
  <2>6. Consistent'
    <3>1. (\A t \in Tiers : rows[t].status = "superseded" => Under(t, Live) = {})'
      BY <1>0, <2>1, <2>4 DEF Consistent
    <3>2. ASSUME NEW t \in Tiers, rows[t].status = "accepted", ~Lower(rows, t)
          PROVE  rows[t].id \in Live \ {made[p]}
      <4>1. rows[t].id \in Live /\ rows[t].id # NoID
        BY <2>1, <3>2, AwardsAreListed DEF Consistent, TypeOK
      <4>2. awards[rows[t].id].tier = t
        BY <1>1, <4>1 DEF Snapshot
      <4> QED
        BY <1>1, <3>2, <4>1, <4>2
    <3>3. (\A t \in Tiers : rows[t].status = "accepted" /\ ~Lower(rows, t) => rows[t].id \in Live)'
      BY <1>0, <1>2, <3>2 DEF Lower
    <3>4. (\A i \in DOMAIN awards \ Live : Lower(rows, awards[i].tier))'
      BY <1>0, <1>1, <1>2, <2>1, <2>2, <2>5 DEF Consistent, Lower
    <3> QED
      BY <3>1, <3>3, <3>4 DEF Consistent
  <2>7. Alone(p)'
    <3>1. (\A i \in DOMAIN awards \ Live : Lower(mine[p], awards[i].tier))'
      BY <1>0, <1>1, <1>2, <2>1, <2>2, <2>5 DEF Alone, Lower
    <3>2. (\A t \in todo[p] : t # tier[p] => Under(t, Live) \subseteq listed[p])'
           \/ listed[p] \in {None, Failed}
      BY <1>0, <2>1, <2>4 DEF Alone, TypeOK, MemoryType
    <3>3. (Under(tier[p], Live) = {})'
      BY <1>0, <1>1, <1>2, <2>1, <2>2, AwardsAreListed DEF Once, Under, TypeOK
    <3> QED
      BY <1>0, <1>3, <2>1, <3>1, <3>2, <3>3 DEF Alone
  <2> QED
    BY <2>3, <2>6, <2>7
<1>8. Running(p) /\ \A q \in Passes : q # p => at'[q] = at[q]
  BY <1>0 DEF Running, TypeOK
<1> QED
  BY <1>0, <1>2, <1>4, <1>5, <1>6, <1>7, <1>8, PassKeeps

LEMMA RevokeLowerKeeps ==
  ASSUME AwardInv, NEW p \in Passes, RevokeLower(p)
  PROVE  AwardInv'
<1>1. CASE OffGitLab(made[p]) /\ Goto(p, "supersede") /\ UNCHANGED faults
  BY <1>1, RevokeKeeps DEF RevokeLower
<1>2. CASE Fault /\ OffGitLab(made[p]) /\ Goto(p, "fail")
  BY <1>2, RevokeKeeps DEF RevokeLower
<1>3. CASE Refused(p) /\ Goto(p, "fail") /\ UNCHANGED awards
  BY <1>3, RefusedKeeps DEF RevokeLower, Refused, shared
<1> QED
  BY <1>1, <1>2, <1>3 DEF RevokeLower

-----------------------------------------------------------------------------
(* The engine. *)

LEMMA EarnKeeps == AwardInv /\ Earn => AwardInv'
<1> SUFFICES ASSUME AwardInv, Earn PROVE AwardInv'
  OBVIOUS
<1> USE DEF AwardInv
<1> DEFINE row == [status |-> "pending", id |-> NoID]
<1>0. /\ awards' = awards /\ at' = at /\ mine' = mine /\ todo' = todo /\ tier' = tier
      /\ listed' = listed /\ made' = made /\ overlapped' = overlapped
      /\ UNCHANGED <<participating, holder, standing, live, faults>>
  BY DEF Earn, lease, progress, memory
<1>1. PICK t \in Tiers \ Earned(rows) :
        /\ \A o \in Tiers : o < t => o \in Earned(rows)
        /\ rows' = [rows EXCEPT ![t] = row]
  BY DEF Earn
<1>2. row.status = "pending" /\ row.id = NoID /\ row \in [status : Statuses, id : DOMAIN awards \cup {NoID}]
  BY DEF Statuses
<1> HIDE DEF row
<1>3. /\ rows' \in Tables /\ rows'[t] = row
      /\ \A o \in Tiers : o # t => rows'[o] = rows[o]
  BY <1>1, <1>2 DEF TypeOK, Tables
<1>4. Earned(rows') = Earned(rows) \cup {t}
  BY <1>2, <1>3 DEF Earned
<1>5. AwardsType' /\ AwardsGrow /\ Tables' = Tables /\ Live' = Live
  BY <1>0, UnchangedAwards DEF TypeOK, Tables
<1>6. TypeOK'
  <2>1. LeaseType'
    BY <1>0, LeaseKept DEF TypeOK
  <2> QED
    BY <1>0, <1>3, <1>5, <2>1 DEF TypeOK, MemoryType
<1>7. \A o : Lower(rows, o) => Lower(rows', o)
  BY <1>4 DEF Lower
<1>8. Records'
  <2>1. Snapshot(rows)
    BY DEF Records
  <2>2. PICK k \in 0 .. Top : Earned(rows) = 1 .. k
    BY <2>1 DEF Snapshot
  <2>3. t = k + 1 /\ k + 1 \in 0 .. Top
    BY <1>1, <2>2, AwardAssumption DEF Tiers
  <2>4. Earned(rows') = 1 .. k + 1
    BY <1>4, <2>2, <2>3
  <2>5. \A o \in Tiers : rows'[o].id # NoID => awards[rows'[o].id].tier = o
    BY <1>2, <1>3, <2>1 DEF Snapshot
  <2>6. \A o \in Tiers :
          rows'[o].status = "superseded" \/ (rows'[o].id # NoID /\ rows'[o].status # "accepted")
            => Lower(rows', o)
    BY <1>2, <1>3, <1>7, <2>1 DEF Snapshot
  <2>7. Snapshot(rows)'
    BY <1>0, <2>3, <2>4, <2>5, <2>6 DEF Snapshot, Lower
  <2>8. ASSUME NEW q \in Passes PROVE Snapshot(mine[q])' /\ Decided(q)'
    BY <1>0, <1>4, <1>5, RecordsKept DEF Records
  <2> QED
    BY <2>7, <2>8 DEF Records
<1>9. Solo'
  <2> SUFFICES ASSUME ~overlapped
               PROVE  OneRuns' /\ Once' /\ Consistent' /\ \A p \in Passes : Working(p)' => Alone(p)'
    BY <1>0 DEF Solo
  <2>1. OneRuns' /\ Once'
    BY <1>0 DEF Solo, OneRuns, Running, Once
  <2>2. Consistent'
    <3>1. Consistent
      BY DEF Solo
    <3>2. \A o \in Tiers : rows'[o].status = "superseded" => Under(o, Live) = {}
      BY <1>2, <1>3, <3>1 DEF Consistent
    <3>3. \A o \in Tiers : rows'[o].status = "accepted" /\ ~Lower(rows', o) => rows'[o].id \in Live
      BY <1>2, <1>3, <1>7, <3>1 DEF Consistent
    <3>4. \A i \in DOMAIN awards \ Live : Lower(rows', awards[i].tier)
      BY <1>7, <3>1 DEF Consistent
    <3> QED
      BY <1>0, <1>5, <3>2, <3>3, <3>4 DEF Consistent, Lower, Under
  <2>3. ASSUME NEW p \in Passes, Working(p)' PROVE Alone(p)'
    <3>1. Alone(p)
      BY <1>0, <2>3 DEF Solo, Working
    <3>2. \A o \in todo[p] : o \in Tiers /\ o # t
      BY DEF TypeOK, MemoryType, Records, Decided
    <3>3. (\A o \in todo[p] : rows[o] = mine[p][o])'
      BY <1>0, <1>3, <3>1, <3>2 DEF Alone
    <3>4. (\A i \in DOMAIN awards \ Live : Lower(mine[p], awards[i].tier))'
      BY <1>0, <1>5, <3>1, Zenon DEF Alone, Lower
    <3>5. (listed[p] \notin {None, Failed} =>
            \A o \in todo[p] : at[p] = "next" \/ o # tier[p] => Under(o, Live) \subseteq listed[p])'
      BY <1>0, <1>5, <3>1 DEF Alone, Under
    <3>6. /\ (at[p] = "award" => Under(tier[p], DOMAIN awards) = {})'
          /\ (at[p] = "supersede" => Under(tier[p], Live) = {})'
      BY <1>0, <1>5, <3>1 DEF Alone, Under
    <3> QED
      BY <1>0, <3>1, <3>3, <3>4, <3>5, <3>6 DEF Alone
  <2> QED
    BY <2>1, <2>2, <2>3
<1> QED
  BY <1>6, <1>8, <1>9

-----------------------------------------------------------------------------
(* The theorems. *)

LEMMA NextKeeps == AwardInv /\ [Next]_vars => AwardInv'
<1> SUFFICES ASSUME AwardInv, [Next]_vars PROVE AwardInv'
  OBVIOUS
<1>1. ASSUME NEW p \in Passes, Acquire(p) \/ Renew(p) \/ GiveUpLease(p) \/ Crash(p)
      PROVE  AwardInv'
  BY <1>1, AcquireKeeps, RenewKeeps, CrashKeeps
<1>2. ASSUME NEW p \in Passes, Step(p) PROVE AwardInv'
  <2>1. ASSUME NEW t \in Tiers, Deliver(p, t) \/ Supersede(p, t) PROVE AwardInv'
    BY <2>1, DeliverKeeps, SupersedeKeeps
  <2> QED
    BY <1>2, <2>1, SelectUsersKeeps, LoadAwardsKeeps, ListHeldKeeps, AwardTierKeeps,
       RecordDeliveredKeeps, TakeBackKeeps, RevokeLowerKeeps, RecordStatusKeeps, ReturnKeeps
       DEF Step
<1>3. CASE Expire \/ Earn \/ Participate
  BY <1>3, ExpireKeeps, EarnKeeps, ParticipateKeeps
<1>4. CASE UNCHANGED vars
  <2>1. UNCHANGED <<rows, awards, at, mine, todo, tier, listed, made, overlapped>>
    BY <1>4 DEF vars, shared, progress, memory
  <2>2. LeaseType'
    BY <1>4, LeaseKept DEF vars, shared, lease, progress, AwardInv, TypeOK
  <2> QED
    BY <2>1, <2>2, LeaseKeeps
<1> QED
  BY <1>1, <1>2, <1>3, <1>4 DEF Next

\* The rows, what each pass loaded and decided, and GitLab's record fit
\* together in every reachable state; more tightly as long as no two passes
\* ran together.
THEOREM AwardInvariant == Spec => []AwardInv
<1>1. Init => AwardInv
  BY InitCorrect
<1>2. AwardInv /\ [Next]_vars => AwardInv'
  BY NextKeeps
<1> QED
  BY <1>1, <1>2, PTL DEF Spec

\* Every variable stays in its type: an ID recorded, listed or in hand is one
\* that GitLab gave out.
THEOREM AwardTypeCorrect == Spec => []TypeOK
<1>1. AwardInv => TypeOK
  BY DEF AwardInv
<1> QED
  BY <1>1, AwardInvariant, PTL

\* A tier is awarded at most once, whatever answers were lost and wherever
\* passes crashed, as long as no two passes ran together (deliverAward).
THEOREM TierAwardedOnce == Spec => []AwardedOnce
<1>1. AwardInv => AwardedOnce
  <2> SUFFICES ASSUME AwardInv, ~overlapped, NEW t \in Tiers
               PROVE  Cardinality(Under(t, DOMAIN awards)) <= 1
    BY DEF AwardedOnce
  <2>1. \A i, j \in Under(t, DOMAIN awards) : i = j
    BY DEF AwardInv, Solo, Once, Under
  <2>2. CASE Under(t, DOMAIN awards) = {}
    BY <2>2, FS_EmptySet
  <2>3. CASE Under(t, DOMAIN awards) # {}
    <3>1. PICK i \in Under(t, DOMAIN awards) : TRUE
      BY <2>3
    <3>2. Under(t, DOMAIN awards) = {i}
      BY <2>1, <3>1
    <3>3. Cardinality({i}) = 1
      BY FS_Singleton
    <3> QED
      BY <3>2, <3>3
  <2> QED
    BY <2>2, <2>3
<1> QED
  BY <1>1, AwardInvariant, PTL

\* What the rows say is what GitLab holds (deliverAward, supersedeAward).
THEOREM RecordIsTrue == Spec => []RecordMatchesGitLab
<1>1. AwardInv => RecordMatchesGitLab
  <2> SUFFICES ASSUME AwardInv PROVE RecordMatchesGitLab
    OBVIOUS
  <2>1. \A t \in Tiers : rows[t].id # NoID => awards[rows[t].id].tier = t
    BY DEF AwardInv, Records, Snapshot
  <2>2. ASSUME ~overlapped, NEW t \in Earned(rows), rows[t].status = "accepted", t = topTier(rows)
        PROVE  rows[t].id \in Live
    <3>1. ~Lower(rows, t)
      BY <2>2, TopOrLower DEF AwardInv, Records, Snapshot
    <3> QED
      BY <2>2, <3>1 DEF AwardInv, Solo, Consistent, Earned
  <2>3. ASSUME ~overlapped, NEW t \in Earned(rows), rows[t].status = "superseded"
        PROVE  Under(t, Live) = {}
    BY <2>3 DEF AwardInv, Solo, Consistent, Earned
  <2> QED
    BY <2>1, <2>2, <2>3 DEF RecordMatchesGitLab
<1> QED
  BY <1>1, AwardInvariant, PTL

\* Whatever a pass writes, lease or no lease, a recorded ID is never lost
\* track of (transitionAward).
THEOREM NothingLostTrackOf == Spec => TrackedStaysTracked
<1> DEFINE Kept == \A t \in Tiers : rows[t].id \in Live => rows'[t].id = rows[t].id
<1>1. AwardInv /\ [Next]_vars => Kept
  <2> SUFFICES ASSUME AwardInv, [Next]_vars PROVE Kept
    OBVIOUS
  <2>0. NoID \notin Live /\ rows \in Tables
    BY AwardsAreListed DEF AwardInv, TypeOK
  <2>1. ASSUME NEW p \in Passes, RecordDelivered(p) PROVE Kept
    <3>1. tier[p] \in todo[p] /\ ~Lower(mine[p], tier[p])
      BY <2>1 DEF RecordDelivered, AwardInv, Records, Decided, Delivering
    <3>2. mine[p][tier[p]].id = NoID
      BY <3>1 DEF AwardInv, Records, Decided
    <3> QED
      BY <2>0, <2>1, <3>2 DEF RecordDelivered, Write, Unmoved, Tables
  <2>2. ASSUME NEW p \in Passes, RecordStatus(p) PROVE Kept
    <3>1. tier[p] \in Tiers
      BY <2>2 DEF RecordStatus, AwardInv, TypeOK, MemoryType, Records, Decided, Superseding
    <3>2. mine[p][tier[p]] \in [status : Statuses, id : DOMAIN awards \cup {NoID}]
      BY <3>1 DEF AwardInv, TypeOK, MemoryType, Tables
    <3> QED
      BY <2>0, <2>2, <3>2 DEF RecordStatus, Write, Unmoved, Tables
  <2>3. CASE Earn
    <3>1. PICK t \in Tiers \ Earned(rows) :
            rows' = [rows EXCEPT ![t] = [status |-> "pending", id |-> NoID]]
      BY <2>3 DEF Earn
    <3>2. rows[t].id \notin Live
      <4>1. rows[t].id = NoID
        <5>1. PICK k \in 0 .. Top : Earned(rows) = 1 .. k
          BY DEF AwardInv, Records, Snapshot
        <5>2. ~Lower(rows, t)
          BY <3>1, <5>1, AwardAssumption DEF Lower, Tiers
        <5>3. rows[t].status = "none"
          BY <3>1 DEF Earned
        <5> QED
          BY <5>2, <5>3 DEF AwardInv, Records, Snapshot
      <4> QED
        BY <2>0, <4>1
    <3> QED
      BY <2>0, <3>1, <3>2 DEF Tables
  <2>4. CASE UNCHANGED rows
    BY <2>4
  <2>5. CASE Expire \/ Participate
    BY <2>4, <2>5 DEF Expire, Participate, shared
  <2>6. ASSUME NEW p \in Passes, Acquire(p) \/ Renew(p) \/ GiveUpLease(p) \/ Crash(p) PROVE Kept
    BY <2>4, <2>6 DEF Acquire, Renew, GiveUpLease, Crash, shared
  <2>7. ASSUME NEW p \in Passes, Step(p) PROVE Kept
    <3>1. ASSUME NEW t \in Tiers, Deliver(p, t) \/ Supersede(p, t) PROVE UNCHANGED rows
      BY <3>1 DEF Deliver, Supersede, Take, shared
    <3>2. CASE \/ SelectUsers(p) \/ LoadAwards(p) \/ ListHeld(p) \/ AwardTier(p) \/ TakeBack(p)
               \/ RevokeLower(p) \/ Return(p)
      BY <2>4, <3>2
         DEF SelectUsers, LoadAwards, ListHeld, AwardTier, TakeBack, RevokeLower, Return, shared
    <3> QED
      BY <2>1, <2>2, <2>4, <2>7, <3>1, <3>2 DEF Step
  <2>8. CASE UNCHANGED vars
    BY <2>4, <2>8 DEF vars, shared
  <2> QED
    BY <2>3, <2>5, <2>6, <2>7, <2>8 DEF Next
<1> QED
  BY <1>1, AwardInvariant, PTL DEF Spec, TrackedStaysTracked

=============================================================================
