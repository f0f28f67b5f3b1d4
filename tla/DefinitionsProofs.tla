--------------------------- MODULE DefinitionsProofs ---------------------------
(***************************************************************************)
(* Theorems about keeping GitLab's achievements in step with the catalog, for *)
(* any catalog, any number of processes and releases, and any number of       *)
(* crashes, lapses and edits by hand.                                         *)
(***************************************************************************)
EXTENDS Definitions, FunctionTheorems, FiniteSetTheorems, TLAPS

-----------------------------------------------------------------------------
(* The inductive invariant. *)

\* An achievement that lacks nothing, or was sent what it lacked.
InStep(p, r, a) ==
  /\ a # None /\ a.id = r.mine.id /\ a.text = Text(p)
  /\ Art(p) # NoBadge => a.badge # NoBadge
  /\ BadgeDrift(p, r.seen[r.entry], r.mine) => a.badge = Art(p)

\* The badge that is recorded is the one GitLab shows, unless one of the two has
\* none, the row is about another achievement, or something went wrong with it.
RecordedBadge(e) ==
  \/ e \in mistaken \/ live[e] = None \/ row[e] = None \/ row[e].id # live[e].id
  \/ NoBadge \in {row[e].badge, live[e].badge} \/ row[e].badge = live[e].badge
BadgeKnown == \A e \in Entries : RecordedBadge(e)

\* What a pass beside which nothing changed knows: GitLab under the names it has
\* not come to is as it was listed, and what it has dealt with is as released.
Knows(p) ==
  LET r == pass[p] IN
  r.alone =>
    /\ r.at \in AtEntry =>
         /\ \A e \in Entries : e < r.entry => AsReleased(Release[p], e)
         /\ \A e \in Entries : e > r.entry => r.seen[e] = live[e]
         /\ r.at \in {"entry", "adopt", "push"} => r.seen[r.entry] = live[r.entry]
         /\ r.at \in {"push", "save"} => row[r.entry] = r.mine
         /\ r.at = "record" => live[r.entry] = [id |-> r.id, text |-> Text(p), badge |-> Art(p)]
         /\ r.at = "save" => InStep(p, r, live[r.entry])
    /\ r.at \in AtRepair => \A e \in Entries : AsReleased(Release[p], e)

\* What is gone for good while everything is removed.
RemovedSoFar ==
  /\ cleanup.entry # 0 => settled = None
  /\ cleanup.at = "recorded" /\ cleanup.entry # 0 =>
       row[cleanup.entry] # None /\ row[cleanup.entry].id = cleanup.id
  /\ cleanup.alone =>
       /\ cleanup.at = "recorded" => \A e \in cleanup.done : row[e] = None
       /\ cleanup.at = "sweep" =>
            /\ \A e \in Entries : row[e] = None
            /\ \A e \in cleanup.done \cup {cleanup.entry} : e = 0 \/ live[e] = None

\* The user's total is not what their tiers are worth, or will not be once the
\* transaction under way commits; and a pass that will see to it.
Stale ==
  \/ total # heldExp(held)
  \/ open # None /\ open.total # heldExp(held \cup {open.tier})
Repairing(r) == r.changed /\ r.at # "end"
StaleForCause == Stale => owed # {} \/ \E p \in Processes : Repairing(pass[p])

DefinitionsInv ==
  /\ TypeOK /\ SettledAsPromised /\ RemovedSoFar /\ StaleForCause /\ BadgeKnown
  /\ \A p \in Processes : Knows(p)

-----------------------------------------------------------------------------
(* Lemmas about the constants and the operators. *)

\* What the constants are.
LEMMA Parameters ==
  /\ Cardinality(Entries) \in Nat \ {0} /\ Entries = 1 .. Cardinality(Entries)
  /\ IsFiniteSet(Entries) /\ 1 \in Entries /\ 0 \notin Entries /\ Entries \subseteq Nat
  /\ MaxFaults \in Nat /\ None \notin Nat /\ None # 0 /\ None \notin Processes /\ None \notin Releases
  /\ 0 \notin Releases
  /\ \A p \in Processes : Release[p] \in Releases /\ Release[p] # 0 /\ Release[p] # None
<1>1. Cardinality(Entries) \in Nat
  BY DefinitionsAssumption, FS_CardinalityType
<1>2. Cardinality(Entries) # 0
  BY <1>1, DefinitionsAssumption
<1>3. 1 \in Entries /\ 0 \notin Entries /\ Entries \subseteq Nat
  BY <1>1, <1>2, DefinitionsAssumption
<1>4. \A p \in Processes : Release[p] \in Releases /\ Release[p] \in Nat /\ Release[p] # 0
  BY DefinitionsAssumption DEF Releases, Removed
<1>5. None \notin Releases /\ 0 \notin Releases
  BY <1>4, DefinitionsAssumption DEF Releases
<1>6. 0 \in Nat
  OBVIOUS
<1> QED BY <1>1, <1>2, <1>3, <1>4, <1>5, <1>6, DefinitionsAssumption

\* What a release says of an entry.
LEMMA Says ==
  ASSUME NEW p \in Processes, NEW e \in Entries
  PROVE  Wording[Release[p]][e] \in Texts /\ Badge[Release[p]][e] \in Badges /\ Exp[Release[p]][e] \in Nat
  BY Parameters, DefinitionsAssumption DEF Texts, Badges

\* What tiers are worth is a natural number.
LEMMA WorthType ==
  ASSUME NEW T, T \subseteq Entries, \A e \in T : row[e].exp \in Nat
  PROVE  heldExp(T) \in Nat
<1> DEFINE w == [e \in T |-> row[e].exp]
           F == [e \in T |-> {e} \X (1 .. w[e])]
           I == {F[e] : e \in T}
<1>1. IsFiniteSet(T)
  BY Parameters, FS_Subset
<1>2. ASSUME NEW e \in T PROVE IsFiniteSet(F[e])
  <2>1. IsFiniteSet({e})
    BY FS_Singleton
  <2>2. IsFiniteSet(1 .. w[e])
    BY FS_Interval
  <2> QED BY <2>1, <2>2, FS_Product
<1>3. F \in [T -> I] /\ Units(T, w) = UNION I
  BY DEF Units
<1> HIDE DEF F
<1>4. IsFiniteSet(I)
  <2>1. F \in Surjection(T, I)
    BY <1>3 DEF Surjection, I
  <2> QED BY <1>1, <2>1, FS_Surjection
<1>5. \A S \in I : IsFiniteSet(S)
  BY <1>2
<1> HIDE DEF I
<1>6. IsFiniteSet(UNION I)
  BY <1>4, <1>5, FS_UNION
<1>7. heldExp(T) = Cardinality(UNION I)
  BY <1>3 DEF heldExp, SumOver
<1> QED BY <1>6, <1>7, FS_CardinalityType

\* No tiers are worth nothing.
LEMMA WorthNothing == heldExp({}) = 0
<1>1. Units({}, [e \in {} |-> row[e].exp]) = {}
  BY DEF Units
<1> QED BY <1>1, FS_EmptySet DEF heldExp, SumOver

\* What tiers are worth depends on their rows alone.
LEMMA WorthSame ==
  ASSUME NEW T, \A e \in T : row'[e].exp = row[e].exp
  PROVE  heldExp(T)' = heldExp(T)
<1>1. [e \in T |-> row'[e].exp] = [e \in T |-> row[e].exp]
  OBVIOUS
<1> QED BY <1>1 DEF heldExp

\* Whether the total is stale does too.
LEMMA StaleSame ==
  ASSUME UNCHANGED <<held, total, open>>,
         \A e \in held \cup (IF open = None THEN {} ELSE {open.tier}) : row'[e].exp = row[e].exp
  PROVE  Stale' <=> Stale
<1>1. heldExp(held)' = heldExp(held)
  <2>1. \A T : T = held => [e \in T |-> row'[e].exp] = [e \in T |-> row[e].exp]
    OBVIOUS
  <2> QED BY <2>1 DEF heldExp
<1>2. open # None => heldExp(held \cup {open.tier})' = heldExp(held \cup {open.tier})
  <2>1. \A T : open # None /\ T = held \cup {open.tier} =>
                 [e \in T |-> row'[e].exp] = [e \in T |-> row[e].exp]
    OBVIOUS
  <2> QED BY <2>1 DEF heldExp
<1> QED BY <1>1, <1>2 DEF Stale

-----------------------------------------------------------------------------
(* Types. *)

\* What is known of the achievements, the rows and a pass.
LEMMA Fields ==
  ASSUME TypeOK
  PROVE  /\ lastId \in Nat
         /\ \A e \in Entries : /\ live[e] # None => live[e] \in Live
                               /\ row[e] # None => row[e] \in Rows
         /\ None \notin Live /\ None \notin Rows
         /\ \A p \in Processes : pass[p] \in Passes /\ InHand(pass[p])
         /\ DOMAIN pass = Processes /\ DOMAIN live = Entries /\ DOMAIN row = Entries
         /\ cleanup.at # "idle" => \A p \in Processes : ~ Busy(p)
<1>1. lastId \in Nat
  BY DEF TypeOK, DataType
<1>2. None \notin Live /\ None \notin Rows
  <2>1. /\ Live \subseteq [id : Nat, text : Texts, badge : Badges]
        /\ Rows \subseteq [id : Nat, text : Texts, badge : Badges, exp : Nat]
    BY <1>1 DEF Live, Rows
  <2> QED BY <2>1, DefinitionsAssumption
<1> QED BY <1>1, <1>2 DEF TypeOK, DataType, PassType, CleanupType

\* Types grow with the identifiers given.
LEMMA TypesGrow ==
  ASSUME lastId \in Nat, lastId' = lastId \/ lastId' = lastId + 1
  PROVE  Live \subseteq Live' /\ Rows \subseteq Rows' /\ Passes \subseteq Passes' /\ lastId' \in Nat
<1>1. 1 .. lastId \subseteq 1 .. lastId' /\ 0 .. lastId \subseteq 0 .. lastId' /\ lastId' \in Nat
  OBVIOUS
<1>2. Live \subseteq Live' /\ Rows \subseteq Rows'
  BY <1>1 DEF Live, Rows
<1>3. [Entries -> Live \cup {None}] \subseteq [Entries -> Live' \cup {None}]
  BY <1>2
<1>4. ASSUME NEW r \in Passes PROVE r \in Passes'
  <2>1. r.seen \in [Entries -> Live' \cup {None}] /\ r.mine \in Rows' \cup {None} /\ r.id \in 0 .. lastId'
    BY <1>1, <1>2, <1>3, <1>4 DEF Passes
  <2> QED BY <1>4, <2>1 DEF Passes
<1> QED BY <1>1, <1>2, <1>4

\* A pass that does nothing.
LEMMA Resting ==
  /\ IdlePass.at = "idle" /\ IdlePass.entry = 0 /\ ~ IdlePass.changed /\ IdlePass.alone
  /\ IdlePass.seen = [e \in Entries |-> None] /\ IdlePass.mine = None /\ IdlePass.id = 0
  /\ ~ IdlePass.adopting /\ IdlePass.amount = 0
  /\ InHand(IdlePass)
  /\ lastId \in Nat => IdlePass \in Passes
  BY DEF IdlePass, InHand, Passes, AtEntry

\* One pass goes on; the others stay where they are, but may learn that they are
\* no longer alone.
Moved(p, next) ==
  /\ pass' \in [Processes -> Passes'] /\ pass'[p] = next
  /\ \A q \in Processes : InHand(pass'[q])
  /\ \A q \in Processes \ {p} :
       /\ pass'[q].at = pass[q].at /\ pass'[q].changed = pass[q].changed
       /\ pass'[q] = pass[q] \/ (Busy(q) /\ ~ pass'[q].alone)
       /\ Touch(p, next) /\ Busy(q) => ~ pass'[q].alone

\* A pass that goes on moves so.
LEMMA PassMoves ==
  ASSUME TypeOK, NEW p \in Processes, NEW next \in Passes', InHand(next),
         lastId' = lastId \/ lastId' = lastId + 1, Go(p, next) \/ Touch(p, next)
  PROVE  Moved(p, next)
<1>1. Passes \subseteq Passes' /\ \A q \in Processes : pass[q] \in Passes /\ InHand(pass[q])
  BY Fields, TypesGrow
<1>2. ASSUME NEW q \in Processes, Busy(q)
      PROVE  LET d == [pass[q] EXCEPT !.alone = FALSE] IN
             d \in Passes /\ InHand(d) /\ d.at = pass[q].at /\ d.changed = pass[q].changed /\ ~ d.alone
  BY <1>1, <1>2 DEF Passes, InHand, Busy
<1>3. CASE Go(p, next)
  <2>1. pass' = [q \in Processes |-> IF q = p THEN next ELSE pass[q]]
    BY <1>3, Fields DEF Go
  <2>2. Touch(p, next) => \A q \in Processes \ {p} : Busy(q) => ~ pass'[q].alone
    BY <1>2 DEF Touch, Disturbed
  <2> QED BY <1>1, <2>1, <2>2 DEF Moved
<1>4. CASE Touch(p, next)
  <2>1. pass' = [q \in Processes |-> IF q = p THEN next ELSE Disturbed(q)]
    BY <1>4 DEF Touch
  <2>2. ASSUME NEW q \in Processes \ {p}
        PROVE  /\ pass'[q] \in Passes' /\ InHand(pass'[q])
               /\ pass'[q].at = pass[q].at /\ pass'[q].changed = pass[q].changed
               /\ pass'[q] = pass[q] \/ (Busy(q) /\ ~ pass'[q].alone)
               /\ Busy(q) => ~ pass'[q].alone
    <3>1. CASE Busy(q)
      BY <1>1, <1>2, <2>1, <3>1 DEF Disturbed
    <3>2. CASE ~ Busy(q)
      BY <1>1, <2>1, <3>2 DEF Disturbed
    <3> QED BY <3>1, <3>2
  <2>3. pass' \in [Processes -> Passes'] /\ pass'[p] = next
    BY <2>1, <2>2
  <2> QED BY <1>4, <2>2, <2>3 DEF Moved
<1> QED BY <1>3, <1>4

\* The other passes know what they knew, or know that they do not.
LEMMA OthersKnow ==
  ASSUME DefinitionsInv, NEW p \in Processes, NEW next, Moved(p, next),
         Touch(p, next) \/ (live' = live /\ row' = row /\ mistaken' = mistaken)
  PROVE  \A q \in Processes \ {p} : Knows(q)'
<1> SUFFICES ASSUME NEW q \in Processes \ {p}, pass'[q].alone PROVE Knows(q)'
  BY DEF Knows
<1>1. Knows(q) /\ pass[q] = pass'[q] /\ (Touch(p, next) => ~ Busy(q))
  BY DEF DefinitionsInv, Moved
<1>2. CASE Touch(p, next)
  BY <1>1, <1>2 DEF Knows, AtEntry, AtRepair, Busy
<1>3. CASE live' = live /\ row' = row /\ mistaken' = mistaken
  BY <1>1, <1>3 DEF Knows, AsReleased, Text, Art, Now, InStep, BadgeDrift
<1> QED BY <1>2, <1>3

\* A step of a pass keeps the invariant if what the pass itself knows is right,
\* and the total stays accounted for.
LEMMA PassKeeps ==
  ASSUME DefinitionsInv, NEW p \in Processes, p \in up, NEW next \in Passes', InHand(next),
         lastId' = lastId \/ lastId' = lastId + 1, Go(p, next) \/ Touch(p, next),
         DataType', UNCHANGED <<world, cleanup>>, faults' \in 0 .. MaxFaults,
         holder' = None \/ (holder' \in {holder, p} /\ (holder' = p => next.at # "idle")),
         BadgeKnown',
         \/ Touch(p, next)
         \/ /\ live' = live /\ row' = row /\ mistaken' = mistaken
            /\ settled' = settled \/ (settled' = Release[p] /\ \A e \in Entries : AsReleased(Release[p], e)),
         Knows(p)',
         Stale' => Stale \/ owed' # {} \/ Repairing(next),
         Stale' /\ owed # {} => owed' # {},
         Stale' /\ Repairing(pass[p]) => owed' # {} \/ Repairing(next)
  PROVE  DefinitionsInv'
<1>1. /\ TypeOK /\ SettledAsPromised /\ RemovedSoFar /\ StaleForCause
      /\ Moved(p, next)
  BY PassMoves DEF DefinitionsInv
<1>2. cleanup.at = "idle" /\ cleanup.entry = 0
  BY <1>1 DEF TypeOK, CleanupType
<1>3. PassType'
  <2>1. \A q \in Processes : Busy(q)' => q \in up
    BY <1>1 DEF Moved, Busy, TypeOK, PassType
  <2>2. \A q \in Processes : holder' = q => Busy(q)'
    BY <1>1, Parameters DEF Moved, Busy, TypeOK, PassType
  <2> QED BY <1>1, <2>1, <2>2 DEF Moved, TypeOK, PassType, world
<1>4. CleanupType'
  <2>1. cleanup.id \in 0 .. lastId'
    <3>1. cleanup.id \in 0 .. lastId /\ lastId \in Nat
      BY <1>1 DEF TypeOK, DataType, CleanupType
    <3> QED BY <3>1
  <2> QED BY <1>1, <1>2, <2>1 DEF TypeOK, CleanupType
<1>5. SettledAsPromised'
  <2>1. CASE Touch(p, next)
    BY <2>1, Parameters DEF Touch, SettledAsPromised, Removed
  <2>2. CASE /\ live' = live /\ row' = row /\ mistaken' = mistaken
             /\ settled' = settled \/ (settled' = Release[p] /\ \A e \in Entries : AsReleased(Release[p], e))
    BY <1>1, <2>2, Parameters DEF SettledAsPromised, AsReleased, Removed
  <2> QED BY <2>1, <2>2
<1>6. RemovedSoFar'
  BY <1>2 DEF RemovedSoFar
<1>7. StaleForCause'
  <2> SUFFICES ASSUME Stale', owed' = {} PROVE \E q \in Processes : Repairing(pass'[q])
    BY DEF StaleForCause
  <2>1. Repairing(next) \/ \E q \in Processes \ {p} : Repairing(pass[q])
    BY <1>1 DEF StaleForCause
  <2> QED BY <1>1, <2>1 DEF Moved, Repairing
<1>8. \A q \in Processes : Knows(q)'
  BY <1>1, OthersKnow
<1> QED BY <1>3, <1>4, <1>5, <1>6, <1>7, <1>8 DEF DefinitionsInv, TypeOK

\* What is known of the badges stays known where nothing changes.
LEMMA SameRecorded ==
  ASSUME DefinitionsInv, live' = live, row' = row, mistaken' = mistaken PROVE BadgeKnown'
  BY DEF DefinitionsInv, BadgeKnown, RecordedBadge

\* And of the others where one entry is dealt with.
LEMMA OthersRecorded ==
  ASSUME DefinitionsInv, NEW e \in Entries, RecordedBadge(e)',
         \A d \in Entries \ {e} : live'[d] = live[d] /\ row'[d] = row[d],
         mistaken' \ {e} = mistaken \ {e}
  PROVE  BadgeKnown'
  BY DEF DefinitionsInv, BadgeKnown, RecordedBadge

\* So do the others that are as released.
LEMMA OthersReleased ==
  ASSUME NEW release, NEW d, live'[d] = live[d], row'[d] = row[d], (d \in mistaken' <=> d \in mistaken),
         AsReleased(release, d)
  PROVE  AsReleased(release, d)'
  BY DEF AsReleased

\* What is made of a badge concerns its entry alone.
LEMMA Judgement ==
  ASSUME DefinitionsInv, NEW p \in Processes, Now(p) \in Entries, NEW equal, Judge(p, equal) \/ mistaken' = mistaken
  PROVE  mistaken' \subseteq Entries /\ mistaken' \ {Now(p)} = mistaken \ {Now(p)}
<1>1. mistaken \subseteq Entries
  BY DEF DefinitionsInv, TypeOK, DataType
<1> QED BY <1>1 DEF Judge

\* So does a step that changes neither GitLab nor the rows nor the user, by
\* which the pass goes on with what it has changed.
LEMMA QuietKeeps ==
  ASSUME DefinitionsInv, NEW p \in Processes, p \in up, NEW next \in Passes, InHand(next), Go(p, next),
         UNCHANGED <<gitlab, row, user, world, cleanup, settled>>, faults' \in 0 .. MaxFaults,
         owed \subseteq owed', owed' \subseteq {"cut short", "adopted", "overlapped", "uninstalled"},
         holder' = None \/ (holder' \in {holder, p} /\ (holder' = p => next.at # "idle")),
         Knows(p)', Stale /\ Repairing(pass[p]) => owed' # {} \/ Repairing(next)
  PROVE  DefinitionsInv'
<1>1. /\ live' = live /\ lastId' = lastId /\ mistaken' = mistaken
      /\ row' = row /\ held' = held /\ total' = total /\ open' = open
      /\ TypeOK
  BY DEF gitlab, user, DefinitionsInv
<1>2. next \in Passes'
  BY <1>1, TypesGrow, Fields
<1>3. DataType'
  BY <1>1 DEF TypeOK, DataType, Live, Rows
<1>4. Stale' <=> Stale
  BY <1>1, StaleSame
<1>5. BadgeKnown'
  BY <1>1, SameRecorded
<1> QED BY <1>1, <1>2, <1>3, <1>4, <1>5, PassKeeps

-----------------------------------------------------------------------------
(* The steps of a pass. *)

\* What a pass has in hand.
LEMMA Hand ==
  ASSUME DefinitionsInv, NEW p \in Processes
  PROVE  /\ TypeOK /\ DataType /\ lastId \in Nat /\ Knows(p)
         /\ pass[p] \in Passes /\ InHand(pass[p]) /\ (Busy(p) => p \in up)
         /\ holder = p => Busy(p)
         /\ pass[p].at \in AtEntry =>
              /\ Now(p) \in Entries /\ pass[p].entry = Now(p) /\ Now(p) \in Nat
              /\ Text(p) \in Texts /\ Art(p) \in Badges /\ Worth(p) \in Nat
              /\ Art(p) = Badge[Release[p]][Now(p)]
              /\ Text(p) = Wording[Release[p]][Now(p)] /\ Worth(p) = Exp[Release[p]][Now(p)]
              /\ pass[p].seen[Now(p)] \in Live \cup {None} /\ row[Now(p)] \in Rows \cup {None}
<1>1. /\ TypeOK /\ DataType /\ lastId \in Nat /\ Knows(p)
      /\ pass[p] \in Passes /\ InHand(pass[p]) /\ (Busy(p) => p \in up) /\ (holder = p => Busy(p))
  BY DEF DefinitionsInv, TypeOK, DataType, PassType
<1>2. ASSUME pass[p].at \in AtEntry
      PROVE  Now(p) \in Entries /\ pass[p].entry = Now(p)
  <2>1. pass[p].entry \in Entries \cup {0} /\ pass[p].entry # 0
    BY <1>1, <1>2 DEF Passes, InHand
  <2> QED BY <2>1 DEF Now
<1>3. ASSUME pass[p].at \in AtEntry
      PROVE  pass[p].seen[Now(p)] \in Live \cup {None} /\ row[Now(p)] \in Rows \cup {None}
  <2>1. pass[p].seen \in [Entries -> Live \cup {None}] /\ row \in [Entries -> Rows \cup {None}]
    BY <1>1 DEF Passes, DataType
  <2> QED BY <1>2, <1>3, <2>1
<1> QED BY <1>1, <1>2, <1>3, Says, Parameters DEF Text, Art, Worth

\* What comes after an entry.
LEMMA AfterEntry ==
  ASSUME lastId' \in Nat, NEW r \in Passes', r.entry \in Entries
  PROVE  /\ After(r) \in Passes' /\ InHand(After(r)) /\ After(r).at \in {"entry", "load", "end"}
         /\ After(r).alone = r.alone /\ After(r).changed = r.changed
         /\ After(r).at = "end" => ~ r.changed
         /\ After(r).at = "entry" => After(r).entry = r.entry + 1 /\ After(r).seen = r.seen
         /\ After(r).at # "entry" => r.entry = Cardinality(Entries)
<1> DEFINE n == Cardinality(Entries)
           a == [r EXCEPT !.at = "entry", !.entry = @ + 1, !.mine = None, !.id = 0, !.adopting = FALSE]
           b == [IdlePass EXCEPT !.at = IF r.changed THEN "load" ELSE "end",
                                 !.changed = r.changed, !.alone = r.alone]
<1>1. n \in Nat /\ Entries = 1 .. n /\ r.entry \in Nat /\ 0 \in 0 .. lastId'
  BY Parameters
<1>2. CASE r.entry < n
  <2>1. After(r) = a
    BY <1>2 DEF After
  <2>2. r.entry + 1 \in Entries /\ r.entry + 1 # 0
    BY <1>1, <1>2
  <2>3. /\ a \in Passes' /\ a.at = "entry" /\ a.entry = r.entry + 1 /\ a.seen = r.seen
        /\ a.alone = r.alone /\ a.changed = r.changed
    BY <1>1, <2>2 DEF Passes, AtEntry
  <2> HIDE DEF a
  <2> QED BY <2>1, <2>2, <2>3 DEF InHand
<1>3. CASE ~ (r.entry < n)
  <2>1. After(r) = b
    BY <1>3 DEF After
  <2>2. r.changed \in BOOLEAN /\ r.alone \in BOOLEAN
    BY DEF Passes
  <2>3. IdlePass \in Passes'
    BY <1>1, Resting DEF IdlePass, Passes
  <2>4. /\ b \in Passes' /\ b.at \in {"load", "end"} /\ (b.at = "end" => ~ r.changed)
        /\ b.alone = r.alone /\ b.changed = r.changed
    BY <2>2, <2>3 DEF Passes, AtRepair
  <2> HIDE DEF b
  <2> QED BY <1>1, <1>3, <2>1, <2>4 DEF InHand, AtEntry
<1> QED BY <1>2, <1>3

\* A pass that has an entry as released knows so of the next one too.
LEMMA AfterKnows ==
  ASSUME lastId' \in Nat, NEW p \in Processes, NEW r \in Passes', r.entry \in Entries, pass'[p] = After(r),
         r.alone => \A e \in Entries : /\ e < r.entry \/ e = r.entry => AsReleased(Release[p], e)'
                                       /\ e > r.entry => r.seen[e] = live'[e]
  PROVE  Knows(p)'
<1>1. /\ After(r).at \in {"entry", "load", "end"} /\ After(r).alone = r.alone
      /\ After(r).at = "entry" => After(r).entry = r.entry + 1 /\ After(r).seen = r.seen
      /\ After(r).at # "entry" => r.entry = Cardinality(Entries)
  BY AfterEntry
<1>2. Cardinality(Entries) \in Nat /\ Entries = 1 .. Cardinality(Entries)
  BY Parameters
<1> SUFFICES ASSUME r.alone PROVE Knows(p)'
  BY <1>1 DEF Knows
<1>3. CASE After(r).at = "entry"
  <2>1. After(r).entry = r.entry + 1 /\ After(r).seen = r.seen
    BY <1>1, <1>3
  <2>2. /\ \A e \in Entries : e < r.entry + 1 => AsReleased(Release[p], e)'
        /\ \A e \in Entries : e > r.entry + 1 => r.seen[e] = live'[e]
        /\ After(r).entry \in Entries => r.seen[r.entry + 1] = live'[r.entry + 1]
    BY <1>2, <2>1
  <2>3. After(r).entry \in Entries
    <3>1. After(r).entry \in Entries \cup {0} /\ InHand(After(r))
      BY AfterEntry DEF Passes
    <3> QED BY <1>3, <3>1 DEF InHand, AtEntry
  <2> QED BY <1>3, <2>1, <2>2, <2>3 DEF Knows, AtEntry, AtRepair, AsReleased
<1>4. CASE After(r).at \in {"load", "end"}
  <2>1. \A e \in Entries : AsReleased(Release[p], e)'
    <3>1. r.entry = Cardinality(Entries)
      BY <1>1, <1>4
    <3> QED BY <1>2, <3>1
  <2> QED BY <1>4, <2>1 DEF Knows, AtEntry, AtRepair, AsReleased
<1> QED BY <1>1, <1>3, <1>4

\* A pass begins alone, as far as it knows.
LEMMA BeginKeeps ==
  ASSUME DefinitionsInv, NEW p \in Processes, Begin(p) PROVE DefinitionsInv'
<1> DEFINE n == [IdlePass EXCEPT !.at = "list"]
<1>1. /\ TypeOK /\ lastId \in Nat /\ p \in up /\ Go(p, n) /\ holder' = p /\ ~ Busy(p)
      /\ UNCHANGED <<gitlab, row, user, world, cleanup, faults, settled, owed>>
  BY Hand DEF Begin
<1>2. n \in Passes /\ n.at = "list"
  BY <1>1, Resting DEF Passes
<1> HIDE DEF n
<1>3. InHand(n) /\ pass'[p] = n
  BY <1>1, <1>2, Fields DEF InHand, AtEntry, Go
<1>4. Knows(p)' /\ ~ Repairing(pass[p])
  BY <1>1, <1>2, <1>3, Hand, Resting DEF Knows, AtEntry, AtRepair, Repairing, Busy, InHand
<1>5. faults' \in 0 .. MaxFaults /\ owed' \subseteq {"cut short", "adopted", "overlapped", "uninstalled"}
  BY <1>1 DEF TypeOK, DataType
<1> QED BY <1>1, <1>2, <1>3, <1>4, <1>5, QuietKeeps

\* What was listed is what GitLab has.
LEMMA listAchievementsKeeps ==
  ASSUME DefinitionsInv, NEW p \in Processes, listAchievements(p) PROVE DefinitionsInv'
<1> DEFINE n == [pass[p] EXCEPT !.at = "entry", !.entry = 1, !.seen = live]
<1>1. /\ TypeOK /\ lastId \in Nat /\ pass[p] \in Passes /\ pass[p].at = "list" /\ p \in up /\ Go(p, n)
      /\ UNCHANGED <<gitlab, row, user, world, holder, cleanup, faults, settled, owed>>
  BY Hand DEF listAchievements, Busy
<1>2. live \in [Entries -> Live \cup {None}] /\ 1 \in Entries
  BY <1>1, Parameters DEF TypeOK, DataType
<1>3. /\ n \in Passes /\ n.at = "entry" /\ n.entry = 1 /\ n.seen = live /\ n.changed = pass[p].changed
  BY <1>1, <1>2 DEF Passes, AtEntry
<1> HIDE DEF n
<1>4. InHand(n) /\ pass'[p] = n
  BY <1>1, <1>3, Fields DEF InHand, Go
<1>5. Knows(p)'
  <2>1. \A e \in Entries : ~ (e < 1)
    BY Parameters
  <2> QED BY <1>1, <1>2, <1>3, <1>4, <2>1 DEF Knows, AtEntry, AtRepair, gitlab
<1>6. faults' \in 0 .. MaxFaults /\ owed' \subseteq {"cut short", "adopted", "overlapped", "uninstalled"}
  BY <1>1 DEF TypeOK, DataType
<1>7. Repairing(pass[p]) => Repairing(n)
  BY <1>3 DEF Repairing
<1> QED BY <1>1, <1>3, <1>4, <1>5, <1>6, <1>7, QuietKeeps DEF Busy

\* The entry is as released, or the way to it is chosen by what was listed and what was read.
LEMMA reconcileEntryKeeps ==
  ASSUME DefinitionsInv, NEW p \in Processes, reconcileEntry(p) PROVE DefinitionsInv'
<1> DEFINE e == Now(p)
           seen == pass[p].seen[e]
           r == [pass[p] EXCEPT !.mine = row[e]]
           at(a) == [r EXCEPT !.at = a]
<1>1. /\ TypeOK /\ lastId \in Nat /\ pass[p] \in Passes /\ pass[p].at = "entry" /\ p \in up /\ Knows(p)
      /\ e \in Entries /\ pass[p].entry = e /\ seen \in Live \cup {None} /\ row[e] \in Rows \cup {None}
      /\ Text(p) = Wording[Release[p]][e] /\ Art(p) = Badge[Release[p]][e] /\ Worth(p) = Exp[Release[p]][e]
      /\ UNCHANGED <<gitlab, row, user, world, holder, cleanup, faults, settled, owed>>
  BY Hand DEF reconcileEntry, Busy, AtEntry
<1>2. /\ live' = live /\ row' = row /\ lastId' = lastId /\ mistaken' = mistaken
      /\ faults' \in 0 .. MaxFaults /\ owed' \subseteq {"cut short", "adopted", "overlapped", "uninstalled"}
  BY <1>1 DEF gitlab, TypeOK, DataType
<1>3. /\ r \in Passes /\ r.at = "entry" /\ r.entry = e /\ r.mine = row[e] /\ r.seen = pass[p].seen
      /\ r.changed = pass[p].changed /\ r.alone = pass[p].alone
  BY <1>1 DEF Passes
<1>4. ASSUME NEW n \in Passes, Go(p, n), InHand(n), Knows(p)', n.at # "idle", n.changed = r.changed,
             n.at = "end" => ~ n.changed
      PROVE  DefinitionsInv'
  <2>1. Repairing(pass[p]) => Repairing(n)
    BY <1>3, <1>4 DEF Repairing
  <2> QED BY <1>1, <1>2, <1>4, <2>1, QuietKeeps
<1>5. r.alone => /\ \A d \in Entries : d < e => AsReleased(Release[p], d)
                 /\ \A d \in Entries : d > e => r.seen[d] = live[d]
                 /\ seen = live[e]
  BY <1>1, <1>3 DEF Knows, AtEntry
<1>9. r.alone => /\ \A d \in Entries : d < e => AsReleased(Release[p], d)'
                 /\ \A d \in Entries : d > e => r.seen[d] = live'[d]
                 /\ seen = live'[e]
  BY <1>2, <1>5 DEF AsReleased
<1> HIDE DEF r
<1>6. ASSUME NEW a \in {"create", "adopt", "push", "save"}, Go(p, at(a)),
             a = "adopt" => seen # None, a \in {"push", "save"} => row[e] # None,
             a = "save" => /\ seen # None /\ seen.id = row[e].id /\ seen.text = Text(p)
                           /\ ~ BadgeDrift(p, seen, row[e])
      PROVE  DefinitionsInv'
  <2>1. /\ at(a) \in Passes /\ at(a).at = a /\ at(a).entry = e /\ at(a).mine = row[e]
        /\ at(a).seen = pass[p].seen /\ at(a).changed = r.changed /\ at(a).alone = r.alone
    BY <1>3, <1>6 DEF Passes, AtEntry
  <2> HIDE DEF at
  <2>2. InHand(at(a))
    BY <1>1, <1>6, <2>1, Parameters DEF InHand
  <2>3. pass'[p] = at(a)
    BY <1>6, Fields, <1>1 DEF Go
  <2>4. Text(p)' = Text(p) /\ Art(p)' = Art(p)
    BY <1>1, <2>1, <2>3 DEF Text, Art, Now
  <2>6. at(a).alone => /\ at(a).seen[at(a).entry] = live'[at(a).entry]
                       /\ row'[at(a).entry] = at(a).mine
    BY <1>2, <1>9, <2>1
  <2>7. /\ at(a).alone => /\ \A d \in Entries : d < at(a).entry => AsReleased(Release[p], d)'
                          /\ \A d \in Entries : d > at(a).entry => at(a).seen[d] = live'[d]
        /\ at(a).at \in {"create", "adopt", "push", "save"}
    BY <1>3, <1>6, <1>9, <2>1
  <2>8. at(a).at = "save" /\ at(a).alone =>
          /\ live'[at(a).entry] # None /\ live'[at(a).entry].id = at(a).mine.id
          /\ live'[at(a).entry].text = Text(p) /\ (Art(p) # NoBadge => live'[at(a).entry].badge # NoBadge)
          /\ ~ BadgeDrift(p, at(a).seen[at(a).entry], at(a).mine)
    BY <1>6, <1>9, <2>1 DEF BadgeDrift
  <2> HIDE DEF e, seen
  <2>5. Knows(p)'
    BY <2>3, <2>4, <2>6, <2>7, <2>8 DEF Knows, AtEntry, AtRepair, InStep, BadgeDrift
  <2> QED BY <1>4, <1>6, <2>1, <2>2, <2>5
<1>7. CASE ~ (row[e] # None /\ seen # None /\ seen.id = row[e].id)
  <2>1. Go(p, at(IF seen = None THEN "create" ELSE "adopt"))
    BY <1>7, <1>3 DEF reconcileEntry, r
  <2> HIDE DEF at
  <2> QED BY <1>6, <2>1
<1>8. CASE row[e] # None /\ seen # None /\ seen.id = row[e].id
  <2>1. Go(p, reconcileAchievement(p, seen, r))
    BY <1>8, <1>3 DEF reconcileEntry, r
  <2> DEFINE drift == seen.text # Text(p) \/ BadgeDrift(p, seen, r.mine)
  <2>3. CASE drift
    <3>1. Go(p, at("push"))
      BY <2>1, <2>3 DEF reconcileAchievement
    <3> HIDE DEF at
    <3> QED BY <1>6, <1>8, <3>1
  <2>4. CASE ~ drift /\ ~ Mirrors(r.mine, p)
    <3>1. Go(p, at("save"))
      BY <2>1, <2>4 DEF reconcileAchievement
    <3> HIDE DEF at
    <3> QED BY <1>3, <1>6, <1>8, <2>4, <3>1
  <2>5. CASE ~ drift /\ Mirrors(r.mine, p)
    <3>1. Go(p, After(r))
      BY <2>1, <2>5 DEF reconcileAchievement
    <3>2. r \in Passes' /\ lastId' \in Nat /\ Passes' = Passes
      BY <1>1, <1>2, <1>3 DEF Passes, Live, Rows
    <3>3. /\ After(r) \in Passes /\ InHand(After(r)) /\ After(r).at # "idle"
          /\ After(r).changed = r.changed /\ (After(r).at = "end" => ~ r.changed)
      BY <1>1, <1>3, <3>2, AfterEntry
    <3>4. pass'[p] = After(r)
      BY <3>1, Fields, <1>1 DEF Go
    <3>5. r.alone => \A d \in Entries : /\ d < r.entry \/ d = r.entry => AsReleased(Release[p], d)'
                                        /\ d > r.entry => r.seen[d] = live'[d]
      <4>1. ASSUME r.alone, NEW d \in Entries, d = e PROVE AsReleased(Release[p], d)'
        <5>1. live'[d] = seen /\ row'[d] = row[e] /\ r.mine = row[e]
          BY <1>2, <1>3, <1>9, <4>1
        <5>2. /\ row[e].text = Text(p) /\ row[e].exp = Worth(p) /\ row[e].badge = Art(p)
              /\ seen.text = Text(p) /\ (Art(p) # NoBadge => seen.badge # NoBadge)
          BY <2>5, <5>1 DEF Mirrors, BadgeDrift
        <5>3. /\ Text(p) = Wording[Release[p]][d] /\ Worth(p) = Exp[Release[p]][d]
              /\ Art(p) = Badge[Release[p]][d]
          BY <1>1, <4>1
        <5>4. RecordedBadge(d)'
          BY <1>2, SameRecorded DEF BadgeKnown
        <5> HIDE DEF seen, e
        <5> QED BY <1>8, <5>1, <5>2, <5>3, <5>4 DEF AsReleased, RecordedBadge
      <4> QED BY <1>3, <1>9, <4>1
    <3>6. Knows(p)'
      BY <1>1, <1>3, <3>2, <3>4, <3>5, AfterKnows
    <3> QED BY <1>4, <3>1, <3>3, <3>6
  <2> QED BY <2>3, <2>4, <2>5
<1> QED BY <1>7, <1>8

\* The achievement is there as released, before its row.
LEMMA CreateOnGitLabKeeps ==
  ASSUME DefinitionsInv, NEW p \in Processes, CreateOnGitLab(p) PROVE DefinitionsInv'
<1> DEFINE n == [pass[p] EXCEPT !.at = "record", !.id = lastId']
           a == [id |-> lastId', text |-> Text(p), badge |-> Art(p)]
<1>14. PICK e \in Entries : e = Now(p)
  BY Hand DEF CreateOnGitLab, AtEntry
<1>1. /\ TypeOK /\ DataType /\ lastId \in Nat /\ pass[p] \in Passes /\ pass[p].at = "create" /\ p \in up
      /\ Knows(p) /\ e \in Entries /\ pass[p].entry = e /\ Text(p) \in Texts /\ Art(p) \in Badges
      /\ mistaken' = mistaken /\ lastId' = lastId + 1 /\ live' = [live EXCEPT ![e] = a]
      /\ Touch(p, n) /\ settled' = None
      /\ UNCHANGED <<mistaken, row, user, world, holder, cleanup, faults, owed>>
  BY <1>14, Hand DEF CreateOnGitLab, Busy, AtEntry, Touch
<1>2. /\ held' = held /\ total' = total /\ open' = open /\ row' = row /\ owed' = owed
      /\ faults' \in 0 .. MaxFaults
  BY <1>1 DEF user, TypeOK
<1>3. /\ Live \subseteq Live' /\ Rows \subseteq Rows' /\ Passes \subseteq Passes' /\ lastId' \in Nat
      /\ lastId' \in 0 .. lastId' /\ lastId' \in 1 .. lastId' /\ lastId' # 0
  BY <1>1, TypesGrow
<1>4. /\ n \in Passes' /\ n.at = "record" /\ n.id = lastId' /\ n.entry = e /\ n.seen = pass[p].seen
      /\ n.changed = pass[p].changed /\ n.alone = pass[p].alone
  <2>1. pass[p] \in Passes'
    BY <1>1, <1>3
  <2> QED BY <1>1, <1>3, <2>1 DEF Passes, AtEntry
<1> HIDE DEF n
<1>5. InHand(n)
  BY <1>1, <1>3, <1>4, Parameters DEF InHand
<1>6. live' \in [Entries -> Live' \cup {None}] /\ live'[e] = a /\ \A d \in Entries \ {e} : live'[d] = live[d]
  <2>1. a \in Live'
    BY <1>1, <1>3 DEF Live
  <2>2. live \in [Entries -> Live' \cup {None}]
    BY <1>1, <1>3 DEF DataType
  <2> HIDE DEF a
  <2> QED BY <1>1, <2>1, <2>2
<1>7. DataType'
  <2>1. row' \in [Entries -> Rows' \cup {None}]
    BY <1>1, <1>2, <1>3 DEF DataType
  <2> QED BY <1>1, <1>2, <1>3, <1>6, <2>1 DEF DataType
<1>8. Knows(p)'
  <2>1. Moved(p, n)
    BY <1>1, <1>4, <1>5, PassMoves
  <2>2. pass'[p] = n
    BY <2>1 DEF Moved
  <2>3. Text(p)' = Text(p) /\ Art(p)' = Art(p)
    BY <1>1, <1>4, <2>2 DEF Text, Art, Now
  <2>4. n.alone => /\ \A d \in Entries : d < e => AsReleased(Release[p], d)
                   /\ \A d \in Entries : d > e => n.seen[d] = live[d]
    BY <1>1, <1>4 DEF Knows, AtEntry
  <2>5. n.alone => /\ \A d \in Entries : d < e => AsReleased(Release[p], d)'
                   /\ \A d \in Entries : d > e => n.seen[d] = live'[d]
    BY <1>1, <1>2, <1>6, <2>4, OthersReleased, Parameters
  <2> QED BY <1>4, <1>6, <2>2, <2>3, <2>5 DEF Knows, AtEntry, AtRepair
<1>9. Stale' <=> Stale
  BY <1>2, StaleSame
<1>10. Repairing(pass[p]) => Repairing(n)
  BY <1>4 DEF Repairing
<1>11. holder' = holder /\ n.at # "idle" /\ UNCHANGED <<world, cleanup>>
  BY <1>1, <1>4
<1>12. holder \in {holder, p}
  OBVIOUS
<1>13. BadgeKnown'
  <2>1. row[e] # None => row[e].id # lastId'
    <3>1. row[e] # None => row[e].id \in 1 .. lastId
      BY <1>1, Fields DEF Rows
    <3> QED BY <1>1, <3>1
  <2>2. RecordedBadge(e)'
    BY <1>2, <1>6, <2>1 DEF RecordedBadge
  <2> QED BY <1>1, <1>2, <1>6, <2>2, OthersRecorded
<1> QED BY <1>1, <1>2, <1>4, <1>5, <1>7, <1>8, <1>9, <1>10, <1>11, <1>12, <1>13, PassKeeps

\* A step that writes a row, by which a pass goes on.
LEMMA RowKeeps ==
  ASSUME DefinitionsInv, NEW p \in Processes, pass[p].at \in AtEntry,
         NEW e \in Entries, e = Now(p), NEW x \in Rows, row' = [row EXCEPT ![e] = x],
         NEW next \in Passes, InHand(next), Touch(p, next), next.at # "idle",
         UNCHANGED <<live, lastId, user, world, holder, cleanup, faults>>,
         mistaken' \subseteq Entries, BadgeKnown', Knows(p)',
         owed' = Adopted(e, x.exp) \/ (owed' = owed /\ (Repairing(next) \/ row[e] = None)),
         Repairing(pass[p]) => Repairing(next)
  PROVE  DefinitionsInv'
<1>1. /\ TypeOK /\ DataType /\ lastId \in Nat /\ p \in up
      /\ held' = held /\ total' = total /\ open' = open /\ lastId' = lastId /\ live' = live
      /\ holder' = holder /\ UNCHANGED <<world, cleanup>> /\ settled' = None
  BY Hand DEF user, Touch, Busy, AtEntry
<1>2. faults' \in 0 .. MaxFaults
  BY <1>1 DEF TypeOK
<1>3. Live' = Live /\ Rows' = Rows /\ Passes' = Passes
  BY <1>1 DEF Live, Rows, Passes
<1>4. /\ row' \in [Entries -> Rows \cup {None}] /\ row'[e] = x /\ x # None
      /\ \A d \in Entries \ {e} : row'[d] = row[d]
  BY <1>1, Fields DEF DataType
<1>5. owed \subseteq owed' /\ owed' \subseteq {"cut short", "adopted", "overlapped", "uninstalled"}
  BY <1>1 DEF Adopted, DataType
<1>6. DataType'
  <2>1. held \subseteq {d \in Entries : row'[d] # None}
    BY <1>1, <1>4 DEF DataType
  <2>2. open # None => row'[open.tier] # None /\ open.tier \notin held
    <3>1. open # None => open.tier \in Entries
      BY <1>1 DEF DataType
    <3> QED BY <1>1, <1>4, <3>1 DEF DataType
  <2> QED BY <1>1, <1>3, <1>4, <1>5, <2>1, <2>2 DEF DataType
<1> DEFINE counted == held \cup (IF open = None THEN {} ELSE {open.tier})
<1>7. Stale' => Stale \/ owed' # {} \/ Repairing(next)
  <2> SUFFICES ASSUME owed' = {}, ~ Repairing(next) PROVE Stale' <=> Stale
    OBVIOUS
  <2>1. row[e] # None => row[e].exp = x.exp \/ e \notin counted
    BY <1>5 DEF Adopted
  <2>2. row[e] = None => e \notin counted
    BY <1>1 DEF DataType
  <2>3. counted \subseteq Entries
    BY <1>1 DEF DataType
  <2>4. \A d \in counted : row'[d].exp = row[d].exp
    BY <1>4, <2>1, <2>2, <2>3
  <2> QED BY <1>1, <2>4, StaleSame
<1>8. holder' \in {holder, p}
  BY <1>1
<1> QED BY <1>1, <1>2, <1>3, <1>5, <1>6, <1>7, <1>8, PassKeeps

\* And then the row names it; one that was saved over another is cause for a repair.
LEMMA RecordCreatedKeeps ==
  ASSUME DefinitionsInv, NEW p \in Processes, RecordCreated(p) PROVE DefinitionsInv'
<1> DEFINE r == pass[p]
           x == [id |-> r.id, text |-> Text(p), badge |-> Art(p), exp |-> Worth(p)]
           a == [id |-> r.id, text |-> Text(p), badge |-> Art(p)]
           s == [r EXCEPT !.changed = @ \/ (r.mine # None)]
<1>1. PICK e \in Entries : e = Now(p)
  BY Hand DEF RecordCreated, AtEntry
<1>2. /\ TypeOK /\ DataType /\ lastId \in Nat /\ r \in Passes /\ r.at = "record" /\ Knows(p) /\ InHand(r)
      /\ r.entry = e /\ Text(p) \in Texts /\ Art(p) \in Badges /\ Worth(p) \in Nat
      /\ Text(p) = Wording[Release[p]][e] /\ Art(p) = Badge[Release[p]][e] /\ Worth(p) = Exp[Release[p]][e]
      /\ Judge(p, TRUE) /\ (r.mine # None \/ row[e] = None)
      /\ row' = [row EXCEPT ![e] = x] /\ Touch(p, After(s))
      /\ UNCHANGED <<live, lastId, user, world, holder, cleanup, faults>> /\ owed' = owed
      /\ lastId' = lastId /\ live' = live
  BY <1>1, Hand DEF RecordCreated, AtEntry, AfterSave
<1>3. x \in Rows /\ a # None
  <2>1. r.id \in 1 .. lastId
    BY <1>2 DEF Passes, InHand
  <2>2. a \in Live
    BY <1>2, <2>1 DEF Live
  <2> QED BY <1>2, <2>1, <2>2, Fields DEF Rows
<1>4. Passes' = Passes /\ lastId' \in Nat
  BY <1>2 DEF Passes, Live, Rows
<1>5. /\ s \in Passes /\ s.entry = e /\ s.at = "record" /\ s.alone = r.alone /\ s.seen = r.seen
      /\ (s.changed <=> r.changed \/ r.mine # None)
  <2>1. (r.changed \/ (r.mine # None)) \in BOOLEAN
    BY Zenon
  <2> QED BY <1>2, <2>1 DEF Passes
<1>10. /\ s.alone => live[e] = a /\ a.id = r.id /\ a.text = Text(p) /\ a.badge = Art(p)
       /\ x # None /\ x.id = r.id /\ x.text = Text(p) /\ x.badge = Art(p) /\ x.exp = Worth(p)
  BY <1>2, <1>3, <1>5, Fields DEF Knows, AtEntry
<1>11. /\ row'[e] = x /\ \A d \in Entries \ {e} : row'[d] = row[d]
       /\ mistaken' \subseteq Entries /\ mistaken' \ {e} = mistaken \ {e}
  BY <1>1, <1>2, Judgement, Fields
<1> HIDE DEF a, x, s
<1>6. /\ After(s) \in Passes /\ InHand(After(s)) /\ After(s).at # "idle" /\ After(s).changed = s.changed
      /\ (After(s).at = "end" => ~ s.changed)
  BY <1>4, <1>5, AfterEntry
<1>7. Repairing(pass[p]) \/ r.mine # None => Repairing(After(s))
  BY <1>5, <1>6 DEF Repairing
<1>8. pass'[p] = After(s)
  <2>1. Moved(p, After(s))
    BY <1>2, <1>4, <1>6, PassMoves
  <2> QED BY <2>1 DEF Moved
<1>9. Knows(p)'
  <2>1. s.alone => \A d \in Entries : /\ d < e => AsReleased(Release[p], d)
                                      /\ d > e => s.seen[d] = live[d]
    BY <1>2, <1>5, <1>10 DEF Knows, AtEntry
  <2>3. s.alone => \A d \in Entries : d < e => AsReleased(Release[p], d)'
    BY <1>2, <1>11, <2>1, OthersReleased, Parameters
  <2>4. s.alone => AsReleased(Release[p], e)'
    BY <1>2, <1>3, <1>10, <1>11 DEF AsReleased
  <2> QED BY <1>2, <1>4, <1>5, <1>8, <2>1, <2>3, <2>4, AfterKnows
<1>12. BadgeKnown'
  <2>1. RecordedBadge(e)'
    <3>1. CASE r.alone
      BY <1>2, <1>5, <1>10, <1>11, <3>1 DEF RecordedBadge
    <3>2. CASE ~ r.alone
      BY <1>1, <1>2, <3>2 DEF RecordedBadge, Judge
    <3> QED BY <3>1, <3>2
  <2> QED BY <1>2, <1>11, <2>1, OthersRecorded
<1> QED BY <1>1, <1>2, <1>3, <1>6, <1>7, <1>9, <1>11, <1>12, RowKeeps DEF AtEntry

\* The row names what GitLab had; what it was worth before is owed.
LEMMA adoptAchievementKeeps ==
  ASSUME DefinitionsInv, NEW p \in Processes, adoptAchievement(p) PROVE DefinitionsInv'
<1> DEFINE seen == pass[p].seen[Now(p)]
           badge == IF seen.badge = NoBadge THEN NoBadge ELSE Art(p)
           x == [id |-> seen.id, text |-> seen.text, badge |-> badge, exp |-> Worth(p)]
           r == [pass[p] EXCEPT !.mine = x, !.adopting = TRUE]
           u == [r EXCEPT !.at = "push"]
           next == reconcileAchievement(p, seen, r)
           drift == seen.text # Text(p) \/ BadgeDrift(p, seen, x)
<1>1. PICK e \in Entries : e = Now(p)
  BY Hand DEF adoptAchievement, AtEntry
<1>2. /\ TypeOK /\ DataType /\ lastId \in Nat /\ pass[p] \in Passes /\ pass[p].at = "adopt" /\ Knows(p)
      /\ pass[p].entry = e /\ Text(p) \in Texts /\ Art(p) \in Badges /\ Worth(p) \in Nat
      /\ seen \in Live /\ seen = pass[p].seen[e]
      /\ Text(p) = Wording[Release[p]][e] /\ Art(p) = Badge[Release[p]][e] /\ Worth(p) = Exp[Release[p]][e]
      /\ row' = [row EXCEPT ![e] = x] /\ Touch(p, next) /\ owed' = Adopted(e, x.exp)
      /\ Judge(p, seen.badge \in {NoBadge, Art(p)})
      /\ UNCHANGED <<live, lastId, user, world, holder, cleanup, faults>>
      /\ lastId' = lastId /\ live' = live
  BY <1>1, Hand DEF adoptAchievement, AtEntry, InHand
<1>3. /\ x \in Rows /\ x # None /\ seen # None
      /\ x.id = seen.id /\ x.text = seen.text /\ x.badge = badge /\ x.exp = Worth(p)
  <2>1. badge \in Badges
    <3>1. NoBadge \in Badges
      BY DEF Badges
    <3>2. Art(p) \in Badges
      BY <1>2
    <3> QED BY <3>1, <3>2
  <2>2. x \in Rows
    BY <1>2, <2>1 DEF Live, Rows
  <2> HIDE DEF x
  <2> QED BY <1>2, <2>2, Fields DEF x
<1>4. Passes' = Passes /\ lastId' \in Nat
  BY <1>2 DEF Passes, Live, Rows
<1> HIDE DEF x
<1>5. /\ r \in Passes /\ r.entry = e /\ r.at = "adopt" /\ r.alone = pass[p].alone /\ r.mine = x
      /\ r.seen = pass[p].seen /\ r.changed = pass[p].changed
  BY <1>2, <1>3 DEF Passes
<1> HIDE DEF r
<1>6. u \in Passes /\ u.at = "push" /\ u.entry = e /\ u.mine = x /\ u.seen = r.seen /\ u.changed = r.changed
      /\ u.alone = r.alone
  BY <1>2, <1>5 DEF Passes, AtEntry
<1>14. ~ drift => x.badge = Art(p) /\ (Art(p) # NoBadge => seen.badge # NoBadge)
  BY <1>3 DEF BadgeDrift
<1>7. IF drift THEN next = u ELSE next = After(r)
  BY <1>3, <1>5, <1>14 DEF reconcileAchievement, Mirrors
<1> HIDE DEF u, next, drift
<1>8. /\ next \in Passes /\ InHand(next) /\ next.at # "idle" /\ next.changed = r.changed
      /\ (next.at = "end" => ~ next.changed)
  <2>1. CASE ~ drift
    BY <1>4, <1>5, <1>7, <2>1, AfterEntry
  <2>2. CASE drift
    <3>1. InHand(u)
      BY <1>3, <1>6, Parameters DEF InHand
    <3> QED BY <1>6, <1>7, <2>2, <3>1
  <2> QED BY <2>1, <2>2
<1>9. Repairing(pass[p]) => Repairing(next)
  BY <1>5, <1>8 DEF Repairing
<1>10. pass'[p] = next
  <2>1. Moved(p, next)
    BY <1>2, <1>4, <1>8, PassMoves
  <2> QED BY <2>1 DEF Moved
<1>11. /\ row'[e] = x /\ \A d \in Entries \ {e} : row'[d] = row[d]
       /\ mistaken' \subseteq Entries /\ mistaken' \ {e} = mistaken \ {e}
  BY <1>1, <1>2, Judgement, Fields
<1>12. r.alone => /\ \A d \in Entries : d < e => AsReleased(Release[p], d)'
                  /\ \A d \in Entries : d > e => r.seen[d] = live'[d]
                  /\ live'[e] = seen
  <2>1. r.alone => /\ \A d \in Entries : d < e => AsReleased(Release[p], d)
                   /\ \A d \in Entries : d > e => r.seen[d] = live[d]
                   /\ live[e] = seen
    BY <1>2, <1>5 DEF Knows, AtEntry
  <2> QED BY <1>2, <1>11, <2>1, OthersReleased, Parameters
<1>15. BadgeKnown'
  <2>1. RecordedBadge(e)'
    <3>1. CASE e \in mistaken'
      BY <3>1 DEF RecordedBadge
    <3>2. CASE e \notin mistaken'
      <4>1. pass[p].alone /\ seen.badge \in {NoBadge, Art(p)}
        BY <1>1, <1>2, <3>2 DEF Judge
      <4>2. live'[e] = seen /\ row'[e] = x /\ x.badge = badge
        BY <1>3, <1>5, <1>11, <1>12, <4>1
      <4> HIDE DEF seen
      <4> QED BY <4>1, <4>2 DEF RecordedBadge
    <3> QED BY <3>1, <3>2
  <2> QED BY <1>2, <1>11, <2>1, OthersRecorded
<1>13. Knows(p)'
  <2>1. CASE ~ drift
    <3>1. r.alone => AsReleased(Release[p], e)'
      <4>1. seen.text = Text(p) /\ RecordedBadge(e)'
        BY <1>15, <2>1 DEF drift, BadgeKnown
      <4> HIDE DEF seen
      <4> QED BY <1>2, <1>3, <1>11, <1>12, <1>14, <2>1, <4>1 DEF AsReleased, RecordedBadge
    <3> QED BY <1>4, <1>5, <1>7, <1>10, <1>12, <2>1, <3>1, AfterKnows
  <2>2. CASE drift
    BY <1>2, <1>5, <1>6, <1>7, <1>10, <1>11, <1>12, <2>2 DEF Knows, AtEntry, AtRepair
  <2> QED BY <2>1, <2>2
<1> QED BY <1>1, <1>2, <1>3, <1>8, <1>9, <1>11, <1>13, <1>15, RowKeeps DEF AtEntry

\* GitLab has what the release says, before the row.
LEMMA pushAchievementUpdateKeeps ==
  ASSUME DefinitionsInv, NEW p \in Processes, pushAchievementUpdate(p) PROVE DefinitionsInv'
<1> DEFINE n == [pass[p] EXCEPT !.at = "save"]
           drift == BadgeDrift(p, pass[p].seen[Now(p)], pass[p].mine)
           badge == IF drift THEN Art(p) ELSE live[Now(p)].badge
           a == [id |-> pass[p].mine.id, text |-> Text(p), badge |-> badge]
<1>1. PICK e \in Entries : e = Now(p)
  BY Hand DEF pushAchievementUpdate, AtEntry
<1>2. /\ TypeOK /\ DataType /\ lastId \in Nat /\ pass[p] \in Passes /\ pass[p].at = "push" /\ p \in up
      /\ Knows(p) /\ InHand(pass[p]) /\ pass[p].entry = e /\ Text(p) \in Texts /\ Art(p) \in Badges
      /\ ~ Gone(e, pass[p].mine.id)
      /\ live' = [live EXCEPT ![e] = a]
      /\ IF drift THEN Judge(p, pass[p].mine.badge = Art(p)) ELSE mistaken' = mistaken
      /\ Touch(p, n) /\ settled' = None
      /\ UNCHANGED <<lastId, row, user, world, holder, cleanup, faults, owed>>
  BY <1>1, Hand DEF pushAchievementUpdate, Busy, AtEntry, Touch
<1>3. /\ held' = held /\ total' = total /\ open' = open /\ row' = row /\ owed' = owed /\ lastId' = lastId
      /\ faults' \in 0 .. MaxFaults /\ holder' = holder
      /\ Live' = Live /\ Rows' = Rows /\ Passes' = Passes
  BY <1>2 DEF user, TypeOK, Live, Rows, Passes
<1>4. /\ n \in Passes /\ n.at = "save" /\ n.entry = e /\ n.seen = pass[p].seen /\ n.mine = pass[p].mine
      /\ n.changed = pass[p].changed /\ n.alone = pass[p].alone
  BY <1>2 DEF Passes, AtEntry
<1> HIDE DEF n
<1>5. InHand(n)
  BY <1>2, <1>4, Parameters DEF InHand
<1>6. /\ live' \in [Entries -> Live \cup {None}] /\ a \in Live
      /\ live'[e] = a /\ \A d \in Entries \ {e} : live'[d] = live[d]
  <2>1. live[e] \in Live /\ live[e].id = pass[p].mine.id
    BY <1>2, Fields DEF Gone
  <2>5. badge \in Badges
    BY <1>1, <1>2, <2>1 DEF Live
  <2>2. a \in Live
    BY <1>2, <2>1, <2>5 DEF Live
  <2>3. live' = [live EXCEPT ![e] = a]
    BY <1>2
  <2>4. live \in [Entries -> Live \cup {None}]
    BY <1>2 DEF DataType
  <2> HIDE DEF a
  <2> QED BY <2>2, <2>3, <2>4
<1>12. mistaken' \subseteq Entries /\ mistaken' \ {e} = mistaken \ {e}
  BY <1>1, <1>2, Judgement
<1>7. DataType'
  BY <1>2, <1>3, <1>6, <1>12 DEF DataType
<1>13. a # None /\ a.id = pass[p].mine.id /\ a.text = Text(p) /\ a.badge = badge
  <2>1. a # None
    BY <1>2, <1>6, Fields
  <2> QED BY <2>1
<1> HIDE DEF a
<1>14. pass[p].alone => /\ \A d \in Entries : /\ d < e => AsReleased(Release[p], d)
                                              /\ d > e => pass[p].seen[d] = live[d]
                        /\ pass[p].seen[e] = live[e] /\ row[e] = pass[p].mine
  BY <1>2 DEF Knows, AtEntry
<1>15. BadgeKnown'
  <2>1. RecordedBadge(e)'
    <3>1. CASE drift
      <4>1. (pass[p].alone /\ pass[p].mine.badge = Art(p)) \/ e \in mistaken'
        BY <1>1, <1>2, <3>1 DEF Judge
      <4> QED BY <1>3, <1>6, <1>13, <1>14, <3>1, <4>1 DEF RecordedBadge
    <3>2. CASE ~ drift
      <4>1. RecordedBadge(e) /\ mistaken' = mistaken /\ a.badge = live[e].badge /\ a.id = live[e].id
            /\ live[e] # None
        BY <1>1, <1>2, <1>13, <3>2 DEF DefinitionsInv, BadgeKnown, Gone
      <4> QED BY <1>3, <1>6, <1>13, <4>1 DEF RecordedBadge
    <3> QED BY <3>1, <3>2
  <2> QED BY <1>3, <1>6, <1>12, <2>1, OthersRecorded
<1>8. Knows(p)'
  <2>1. Moved(p, n)
    BY <1>2, <1>3, <1>4, <1>5, PassMoves
  <2>2. pass'[p] = n
    BY <2>1 DEF Moved
  <2>3. Text(p)' = Text(p) /\ Art(p)' = Art(p)
    BY <1>2, <1>4, <2>2 DEF Text, Art, Now
  <2>4. n.alone => /\ \A d \in Entries : d < e => AsReleased(Release[p], d)'
                   /\ \A d \in Entries : d > e => n.seen[d] = live'[d]
    BY <1>3, <1>4, <1>6, <1>12, <1>14, OthersReleased, Parameters
  <2>5. n.alone => (Art(p) # NoBadge => badge # NoBadge) /\ (drift => badge = Art(p))
    BY <1>1, <1>4, <1>14 DEF BadgeDrift
  <2>6. n.alone => InStep(p, pass[p], live[e])'
    BY <1>1, <1>4, <1>6, <1>13, <2>2, <2>3, <2>5 DEF InStep, BadgeDrift
  <2> QED BY <1>3, <1>4, <1>14, <2>2, <2>3, <2>4, <2>6 DEF Knows, AtEntry, AtRepair
<1>9. Stale' <=> Stale
  BY <1>3, StaleSame
<1>10. Repairing(pass[p]) => Repairing(n)
  BY <1>4 DEF Repairing
<1>11. holder' \in {holder, p} /\ UNCHANGED <<world, cleanup>>
  BY <1>2, <1>3
<1> QED BY <1>2, <1>3, <1>4, <1>5, <1>7, <1>8, <1>9, <1>10, <1>11, <1>15, PassKeeps

\* The entry is as released; a retune is cause for a repair, or owed.
LEMMA SaveRowKeeps ==
  ASSUME DefinitionsInv, NEW p \in Processes, SaveRow(p) PROVE DefinitionsInv'
<1> DEFINE r == pass[p]
           x == [id |-> r.mine.id, text |-> Text(p), badge |-> Art(p), exp |-> Worth(p)]
           drift == BadgeDrift(p, r.seen[Now(p)], r.mine)
           s == [r EXCEPT !.changed = @ \/ ~ r.adopting]
<1>1. PICK e \in Entries : e = Now(p)
  BY Hand DEF SaveRow, AtEntry
<1>2. /\ TypeOK /\ DataType /\ lastId \in Nat /\ r \in Passes /\ r.at = "save" /\ Knows(p) /\ InHand(r)
      /\ r.entry = e /\ Text(p) \in Texts /\ Art(p) \in Badges /\ Worth(p) \in Nat
      /\ Text(p) = Wording[Release[p]][e] /\ Art(p) = Badge[Release[p]][e] /\ Worth(p) = Exp[Release[p]][e]
      /\ row' = [row EXCEPT ![e] = x] /\ Touch(p, After(s))
      /\ IF r.alone /\ ~ drift THEN mistaken' = mistaken ELSE Judge(p, TRUE)
      /\ owed' = IF r.adopting THEN Adopted(e, Worth(p)) ELSE owed
      /\ UNCHANGED <<live, lastId, user, world, holder, cleanup, faults>>
      /\ lastId' = lastId /\ live' = live
  BY <1>1, Hand DEF SaveRow, AtEntry, AfterSave
<1>3. /\ x \in Rows /\ x # None
      /\ x.id = r.mine.id /\ x.text = Text(p) /\ x.badge = Art(p) /\ x.exp = Worth(p)
  <2>1. r.mine \in Rows
    BY <1>2 DEF Passes, InHand
  <2>2. r.mine.id \in 1 .. lastId
    BY <2>1 DEF Rows
  <2>3. x \in Rows
    BY <1>2, <2>2 DEF Rows
  <2> QED BY <1>2, <2>3, Fields
<1>4. Passes' = Passes /\ lastId' \in Nat
  BY <1>2 DEF Passes, Live, Rows
<1>5. /\ s \in Passes /\ s.entry = e /\ s.at = "save" /\ s.alone = r.alone /\ s.seen = r.seen
      /\ (s.changed <=> r.changed \/ ~ r.adopting)
  <2>1. (r.changed \/ ~ r.adopting) \in BOOLEAN
    BY Zenon
  <2> QED BY <1>2, <2>1 DEF Passes
<1> HIDE DEF x, s
<1>6. /\ After(s) \in Passes /\ InHand(After(s)) /\ After(s).at # "idle" /\ After(s).changed = s.changed
      /\ (After(s).at = "end" => ~ s.changed)
  BY <1>4, <1>5, AfterEntry
<1>7. Repairing(pass[p]) \/ ~ r.adopting => Repairing(After(s))
  BY <1>5, <1>6 DEF Repairing
<1>8. pass'[p] = After(s)
  <2>1. Moved(p, After(s))
    BY <1>2, <1>4, <1>6, PassMoves
  <2> QED BY <2>1 DEF Moved
<1>11. /\ row'[e] = x /\ \A d \in Entries \ {e} : row'[d] = row[d]
       /\ mistaken' \subseteq Entries /\ mistaken' \ {e} = mistaken \ {e}
  BY <1>1, <1>2, Judgement, Fields
<1>12. r.alone => /\ \A d \in Entries : /\ d < e => AsReleased(Release[p], d)
                                        /\ d > e => r.seen[d] = live[d]
                  /\ row[e] = r.mine /\ r.mine # None
                  /\ live[e] # None /\ live[e].id = r.mine.id /\ live[e].text = Text(p)
                  /\ (Art(p) # NoBadge => live[e].badge # NoBadge) /\ (drift => live[e].badge = Art(p))
  BY <1>1, <1>2 DEF Knows, AtEntry, InStep, InHand
<1>13. BadgeKnown'
  <2>1. RecordedBadge(e)'
    <3>1. CASE r.alone /\ ~ drift
      <4>1. RecordedBadge(e) /\ mistaken' = mistaken /\ (Art(p) = NoBadge \/ row[e].badge = Art(p))
        BY <1>2, <1>12, <3>1 DEF DefinitionsInv, BadgeKnown, BadgeDrift
      <4> QED BY <1>2, <1>3, <1>11, <1>12, <3>1, <4>1 DEF RecordedBadge
    <3>2. CASE r.alone /\ drift
      BY <1>2, <1>3, <1>11, <1>12, <3>2 DEF RecordedBadge
    <3>3. CASE ~ r.alone
      BY <1>1, <1>2, <3>3 DEF RecordedBadge, Judge
    <3> QED BY <3>1, <3>2, <3>3
  <2> QED BY <1>2, <1>11, <2>1, OthersRecorded
<1>9. Knows(p)'
  <2>1. s.alone => \A d \in Entries : /\ d < e => AsReleased(Release[p], d)
                                      /\ d > e => s.seen[d] = live[d]
    BY <1>2, <1>5 DEF Knows, AtEntry
  <2>3. s.alone => \A d \in Entries : d < e => AsReleased(Release[p], d)'
    BY <1>2, <1>11, <2>1, OthersReleased, Parameters
  <2>4. s.alone => AsReleased(Release[p], e)'
    <3>1. RecordedBadge(e)'
      BY <1>13 DEF BadgeKnown
    <3> QED BY <1>2, <1>3, <1>5, <1>11, <1>12, <3>1 DEF AsReleased, RecordedBadge
  <2> QED BY <1>2, <1>4, <1>5, <1>8, <2>1, <2>3, <2>4, AfterKnows
<1>10. owed' = Adopted(e, x.exp) \/ (owed' = owed /\ Repairing(After(s)))
  BY <1>2, <1>3, <1>7
<1> QED BY <1>1, <1>2, <1>3, <1>6, <1>7, <1>9, <1>10, <1>11, <1>13, RowKeeps DEF AtEntry

\* The total is read.
LEMMA LoadUsersKeeps ==
  ASSUME DefinitionsInv, NEW p \in Processes, LoadUsers(p) PROVE DefinitionsInv'
<1> DEFINE n == [pass[p] EXCEPT !.at = "user", !.amount = total]
<1>1. /\ TypeOK /\ lastId \in Nat /\ pass[p] \in Passes /\ pass[p].at = "load" /\ p \in up /\ Knows(p)
      /\ Go(p, n) /\ UNCHANGED <<gitlab, row, user, world, holder, cleanup, faults, settled, owed>>
  BY Hand DEF LoadUsers, Busy
<1>2. total \in Nat
  BY <1>1 DEF TypeOK, DataType
<1>3. n \in Passes /\ n.at = "user" /\ n.changed = pass[p].changed /\ n.alone = pass[p].alone
  BY <1>1, <1>2 DEF Passes, AtRepair
<1> HIDE DEF n
<1>4. InHand(n) /\ pass'[p] = n
  BY <1>1, <1>3, Fields DEF InHand, AtEntry, Go
<1>5. Knows(p)'
  BY <1>1, <1>3, <1>4 DEF Knows, AtEntry, AtRepair, AsReleased, gitlab
<1>6. faults' \in 0 .. MaxFaults /\ owed' \subseteq {"cut short", "adopted", "overlapped", "uninstalled"}
  BY <1>1 DEF TypeOK, DataType
<1>7. Repairing(pass[p]) => Repairing(n)
  BY <1>3 DEF Repairing
<1> QED BY <1>1, <1>3, <1>4, <1>5, <1>6, <1>7, QuietKeeps

\* A total that is found right is right, or is owed for.
LEMMA CompareTotalKeeps ==
  ASSUME DefinitionsInv, NEW p \in Processes, CompareTotal(p) PROVE DefinitionsInv'
<1> DEFINE right == pass[p].amount = heldExp(held)
           n == [pass[p] EXCEPT !.at = IF right THEN "end" ELSE "recompute"]
<1>1. /\ TypeOK /\ lastId \in Nat /\ pass[p] \in Passes /\ pass[p].at = "user" /\ p \in up /\ Knows(p)
      /\ Go(p, n) /\ UNCHANGED <<gitlab, row, user, world, holder, cleanup, faults, settled>>
      /\ owed' = IF right /\ (open # None \/ total # pass[p].amount) THEN owed \cup {"overlapped"} ELSE owed
  BY Hand DEF CompareTotal, Busy
<1>2. /\ n \in Passes /\ n.at = (IF right THEN "end" ELSE "recompute")
      /\ n.changed = pass[p].changed /\ n.alone = pass[p].alone
  BY <1>1 DEF Passes, AtRepair
<1> HIDE DEF n
<1>3. InHand(n) /\ pass'[p] = n
  BY <1>1, <1>2, Fields DEF InHand, AtEntry, Go
<1>4. Knows(p)'
  BY <1>1, <1>2, <1>3 DEF Knows, AtEntry, AtRepair, AsReleased, gitlab
<1>5. /\ faults' \in 0 .. MaxFaults /\ owed \subseteq owed'
      /\ owed' \subseteq {"cut short", "adopted", "overlapped", "uninstalled"}
  BY <1>1 DEF TypeOK, DataType
<1>6. Stale /\ Repairing(pass[p]) => owed' # {} \/ Repairing(n)
  BY <1>1, <1>2 DEF Repairing, Stale
<1> QED BY <1>1, <1>2, <1>3, <1>4, <1>5, <1>6, QuietKeeps

\* What the user's tiers are worth is a natural number.
LEMMA HeldWorth ==
  ASSUME TypeOK, NEW T, T \subseteq {e \in Entries : row[e] # None}
  PROVE  heldExp(T) \in Nat
<1>1. \A e \in T : row[e].exp \in Nat
  BY Fields DEF Rows
<1> QED BY <1>1, WorthType

\* The one UPDATE leaves the total right, or waits.
LEMMA recomputeExpKeeps ==
  ASSUME DefinitionsInv, NEW p \in Processes, recomputeExp(p) PROVE DefinitionsInv'
<1> DEFINE m == [pass[p] EXCEPT !.at = "end"]
           n == [pass[p] EXCEPT !.at = "waiting", !.amount = heldExp(held)]
<1>1. /\ TypeOK /\ DataType /\ lastId \in Nat /\ pass[p] \in Passes /\ pass[p].at = "recompute" /\ p \in up
      /\ Knows(p) /\ UNCHANGED <<gitlab, row, held, open, world, holder, cleanup, faults, settled>>
      /\ live' = live /\ lastId' = lastId /\ mistaken' = mistaken /\ row' = row /\ held' = held
      /\ BadgeKnown'
  BY Hand, SameRecorded DEF recomputeExp, Busy, gitlab
<1>2. heldExp(held) \in Nat /\ heldExp(held)' = heldExp(held)
  <2>1. heldExp(held) \in Nat
    BY <1>1, HeldWorth DEF DataType
  <2>2. heldExp(held)' = heldExp(held)
    BY <1>1 DEF heldExp
  <2> QED BY <2>1, <2>2
<1>3. faults' \in 0 .. MaxFaults /\ holder' \in {holder, p}
  BY <1>1 DEF TypeOK
<1>4. CASE open = None
  <2>1. total' = heldExp(held) /\ owed' = {} /\ Go(p, m)
    BY <1>4 DEF recomputeExp
  <2>2. m \in Passes /\ m.at = "end" /\ m.alone = pass[p].alone
    BY <1>1 DEF Passes, AtRepair
  <2> HIDE DEF m
  <2>3. InHand(m) /\ pass'[p] = m
    BY <1>1, <2>1, <2>2, Fields DEF InHand, AtEntry, Go
  <2>4. Knows(p)'
    BY <1>1, <2>2, <2>3 DEF Knows, AtEntry, AtRepair, AsReleased
  <2>5. ~ Stale'
    BY <1>1, <1>2, <1>4, <2>1 DEF Stale
  <2>6. Passes' = Passes /\ DataType'
    BY <1>1, <1>2, <1>4, <2>1 DEF DataType, Live, Rows, Passes
  <2> QED BY <1>1, <1>3, <2>1, <2>2, <2>3, <2>4, <2>5, <2>6, PassKeeps
<1>5. CASE open # None
  <2>1. total' = total /\ owed' = owed /\ Go(p, n)
    BY <1>5 DEF recomputeExp
  <2>2. n \in Passes /\ n.at = "waiting" /\ n.alone = pass[p].alone /\ n.changed = pass[p].changed
    BY <1>1, <1>2 DEF Passes, AtRepair
  <2> HIDE DEF n
  <2>3. InHand(n) /\ pass'[p] = n
    BY <1>1, <2>1, <2>2, Fields DEF InHand, AtEntry, Go
  <2>4. Knows(p)'
    BY <1>1, <2>2, <2>3 DEF Knows, AtEntry, AtRepair, AsReleased
  <2>5. Repairing(pass[p]) => Repairing(n)
    BY <2>2 DEF Repairing
  <2>6. UNCHANGED user /\ owed' \subseteq {"cut short", "adopted", "overlapped", "uninstalled"}
    BY <1>1, <2>1 DEF user, DataType
  <2> QED BY <1>1, <1>3, <2>1, <2>2, <2>3, <2>4, <2>5, <2>6, QuietKeeps
<1> QED BY <1>4, <1>5

\* What it writes after the wait is owed for.
LEMMA RecomputeResumesKeeps ==
  ASSUME DefinitionsInv, NEW p \in Processes, RecomputeResumes(p) PROVE DefinitionsInv'
<1> DEFINE m == [pass[p] EXCEPT !.at = "end"]
<1>1. /\ TypeOK /\ DataType /\ lastId \in Nat /\ pass[p] \in Passes /\ pass[p].at = "waiting" /\ p \in up
      /\ Knows(p) /\ UNCHANGED <<gitlab, row, held, open, world, holder, cleanup, faults, settled>>
      /\ live' = live /\ lastId' = lastId /\ mistaken' = mistaken /\ row' = row /\ held' = held
      /\ open' = open /\ BadgeKnown'
      /\ Go(p, m) /\ total' \in {pass[p].amount, heldExp(held)} /\ owed' = owed \cup {"overlapped"}
  BY Hand, SameRecorded DEF RecomputeResumes, Busy, gitlab
<1>2. total' \in Nat
  <2>1. heldExp(held) \in Nat
    BY <1>1, HeldWorth DEF DataType
  <2> QED BY <1>1, <2>1 DEF Passes
<1>3. faults' \in 0 .. MaxFaults /\ holder' \in {holder, p}
  BY <1>1 DEF TypeOK
<1>4. m \in Passes /\ m.at = "end" /\ m.alone = pass[p].alone
  BY <1>1 DEF Passes, AtRepair
<1> HIDE DEF m
<1>5. InHand(m) /\ pass'[p] = m
  BY <1>1, <1>4, Fields DEF InHand, AtEntry, Go
<1>6. Knows(p)'
  BY <1>1, <1>4, <1>5 DEF Knows, AtEntry, AtRepair, AsReleased
<1>7. Passes' = Passes /\ DataType'
  BY <1>1, <1>2 DEF DataType, Live, Rows, Passes
<1> QED BY <1>1, <1>3, <1>4, <1>5, <1>6, <1>7, PassKeeps

\* A pass that nothing disturbed ends with everything as released.
LEMMA EndKeeps ==
  ASSUME DefinitionsInv, NEW p \in Processes, End(p) PROVE DefinitionsInv'
<1>1. /\ TypeOK /\ DataType /\ lastId \in Nat /\ pass[p] \in Passes /\ pass[p].at = "end" /\ p \in up
      /\ Knows(p) /\ UNCHANGED <<gitlab, row, user, world, cleanup, faults, owed>>
      /\ live' = live /\ lastId' = lastId /\ mistaken' = mistaken /\ row' = row
      /\ held' = held /\ total' = total /\ open' = open /\ BadgeKnown'
      /\ Go(p, IdlePass) /\ holder' = (IF holder = p THEN None ELSE holder)
      /\ settled' = IF pass[p].alone THEN Release[p] ELSE settled
  BY Hand, SameRecorded DEF End, Busy, gitlab, user
<1>2. faults' \in 0 .. MaxFaults /\ (holder' = None \/ (holder' \in {holder, p} /\ holder' # p))
  BY <1>1, Parameters DEF TypeOK
<1>3. Passes' = Passes /\ DataType'
  <2>1. settled' \in Releases \cup {Removed, None}
    BY <1>1, Parameters DEF DataType
  <2> QED BY <1>1, <2>1 DEF DataType, Live, Rows, Passes
<1>4. settled' = settled \/ (settled' = Release[p] /\ \A e \in Entries : AsReleased(Release[p], e))
  BY <1>1 DEF Knows, AtRepair
<1>5. pass'[p] = IdlePass
  BY <1>1, Fields DEF Go
<1>6. Knows(p)'
  BY <1>5, Resting DEF Knows, AtEntry, AtRepair
<1>7. ~ Repairing(pass[p])
  BY <1>1 DEF Repairing
<1>8. Stale' <=> Stale
  BY <1>1, StaleSame
<1>9. IdlePass \in Passes' /\ InHand(IdlePass)
  BY <1>1, <1>3, Resting
<1> QED BY <1>1, <1>2, <1>3, <1>4, <1>6, <1>7, <1>8, <1>9, PassKeeps

\* A pass that is cut short owes what it would have repaired.
LEMMA AbortedKeeps ==
  ASSUME DefinitionsInv, NEW p \in Processes, Busy(p), Aborted(p), faults' \in 0 .. MaxFaults
  PROVE  DefinitionsInv'
<1>1. /\ TypeOK /\ lastId \in Nat /\ p \in up /\ UNCHANGED <<gitlab, row, user, world, cleanup, settled>>
      /\ Go(p, IdlePass) /\ holder' = (IF holder = p THEN None ELSE holder)
      /\ owed' = IF pass[p].changed THEN owed \cup {"cut short"} ELSE owed
  BY Hand DEF Aborted
<1>2. holder' = None \/ (holder' \in {holder, p} /\ holder' # p)
  BY <1>1, Parameters
<1>3. owed \subseteq owed' /\ owed' \subseteq {"cut short", "adopted", "overlapped", "uninstalled"}
  BY <1>1 DEF TypeOK, DataType
<1>4. pass'[p] = IdlePass
  BY <1>1, Fields DEF Go
<1>5. Knows(p)'
  BY <1>4, Resting DEF Knows, AtEntry, AtRepair
<1>6. Repairing(pass[p]) => owed' # {}
  BY <1>1 DEF Repairing
<1>7. IdlePass \in Passes /\ InHand(IdlePass)
  BY <1>1, Resting
<1> QED BY <1>1, <1>2, <1>3, <1>5, <1>6, <1>7, QuietKeeps

\* One more fault stays within their bound.
LEMMA FaultBound == TypeOK /\ Fault => faults' \in 0 .. MaxFaults
  BY Parameters DEF TypeOK, Fault

\* A refusal ends the pass.
LEMMA RefusedKeeps ==
  ASSUME DefinitionsInv, NEW p \in Processes, Refused(p) PROVE DefinitionsInv'
<1>1. Busy(p) /\ Aborted(p) /\ faults' = faults
  BY DEF Refused, Busy
<1>2. faults' \in 0 .. MaxFaults
  BY <1>1 DEF DefinitionsInv, TypeOK
<1> QED BY <1>1, <1>2, AbortedKeeps

\* So does a failure.
LEMMA FailKeeps ==
  ASSUME DefinitionsInv, NEW p \in Processes, Fail(p) PROVE DefinitionsInv'
<1>1. faults' \in 0 .. MaxFaults
  BY FaultBound DEF DefinitionsInv, Fail
<1> QED BY <1>1, AbortedKeeps DEF Fail

\* Every step of a pass keeps the invariant.
LEMMA PassStepKeeps ==
  ASSUME DefinitionsInv, NEW p \in Processes, PassStep(p) PROVE DefinitionsInv'
  BY listAchievementsKeeps, reconcileEntryKeeps, CreateOnGitLabKeeps, RecordCreatedKeeps,
     adoptAchievementKeeps, pushAchievementUpdateKeeps, SaveRowKeeps, LoadUsersKeeps, CompareTotalKeeps,
     recomputeExpKeeps, RecomputeResumesKeeps, EndKeeps, RefusedKeeps DEF PassStep

-----------------------------------------------------------------------------
(* Evaluations, deployments, people. *)

\* A step beside the passes that leaves GitLab and the rows alone.
LEMMA AsideKeeps ==
  ASSUME DefinitionsInv, UNCHANGED <<gitlab, row, pass, settled>>,
         TypeOK', RemovedSoFar', Stale' => Stale \/ owed' # {}, owed \subseteq owed'
  PROVE  DefinitionsInv'
<1>1. live' = live /\ mistaken' = mistaken /\ row' = row /\ pass' = pass /\ settled' = settled
  BY DEF gitlab
<1>2. SettledAsPromised'
  BY <1>1 DEF DefinitionsInv, SettledAsPromised, AsReleased
<1>3. \A p \in Processes : Knows(p)'
  BY <1>1 DEF DefinitionsInv, Knows, AsReleased, Text, Art, Now, InStep, BadgeDrift
<1>4. StaleForCause'
  BY <1>1 DEF DefinitionsInv, StaleForCause, Repairing
<1>5. BadgeKnown'
  BY <1>1, SameRecorded
<1> QED BY <1>2, <1>3, <1>4, <1>5 DEF DefinitionsInv

\* The types of what such a step leaves alone.
LEMMA Aside ==
  ASSUME TypeOK, UNCHANGED <<gitlab, row, settled>>
  PROVE  /\ DataType /\ PassType /\ CleanupType /\ Live' = Live /\ Rows' = Rows /\ Passes' = Passes
         /\ lastId \in Nat
         /\ live' = live /\ lastId' = lastId /\ mistaken' = mistaken /\ row' = row /\ settled' = settled
         /\ UNCHANGED <<user, owed>> => DataType' /\ (Stale' <=> Stale)
         /\ UNCHANGED <<holder, up, deployed, pass>> => PassType'
         /\ UNCHANGED cleanup /\ up' = up /\ open' = open => CleanupType'
<1>1. /\ DataType /\ PassType /\ CleanupType /\ Live' = Live /\ Rows' = Rows /\ Passes' = Passes
      /\ lastId \in Nat
      /\ live' = live /\ lastId' = lastId /\ mistaken' = mistaken /\ row' = row /\ settled' = settled
  BY DEF TypeOK, DataType, gitlab, Live, Rows, Passes
<1>2. ASSUME UNCHANGED <<user, owed>> PROVE DataType' /\ (Stale' <=> Stale)
  <2>1. held' = held /\ total' = total /\ open' = open /\ owed' = owed
    BY <1>2 DEF user
  <2>2. DataType'
    BY <1>1, <2>1 DEF DataType
  <2> QED BY <1>1, <2>1, <2>2, StaleSame
<1>3. ASSUME UNCHANGED <<holder, up, deployed, pass>> PROVE PassType'
  BY <1>1, <1>3 DEF PassType, Busy, InHand
<1>4. ASSUME UNCHANGED cleanup, up' = up, open' = open PROVE CleanupType'
  BY <1>1, <1>4 DEF CleanupType
<1> QED BY <1>1, <1>2, <1>3, <1>4

\* A lapse changes who may begin a pass, and nothing else.
LEMMA LapseKeeps ==
  ASSUME DefinitionsInv, NEW p \in Processes, Lapse(p) PROVE DefinitionsInv'
<1>1. /\ TypeOK /\ RemovedSoFar /\ Fault /\ holder' = None
      /\ UNCHANGED <<gitlab, row, user, world, pass, cleanup, settled, owed>>
  BY DEF Lapse, DefinitionsInv
<1>2. /\ DataType /\ PassType /\ DataType' /\ (Stale' <=> Stale) /\ Passes' = Passes
      /\ open' = open /\ up' = up /\ deployed' = deployed /\ live' = live /\ row' = row
  BY <1>1, Aside DEF user, world
<1>3. PassType'
  BY <1>1, <1>2, Parameters DEF PassType, Busy, InHand
<1>4. CleanupType'
  BY <1>1, <1>2, Aside
<1>5. RemovedSoFar'
  BY <1>1, <1>2 DEF RemovedSoFar
<1>6. TypeOK'
  BY <1>1, <1>2, <1>3, <1>4, FaultBound DEF TypeOK
<1> QED BY <1>1, <1>2, <1>5, <1>6, AsideKeeps

\* A tier that is being awarded is counted.
LEMMA AwardTierKeeps ==
  ASSUME DefinitionsInv, NEW e \in Entries, AwardTier(e) PROVE DefinitionsInv'
<1>1. /\ TypeOK /\ RemovedSoFar /\ up # {} /\ open = None /\ row[e] # None /\ e \notin held
      /\ open' = [tier |-> e, total |-> heldExp(held \cup {e})]
      /\ UNCHANGED <<gitlab, row, held, total, world, holder, pass, cleanup, faults, settled, owed>>
  BY DEF AwardTier, DefinitionsInv
<1>2. /\ DataType /\ PassType /\ CleanupType /\ Live' = Live /\ Rows' = Rows
      /\ lastId' = lastId /\ mistaken' = mistaken /\ live' = live /\ row' = row /\ held' = held
      /\ up' = up /\ deployed' = deployed
  BY <1>1, Aside DEF world
<1>3. heldExp(held \cup {e}) \in Nat
  BY <1>1, <1>2, HeldWorth DEF DataType
<1>4. DataType'
  BY <1>1, <1>2, <1>3 DEF DataType
<1>5. CleanupType'
  BY <1>1, <1>2 DEF CleanupType
<1>6. TypeOK'
  BY <1>1, <1>2, <1>4, <1>5, Aside DEF TypeOK
<1>7. RemovedSoFar'
  BY <1>1, <1>2 DEF RemovedSoFar
<1>8. Stale' => Stale
  <2>1. heldExp(held)' = heldExp(held) /\ open'.tier = e /\ open'.total = heldExp(held \cup {e})
    BY <1>1, <1>2 DEF heldExp
  <2>2. heldExp(held \cup {open.tier})' = heldExp(held \cup {e})
    BY <1>2, <2>1 DEF heldExp
  <2> QED BY <1>1, <2>1, <2>2 DEF Stale
<1> QED BY <1>1, <1>6, <1>7, <1>8, AsideKeeps

\* The total that is committed counts the tier.
LEMMA CommitKeeps ==
  ASSUME DefinitionsInv, Commit PROVE DefinitionsInv'
<1>1. /\ TypeOK /\ RemovedSoFar /\ open # None
      /\ held' = held \cup {open.tier} /\ total' = open.total /\ open' = None
      /\ UNCHANGED <<gitlab, row, world, holder, pass, cleanup, faults, settled, owed>>
  BY DEF Commit, DefinitionsInv
<1>2. /\ DataType /\ PassType /\ CleanupType /\ Live' = Live /\ Rows' = Rows
      /\ lastId' = lastId /\ mistaken' = mistaken /\ live' = live /\ row' = row
      /\ up' = up /\ deployed' = deployed
  BY <1>1, Aside DEF world
<1>3. DataType'
  BY <1>1, <1>2 DEF DataType
<1>4. CleanupType'
  BY <1>1, <1>2 DEF CleanupType
<1>5. TypeOK'
  BY <1>1, <1>2, <1>3, <1>4, Aside DEF TypeOK
<1>6. RemovedSoFar'
  BY <1>1, <1>2 DEF RemovedSoFar
<1>7. Stale' => Stale
  <2>1. heldExp(held)' = heldExp(held \cup {open.tier})
    BY <1>1, <1>2 DEF heldExp
  <2> QED BY <1>1, <2>1 DEF Stale
<1> QED BY <1>1, <1>5, <1>6, <1>7, AsideKeeps

\* Processes start only when nothing is removed.
LEMMA StartKeeps ==
  ASSUME DefinitionsInv, NEW p \in Processes, Start(p) PROVE DefinitionsInv'
<1>1. /\ TypeOK /\ RemovedSoFar /\ cleanup.at = "idle"
      /\ up' = up \cup {p} /\ deployed' = (deployed \/ Release[p] = Latest)
      /\ UNCHANGED <<gitlab, row, user, holder, pass, cleanup, faults, settled, owed>>
  BY DEF Start, DefinitionsInv
<1>2. DataType' /\ (Stale' <=> Stale) /\ PassType /\ CleanupType /\ Passes' = Passes /\ lastId' = lastId
  BY <1>1, Aside
<1>3. deployed' \in BOOLEAN
  BY <1>1, Zenon
<1>4. PassType'
  BY <1>1, <1>2, <1>3 DEF PassType, Busy, InHand
<1>5. CleanupType'
  BY <1>1, <1>2 DEF CleanupType
<1>6. RemovedSoFar' /\ TypeOK'
  BY <1>1, <1>2, <1>4, <1>5, Aside DEF RemovedSoFar, TypeOK
<1> QED BY <1>1, <1>2, <1>6, AsideKeeps

\* And stop between passes.
LEMMA StopKeeps ==
  ASSUME DefinitionsInv, NEW p \in Processes, Stop(p) PROVE DefinitionsInv'
<1>1. /\ TypeOK /\ RemovedSoFar /\ ~ Busy(p) /\ p \in up /\ up' = up \ {p}
      /\ UNCHANGED <<gitlab, row, user, deployed, holder, pass, cleanup, faults, settled, owed>>
  BY DEF Stop, DefinitionsInv
<1>2. /\ DataType' /\ (Stale' <=> Stale) /\ PassType /\ CleanupType /\ Passes' = Passes /\ lastId' = lastId
      /\ open' = open
  BY <1>1, Aside DEF user
<1>3. PassType'
  BY <1>1, <1>2 DEF PassType, Busy, InHand
<1>4. CleanupType'
  BY <1>1, <1>2 DEF CleanupType
<1>5. RemovedSoFar' /\ TypeOK'
  BY <1>1, <1>2, <1>3, <1>4, Aside DEF RemovedSoFar, TypeOK
<1> QED BY <1>1, <1>2, <1>5, AsideKeeps

\* Somebody's hands disturb every pass and the removal.
LEMMA ByHandKeeps ==
  ASSUME DefinitionsInv, NEW e \in Entries, ByHand(e) PROVE DefinitionsInv'
<1>2. /\ TypeOK /\ DataType /\ PassType /\ CleanupType /\ RemovedSoFar /\ StaleForCause
      /\ live[e] # None /\ Fault /\ settled' = None
      /\ pass' = [q \in Processes |-> Disturbed(q)]
      /\ cleanup' = [cleanup EXCEPT !.alone = @ /\ cleanup.at \in {"idle", "done"}]
      /\ UNCHANGED <<lastId, row, user, world, holder, owed>>
      /\ held' = held /\ total' = total /\ open' = open /\ up' = up /\ deployed' = deployed /\ row' = row
      /\ lastId' = lastId /\ holder' = holder /\ owed' = owed
  BY DEF ByHand, DefinitionsInv, TypeOK, user, world
<1>3. Live' = Live /\ Rows' = Rows /\ Passes' = Passes
  BY <1>2 DEF Live, Rows, Passes
<1>13. live[e] \in Live /\ Edited \in Texts /\ {Edited, NoBadge} \subseteq Badges /\ None \notin Live
  BY <1>2, Fields DEF Texts, Badges
<1>1. PICK a \in Live \cup {None} :
        /\ live' = [live EXCEPT ![e] = a]
        /\ mistaken' \subseteq mistaken \cup {e} /\ mistaken \subseteq mistaken' \cup {e}
        /\ \/ a = None \/ e \in mistaken' \/ a.badge = NoBadge
           \/ a.id = live[e].id /\ a.badge = live[e].badge /\ mistaken' = mistaken
  <2>1. CASE live' = [live EXCEPT ![e] = None] /\ mistaken' = mistaken \ {e}
    BY <2>1
  <2>2. CASE live' = [live EXCEPT ![e].text = Edited] /\ UNCHANGED mistaken
    <3> DEFINE a == [live[e] EXCEPT !.text = Edited]
    <3>1. a \in Live /\ a.id = live[e].id /\ a.badge = live[e].badge
      BY <1>13 DEF Live
    <3> QED BY <2>2, <3>1
  <2>3. CASE live' = [live EXCEPT ![e].badge = Edited] /\ mistaken' = mistaken \cup {e}
    <3>1. [live[e] EXCEPT !.badge = Edited] \in Live
      BY <1>13 DEF Live
    <3> QED BY <2>3, <3>1
  <2>4. CASE live' = [live EXCEPT ![e].badge = NoBadge] /\ UNCHANGED mistaken
    <3> DEFINE a == [live[e] EXCEPT !.badge = NoBadge]
    <3>1. a \in Live /\ a.badge = NoBadge
      BY <1>13 DEF Live
    <3> QED BY <2>4, <3>1
  <2> QED BY <2>1, <2>2, <2>3, <2>4 DEF ByHand
<1>14. live' \in [Entries -> Live \cup {None}] /\ live'[e] = a /\ \A d \in Entries \ {e} : live'[d] = live[d]
  BY <1>1, <1>2 DEF DataType
<1>4. DataType'
  BY <1>1, <1>2, <1>3, <1>14 DEF DataType
<1>15. BadgeKnown'
  <2>1. RecordedBadge(e)'
    BY <1>1, <1>2, <1>14 DEF DefinitionsInv, BadgeKnown, RecordedBadge
  <2> QED BY <1>1, <1>2, <1>14, <2>1, OthersRecorded
<1>5. ASSUME NEW q \in Processes
      PROVE  /\ pass'[q] \in Passes /\ InHand(pass'[q])
             /\ pass'[q].at = pass[q].at /\ pass'[q].changed = pass[q].changed
             /\ Busy(q) => ~ pass'[q].alone
  <2>1. pass[q] \in Passes /\ InHand(pass[q]) /\ pass'[q] = Disturbed(q)
    BY <1>2, Fields
  <2>2. CASE Busy(q)
    <3>1. pass'[q] = [pass[q] EXCEPT !.alone = FALSE]
      BY <2>1, <2>2 DEF Disturbed
    <3> QED BY <2>1, <2>2, <3>1 DEF Passes, InHand, Busy
  <2>3. CASE ~ Busy(q)
    BY <2>1, <2>3 DEF Disturbed
  <2> QED BY <2>2, <2>3
<1>6. PassType'
  <2>1. pass' \in [Processes -> Passes']
    BY <1>2, <1>3, <1>5
  <2> QED BY <1>2, <1>5, <2>1 DEF PassType, Busy
<1>7. /\ cleanup'.at = cleanup.at /\ cleanup'.entry = cleanup.entry /\ cleanup'.done = cleanup.done
      /\ cleanup'.id = cleanup.id /\ CleanupType'
      /\ (cleanup'.alone => cleanup.at \in {"idle", "done"})
  <2>1. (cleanup.alone /\ cleanup.at \in {"idle", "done"}) \in BOOLEAN
    BY Zenon
  <2>2. /\ cleanup'.at = cleanup.at /\ cleanup'.entry = cleanup.entry /\ cleanup'.done = cleanup.done
        /\ cleanup'.id = cleanup.id /\ (cleanup'.alone => cleanup.at \in {"idle", "done"})
        /\ cleanup' \in [at : {"idle", "recorded", "sweep", "done"}, done : SUBSET Entries,
                         entry : Entries \cup {0}, id : 0 .. lastId, alone : BOOLEAN]
    BY <1>2, <2>1 DEF CleanupType
  <2> QED BY <1>2, <2>2 DEF CleanupType
<1>8. RemovedSoFar'
  BY <1>2, <1>7 DEF RemovedSoFar
<1>9. SettledAsPromised'
  BY <1>2, Parameters DEF SettledAsPromised, Removed
<1>10. \A q \in Processes : Knows(q)'
  BY <1>5 DEF Knows, Busy, AtEntry, AtRepair
<1>11. StaleForCause'
  <2>1. Stale' <=> Stale
    BY <1>2, StaleSame
  <2> QED BY <1>2, <1>5, <2>1 DEF StaleForCause, Repairing
<1>12. TypeOK'
  BY <1>2, <1>4, <1>6, <1>7, FaultBound DEF TypeOK
<1> QED BY <1>8, <1>9, <1>10, <1>11, <1>12, <1>15 DEF DefinitionsInv

-----------------------------------------------------------------------------
(* The removal. *)

\* No pass runs beside a step of the removal.
LEMMA CleanupKeeps ==
  ASSUME DefinitionsInv, NEW next, CleanupStep(next), cleanup.at # "idle",
         next \in [at : {"idle", "recorded", "sweep", "done"}, done : SUBSET Entries,
                   entry : Entries \cup {0}, id : 0 .. lastId, alone : BOOLEAN],
         next.entry # 0 => next.at \in {"recorded", "sweep"},
         UNCHANGED <<total, open>>, DataType', faults' \in 0 .. MaxFaults,
         SettledAsPromised', RemovedSoFar',
         \A e \in Entries : live'[e] \in {live[e], None} /\ row'[e] \in {row[e], None},
         \/ owed' # {}
         \/ owed' = owed /\ held' = held /\ \A e \in held : row'[e].exp = row[e].exp
  PROVE  DefinitionsInv'
<1>1. /\ TypeOK /\ PassType /\ CleanupType /\ StaleForCause
      /\ cleanup' = next /\ lastId' = lastId /\ holder' = holder /\ pass' = pass
      /\ up' = up /\ deployed' = deployed /\ total' = total /\ open' = open
  BY DEF DefinitionsInv, TypeOK, CleanupStep, world
<1>2. up = {} /\ open = None
  BY <1>1 DEF CleanupType
<1>3. CleanupType'
  BY <1>1, <1>2 DEF CleanupType
<1>4. Passes' = Passes
  BY <1>1 DEF Passes, Live, Rows
<1>5. PassType'
  BY <1>1, <1>4 DEF PassType, Busy
<1>6. \A p \in Processes : Knows(p)'
  <2>1. \A p \in Processes : pass'[p].at = "idle"
    BY <1>1, Fields DEF Busy
  <2> QED BY <2>1 DEF Knows, AtEntry, AtRepair
<1>7. StaleForCause'
  <2>1. CASE owed' # {}
    BY <2>1 DEF StaleForCause
  <2>2. CASE owed' = owed /\ held' = held /\ \A e \in held : row'[e].exp = row[e].exp
    <3>1. \A e \in held \cup (IF open = None THEN {} ELSE {open.tier}) : row'[e].exp = row[e].exp
      BY <1>2, <2>2
    <3>2. Stale' <=> Stale
      BY <1>1, <2>2, <3>1, StaleSame
    <3> QED BY <1>1, <2>2, <3>2 DEF StaleForCause, Repairing
  <2> QED BY <2>1, <2>2
<1>8. BadgeKnown'
  <2>1. mistaken' = mistaken
    BY DEF CleanupStep
  <2> QED BY <2>1 DEF DefinitionsInv, BadgeKnown, RecordedBadge
<1> QED BY <1>3, <1>5, <1>6, <1>7, <1>8 DEF DefinitionsInv, TypeOK

\* A removal begins with nothing done.
LEMMA UninstallKeeps ==
  ASSUME DefinitionsInv, Uninstall PROVE DefinitionsInv'
<1> DEFINE n == [NoCleanup EXCEPT !.at = "recorded"]
<1>1. /\ TypeOK /\ cleanup.at = "idle" /\ up = {} /\ open = None /\ cleanup' = n /\ lastId' = lastId
      /\ UNCHANGED <<gitlab, row, user, world, holder, pass, faults, settled, owed>>
      /\ UNCHANGED <<up, deployed, open>>
  BY DEF DefinitionsInv, Uninstall, CleanupStep, gitlab, user, world
<1>2. /\ DataType' /\ (Stale' <=> Stale) /\ PassType' /\ lastId \in Nat
  BY <1>1, Aside
<1>3. /\ n \in [at : {"idle", "recorded", "sweep", "done"}, done : SUBSET Entries,
                entry : Entries \cup {0}, id : 0 .. lastId, alone : BOOLEAN]
      /\ n.at = "recorded" /\ n.entry = 0 /\ n.done = {}
  <2>1. 0 \in 0 .. lastId
    BY <1>2
  <2> QED BY <2>1 DEF NoCleanup
<1> HIDE DEF n
<1>4. CleanupType'
  BY <1>1, <1>3 DEF CleanupType
<1>5. RemovedSoFar' /\ TypeOK'
  BY <1>1, <1>2, <1>3, <1>4 DEF RemovedSoFar, TypeOK
<1> QED BY <1>1, <1>2, <1>5, AsideKeeps

\* What is known while something is removed.
LEMMA Removing ==
  ASSUME DefinitionsInv
  PROVE  /\ TypeOK /\ DataType /\ CleanupType /\ RemovedSoFar /\ SettledAsPromised /\ lastId \in Nat
         /\ live \in [Entries -> Live \cup {None}] /\ row \in [Entries -> Rows \cup {None}]
         /\ cleanup.entry \in Entries \cup {0} /\ cleanup.done \subseteq Entries
         /\ cleanup.at # "idle" => open = None
         /\ \A e \in Entries : /\ row[e] # None => row[e].id \in 0 .. lastId
                               /\ live[e] # None => live[e].id \in 0 .. lastId
<1>1. /\ TypeOK /\ DataType /\ CleanupType /\ RemovedSoFar /\ SettledAsPromised /\ lastId \in Nat
      /\ live \in [Entries -> Live \cup {None}] /\ row \in [Entries -> Rows \cup {None}]
  BY DEF DefinitionsInv, TypeOK, DataType
<1>2. \A e \in Entries : /\ row[e] # None => row[e].id \in 1 .. lastId
                         /\ live[e] # None => live[e].id \in 1 .. lastId
  BY <1>1, Fields DEF Live, Rows
<1> QED BY <1>1, <1>2 DEF CleanupType

\* An achievement goes by the identifier its row or GitLab gave.
LEMMA RemoveKeeps ==
  ASSUME DefinitionsInv, NEW e \in Entries, Remove(e) PROVE DefinitionsInv'
<1> DEFINE id == IF cleanup.at = "recorded" THEN row[e].id ELSE live[e].id
           n == [cleanup EXCEPT !.entry = e, !.id = id]
<1>1. /\ TypeOK /\ DataType /\ CleanupType /\ RemovedSoFar /\ e \in Remaining /\ cleanup.entry = 0
      /\ live' = (IF Gone(e, id) THEN live ELSE [live EXCEPT ![e] = None]) /\ settled' = None
      /\ CleanupStep(n) /\ cleanup' = n /\ lastId' = lastId /\ mistaken' = mistaken
      /\ row' = row /\ held' = held /\ total' = total /\ open' = open /\ faults' = faults /\ owed' = owed
  BY DEF DefinitionsInv, TypeOK, Remove, CleanupStep, user
<1>2. /\ cleanup.at \in {"recorded", "sweep"}
      /\ cleanup.at = "recorded" => row[e] # None
      /\ cleanup.at = "sweep" => live[e] # None
  BY <1>1 DEF Remaining, Removable, CleanupType
<1>3. id \in 0 .. lastId
  BY <1>2, Removing
<1>4. /\ n \in [at : {"idle", "recorded", "sweep", "done"}, done : SUBSET Entries,
                entry : Entries \cup {0}, id : 0 .. lastId, alone : BOOLEAN]
      /\ n.at = cleanup.at /\ n.entry = e /\ n.done = cleanup.done /\ n.id = id /\ n.alone = cleanup.alone
  BY <1>1, <1>3 DEF CleanupType
<1> HIDE DEF n
<1>5. /\ live' \in [Entries -> Live \cup {None}]
      /\ \A d \in Entries : live'[d] \in {live[d], None}
      /\ cleanup.at = "sweep" => live'[e] = None
  BY <1>1, <1>2, Removing DEF Gone
<1>6. DataType'
  <2>1. Live' = Live /\ Rows' = Rows
    BY <1>1 DEF Live, Rows
  <2> QED BY <1>1, <1>5, <2>1 DEF DataType
<1>7. SettledAsPromised'
  BY <1>1, Parameters DEF SettledAsPromised, Removed
<1>8. RemovedSoFar'
  <2>1. cleanup.at = "sweep" /\ cleanup.alone => \A d \in cleanup.done : live'[d] = None
    BY <1>1, <1>5, Removing, Parameters DEF RemovedSoFar
  <2> QED BY <1>1, <1>2, <1>4, <1>5, <2>1, Parameters DEF RemovedSoFar
<1>9. faults' \in 0 .. MaxFaults /\ UNCHANGED <<total, open>> /\ e # 0
  BY <1>1, Parameters DEF TypeOK
<1> QED BY <1>1, <1>2, <1>4, <1>5, <1>6, <1>7, <1>8, <1>9, CleanupKeeps

\* Its row follows, and the awards with it.
LEMMA forgetKeeps ==
  ASSUME DefinitionsInv, forget PROVE DefinitionsInv'
<1> DEFINE n(e) == [cleanup EXCEPT !.done = @ \cup {e}, !.entry = 0, !.id = 0]
<1>1. PICK e \in Entries : e = cleanup.entry
  BY Removing DEF forget
<1>2. /\ TypeOK /\ DataType /\ CleanupType /\ RemovedSoFar /\ cleanup.entry = e /\ e # 0
      /\ CleanupStep(n(e)) /\ cleanup' = n(e) /\ lastId' = lastId /\ mistaken' = mistaken
      /\ live' = live /\ total' = total /\ open' = open /\ faults' = faults /\ settled' = settled
  BY <1>1 DEF DefinitionsInv, TypeOK, forget, CleanupStep
<1>3. cleanup.at \in {"recorded", "sweep"} /\ settled = None
  BY <1>2 DEF CleanupType, RemovedSoFar
<1>4. /\ n(e) \in [at : {"idle", "recorded", "sweep", "done"}, done : SUBSET Entries,
                   entry : Entries \cup {0}, id : 0 .. lastId, alone : BOOLEAN]
      /\ n(e).at = cleanup.at /\ n(e).entry = 0 /\ n(e).done = cleanup.done \cup {e}
      /\ n(e).alone = cleanup.alone
  <2>1. 0 \in 0 .. lastId
    BY Removing
  <2> QED BY <1>2, <2>1 DEF CleanupType
<1> HIDE DEF n
<1>5. SettledAsPromised'
  BY <1>2, <1>3, Parameters DEF SettledAsPromised, Removed
<1>6. /\ row' \in [Entries -> Rows \cup {None}] /\ held' \subseteq {d \in Entries : row'[d] # None}
      /\ owed' \subseteq {"cut short", "adopted", "overlapped", "uninstalled"}
      /\ \A d \in Entries \ {e} : row'[d] = row[d]
      /\ cleanup.at = "recorded" \/ row[e] = None => row'[e] = None
      /\ owed' # {} \/ (owed' = owed /\ held' = held /\ \A d \in held : row'[d].exp = row[d].exp)
  <2>1. CASE row[e] # None /\ row[e].id = cleanup.id
    <3>1. /\ row' = [row EXCEPT ![e] = None] /\ held' = held \ {e}
          /\ owed' = IF e \in held THEN owed \cup {"uninstalled"} ELSE owed
      BY <1>1, <2>1 DEF forget
    <3>2. row'[e] = None /\ (\A d \in Entries \ {e} : row'[d] = row[d]) /\ row' \in [Entries -> Rows \cup {None}]
      BY <3>1, Removing
    <3>3. held \subseteq {d \in Entries : row[d] # None} /\ owed \subseteq {"cut short", "adopted", "overlapped", "uninstalled"}
      BY <1>2 DEF DataType
    <3>4. held' \subseteq {d \in Entries : row'[d] # None}
      BY <3>1, <3>2, <3>3
    <3>5. owed' \subseteq {"cut short", "adopted", "overlapped", "uninstalled"}
      BY <3>1, <3>3
    <3>6. owed' # {} \/ (owed' = owed /\ held' = held /\ \A d \in held : row'[d].exp = row[d].exp)
      <4>1. CASE e \in held
        BY <3>1, <4>1
      <4>2. CASE e \notin held
        BY <3>1, <3>2, <3>3, <4>2
      <4> QED BY <4>1, <4>2
    <3> QED BY <3>2, <3>4, <3>5, <3>6
  <2>2. CASE ~ (row[e] # None /\ row[e].id = cleanup.id)
    <3>1. row' = row /\ held' = held /\ owed' = owed
      BY <1>1, <2>2 DEF forget
    <3> QED BY <1>2, <2>2, <3>1, Removing DEF DataType, RemovedSoFar
  <2> QED BY <2>1, <2>2
<1>7. DataType'
  <2>1. Live' = Live /\ Rows' = Rows /\ open = None
    BY <1>2, <1>3, Removing DEF Live, Rows
  <2> QED BY <1>2, <1>6, <2>1 DEF DataType
<1>8. RemovedSoFar'
  <2>1. cleanup.alone /\ cleanup.at = "recorded" => \A d \in cleanup.done \cup {e} : row'[d] = None
    BY <1>2, <1>6, Removing DEF RemovedSoFar
  <2>2. cleanup.alone /\ cleanup.at = "sweep" =>
          /\ \A d \in Entries : row'[d] = None
          /\ \A d \in cleanup.done \cup {e} : d = 0 \/ live'[d] = None
    BY <1>2, <1>6 DEF RemovedSoFar
  <2> QED BY <1>2, <1>3, <1>4, <2>1, <2>2 DEF RemovedSoFar
<1>9. faults' \in 0 .. MaxFaults /\ UNCHANGED <<total, open>>
  BY <1>2 DEF TypeOK
<1>10. \A d \in Entries : live'[d] \in {live[d], None} /\ row'[d] \in {row[d], None}
  <2>1. row'[e] \in {row[e], None}
    BY <1>1, Removing DEF forget
  <2> QED BY <1>2, <1>6, <2>1
<1> QED BY <1>2, <1>3, <1>4, <1>5, <1>6, <1>7, <1>8, <1>9, <1>10, CleanupKeeps

\* A step of the removal that changes nothing but how far it is.
LEMMA CleanupGoesOn ==
  ASSUME DefinitionsInv, NEW next, CleanupStep(next), cleanup.at # "idle",
         next \in [at : {"idle", "recorded", "sweep", "done"}, done : SUBSET Entries,
                   entry : Entries \cup {0}, id : 0 .. lastId, alone : BOOLEAN],
         next.entry = 0, UNCHANGED <<live, row, user, owed>>, faults' \in 0 .. MaxFaults,
         \/ settled' = settled
         \/ settled' = Removed /\ \A e \in Entries : live[e] = None /\ row[e] = None,
         next.alone =>
           /\ next.at = "recorded" => \A e \in next.done : row[e] = None
           /\ next.at = "sweep" => /\ \A e \in Entries : row[e] = None
                                   /\ \A e \in next.done : live[e] = None
  PROVE  DefinitionsInv'
<1>1. /\ TypeOK /\ DataType /\ SettledAsPromised /\ cleanup' = next /\ lastId' = lastId
      /\ mistaken' = mistaken /\ live' = live /\ row' = row /\ held' = held /\ total' = total /\ open' = open /\ owed' = owed
  BY DEF DefinitionsInv, TypeOK, CleanupStep, user
<1>2. DataType'
  BY <1>1 DEF DataType, Live, Rows
<1>3. SettledAsPromised'
  BY <1>1, Parameters DEF SettledAsPromised, AsReleased, Removed
<1>4. RemovedSoFar'
  BY <1>1 DEF RemovedSoFar
<1>5. UNCHANGED <<total, open>> /\ \A e \in held : row'[e].exp = row[e].exp
  BY <1>1
<1> QED BY <1>1, <1>2, <1>3, <1>4, <1>5, CleanupKeeps

\* A removal that left something promises nothing any more.
LEMMA SkipRemovalKeeps ==
  ASSUME DefinitionsInv, NEW e \in Entries, SkipRemoval(e) PROVE DefinitionsInv'
<1> DEFINE n == [cleanup EXCEPT !.done = @ \cup {e}, !.alone = FALSE]
<1>1. /\ TypeOK /\ CleanupType /\ CleanupStep(n) /\ e \in Remaining /\ cleanup.entry = 0 /\ Fault
      /\ settled' = settled /\ UNCHANGED <<live, row, user, owed>>
  BY Removing DEF SkipRemoval
<1>2. /\ n \in [at : {"idle", "recorded", "sweep", "done"}, done : SUBSET Entries,
                entry : Entries \cup {0}, id : 0 .. lastId, alone : BOOLEAN]
      /\ n.entry = 0 /\ ~ n.alone
  BY <1>1 DEF CleanupType
<1> HIDE DEF n
<1>3. cleanup.at # "idle"
  BY <1>1 DEF Remaining, Removable
<1> QED BY <1>1, <1>2, <1>3, FaultBound, CleanupGoesOn

\* What was recorded is gone before the names are swept, and both at the end.
LEMMA CleanupNextKeeps ==
  ASSUME DefinitionsInv, CleanupNext PROVE DefinitionsInv'
<1>1. /\ TypeOK /\ CleanupType /\ RemovedSoFar
      /\ cleanup.at \in {"recorded", "sweep"} /\ cleanup.entry = 0 /\ Remaining = {}
      /\ UNCHANGED <<live, row, user, owed>> /\ faults' \in 0 .. MaxFaults
  BY Removing DEF CleanupNext, TypeOK
<1>2. CASE cleanup.at = "recorded"
  <2> DEFINE n == [cleanup EXCEPT !.at = "sweep", !.done = {}]
  <2>1. CleanupStep(n) /\ settled' = settled
    BY <1>2 DEF CleanupNext
  <2>2. /\ n \in [at : {"idle", "recorded", "sweep", "done"}, done : SUBSET Entries,
                  entry : Entries \cup {0}, id : 0 .. lastId, alone : BOOLEAN]
        /\ n.entry = 0 /\ n.at = "sweep" /\ n.done = {} /\ n.alone = cleanup.alone
    BY <1>1 DEF CleanupType
  <2> HIDE DEF n
  <2>3. cleanup.alone => \A e \in Entries : row[e] = None
    BY <1>1, <1>2 DEF RemovedSoFar, Remaining, Removable
  <2> QED BY <1>1, <2>1, <2>2, <2>3, CleanupGoesOn
<1>3. CASE cleanup.at = "sweep"
  <2> DEFINE n == [cleanup EXCEPT !.at = "done", !.done = {}]
  <2>1. CleanupStep(n) /\ settled' = IF cleanup.alone THEN Removed ELSE settled
    BY <1>3 DEF CleanupNext
  <2>2. /\ n \in [at : {"idle", "recorded", "sweep", "done"}, done : SUBSET Entries,
                  entry : Entries \cup {0}, id : 0 .. lastId, alone : BOOLEAN]
        /\ n.entry = 0 /\ n.at = "done"
    BY <1>1 DEF CleanupType
  <2> HIDE DEF n
  <2>3. cleanup.alone => \A e \in Entries : live[e] = None /\ row[e] = None
    BY <1>1, <1>3, Parameters DEF RemovedSoFar, Remaining, Removable
  <2> QED BY <1>1, <2>1, <2>2, <2>3, CleanupGoesOn
<1> QED BY <1>1, <1>2, <1>3

\* Nor does one that was cut short.
LEMMA CleanupFailsKeeps ==
  ASSUME DefinitionsInv, CleanupFails PROVE DefinitionsInv'
<1>1. /\ TypeOK /\ lastId \in Nat /\ CleanupStep(NoCleanup) /\ cleanup.at # "idle" /\ Fault
      /\ settled' = settled /\ UNCHANGED <<live, row, user, owed>>
  BY Removing DEF CleanupFails
<1>2. /\ NoCleanup \in [at : {"idle", "recorded", "sweep", "done"}, done : SUBSET Entries,
                        entry : Entries \cup {0}, id : 0 .. lastId, alone : BOOLEAN]
      /\ NoCleanup.entry = 0 /\ NoCleanup.at = "idle"
  BY <1>1 DEF NoCleanup
<1> QED BY <1>1, <1>2, FaultBound, CleanupGoesOn

-----------------------------------------------------------------------------
(* The theorems. *)

\* The invariant holds at the start.
LEMMA InitInv == Init => DefinitionsInv
<1> SUFFICES ASSUME Init PROVE DefinitionsInv
  OBVIOUS
<1>1. /\ lastId = 1 /\ mistaken = {} /\ row = [e \in Entries |-> None] /\ held = {} /\ total = 0 /\ open = None
      /\ up = {} /\ deployed = FALSE /\ holder = None /\ pass = [p \in Processes |-> IdlePass]
      /\ cleanup = NoCleanup /\ faults = 0 /\ settled = None /\ owed = {}
  BY DEF Init
<1>2. live \in [Entries -> Live \cup {None}]
  <2>1. [id : {1}, text : {Edited}, badge : {NoBadge, Edited}] \subseteq Live
    BY <1>1 DEF Live, Texts, Badges
  <2>2. PICK left \in Live \cup {None} : live = [e \in Entries |-> IF e = 1 THEN left ELSE None]
    BY <2>1 DEF Init
  <2> QED BY <2>2
<1>3. DataType
  <2>1. row \in [Entries -> Rows \cup {None}]
    BY <1>1
  <2> QED BY <1>1, <1>2, <2>1 DEF DataType
<1>4. \A p \in Processes : pass[p] = IdlePass
  BY <1>1
<1>5. IdlePass \in Passes /\ InHand(IdlePass) /\ IdlePass.at = "idle"
  BY <1>1, Resting
<1>6. PassType
  <2>1. pass \in [Processes -> Passes]
    BY <1>1, <1>5
  <2> QED BY <1>1, <1>4, <1>5, <2>1, Parameters DEF PassType, Busy
<1>7. CleanupType
  BY <1>1 DEF CleanupType, NoCleanup
<1>8. SettledAsPromised
  BY <1>1, Parameters DEF SettledAsPromised, Removed
<1>9. RemovedSoFar
  BY <1>1 DEF RemovedSoFar, NoCleanup
<1>10. StaleForCause
  BY <1>1, WorthNothing DEF StaleForCause, Stale
<1>11. \A p \in Processes : Knows(p)
  BY <1>4, <1>5 DEF Knows, AtEntry, AtRepair
<1>12. faults \in 0 .. MaxFaults
  BY <1>1, Parameters
<1>13. BadgeKnown
  BY <1>1 DEF BadgeKnown, RecordedBadge
<1> QED BY <1>3, <1>6, <1>7, <1>8, <1>9, <1>10, <1>11, <1>12, <1>13 DEF DefinitionsInv, TypeOK

\* Every step keeps it.
LEMMA NextInv == DefinitionsInv /\ [Next]_vars => DefinitionsInv'
<1> SUFFICES ASSUME DefinitionsInv, [Next]_vars PROVE DefinitionsInv'
  OBVIOUS
<1>1. ASSUME NEW p \in Processes, Begin(p) \/ PassStep(p) \/ Fail(p) \/ Lapse(p) \/ Start(p) \/ Stop(p)
      PROVE  DefinitionsInv'
  BY <1>1, BeginKeeps, PassStepKeeps, FailKeeps, LapseKeeps, StartKeeps, StopKeeps
<1>2. ASSUME NEW e \in Entries, AwardTier(e) \/ ByHand(e) \/ SkipRemoval(e)
      PROVE  DefinitionsInv'
  BY <1>2, AwardTierKeeps, ByHandKeeps, SkipRemovalKeeps
<1>3. CASE Commit \/ Uninstall \/ CleanupActs \/ CleanupFails
  BY <1>3, CommitKeeps, UninstallKeeps, RemoveKeeps, forgetKeeps, CleanupNextKeeps, CleanupFailsKeeps
     DEF CleanupActs
<1>4. CASE UNCHANGED vars
  <2>1. UNCHANGED <<gitlab, row, user, world, holder, pass, cleanup, faults, settled, owed>>
    BY <1>4 DEF vars
  <2>2. TypeOK /\ RemovedSoFar
    BY DEF DefinitionsInv
  <2>3. /\ DataType' /\ (Stale' <=> Stale) /\ PassType' /\ CleanupType' /\ live' = live /\ row' = row
    BY <2>1, <2>2, Aside DEF user, world
  <2>4. TypeOK' /\ RemovedSoFar'
    BY <2>1, <2>2, <2>3 DEF TypeOK, RemovedSoFar
  <2> QED BY <2>1, <2>3, <2>4, AsideKeeps
<1> QED BY <1>1, <1>2, <1>3, <1>4 DEF Next

\* What a pass knows stays right, and a total that is not what the user's tiers
\* are worth stays accounted for.
THEOREM DefinitionsInvariant == Spec => []DefinitionsInv
<1> QED BY InitInv, NextInv, PTL DEF Spec

\* Every variable keeps its type: awards refer to rows that are there, a pass
\* has in hand what its next step uses, nothing runs beside a removal.
THEOREM DefinitionsTypeCorrect == Spec => []TypeOK
<1>1. DefinitionsInv => TypeOK
  BY DEF DefinitionsInv
<1> QED BY <1>1, DefinitionsInvariant, PTL

\* A pass beside which nothing changed leaves GitLab and the rows as its release
\* has them, and an undisturbed removal leaves nothing (ReconcileAchievements,
\* RemoveAchievements), whatever state they found: wording and worth always, the
\* badge unless the record of it is mistaken, which a pass cannot see.
THEOREM PassSettles == Spec => []SettledAsPromised
<1>1. DefinitionsInv => SettledAsPromised
  BY DEF DefinitionsInv
<1> QED BY <1>1, DefinitionsInvariant, PTL

\* A user's total is what their tiers are worth, unless a pass has yet to repair
\* it or one of the four ways to miss the repair was taken (RecomputeAll).
THEOREM TotalsAccountedFor == Spec => []ExpStaleOnlyIfOwed
<1>1. DefinitionsInv => ExpStaleOnlyIfOwed
  BY DEF DefinitionsInv, StaleForCause, Stale, Repairing, ExpStaleOnlyIfOwed
<1> QED BY <1>1, DefinitionsInvariant, PTL

=============================================================================
