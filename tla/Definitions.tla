----------------------------- MODULE Definitions -----------------------------
(***************************************************************************)
(* Keeping GitLab's achievements in step with the catalog, and the totals    *)
(* users carry in step with what their tiers are worth (internal/bootstrap,  *)
(* RecomputeAll in internal/engine), while tiers are being earned; and the   *)
(* removal of it all by `uninstall`.                                         *)
(*                                                                          *)
(* A catalog entry keeps its name from release to release and no two share   *)
(* one, so GitLab, where a name is unique, holds at most one achievement     *)
(* under each entry's. Wording stands for the description. Of the badge       *)
(* GitLab shows whether there is one, never which.                           *)
(*                                                                          *)
(* Processes of different releases run beside each other during a rolling    *)
(* restart. A pass holds the bootstrap lease, which may lapse under it. One  *)
(* access to the database, or one call to GitLab, is one step.               *)
(***************************************************************************)
EXTENDS Criteria, Integers

CONSTANTS
  Entries,      \* of the catalog, 1 .. n in its order
  Processes,
  Release,      \* the release each process runs
  Latest,       \* the one deployed last
  Wording, Badge, Exp, \* what a release says of an entry
  NoBadge,      \* of an entry or an achievement that has none
  Edited,       \* wording, or a badge, that somebody put on GitLab
  MaxFaults,    \* bound: crashes, failed calls, lapses, edits and deletions by hand
  None

Releases == {Release[p] : p \in Processes}
Removed == 0 \* in place of a release, once nothing is left

Texts  == {Wording[r][e] : r \in Releases, e \in Entries} \cup {Edited}
Badges == {Badge[r][e] : r \in Releases, e \in Entries} \cup {NoBadge, Edited}

ASSUME DefinitionsAssumption ==
  /\ Entries # {} /\ IsFiniteSet(Entries) /\ Entries = 1 .. Cardinality(Entries)
  /\ Release \in [Processes -> Nat \ {Removed}] /\ Latest \in Releases
  /\ \A p \in Processes : Release[p] <= Latest
  /\ DOMAIN Wording = Releases /\ DOMAIN Badge = Releases /\ Exp \in [Releases -> [Entries -> Nat]]
  /\ MaxFaults \in Nat
  /\ None \notin Nat /\ None \notin Processes
  /\ None \notin [id : Nat, text : Texts, badge : Badges]
  /\ None \notin [id : Nat, text : Texts, badge : Badges, exp : Nat]
  /\ None \notin [tier : Entries, total : Nat]

VARIABLES
  live,    \* GitLab: under each name None, or an achievement
  lastId,  \* GitLab: the identifier given last
  mistaken, \* history: whose badge on GitLab may not be the recorded one
  row,     \* achievement_definitions: per entry None, or a row
  held,    \* one user's awards: the entries whose rows they refer to
  total,   \* that user's exp_total
  open,    \* the transaction that is awarding them a tier, or None
  up,      \* the processes that run
  deployed, \* the latest release was started
  holder,  \* of the bootstrap lease
  pass,    \* what each process is doing
  cleanup, \* what `uninstall` is doing
  faults,
  settled, \* history: what the last undisturbed pass or removal left
  owed     \* history: why the total may have been left behind

gitlab == <<live, lastId, mistaken>>
user   == <<held, total, open>>
world  == <<up, deployed>>
vars   == <<gitlab, row, user, world, holder, pass, cleanup, faults, settled, owed>>

Fault == faults < MaxFaults /\ faults' = faults + 1

\* heldExp: the sum over the awards, joined with the rows they refer to.
heldExp(tiers) == SumOver(tiers, [e \in tiers |-> row[e].exp])

IdlePass ==
  [at |-> "idle", entry |-> 0, seen |-> [e \in Entries |-> None], mine |-> None, id |-> 0,
   adopting |-> FALSE, changed |-> FALSE, amount |-> 0, alone |-> TRUE]

Busy(p) == pass[p].at # "idle"
Now(p)  == pass[p].entry
Text(p) == Wording[Release[p]][Now(p)]
Art(p)  == Badge[Release[p]][Now(p)]
Worth(p) == Exp[Release[p]][Now(p)]
Go(p, next) == pass' = [pass EXCEPT ![p] = next]

\* The same, having changed GitLab or the rows: whoever else is at it no
\* longer knows what there is.
Disturbed(q) == IF Busy(q) THEN [pass[q] EXCEPT !.alone = FALSE] ELSE pass[q]
Touch(p, next) ==
  /\ pass' = [q \in Processes |-> IF q = p THEN next ELSE Disturbed(q)]
  /\ settled' = None

\* What a pass has done to an entry's badge, or to the record of it, leaves the
\* two equal, if nobody else was at it.
Judge(p, equal) ==
  mistaken' = IF pass[p].alone /\ equal THEN mistaken \ {Now(p)} ELSE mistaken \cup {Now(p)}

Gone(e, id) == IF live[e] = None THEN TRUE ELSE live[e].id # id

-----------------------------------------------------------------------------
(* A pass: ReconcileAchievements under the lease. *)

Begin(p) ==
  /\ p \in up /\ ~Busy(p) /\ holder = None
  /\ holder' = p
  /\ Go(p, [IdlePass EXCEPT !.at = "list"])
  /\ UNCHANGED <<gitlab, row, user, world, cleanup, faults, settled, owed>>

\* listAchievements: read once, for the whole pass.
listAchievements(p) ==
  /\ pass[p].at = "list"
  /\ Go(p, [pass[p] EXCEPT !.at = "entry", !.entry = 1, !.seen = live])
  /\ UNCHANGED <<gitlab, row, user, world, holder, cleanup, faults, settled, owed>>

\* The next entry, or the repair if some achievement was updated or recreated.
After(r) ==
  IF r.entry < Cardinality(Entries)
  THEN [r EXCEPT !.at = "entry", !.entry = @ + 1, !.mine = None, !.id = 0, !.adopting = FALSE]
  ELSE [IdlePass EXCEPT !.at = IF r.changed THEN "load" ELSE "end", !.changed = r.changed, !.alone = r.alone]

\* Faulty variant: the report does not say that anything changed.
AfterSaveUncounted(r, counts) == After(r)

AfterSave(r, counts) == After([r EXCEPT !.changed = @ \/ counts])

\* rowMirrorsEntry
Mirrors(mine, p) == mine.text = Text(p) /\ mine.badge = Art(p) /\ mine.exp = Worth(p)

\* Faulty variant: a badge that was cleared on GitLab is not noticed.
BadgeDriftByKey(p, seen, mine) == mine.badge # Art(p)

\* detectAchievementDrift, of the badge: the recorded one is not the catalog's,
\* or GitLab shows none. What it shows cannot be compared.
BadgeDrift(p, seen, mine) == Art(p) # NoBadge /\ (mine.badge # Art(p) \/ seen.badge = NoBadge)

\* reconcileAchievement, up to its first write.
reconcileAchievement(p, seen, r) ==
  IF seen.text # Text(p) \/ BadgeDrift(p, seen, r.mine) THEN [r EXCEPT !.at = "push"]
  ELSE IF Mirrors(r.mine, p) THEN After(r)
  ELSE [r EXCEPT !.at = "save"]

\* Faulty variant: what GitLab has under the name is not adopted.
reconcileEntryAnew(p) ==
  LET e == Now(p)
      seen == pass[p].seen[e]
      r == [pass[p] EXCEPT !.mine = row[e]] IN
  /\ pass[p].at = "entry"
  /\ Go(p, IF r.mine # None /\ seen # None /\ seen.id = r.mine.id THEN reconcileAchievement(p, seen, r)
           ELSE [r EXCEPT !.at = "create"])
  /\ UNCHANGED <<gitlab, row, user, world, holder, cleanup, faults, settled, owed>>

\* reconcileEntry: claim, or resync.
reconcileEntry(p) ==
  LET e == Now(p)
      seen == pass[p].seen[e]
      r == [pass[p] EXCEPT !.mine = row[e]] IN
  /\ pass[p].at = "entry"
  /\ Go(p, IF r.mine # None /\ seen # None /\ seen.id = r.mine.id THEN reconcileAchievement(p, seen, r)
           ELSE [r EXCEPT !.at = IF seen = None THEN "create" ELSE "adopt"])
  /\ UNCHANGED <<gitlab, row, user, world, holder, cleanup, faults, settled, owed>>

\* createAchievement and recreateAchievement, at GitLab.
CreateOnGitLab(p) ==
  /\ pass[p].at = "create" /\ live[Now(p)] = None
  /\ lastId' = lastId + 1
  /\ live' = [live EXCEPT ![Now(p)] = [id |-> lastId', text |-> Text(p), badge |-> Art(p)]]
  /\ Touch(p, [pass[p] EXCEPT !.at = "record", !.id = lastId'])
  /\ UNCHANGED <<mistaken, row, user, world, holder, cleanup, faults, owed>>

\* And in the database: inserted, or saved over the row that was read.
RecordCreated(p) ==
  LET r == pass[p] IN
  /\ r.at = "record" /\ (r.mine # None \/ row[Now(p)] = None)
  /\ row' = [row EXCEPT ![Now(p)] = [id |-> r.id, text |-> Text(p), badge |-> Art(p), exp |-> Worth(p)]]
  /\ Judge(p, TRUE)
  /\ Touch(p, AfterSave(r, r.mine # None))
  /\ UNCHANGED <<live, lastId, user, world, holder, cleanup, faults, owed>>

\* An adoption changes what awards are worth, and is no reason to repair.
Adopted(e, exp) ==
  IF /\ row[e] # None /\ row[e].exp # exp
     /\ e \in held \cup IF open = None THEN {} ELSE {open.tier}
  THEN owed \cup {"adopted"} ELSE owed

\* adoptAchievement, up to reconcileAchievement. Whatever badge GitLab shows is
\* taken for the entry's.
adoptAchievement(p) ==
  LET e == Now(p)
      seen == pass[p].seen[e]
      badge == IF seen.badge = NoBadge THEN NoBadge ELSE Art(p)
      mine == [id |-> seen.id, text |-> seen.text, badge |-> badge, exp |-> Worth(p)]
      r == [pass[p] EXCEPT !.mine = mine, !.adopting = TRUE] IN
  /\ pass[p].at = "adopt" /\ (pass[p].mine # None \/ row[e] = None)
  /\ row' = [row EXCEPT ![e] = mine]
  /\ owed' = Adopted(e, mine.exp)
  /\ Judge(p, seen.badge \in {NoBadge, Art(p)})
  /\ Touch(p, reconcileAchievement(p, seen, r))
  /\ UNCHANGED <<live, lastId, user, world, holder, cleanup, faults>>

\* The badge is uploaded only if it has drifted.
pushAchievementUpdate(p) ==
  LET e == Now(p)
      mine == pass[p].mine
      drift == BadgeDrift(p, pass[p].seen[e], mine)
      badge == IF drift THEN Art(p) ELSE live[e].badge IN
  /\ pass[p].at = "push" /\ ~Gone(e, mine.id)
  /\ live' = [live EXCEPT ![e] = [id |-> mine.id, text |-> Text(p), badge |-> badge]]
  /\ IF drift THEN Judge(p, mine.badge = Art(p)) ELSE UNCHANGED mistaken
  /\ Touch(p, [pass[p] EXCEPT !.at = "save"])
  /\ UNCHANGED <<lastId, row, user, world, holder, cleanup, faults, owed>>

\* The row is saved with every column, and inserted again if it went away.
SaveRow(p) ==
  LET r == pass[p] IN
  /\ r.at = "save"
  /\ row' = [row EXCEPT ![Now(p)] = [id |-> r.mine.id, text |-> Text(p), badge |-> Art(p), exp |-> Worth(p)]]
  /\ IF r.alone /\ ~BadgeDrift(p, r.seen[Now(p)], r.mine) THEN UNCHANGED mistaken ELSE Judge(p, TRUE)
  /\ owed' = IF r.adopting THEN Adopted(Now(p), Worth(p)) ELSE owed
  /\ Touch(p, AfterSave(r, ~r.adopting))
  /\ UNCHANGED <<live, lastId, user, world, holder, cleanup, faults>>

-----------------------------------------------------------------------------
(* repairExpTotals and RecomputeAll, for one of the users. *)

LoadUsers(p) ==
  /\ pass[p].at = "load"
  /\ Go(p, [pass[p] EXCEPT !.at = "user", !.amount = total])
  /\ UNCHANGED <<gitlab, row, user, world, holder, cleanup, faults, settled, owed>>

\* A total found right is left alone. It may have been found right because a
\* tier that is being awarded cannot be seen yet, or because a tier that has
\* been awarded since it was read makes up for the difference.
CompareTotal(p) ==
  LET right == pass[p].amount = heldExp(held) IN
  /\ pass[p].at = "user"
  /\ Go(p, [pass[p] EXCEPT !.at = IF right THEN "end" ELSE "recompute"])
  /\ owed' = IF right /\ (open # None \/ total # pass[p].amount) THEN owed \cup {"overlapped"} ELSE owed
  /\ UNCHANGED <<gitlab, row, user, world, holder, cleanup, faults, settled>>

\* recomputeExp is one UPDATE. It waits for a transaction that holds the
\* user's row, and may then write the sum as it was when it started.
recomputeExp(p) ==
  /\ pass[p].at = "recompute"
  /\ IF open = None
     THEN total' = heldExp(held) /\ owed' = {} /\ Go(p, [pass[p] EXCEPT !.at = "end"])
     ELSE Go(p, [pass[p] EXCEPT !.at = "waiting", !.amount = heldExp(held)]) /\ UNCHANGED <<total, owed>>
  /\ UNCHANGED <<gitlab, row, held, open, world, holder, cleanup, faults, settled>>

RecomputeResumes(p) ==
  /\ pass[p].at = "waiting" /\ open = None
  /\ total' \in {pass[p].amount, heldExp(held)}
  /\ owed' = owed \cup {"overlapped"}
  /\ Go(p, [pass[p] EXCEPT !.at = "end"])
  /\ UNCHANGED <<gitlab, row, held, open, world, holder, cleanup, faults, settled>>

End(p) ==
  /\ pass[p].at = "end"
  /\ settled' = IF pass[p].alone THEN Release[p] ELSE settled
  /\ Go(p, IdlePass)
  /\ holder' = IF holder = p THEN None ELSE holder
  /\ UNCHANGED <<gitlab, row, user, world, cleanup, faults, owed>>

Aborted(p) ==
  /\ Go(p, IdlePass)
  /\ holder' = IF holder = p THEN None ELSE holder
  /\ owed' = IF pass[p].changed THEN owed \cup {"cut short"} ELSE owed
  /\ UNCHANGED <<gitlab, row, user, world, cleanup, settled>>

\* GitLab refuses a name that is taken and an update of what is gone, the
\* database a second row for an entry.
Refused(p) ==
  LET e == Now(p) IN
  /\ \/ pass[p].at = "create" /\ live[e] # None
     \/ pass[p].at = "push" /\ Gone(e, pass[p].mine.id)
     \/ pass[p].at \in {"record", "adopt"} /\ pass[p].mine = None /\ row[e] # None
  /\ Aborted(p) /\ UNCHANGED faults

\* The first error ends the pass; so does a crash, or noticing that the lease
\* is lost.
Fail(p) == Busy(p) /\ Fault /\ Aborted(p)

\* The lease runs out under a pass that goes on.
Lapse(p) ==
  /\ holder = p /\ Fault
  /\ holder' = None
  /\ UNCHANGED <<gitlab, row, user, world, pass, cleanup, settled, owed>>

-----------------------------------------------------------------------------
(* Evaluations, deployments, people. *)

\* awardReachedTiers and recomputeExp in the evaluation's transaction, and
\* its commit.
AwardTier(e) ==
  /\ up # {} /\ open = None /\ row[e] # None /\ e \notin held
  /\ open' = [tier |-> e, total |-> heldExp(held \cup {e})]
  /\ UNCHANGED <<gitlab, row, held, total, world, holder, pass, cleanup, faults, settled, owed>>

Commit ==
  /\ open # None
  /\ held' = held \cup {open.tier} /\ total' = open.total /\ open' = None
  /\ UNCHANGED <<gitlab, row, world, holder, pass, cleanup, faults, settled, owed>>

\* A process of the latest release starts at any time, an older one not after it.
Start(p) ==
  /\ p \notin up /\ cleanup.at = "idle"
  /\ Release[p] = Latest \/ ~deployed
  /\ up' = up \cup {p} /\ deployed' = (deployed \/ Release[p] = Latest)
  /\ UNCHANGED <<gitlab, row, user, holder, pass, cleanup, faults, settled, owed>>

Stop(p) ==
  /\ p \in up /\ ~Busy(p)
  /\ up' = up \ {p}
  /\ UNCHANGED <<gitlab, row, user, deployed, holder, pass, cleanup, faults, settled, owed>>

\* An achievement is deleted or reworded, its badge replaced or cleared.
ByHand(e) ==
  /\ live[e] # None /\ Fault
  /\ \/ live' = [live EXCEPT ![e] = None] /\ mistaken' = mistaken \ {e}
     \/ live' = [live EXCEPT ![e].text = Edited] /\ UNCHANGED mistaken
     \/ live' = [live EXCEPT ![e].badge = Edited] /\ mistaken' = mistaken \cup {e}
     \/ live' = [live EXCEPT ![e].badge = NoBadge] /\ UNCHANGED mistaken
  /\ pass' = [q \in Processes |-> Disturbed(q)]
  /\ cleanup' = [cleanup EXCEPT !.alone = @ /\ cleanup.at \in {"idle", "done"}]
  /\ settled' = None
  /\ UNCHANGED <<lastId, row, user, world, holder, owed>>

-----------------------------------------------------------------------------
(* RemoveAchievements with --sweep, run as the documentation asks: no server  *)
(* runs, or is started once all is removed. The recorded achievements come    *)
(* first, then the catalog's names.                                           *)

NoCleanup == [at |-> "idle", done |-> {}, entry |-> 0, id |-> 0, alone |-> TRUE]
CleanupStep(next) ==
  /\ cleanup' = next
  /\ UNCHANGED <<lastId, mistaken, world, holder, pass>>

Uninstall ==
  /\ cleanup.at = "idle" /\ up = {} /\ open = None
  /\ CleanupStep([NoCleanup EXCEPT !.at = "recorded"])
  /\ UNCHANGED <<live, row, user, faults, settled, owed>>

Removable(e) == IF cleanup.at = "recorded" THEN row[e] # None ELSE cleanup.at = "sweep" /\ live[e] # None
Remaining == {e \in Entries \ cleanup.done : Removable(e)}

\* DeleteAchievement: done, or already gone.
Remove(e) ==
  LET id == IF cleanup.at = "recorded" THEN row[e].id ELSE live[e].id IN
  /\ e \in Remaining /\ cleanup.entry = 0
  /\ live' = IF Gone(e, id) THEN live ELSE [live EXCEPT ![e] = None]
  /\ settled' = None
  /\ CleanupStep([cleanup EXCEPT !.entry = e, !.id = id])
  /\ UNCHANGED <<row, user, faults, owed>>

\* Faulty variant: the awards do not go with the row.
forgetRowOnly ==
  LET e == cleanup.entry IN
  /\ e # 0
  /\ row' = IF row[e] # None /\ row[e].id = cleanup.id THEN [row EXCEPT ![e] = None] ELSE row
  /\ CleanupStep([cleanup EXCEPT !.done = @ \cup {e}, !.entry = 0, !.id = 0])
  /\ UNCHANGED <<live, user, faults, settled, owed>>

\* forget: the row goes, and the awards that refer to it with it.
forget ==
  LET e == cleanup.entry IN
  /\ e # 0
  /\ IF row[e] # None /\ row[e].id = cleanup.id
     THEN /\ row' = [row EXCEPT ![e] = None] /\ held' = held \ {e}
          /\ owed' = IF e \in held THEN owed \cup {"uninstalled"} ELSE owed
     ELSE UNCHANGED <<row, held, owed>>
  /\ CleanupStep([cleanup EXCEPT !.done = @ \cup {e}, !.entry = 0, !.id = 0])
  /\ UNCHANGED <<live, total, open, faults, settled>>

\* An achievement this app may not remove is left, and its row too.
SkipRemoval(e) ==
  /\ e \in Remaining /\ cleanup.entry = 0 /\ Fault
  /\ CleanupStep([cleanup EXCEPT !.done = @ \cup {e}, !.alone = FALSE])
  /\ UNCHANGED <<live, row, user, settled, owed>>

CleanupNext ==
  /\ cleanup.at \in {"recorded", "sweep"} /\ cleanup.entry = 0 /\ Remaining = {}
  /\ IF cleanup.at = "recorded"
     THEN CleanupStep([cleanup EXCEPT !.at = "sweep", !.done = {}]) /\ UNCHANGED settled
     ELSE CleanupStep([cleanup EXCEPT !.at = "done", !.done = {}]) /\ settled' = IF cleanup.alone THEN Removed ELSE settled
  /\ UNCHANGED <<live, row, user, faults, owed>>

CleanupFails ==
  /\ cleanup.at \in {"recorded", "sweep"} /\ Fault
  /\ CleanupStep(NoCleanup)
  /\ UNCHANGED <<live, row, user, settled, owed>>

-----------------------------------------------------------------------------

\* Achievements an earlier installation left may be on GitLab.
Init ==
  /\ \E left \in {None} \cup [id : {1}, text : {Edited}, badge : {NoBadge, Edited}] :
       live = [e \in Entries |-> IF e = 1 THEN left ELSE None]
  /\ lastId = 1 /\ mistaken = {}
  /\ row = [e \in Entries |-> None]
  /\ held = {} /\ total = 0 /\ open = None
  /\ up = {} /\ deployed = FALSE
  /\ holder = None /\ pass = [p \in Processes |-> IdlePass]
  /\ cleanup = NoCleanup
  /\ faults = 0 /\ settled = None /\ owed = {}

PassStep(p) ==
  \/ listAchievements(p) \/ reconcileEntry(p) \/ CreateOnGitLab(p) \/ RecordCreated(p)
  \/ adoptAchievement(p) \/ pushAchievementUpdate(p) \/ SaveRow(p)
  \/ LoadUsers(p) \/ CompareTotal(p) \/ recomputeExp(p) \/ RecomputeResumes(p)
  \/ End(p) \/ Refused(p)

CleanupActs == (\E e \in Entries : Remove(e)) \/ forget \/ CleanupNext

Next ==
  \/ \E p \in Processes : Begin(p) \/ PassStep(p) \/ Fail(p) \/ Lapse(p) \/ Start(p) \/ Stop(p)
  \/ \E e \in Entries : AwardTier(e) \/ ByHand(e) \/ SkipRemoval(e)
  \/ Commit \/ Uninstall \/ CleanupActs \/ CleanupFails

\* Passes come round every hour and run on, whoever waits for the lease gets
\* it in the end, transactions end, and superseded processes are stopped.
Fairness ==
  /\ \A p \in Processes : SF_vars(Begin(p)) /\ WF_vars(PassStep(p))
  /\ \A p \in Processes : Release[p] # Latest => SF_vars(deployed /\ Stop(p))
  /\ WF_vars(Commit) /\ WF_vars(CleanupActs)

Spec == Init /\ [][Next]_vars /\ Fairness

-----------------------------------------------------------------------------
(* What must hold. *)

Live  == [id : 1 .. lastId, text : Texts, badge : Badges]
Rows  == [id : 1 .. lastId, text : Texts, badge : Badges, exp : Nat]

\* GitLab, the rows, the user.
DataType ==
  /\ lastId \in Nat /\ mistaken \subseteq Entries
  /\ live \in [Entries -> Live \cup {None}] /\ row \in [Entries -> Rows \cup {None}]
  /\ held \subseteq {e \in Entries : row[e] # None} /\ total \in Nat
  /\ open \in [tier : Entries, total : Nat] \cup {None}
  /\ open # None => row[open.tier] # None /\ open.tier \notin held
  /\ settled \in Releases \cup {Removed, None}
  /\ owed \subseteq {"cut short", "adopted", "overlapped", "uninstalled"}

AtEntry   == {"entry", "create", "record", "adopt", "push", "save"}
AtRepair  == {"load", "user", "recompute", "waiting", "end"}
Passes ==
  [at : {"idle", "list"} \cup AtEntry \cup AtRepair, entry : Entries \cup {0},
   seen : [Entries -> Live \cup {None}], mine : Rows \cup {None}, id : 0 .. lastId,
   adopting : BOOLEAN, changed : BOOLEAN, amount : Nat, alone : BOOLEAN]

\* How far a pass is, and what it has in hand there.
InHand(r) ==
  /\ r.at = "idle" => r = IdlePass
  /\ r.at \in AtEntry => r.entry # 0
  /\ r.at \in {"save", "push"} => r.mine # None
  /\ r.at = "adopt" => r.seen[r.entry] # None
  /\ r.at = "record" => r.id # 0

PassType ==
  /\ pass \in [Processes -> Passes] /\ \A p \in Processes : InHand(pass[p])
  /\ holder \in Processes \cup {None} /\ \A p \in Processes : holder = p => Busy(p)
  /\ up \subseteq Processes /\ \A p \in Processes : Busy(p) => p \in up
  /\ deployed \in BOOLEAN

CleanupType ==
  /\ cleanup \in [at : {"idle", "recorded", "sweep", "done"}, done : SUBSET Entries,
                  entry : Entries \cup {0}, id : 0 .. lastId, alone : BOOLEAN]
  /\ cleanup.at # "idle" => up = {} /\ open = None
  /\ cleanup.entry # 0 => cleanup.at \in {"recorded", "sweep"}

TypeOK == DataType /\ PassType /\ CleanupType /\ faults \in 0 .. MaxFaults

\* GitLab and the row have an entry as a release has it.
AsReleased(release, e) ==
  /\ live[e] # None /\ row[e] # None /\ row[e].id = live[e].id
  /\ live[e].text = Wording[release][e] /\ row[e].text = live[e].text
  /\ row[e].exp = Exp[release][e] /\ row[e].badge = Badge[release][e]
  /\ row[e].badge # NoBadge => live[e].badge # NoBadge /\ (live[e].badge = row[e].badge \/ e \in mistaken)

\* What a pass leaves if nobody interferes: GitLab has one achievement for
\* every entry, recorded under its identifier, worded and worth as the release
\* has it, whatever state an interrupted pass, a lost database or somebody's
\* hands left it in. It shows a badge if the release has one, and the
\* release's ("re-uploads the affected avatars on the next pass",
\* docs/content/docs/achievements.md), but where the record misleads the pass,
\* who cannot look: the badge was replaced by hand, another one was adopted
\* with the achievement, or an upload was cut short before it was recorded or
\* went on beside another pass. And what a removal leaves: nothing
\* (ReconcileAchievements, RemoveAchievements).
SettledAsPromised ==
  /\ settled \in Releases => \A e \in Entries : AsReleased(settled, e)
  /\ settled = Removed => \A e \in Entries : live[e] = None /\ row[e] = None

\* A user's total is what their tiers are worth, but for a pass that has yet
\* to repair it ("the correction lands with the retune", RecomputeAll) and
\* for four ways in which no repair comes: the pass was cut short between the
\* retune and the repair, a retuned achievement was adopted instead of
\* updated, an award went on beside the repair, `uninstall` took awards.
ExpStaleOnlyIfOwed ==
  total # heldExp(held) => owed # {} \/ \E p \in Processes : pass[p].changed

\* Once the latest release stays up, GitLab and the rows end up as it has
\* them, badges with the exception above, through crashes, lapses and edits by
\* hand.
Converges ==
  (\E p \in Processes : Release[p] = Latest /\ <>[](p \in up)) => <>[](settled = Latest)

=============================================================================
