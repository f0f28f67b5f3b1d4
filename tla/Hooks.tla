-------------------------------- MODULE Hooks --------------------------------
(***************************************************************************)
(* Registering the hooks that deliver events, one for every top-level group  *)
(* of a paid instance or every group-owned project of a free one, and taking *)
(* them off again (internal/bootstrap/webhook*.go).                          *)
(*                                                                          *)
(* A sweep takes the targets one after the other. It runs at startup under   *)
(* the bootstrap lease and every hour under none, so the sweeps of two        *)
(* processes may overlap anywhere; within a process they follow each other.  *)
(* One call to GitLab, or one access to the database, is one step. Only      *)
(* hooks with this app's URL are kept track of. HOOK_SCOPE is auto.          *)
(***************************************************************************)
EXTENDS Integers, FiniteSets

CONSTANTS
  Groups, Projects, \* the targets of either scope, numbered as GitLab lists them
  Processes,
  MaxFaults,        \* bound: failed calls, crashes, edits by hand, changed rights and licenses
  None

Targets == Groups \cup Projects

ASSUME HooksAssumption ==
  /\ IsFiniteSet(Targets) /\ Targets \subseteq Nat \ {0}
  /\ Groups \cap Projects = {} /\ Targets # {}
  /\ MaxFaults \in Nat /\ None \notin Nat

VARIABLES
  hooks,   \* GitLab: [id, target, ours], ours if configured as this app does
  lastId,  \* GitLab: the identifier given last
  paid,    \* the instance's plan, unless it will not say
  denied,  \* targets the token may not manage hooks on
  row,     \* registered_hooks: the identifier recorded for a target, or None
  sweep,   \* what each process is doing
  cleanup, \* what `uninstall` is doing
  faults,
  settled, \* history: the targets the last undisturbed sweep reached, or {None}
           \* after an undisturbed removal
  raced    \* history: targets two sweeps were about to register on at once

gitlab == <<hooks, lastId, paid, denied>>
vars == <<gitlab, row, sweep, cleanup, faults, settled, raced>>

Fault == faults < MaxFaults /\ faults' = faults + 1
Least(S) == CHOOSE x \in S : \A y \in S : x <= y
Of(t) == {h \in hooks : h.target = t}
Ids(t) == {h.id : h \in Of(t)}

Idle == [at |-> "idle", todo |-> {}, target |-> 0, id |-> 0, reached |-> {}, alone |-> TRUE]
Busy(p) == sweep[p].at # "idle"
On(p) == sweep[p].target
Go(p, next) == sweep' = [sweep EXCEPT ![p] = next]
Removing == cleanup.at \in {"recorded", "sweep"}

Disturbed(q) == IF Busy(q) THEN [sweep[q] EXCEPT !.alone = FALSE] ELSE sweep[q]

\* Having changed GitLab or the rows.
Touch(p, next) ==
  /\ sweep' = [q \in Processes |-> IF q = p THEN next ELSE Disturbed(q)]
  /\ settled' = {}

-----------------------------------------------------------------------------
(* A sweep: syncHooks. *)

\* resolveHookScope: no license to read is the free scope.
resolveHookScope == IF paid THEN Groups ELSE Projects

Begin(p) ==
  /\ cleanup.at = "idle" /\ ~Busy(p)
  /\ Go(p, [Idle EXCEPT !.at = "next", !.todo = resolveHookScope])
  /\ UNCHANGED <<gitlab, row, cleanup, faults, settled, raced>>

\* syncTarget: the target's recorded hook, if any, is tried first.
syncTarget(p) ==
  LET t == Least(sweep[p].todo) IN
  /\ sweep[p].at = "next" /\ sweep[p].todo # {}
  /\ Go(p, [sweep[p] EXCEPT !.todo = @ \ {t}, !.target = t,
                            !.at = IF row[t] = None THEN "list" ELSE "edit stored",
                            !.id = IF row[t] = None THEN 0 ELSE row[t]])
  /\ UNCHANGED <<gitlab, row, cleanup, faults, settled, raced>>

Edit(id) == {IF h.id = id THEN [h EXCEPT !.ours = TRUE] ELSE h : h \in hooks}

\* Faulty variants: a hook that is gone is taken for edited, or for a target
\* that cannot be managed.
reuseStoredHookAnyway(p) ==
  LET known == sweep[p].id \in Ids(On(p)) IN
  /\ sweep[p].at = "edit stored" /\ On(p) \notin denied
  /\ hooks' = Edit(sweep[p].id)
  /\ Go(p, [sweep[p] EXCEPT !.at = "store", !.id = IF known THEN @ ELSE 0])
  /\ UNCHANGED <<lastId, paid, denied, row, cleanup, faults, settled, raced>>
reuseStoredHookOrSkip(p) ==
  LET known == sweep[p].id \in Ids(On(p)) IN
  /\ sweep[p].at = "edit stored" /\ On(p) \notin denied
  /\ hooks' = Edit(sweep[p].id)
  /\ Go(p, [sweep[p] EXCEPT !.at = IF known THEN "store" ELSE "next"])
  /\ UNCHANGED <<lastId, paid, denied, row, cleanup, faults, settled, raced>>

\* reuseStoredHook: edited, or gone.
reuseStoredHook(p) ==
  LET known == sweep[p].id \in Ids(On(p)) IN
  /\ sweep[p].at = "edit stored" /\ On(p) \notin denied
  /\ hooks' = Edit(sweep[p].id)
  /\ Go(p, [sweep[p] EXCEPT !.at = IF known THEN "store" ELSE "list"])
  /\ UNCHANGED <<lastId, paid, denied, row, cleanup, faults, settled, raced>>

\* Faulty variant: a lost record is made up for without looking.
recoverHookBlind(p) ==
  /\ sweep[p].at = "list" /\ On(p) \notin denied
  /\ Go(p, [sweep[p] EXCEPT !.at = "add"])
  /\ UNCHANGED <<gitlab, row, cleanup, faults, settled, raced>>

\* recoverHook: a hook with this app's URL is taken over.
recoverHook(p) ==
  /\ sweep[p].at = "list" /\ On(p) \notin denied
  /\ IF Of(On(p)) = {}
     THEN Go(p, [sweep[p] EXCEPT !.at = "add"])
     ELSE \E h \in Of(On(p)) : Go(p, [sweep[p] EXCEPT !.at = "edit existing", !.id = h.id])
  /\ UNCHANGED <<gitlab, row, cleanup, faults, settled, raced>>

EditExisting(p) ==
  /\ sweep[p].at = "edit existing" /\ On(p) \notin denied /\ sweep[p].id \in Ids(On(p))
  /\ hooks' = Edit(sweep[p].id)
  /\ Go(p, [sweep[p] EXCEPT !.at = "store"])
  /\ UNCHANGED <<lastId, paid, denied, row, cleanup, faults, settled, raced>>

\* The hook is added; GitLab's answer may be lost, which ends the sweep.
Add(p) ==
  /\ sweep[p].at = "add" /\ On(p) \notin denied
  /\ lastId' = lastId + 1
  /\ hooks' = hooks \cup {[id |-> lastId', target |-> On(p), ours |-> TRUE]}
  /\ raced' = IF \E q \in Processes \ {p} : sweep[q].at = "add" /\ On(q) = On(p)
              THEN raced \cup {On(p)} ELSE raced
  /\ \/ Touch(p, [sweep[p] EXCEPT !.at = "store", !.id = lastId']) /\ UNCHANGED faults
     \/ Touch(p, Idle) /\ Fault
  /\ UNCHANGED <<paid, denied, row, cleanup>>

\* Faulty variant: recorded on first use only.
storeHookIDOnce(p) ==
  LET t == On(p)
      next == [sweep[p] EXCEPT !.at = "next", !.target = 0, !.id = 0, !.reached = @ \cup {t}] IN
  /\ sweep[p].at = "store"
  /\ row' = [row EXCEPT ![t] = IF @ = None THEN sweep[p].id ELSE @]
  /\ IF row[t] = sweep[p].id THEN Go(p, next) /\ UNCHANGED settled ELSE Touch(p, next)
  /\ UNCHANGED <<gitlab, cleanup, faults, raced>>

storeHookID(p) ==
  LET t == On(p)
      next == [sweep[p] EXCEPT !.at = "next", !.target = 0, !.id = 0, !.reached = @ \cup {t}] IN
  /\ sweep[p].at = "store"
  /\ row' = [row EXCEPT ![t] = sweep[p].id]
  /\ IF row[t] = sweep[p].id THEN Go(p, next) /\ UNCHANGED settled ELSE Touch(p, next)
  /\ UNCHANGED <<gitlab, cleanup, faults, raced>>

\* handleTargetError: a target that is out of reach is left for the next
\* sweep, as is one whose hook went away before it was edited.
handleTargetError(p) ==
  /\ \/ sweep[p].at \in {"edit stored", "list", "edit existing", "add"} /\ On(p) \in denied
     \/ sweep[p].at = "edit existing" /\ sweep[p].id \notin Ids(On(p))
  /\ Go(p, [sweep[p] EXCEPT !.at = "next", !.target = 0, !.id = 0])
  /\ UNCHANGED <<gitlab, row, cleanup, faults, settled, raced>>

End(p) ==
  /\ sweep[p].at = "next" /\ sweep[p].todo = {}
  /\ settled' = IF sweep[p].alone THEN sweep[p].reached ELSE settled
  /\ Go(p, Idle)
  /\ UNCHANGED <<gitlab, row, cleanup, faults, raced>>

\* Any other error, or a crash.
Fail(p) ==
  /\ Busy(p) /\ Fault
  /\ Go(p, Idle)
  /\ UNCHANGED <<gitlab, row, cleanup, settled, raced>>

-----------------------------------------------------------------------------
(* What others do: to a hook, to the token's rights, to the plan. *)

ByHand ==
  /\ Fault
  /\ \/ /\ \E h \in hooks : hooks' = (hooks \ {h}) \cup (IF h.ours THEN {[h EXCEPT !.ours = FALSE]} ELSE {})
        /\ UNCHANGED <<paid, denied>>
     \/ \E h \in hooks : hooks' = hooks \ {h} /\ UNCHANGED <<paid, denied>>
     \/ \E t \in Targets : denied' = (denied \ {t}) \cup ({t} \ denied) /\ UNCHANGED <<hooks, paid>>
     \/ paid' = ~paid /\ UNCHANGED <<hooks, denied>>
  /\ sweep' = [q \in Processes |-> Disturbed(q)]
  /\ cleanup' = [cleanup EXCEPT !.alone = @ /\ ~Removing]
  /\ settled' = {}
  /\ UNCHANGED <<lastId, row, raced>>

-----------------------------------------------------------------------------
(* RemoveWebhooks with --sweep, with no server running: the recorded hooks,   *)
(* then whatever carries this app's URL in the scopes that could hold any.    *)

NoCleanup == [at |-> "idle", todo |-> {}, scopes |-> {}, target |-> 0, left |-> {}, alone |-> TRUE]

Uninstall ==
  /\ cleanup.at = "idle" /\ \A p \in Processes : ~Busy(p)
  /\ cleanup' = [NoCleanup EXCEPT !.at = "recorded", !.todo = {t \in Targets : row[t] # None}]
  /\ UNCHANGED <<gitlab, row, sweep, faults, settled, raced>>

\* The next target and the hooks to remove from it: the recorded one, or all
\* that are listed.
CleanTarget(t) ==
  /\ Removing /\ cleanup.target = 0 /\ t \in cleanup.todo
  /\ cleanup.at = "recorded" \/ t \notin denied
  /\ LET found == IF cleanup.at = "recorded" THEN {row[t]} ELSE Ids(t) IN
     cleanup' = [cleanup EXCEPT !.todo = @ \ {t}, !.left = found, !.target = IF found = {} THEN 0 ELSE t]
  /\ UNCHANGED <<gitlab, row, sweep, faults, settled, raced>>

\* removeHook: done or already gone, and forgotten.
removeHook ==
  LET t == cleanup.target IN
  /\ t # 0 /\ t \notin denied
  /\ \E id \in cleanup.left :
       /\ hooks' = {h \in hooks : h.id # id}
       /\ cleanup' = [cleanup EXCEPT !.left = @ \ {id}, !.target = IF cleanup.left = {id} THEN 0 ELSE t]
  /\ row' = [row EXCEPT ![t] = None]
  /\ settled' = {}
  /\ UNCHANGED <<lastId, paid, denied, sweep, faults, raced>>

\* handleTargetError: left behind, with its row.
CleanupSkips ==
  /\ \/ /\ cleanup.target # 0 /\ cleanup.target \in denied
        /\ cleanup' = [cleanup EXCEPT !.target = 0, !.left = {}, !.alone = FALSE]
     \/ /\ cleanup.at = "sweep" /\ cleanup.target = 0
        /\ \E t \in cleanup.todo \cap denied :
             cleanup' = [cleanup EXCEPT !.todo = @ \ {t}, !.alone = FALSE]
  /\ UNCHANGED <<gitlab, row, sweep, faults, settled, raced>>

\* cleanupScopes: the plan may have lapsed the other way only.
cleanupScopes == IF paid THEN Targets ELSE Projects

CleanupNext ==
  /\ Removing /\ cleanup.target = 0 /\ cleanup.todo = {}
  /\ IF cleanup.at = "recorded"
     THEN /\ cleanup' = [cleanup EXCEPT !.at = "sweep", !.todo = cleanupScopes, !.scopes = cleanupScopes]
          /\ UNCHANGED settled
     ELSE /\ cleanup' = [cleanup EXCEPT !.at = "done"]
          /\ settled' = IF cleanup.alone THEN {None} ELSE settled
  /\ UNCHANGED <<gitlab, row, sweep, faults, raced>>

CleanupFails ==
  /\ Removing /\ Fault
  /\ cleanup' = NoCleanup
  /\ UNCHANGED <<gitlab, row, sweep, settled, raced>>

-----------------------------------------------------------------------------

\* An installation that lost its database left hooks behind.
Init ==
  /\ hooks \in {{}, {[id |-> 1, target |-> Least(Targets), ours |-> FALSE]}} /\ lastId = 1
  /\ paid \in BOOLEAN /\ denied = {}
  /\ row = [t \in Targets |-> None]
  /\ sweep = [p \in Processes |-> Idle] /\ cleanup = NoCleanup
  /\ faults = 0 /\ settled = {} /\ raced = {}

SweepStep(p) ==
  \/ syncTarget(p) \/ reuseStoredHook(p) \/ recoverHook(p) \/ EditExisting(p)
  \/ Add(p) \/ storeHookID(p) \/ handleTargetError(p) \/ End(p)

CleanupStep == (\E t \in Targets : CleanTarget(t)) \/ removeHook \/ CleanupSkips \/ CleanupNext

Next ==
  \/ \E p \in Processes : Begin(p) \/ SweepStep(p) \/ Fail(p)
  \/ ByHand \/ Uninstall \/ CleanupStep \/ CleanupFails

\* Sweeps come round every hour and run on.
Fairness ==
  /\ \A p \in Processes : WF_vars(Begin(p)) /\ WF_vars(SweepStep(p))
  /\ WF_vars(CleanupStep)

Spec == Init /\ [][Next]_vars /\ Fairness

-----------------------------------------------------------------------------
(* What must hold. *)

GitLabType ==
  /\ lastId \in Nat \ {0}
  /\ hooks \subseteq [id : 1 .. lastId, target : Targets, ours : BOOLEAN]
  /\ \A g, h \in hooks : g.id = h.id => g = h
  /\ paid \in BOOLEAN /\ denied \subseteq Targets
RowType == row \in [Targets -> (1 .. lastId) \cup {None}]

Sweeps ==
  [at : {"idle", "next", "edit stored", "list", "edit existing", "add", "store"},
   todo : SUBSET Targets, target : Targets \cup {0}, id : 0 .. lastId,
   reached : SUBSET Targets, alone : BOOLEAN]
SweepType ==
  /\ sweep \in [Processes -> Sweeps]
  /\ \A p \in Processes : /\ sweep[p].at \notin {"idle", "next"} => On(p) \in Targets
                          /\ sweep[p].at = "store" => sweep[p].id # 0

Cleanups ==
  [at : {"idle", "recorded", "sweep", "done"}, todo : SUBSET Targets, scopes : SUBSET Targets,
   target : Targets \cup {0}, left : SUBSET (1 .. lastId), alone : BOOLEAN]
CleanupType ==
  /\ cleanup \in Cleanups
  /\ cleanup.target # 0 <=> cleanup.left # {}
  /\ cleanup.target # 0 => Removing
  /\ cleanup.at = "recorded" => \A t \in cleanup.todo : row[t] # None /\ t # cleanup.target
  /\ cleanup.at # "idle" => \A p \in Processes : ~Busy(p)

TypeOK ==
  /\ GitLabType /\ RowType /\ SweepType /\ CleanupType
  /\ faults \in 0 .. MaxFaults
  /\ settled \subseteq Targets \cup {None} /\ raced \subseteq Targets

InOrder(t) == \E h \in Of(t) : h.id = row[t] /\ h.ours

\* What an undisturbed sweep leaves on every target it reached: a hook that is
\* configured as it should be and recorded, whatever was interrupted, deleted,
\* edited or lost before. And what an undisturbed removal leaves: no row, and
\* no hook where it looked, not even one that was never recorded (syncHooks,
\* RemoveWebhooks).
SettledAsPromised ==
  /\ \A t \in settled \ {None} : InOrder(t)
  /\ None \in settled => \A t \in Targets : row[t] = None /\ (t \in cleanup.scopes => Of(t) = {})

\* "this app registers at most one hook per target" (RegisteredHook,
\* models.go), through lost answers, lost rows and changes of plan; but two
\* sweeps that both found no hook register one each.
OneHookUnlessRaced == \A t \in Targets : Cardinality(Of(t)) <= 1 \/ t \in raced

\* As long as the server is not removed, every target in scope that may be
\* managed has its hook in the end, recorded and as it should be, and keeps it.
EveryTargetHooked ==
  [](cleanup.at = "idle") =>
    \A t \in Targets : <>[](t \in resolveHookScope \ denied => InOrder(t))

=============================================================================
