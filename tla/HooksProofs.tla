----------------------------- MODULE HooksProofs -----------------------------
(***************************************************************************)
(* Theorems about the registration of hooks, for any number of targets and   *)
(* processes, and any number of failed calls, crashes, edits by hand and      *)
(* changes of rights and plan.                                               *)
(***************************************************************************)
EXTENDS Hooks, FiniteSetTheorems, WellFoundedInduction, TLAPS

-----------------------------------------------------------------------------
(* The inductive invariant. *)

\* A hook of a target that is as it should be.
HookOf(hs, t, i) == \E h \in hs : h.target = t /\ h.id = i /\ h.ours

\* A sweep that is about to record a hook has one; the targets it reached are
\* in order, as long as nothing disturbed it.
SweepTrue(s, hs, rows) ==
  s.at # "idle" /\ s.alone =>
    /\ s.at = "store" => HookOf(hs, s.target, s.id)
    /\ \A t \in s.reached : HookOf(hs, t, rows[t])
SweepsTrue == \A p \in Processes : SweepTrue(sweep[p], hooks, row)

\* What is settled stays in order until something changes.
Kept == \A t \in settled \ {None} : HookOf(hooks, t, row[t])

\* What a removal has done so far, as long as nothing disturbed it.
Bare(hs, t) == \A h \in hs : h.target # t
CleanupTrue(c, hs, rows) ==
  c.alone =>
    /\ c.at = "recorded" => \A t \in Targets : rows[t] # None => t \in c.todo \/ t = c.target
    /\ c.at = "sweep" =>
         \A t \in Targets :
           /\ rows[t] = None
           /\ t \in c.scopes =>
                \/ t \in c.todo
                \/ \A h \in hs : h.target = t => t = c.target /\ h.id \in c.left

\* What a removal leaves.
Removed ==
  None \in settled =>
    /\ cleanup.at = "done"
    /\ \A t \in Targets : row[t] = None /\ (t \in cleanup.scopes => Bare(hooks, t))

\* A target about to get a hook has none, and none has two, unless two sweeps
\* were about to register on it at once.
AddsFirst ==
  \A p \in Processes : sweep[p].at = "add" => Bare(hooks, On(p)) \/ On(p) \in raced
AtMostOne ==
  \A t \in Targets : t \in raced \/ \A g, h \in hooks : g.target = t /\ h.target = t => g = h

HooksInv ==
  /\ TypeOK /\ SweepsTrue /\ Kept /\ CleanupTrue(cleanup, hooks, row) /\ Removed
  /\ AddsFirst /\ AtMostOne

-----------------------------------------------------------------------------
(* Lemmas about the operators. *)

\* A set of natural numbers that is not empty has a least one.
LEMMA LeastOf ==
  ASSUME NEW S, S \subseteq Nat, S # {}
  PROVE  Least(S) \in S /\ \A y \in S : Least(S) <= y
<1> DEFINE R == OpToRel(<, Nat)
<1>1. IsWellFoundedOn(R, Nat)
  BY NatLessThanWellFounded, Zenon
<1>2. R = {ss \in Nat \X Nat : ss[1] < ss[2]}
  BY Zenon DEF OpToRel
<1> HIDE DEF R
<1>3. PICK x \in S : \A y \in S : ~ (<<y, x>> \in R)
  BY <1>1, WFMin
<1>4. \A y \in S : x <= y
  <2> SUFFICES ASSUME NEW y \in S PROVE x <= y
    OBVIOUS
  <2> DEFINE ss == <<y, x>>
  <2>1. ss \in Nat \X Nat /\ ss[1] = y /\ ss[2] = x
    OBVIOUS
  <2>2. ss \notin R
    BY <1>3
  <2> HIDE DEF ss
  <2>3. ~ (ss[1] < ss[2])
    BY <2>1, <2>2, <1>2, Zenon
  <2> QED BY <2>1, <2>3
<1> QED BY <1>4 DEF Least

\* What the constants are.
LEMMA Parameters ==
  /\ Targets \subseteq Nat \ {0} /\ Targets # {} /\ 0 \notin Targets /\ None \notin Targets
  /\ MaxFaults \in Nat /\ None \notin Nat
  /\ Groups \subseteq Targets /\ Projects \subseteq Targets
  BY HooksAssumption DEF Targets

\* What a hook is.
LEMMA HookType ==
  ASSUME GitLabType
  PROVE  /\ \A h \in hooks : /\ h.id \in 1 .. lastId /\ h.id \in Nat /\ h.id # 0 /\ h.id <= lastId
                            /\ h.target \in Targets /\ h.ours \in BOOLEAN
         /\ lastId \in Nat
<1>1. lastId \in Nat /\ \A h \in hooks : h \in [id : 1 .. lastId, target : Targets, ours : BOOLEAN]
  BY DEF GitLabType
<1>2. \A i \in 1 .. lastId : i \in Nat /\ i # 0 /\ i <= lastId
  BY <1>1
<1>3. \A h \in hooks : h.id \in 1 .. lastId /\ h.target \in Targets /\ h.ours \in BOOLEAN
  BY <1>1, Zenon
<1> QED BY <1>1, <1>2, <1>3, Zenon

\* What a sweep is.
LEMMA SweepFields ==
  ASSUME SweepType, NEW p \in Processes
  PROVE  /\ sweep[p] \in Sweeps /\ DOMAIN sweep = Processes
         /\ sweep[p].todo \subseteq Targets /\ sweep[p].id \in 0 .. lastId
         /\ sweep[p].reached \subseteq Targets
         /\ On(p) \in Targets \cup {0}
         /\ sweep[p].at \notin {"idle", "next"} => On(p) \in Targets
<1>1. sweep[p] \in Sweeps /\ DOMAIN sweep = Processes
  BY DEF SweepType
<1>2. /\ sweep[p].todo \subseteq Targets /\ sweep[p].id \in 0 .. lastId
      /\ sweep[p].reached \subseteq Targets /\ On(p) \in Targets \cup {0}
  BY <1>1 DEF Sweeps, On
<1> QED BY <1>1, <1>2 DEF SweepType

\* Editing a hook makes it this app's, and leaves the others alone.
LEMMA Edited ==
  ASSUME GitLabType, NEW i
  PROVE  /\ Edit(i) \subseteq [id : 1 .. lastId, target : Targets, ours : BOOLEAN]
         /\ \A e \in Edit(i) : \E h \in hooks : h.id = e.id /\ h.target = e.target
         /\ \A g, h \in Edit(i) : g.id = h.id => g = h
         /\ \A h \in hooks : \E e \in Edit(i) :
              /\ e.id = h.id /\ e.target = h.target
              /\ h.ours => e.ours
              /\ h.id = i => e.ours
<1> DEFINE E(h) == IF h.id = i THEN [h EXCEPT !.ours = TRUE] ELSE h
<1>1. ASSUME NEW h \in hooks
      PROVE  /\ E(h) \in [id : 1 .. lastId, target : Targets, ours : BOOLEAN]
             /\ E(h).id = h.id /\ E(h).target = h.target
             /\ h.ours => E(h).ours
             /\ h.id = i => E(h).ours
  <2>1. h \in [id : 1 .. lastId, target : Targets, ours : BOOLEAN]
    BY DEF GitLabType
  <2>2. CASE h.id = i
    BY <2>1, <2>2
  <2>3. CASE h.id # i
    BY <2>1, <2>3
  <2> QED BY <2>2, <2>3
<1>2. Edit(i) = {E(h) : h \in hooks}
  BY DEF Edit
<1> HIDE DEF E
<1>3. ASSUME NEW g \in hooks, NEW h \in hooks, E(g).id = E(h).id PROVE E(g) = E(h)
  <2>1. g.id = h.id
    BY <1>1, <1>3
  <2>2. g = h
    BY <2>1 DEF GitLabType
  <2> QED BY <2>2
<1> QED BY <1>1, <1>2, <1>3

-----------------------------------------------------------------------------
(* Types. *)

\* The initial states are well typed.
LEMMA InitTyped == Init => TypeOK
<1> SUFFICES ASSUME Init PROVE TypeOK
  OBVIOUS
<1>1. /\ hooks \in {{}, {[id |-> 1, target |-> Least(Targets), ours |-> FALSE]}} /\ lastId = 1
      /\ paid \in BOOLEAN /\ denied = {} /\ row = [t \in Targets |-> None]
      /\ sweep = [p \in Processes |-> Idle] /\ cleanup = NoCleanup
      /\ faults = 0 /\ settled = {} /\ raced = {}
  BY DEF Init
<1>2. Least(Targets) \in Targets
  BY LeastOf, Parameters
<1>3. GitLabType
  <2>1. [id |-> 1, target |-> Least(Targets), ours |-> FALSE]
          \in [id : 1 .. 1, target : Targets, ours : BOOLEAN]
    BY <1>2
  <2>2. hooks \subseteq [id : 1 .. lastId, target : Targets, ours : BOOLEAN]
    BY <1>1, <2>1
  <2>3. \A g, h \in hooks : g = h
    BY <1>1
  <2>4. lastId \in Nat \ {0} /\ denied \subseteq Targets
    BY <1>1
  <2> QED BY <1>1, <2>2, <2>3, <2>4, Zenon DEF GitLabType
<1>4. RowType
  BY <1>1 DEF RowType
<1>5. SweepType
  <2>1. Idle \in Sweeps /\ Idle.at = "idle"
    BY <1>1 DEF Idle, Sweeps
  <2> QED BY <1>1, <2>1 DEF SweepType
<1>6. CleanupType
  BY <1>1 DEF CleanupType, Cleanups, NoCleanup
<1>7. faults \in 0 .. MaxFaults
  BY <1>1, Parameters
<1> QED BY <1>1, <1>3, <1>4, <1>5, <1>6, <1>7 DEF TypeOK

\* Faults are bounded.
LEMMA FaultCounts ==
  ASSUME TypeOK, Fault \/ UNCHANGED faults
  PROVE  faults' \in 0 .. MaxFaults
  BY Parameters DEF TypeOK, Fault

\* Sweeps and cleanups keep their types as identifiers are given.
LEMMA IdsGrow ==
  ASSUME GitLabType, lastId' \in {lastId, lastId + 1}
  PROVE  /\ lastId' \in Nat \ {0} /\ 1 .. lastId \subseteq 1 .. lastId'
         /\ Sweeps \subseteq Sweeps' /\ Cleanups \subseteq Cleanups'
<1>1. /\ lastId' \in Nat \ {0} /\ 1 .. lastId \subseteq 1 .. lastId'
      /\ 0 .. lastId \subseteq 0 .. lastId'
  BY DEF GitLabType
<1>2. Sweeps \subseteq Sweeps'
  BY <1>1 DEF Sweeps
<1>3. Cleanups \subseteq Cleanups'
  BY <1>1 DEF Cleanups
<1> QED BY <1>1, <1>2, <1>3

\* A sweep that goes on to something that is a sweep, while the others are
\* disturbed at most.
LEMMA SweepsTyped ==
  ASSUME TypeOK, NEW p \in Processes, NEW next, Go(p, next) \/ Touch(p, next),
         lastId' \in {lastId, lastId + 1}, next \in Sweeps',
         next.at \notin {"idle", "next"} => next.target \in Targets,
         next.at = "store" => next.id # 0
  PROVE  SweepType'
<1>1. Sweeps \subseteq Sweeps'
  BY IdsGrow DEF TypeOK
<1>2. sweep \in [Processes -> Sweeps]
  BY DEF TypeOK, SweepType
<1>3. ASSUME NEW q \in Processes
      PROVE  /\ Disturbed(q) \in Sweeps /\ Disturbed(q).at = sweep[q].at
             /\ Disturbed(q).target = sweep[q].target /\ Disturbed(q).id = sweep[q].id
  <2>1. sweep[q] \in Sweeps
    BY <1>2
  <2> QED BY <2>1 DEF Disturbed, Sweeps
<1>4. /\ DOMAIN sweep' = Processes /\ sweep' = [q \in Processes |-> sweep'[q]]
      /\ sweep'[p] = next
      /\ \A q \in Processes \ {p} : sweep'[q] \in {sweep[q], Disturbed(q)}
  <2>1. CASE Go(p, next)
    BY <1>2, <2>1 DEF Go
  <2>2. CASE Touch(p, next)
    BY <2>2 DEF Touch
  <2> QED BY <2>1, <2>2
<1>5. ASSUME NEW q \in Processes
      PROVE  /\ sweep'[q] \in Sweeps'
             /\ sweep'[q].at \notin {"idle", "next"} => sweep'[q].target \in Targets
             /\ sweep'[q].at = "store" => sweep'[q].id # 0
  <2>1. CASE q = p
    BY <1>4, <2>1
  <2>2. CASE q # p
    <3>1. /\ sweep'[q] \in Sweeps /\ sweep'[q].at = sweep[q].at
          /\ sweep'[q].target = sweep[q].target /\ sweep'[q].id = sweep[q].id
      BY <1>2, <1>3, <1>4, <2>2
    <3>2. /\ sweep[q].at \notin {"idle", "next"} => sweep[q].target \in Targets
          /\ sweep[q].at = "store" => sweep[q].id # 0
      BY DEF TypeOK, SweepType, On
    <3> QED BY <1>1, <3>1, <3>2
  <2> QED BY <2>1, <2>2
<1>6. sweep' \in [Processes -> Sweeps']
  BY <1>4, <1>5
<1> QED BY <1>5, <1>6 DEF SweepType, On

\* While a sweep is busy, or begins, nothing is being removed.
LEMMA CleanupRests ==
  ASSUME TypeOK, NEW p \in Processes, Busy(p) \/ cleanup.at = "idle", cleanup' = cleanup,
         lastId' \in {lastId, lastId + 1}
  PROVE  CleanupType'
<1>1. cleanup \in Cleanups /\ cleanup.at = "idle" /\ ~Removing
      /\ (cleanup.target # 0 <=> cleanup.left # {}) /\ cleanup.target = 0
  BY DEF TypeOK, CleanupType, Removing
<1>2. cleanup' \in Cleanups'
  BY <1>1, IdsGrow DEF TypeOK
<1> QED BY <1>1, <1>2 DEF CleanupType

\* What a sweep changes of itself only.
LEMMA OwnTyped ==
  ASSUME TypeOK, NEW p \in Processes, Busy(p) \/ cleanup.at = "idle", NEW next \in Sweeps,
         next.at \notin {"idle", "next"} => next.target \in Targets,
         next.at = "store" => next.id # 0,
         Go(p, next), UNCHANGED <<lastId, row, cleanup, raced>>, GitLabType',
         faults' \in 0 .. MaxFaults, settled' \subseteq Targets \cup {None}
  PROVE  TypeOK'
<1>1. lastId' = lastId /\ row' = row /\ cleanup' = cleanup /\ raced' = raced
  OBVIOUS
<1>2. next \in Sweeps'
  BY <1>1 DEF Sweeps
<1>3. SweepType'
  BY <1>1, <1>2, SweepsTyped
<1>4. CleanupType'
  BY <1>1, CleanupRests
<1>5. RowType'
  BY <1>1 DEF TypeOK, RowType
<1> QED BY <1>1, <1>3, <1>4, <1>5 DEF TypeOK

\* GitLab keeps its type, when left alone and when a hook is edited.
LEMMA GitLabKept ==
  ASSUME UNCHANGED gitlab
  PROVE  GitLabType => GitLabType'
<1>1. hooks' = hooks /\ lastId' = lastId /\ paid' = paid /\ denied' = denied
  BY DEF gitlab
<1> QED BY <1>1, Zenon DEF GitLabType

LEMMA EditTyped ==
  ASSUME GitLabType, NEW i, hooks' = Edit(i), UNCHANGED <<lastId, paid, denied>>
  PROVE  GitLabType'
<1>1. lastId' = lastId /\ paid' = paid /\ denied' = denied
  OBVIOUS
<1>2. lastId' \in Nat \ {0} /\ paid' \in BOOLEAN /\ denied' \subseteq Targets
  BY <1>1, Zenon DEF GitLabType
<1>3. hooks' \subseteq [id : 1 .. lastId', target : Targets, ours : BOOLEAN]
      /\ \A g, h \in hooks' : g.id = h.id => g = h
  BY <1>1, Edited
<1> QED BY <1>2, <1>3 DEF GitLabType

\* The types are kept by each of the steps of a sweep,
LEMMA BeginTyped == ASSUME TypeOK, NEW p \in Processes, Begin(p) PROVE TypeOK'
<1> DEFINE next == [Idle EXCEPT !.at = "next", !.todo = resolveHookScope]
<1>1. /\ cleanup.at = "idle" /\ Go(p, next) /\ UNCHANGED gitlab /\ row' = row /\ cleanup' = cleanup
      /\ faults' = faults /\ settled' = settled /\ raced' = raced
  BY DEF Begin
<1>2. 0 \in 0 .. lastId /\ resolveHookScope \subseteq Targets
  BY Parameters DEF TypeOK, GitLabType, resolveHookScope
<1>3. next \in Sweeps /\ next.at = "next"
  BY <1>2 DEF Idle, Sweeps
<1> HIDE DEF next
<1>4. GitLabType' /\ lastId' = lastId
  BY <1>1, GitLabKept DEF TypeOK, gitlab
<1>5. faults' \in 0 .. MaxFaults /\ settled' \subseteq Targets \cup {None}
  BY <1>1 DEF TypeOK
<1> QED BY <1>1, <1>3, <1>4, <1>5, OwnTyped

LEMMA syncTargetTyped == ASSUME TypeOK, NEW p \in Processes, syncTarget(p) PROVE TypeOK'
<1> DEFINE t == Least(sweep[p].todo)
           i == IF row[t] = None THEN 0 ELSE row[t]
           a == IF row[t] = None THEN "list" ELSE "edit stored"
           next == [sweep[p] EXCEPT !.todo = @ \ {t}, !.target = t, !.at = a, !.id = i]
<1>1. /\ Busy(p) /\ Go(p, next) /\ UNCHANGED gitlab /\ row' = row /\ cleanup' = cleanup
      /\ faults' = faults /\ settled' = settled /\ raced' = raced
      /\ sweep[p].todo # {}
  BY DEF syncTarget, Busy
<1>2. sweep[p] \in Sweeps /\ sweep[p].todo \subseteq Targets
  BY SweepFields DEF TypeOK
<1>3. t \in Targets
  BY <1>1, <1>2, LeastOf, Parameters
<1>4. i \in 0 .. lastId
  <2>1. row[t] \in 1 .. lastId \cup {None}
    BY <1>3 DEF TypeOK, RowType
  <2>2. lastId \in Nat \ {0}
    BY DEF TypeOK, GitLabType
  <2> QED BY <2>1, <2>2
<1>5. a \in {"list", "edit stored"}
  OBVIOUS
<1> HIDE DEF t, i, a
<1>6. next \in Sweeps /\ next.at = a /\ next.target = t
  BY <1>2, <1>3, <1>4, <1>5 DEF Sweeps
<1> HIDE DEF next
<1>7. GitLabType' /\ lastId' = lastId
  BY <1>1, GitLabKept DEF TypeOK, gitlab
<1>8. faults' \in 0 .. MaxFaults /\ settled' \subseteq Targets \cup {None}
  BY <1>1 DEF TypeOK
<1> QED BY <1>1, <1>3, <1>5, <1>6, <1>7, <1>8, OwnTyped

LEMMA EditingTyped ==
  ASSUME TypeOK, NEW p \in Processes, reuseStoredHook(p) \/ EditExisting(p)
  PROVE  TypeOK'
<1>1. PICK a \in {"store", "list"} :
        /\ Go(p, [sweep[p] EXCEPT !.at = a])
        /\ a = "store" => sweep[p].id \in Ids(On(p))
  BY DEF reuseStoredHook, EditExisting
<1>2. /\ sweep[p].at \in {"edit stored", "edit existing"} /\ hooks' = Edit(sweep[p].id)
      /\ UNCHANGED <<lastId, paid, denied>> /\ row' = row /\ cleanup' = cleanup
      /\ faults' = faults /\ settled' = settled /\ raced' = raced
  BY DEF reuseStoredHook, EditExisting
<1>3. sweep[p] \in Sweeps /\ On(p) \in Targets /\ Busy(p)
  BY <1>2, SweepFields DEF TypeOK, Busy
<1> DEFINE next == [sweep[p] EXCEPT !.at = a]
<1>4. next \in Sweeps /\ next.target = On(p) /\ next.at = a /\ next.id = sweep[p].id
  BY <1>3 DEF Sweeps, On
<1>5. a = "store" => next.id # 0
  BY <1>1, <1>4, HookType DEF TypeOK, Ids, Of
<1>6. GitLabType'
  BY <1>2, EditTyped DEF TypeOK
<1>7. faults' \in 0 .. MaxFaults /\ settled' \subseteq Targets \cup {None}
  BY <1>2 DEF TypeOK
<1> HIDE DEF next
<1>8. Go(p, next)
  BY <1>1 DEF next
<1> QED BY <1>2, <1>3, <1>4, <1>5, <1>6, <1>7, <1>8, OwnTyped

LEMMA recoverHookTyped == ASSUME TypeOK, NEW p \in Processes, recoverHook(p) PROVE TypeOK'
<1>1. /\ sweep[p].at = "list" /\ UNCHANGED gitlab /\ row' = row /\ cleanup' = cleanup
      /\ faults' = faults /\ settled' = settled /\ raced' = raced
  BY DEF recoverHook
<1>2. sweep[p] \in Sweeps /\ On(p) \in Targets /\ Busy(p)
  BY <1>1, SweepFields DEF TypeOK, Busy
<1>3. GitLabType' /\ lastId' = lastId
  BY <1>1, GitLabKept DEF TypeOK, gitlab
<1>4. faults' \in 0 .. MaxFaults /\ settled' \subseteq Targets \cup {None}
  BY <1>1 DEF TypeOK
<1>5. CASE Go(p, [sweep[p] EXCEPT !.at = "add"])
  <2> DEFINE next == [sweep[p] EXCEPT !.at = "add"]
  <2>1. next \in Sweeps /\ next.target = On(p) /\ next.at = "add"
    BY <1>2 DEF Sweeps, On
  <2> HIDE DEF next
  <2>2. Go(p, next)
    BY <1>5 DEF next
  <2> QED BY <1>1, <1>2, <1>3, <1>4, <2>1, <2>2, OwnTyped
<1>6. CASE \E h \in Of(On(p)) : Go(p, [sweep[p] EXCEPT !.at = "edit existing", !.id = h.id])
  <2>1. PICK h \in Of(On(p)) : Go(p, [sweep[p] EXCEPT !.at = "edit existing", !.id = h.id])
    BY <1>6
  <2> DEFINE next == [sweep[p] EXCEPT !.at = "edit existing", !.id = h.id]
  <2>2. h.id \in 0 .. lastId
    BY HookType DEF TypeOK, Of
  <2>3. next \in Sweeps /\ next.target = On(p) /\ next.at = "edit existing"
    BY <1>2, <2>2 DEF Sweeps, On
  <2> HIDE DEF next
  <2>4. Go(p, next)
    BY <2>1 DEF next
  <2> QED BY <1>1, <1>2, <1>3, <1>4, <2>3, <2>4, OwnTyped
<1> QED BY <1>5, <1>6 DEF recoverHook

\* A sweep that gives a target up, or is over.
LEMMA LeavingTyped ==
  ASSUME TypeOK, NEW p \in Processes, handleTargetError(p) \/ End(p) \/ Fail(p)
  PROVE  TypeOK'
<1> DEFINE away == [sweep[p] EXCEPT !.at = "next", !.target = 0, !.id = 0]
<1>1. PICK next \in {away, Idle} : Go(p, next)
  BY DEF handleTargetError, End, Fail
<1>2. /\ Busy(p) /\ UNCHANGED gitlab /\ row' = row /\ cleanup' = cleanup /\ raced' = raced
      /\ Fault \/ UNCHANGED faults
      /\ settled' \in {settled, sweep[p].reached}
  BY DEF handleTargetError, End, Fail, Busy
<1>3. 0 \in 0 .. lastId
  BY DEF TypeOK, GitLabType
<1>4. next \in Sweeps /\ next.at \in {"idle", "next"}
  <2>1. away \in Sweeps /\ away.at = "next"
    BY <1>3, SweepFields DEF TypeOK, Sweeps
  <2>2. Idle \in Sweeps /\ Idle.at = "idle"
    BY <1>3 DEF Idle, Sweeps
  <2> QED BY <2>1, <2>2
<1> HIDE DEF away
<1>5. GitLabType' /\ lastId' = lastId
  BY <1>2, GitLabKept DEF TypeOK, gitlab
<1>6. faults' \in 0 .. MaxFaults
  BY <1>2, FaultCounts
<1>7. settled' \subseteq Targets \cup {None}
  BY <1>2, SweepFields DEF TypeOK
<1> QED BY <1>1, <1>2, <1>4, <1>5, <1>6, <1>7, OwnTyped

LEMMA AddTyped == ASSUME TypeOK, NEW p \in Processes, Add(p) PROVE TypeOK'
<1> DEFINE new == [id |-> lastId', target |-> On(p), ours |-> TRUE]
           next == [sweep[p] EXCEPT !.at = "store", !.id = lastId']
<1>1. /\ sweep[p].at = "add" /\ lastId' = lastId + 1 /\ hooks' = hooks \cup {new}
      /\ raced' \in {raced, raced \cup {On(p)}} /\ settled' = {}
      /\ Fault \/ UNCHANGED faults
      /\ Touch(p, next) \/ Touch(p, Idle)
      /\ paid' = paid /\ denied' = denied /\ row' = row /\ cleanup' = cleanup
  BY DEF Add, Touch
<1>2. sweep[p] \in Sweeps /\ On(p) \in Targets /\ Busy(p)
  BY <1>1, SweepFields DEF TypeOK, Busy
<1>3. /\ lastId' \in Nat \ {0} /\ 1 .. lastId \subseteq 1 .. lastId'
      /\ Sweeps \subseteq Sweeps' /\ lastId' \in 1 .. lastId' /\ lastId' \in 0 .. lastId'
      /\ 0 \in 0 .. lastId' /\ ~(lastId' <= lastId)
  BY <1>1, IdsGrow DEF TypeOK, GitLabType
<1>4. next \in Sweeps' /\ next.at = "store" /\ next.target = On(p) /\ next.id = lastId'
  <2>1. sweep[p] \in Sweeps'
    BY <1>2, <1>3
  <2> QED BY <1>3, <2>1 DEF Sweeps, On
<1>5. Idle \in Sweeps' /\ Idle.at = "idle"
  BY <1>3 DEF Idle, Sweeps
<1> HIDE DEF next
<1>6. SweepType'
  <2>1. CASE Touch(p, next)
    BY <1>1, <1>2, <1>3, <1>4, <2>1, SweepsTyped
  <2>2. CASE Touch(p, Idle)
    BY <1>1, <1>5, <2>2, SweepsTyped
  <2> QED BY <1>1, <2>1, <2>2
<1>7. CleanupType'
  BY <1>1, <1>2, CleanupRests
<1>8. GitLabType'
  <2>1. new \in [id : 1 .. lastId', target : Targets, ours : BOOLEAN] /\ new.id = lastId'
    BY <1>2, <1>3
  <2> HIDE DEF new
  <2>2. hooks \subseteq [id : 1 .. lastId', target : Targets, ours : BOOLEAN]
    <3>1. hooks \subseteq [id : 1 .. lastId, target : Targets, ours : BOOLEAN]
      BY DEF TypeOK, GitLabType
    <3> QED BY <1>3, <3>1
  <2>3. \A h \in hooks : h.id # new.id
    BY <1>3, <2>1, HookType DEF TypeOK
  <2>4. \A g, h \in hooks' : g.id = h.id => g = h
    BY <1>1, <2>3 DEF TypeOK, GitLabType
  <2>5. paid' \in BOOLEAN /\ denied' \subseteq Targets
    BY <1>1, Zenon DEF TypeOK, GitLabType
  <2>6. hooks' \subseteq [id : 1 .. lastId', target : Targets, ours : BOOLEAN]
    BY <1>1, <2>1, <2>2
  <2> QED BY <1>3, <2>4, <2>5, <2>6 DEF GitLabType
<1>9. RowType'
  BY <1>1, <1>3 DEF TypeOK, RowType
<1>10. faults' \in 0 .. MaxFaults
  BY <1>1, FaultCounts
<1>11. settled' \subseteq Targets \cup {None} /\ raced' \subseteq Targets
  BY <1>1, <1>2 DEF TypeOK
<1> QED BY <1>6, <1>7, <1>8, <1>9, <1>10, <1>11 DEF TypeOK

LEMMA storeHookIDTyped == ASSUME TypeOK, NEW p \in Processes, storeHookID(p) PROVE TypeOK'
<1> DEFINE t == On(p)
           next == [sweep[p] EXCEPT !.at = "next", !.target = 0, !.id = 0, !.reached = @ \cup {t}]
<1>1. /\ sweep[p].at = "store" /\ row' = [row EXCEPT ![t] = sweep[p].id]
      /\ settled' = settled \/ settled' = {}
      /\ Go(p, next) \/ Touch(p, next)
      /\ UNCHANGED gitlab /\ cleanup' = cleanup /\ faults' = faults /\ raced' = raced
  BY DEF storeHookID, Touch
<1>2. /\ sweep[p] \in Sweeps /\ t \in Targets /\ Busy(p) /\ sweep[p].id \in 0 .. lastId
      /\ sweep[p].id # 0
  BY <1>1, SweepFields DEF TypeOK, Busy, SweepType
<1>3. GitLabType' /\ lastId' = lastId
  BY <1>1, GitLabKept DEF TypeOK, gitlab
<1>4. 0 \in 0 .. lastId /\ lastId \in Nat
  BY DEF TypeOK, GitLabType
<1> HIDE DEF t
<1>5. next \in Sweeps' /\ next.at = "next"
  BY <1>2, <1>3, <1>4 DEF Sweeps
<1> HIDE DEF next
<1>6. SweepType'
  BY <1>1, <1>3, <1>5, SweepsTyped
<1>7. CleanupType'
  BY <1>1, <1>2, <1>3, CleanupRests
<1>8. RowType'
  <2>1. sweep[p].id \in 1 .. lastId
    BY <1>2, <1>4
  <2> QED BY <1>1, <1>2, <1>3, <2>1 DEF TypeOK, RowType
<1>9. settled' \subseteq Targets \cup {None}
  <2>1. settled \subseteq Targets \cup {None}
    BY DEF TypeOK
  <2> QED BY <1>1, <2>1
<1>10. faults' \in 0 .. MaxFaults /\ raced' \subseteq Targets
  BY <1>1, Zenon DEF TypeOK
<1> QED BY <1>3, <1>6, <1>7, <1>8, <1>9, <1>10 DEF TypeOK

\* by what others do,
LEMMA ByHandTyped == ASSUME TypeOK, ByHand PROVE TypeOK'
<1>1. /\ Fault /\ sweep' = [q \in Processes |-> Disturbed(q)]
      /\ cleanup' = [cleanup EXCEPT !.alone = @ /\ ~Removing]
      /\ settled' = {} /\ lastId' = lastId /\ row' = row /\ raced' = raced
  BY DEF ByHand
<1>2. GitLabType'
  <2>1. ASSUME NEW h \in hooks,
               hooks' = (hooks \ {h}) \cup (IF h.ours THEN {[h EXCEPT !.ours = FALSE]} ELSE {})
        PROVE  /\ hooks' \subseteq [id : 1 .. lastId', target : Targets, ours : BOOLEAN]
               /\ \A g, k \in hooks' : g.id = k.id => g = k
    <3> DEFINE e == [h EXCEPT !.ours = FALSE]
    <3>1. hooks \subseteq [id : 1 .. lastId, target : Targets, ours : BOOLEAN]
      BY DEF TypeOK, GitLabType
    <3>2. e \in [id : 1 .. lastId, target : Targets, ours : BOOLEAN] /\ e.id = h.id
      BY <3>1
    <3> HIDE DEF e
    <3>3. hooks' \subseteq (hooks \ {h}) \cup {e}
      BY <2>1 DEF e
    <3>4. \A g \in hooks \ {h} : g.id # e.id
      BY <3>2 DEF TypeOK, GitLabType
    <3>5. \A g, k \in hooks : g.id = k.id => g = k
      BY DEF TypeOK, GitLabType
    <3> QED BY <1>1, <3>1, <3>2, <3>3, <3>4, <3>5
  <2>2. ASSUME hooks' \subseteq hooks
        PROVE  /\ hooks' \subseteq [id : 1 .. lastId', target : Targets, ours : BOOLEAN]
               /\ \A g, k \in hooks' : g.id = k.id => g = k
    BY <1>1, <2>2 DEF TypeOK, GitLabType
  <2>3. paid' \in BOOLEAN /\ denied' \subseteq Targets
    <3>1. denied' \subseteq Targets
      BY DEF ByHand, TypeOK, GitLabType
    <3>2. paid' = paid \/ paid' = ~paid
      BY DEF ByHand
    <3>3. paid \in BOOLEAN
      BY DEF TypeOK, GitLabType
    <3> QED BY <3>1, <3>2, <3>3, Zenon
  <2>4. \/ hooks' \subseteq hooks
        \/ \E h \in hooks : hooks' = (hooks \ {h}) \cup (IF h.ours THEN {[h EXCEPT !.ours = FALSE]} ELSE {})
    BY DEF ByHand
  <2>5. lastId' \in Nat \ {0}
    BY <1>1 DEF TypeOK, GitLabType
  <2> QED BY <2>1, <2>2, <2>3, <2>4, <2>5 DEF GitLabType
<1>3. RowType'
  BY <1>1 DEF TypeOK, RowType
<1>4. ASSUME NEW q \in Processes
      PROVE  /\ Disturbed(q) \in Sweeps' /\ Disturbed(q).at = sweep[q].at
             /\ Disturbed(q).target = sweep[q].target /\ Disturbed(q).id = sweep[q].id
  <2>1. sweep[q] \in Sweeps
    BY SweepFields DEF TypeOK
  <2>2. sweep[q] \in Sweeps'
    BY <1>1, <2>1 DEF Sweeps
  <2> QED BY <2>2 DEF Disturbed, Sweeps
<1>5. SweepType'
  <2>1. \A q \in Processes : sweep'[q] = Disturbed(q)
    BY <1>1
  <2>2. sweep' \in [Processes -> Sweeps']
    BY <1>1, <1>4
  <2> QED BY <1>4, <2>1, <2>2 DEF TypeOK, SweepType, On
<1>6. CleanupType'
  <2>1. cleanup \in Cleanups
    BY DEF TypeOK, CleanupType
  <2> DEFINE b == cleanup.alone /\ ~Removing
  <2>2. b \in BOOLEAN
    BY Zenon
  <2>3. cleanup' = [cleanup EXCEPT !.alone = b]
    BY <1>1
  <2> HIDE DEF b
  <2>4. /\ cleanup' \in Cleanups' /\ cleanup'.at = cleanup.at /\ cleanup'.target = cleanup.target
        /\ cleanup'.left = cleanup.left /\ cleanup'.todo = cleanup.todo
    BY <1>1, <2>1, <2>2, <2>3 DEF Cleanups
  <2>5. \A q \in Processes : sweep'[q].at = sweep[q].at
    BY <1>1, <1>4
  <2> QED BY <1>1, <2>4, <2>5 DEF TypeOK, CleanupType, Removing, Busy
<1>7. faults' \in 0 .. MaxFaults
  BY <1>1, FaultCounts
<1> QED BY <1>1, <1>2, <1>3, <1>5, <1>6, <1>7 DEF TypeOK

\* What a removal changes of itself only.
LEMMA RemovalTyped ==
  ASSUME TypeOK, UNCHANGED <<lastId, sweep, raced>>, GitLabType', RowType', cleanup' \in Cleanups,
         cleanup'.target # 0 <=> cleanup'.left # {}, cleanup'.target # 0 => Removing',
         cleanup'.at = "recorded" => \A t \in cleanup'.todo : row'[t] # None /\ t # cleanup'.target,
         cleanup'.at # "idle" => \A p \in Processes : ~Busy(p),
         faults' \in 0 .. MaxFaults, settled' \subseteq Targets \cup {None}
  PROVE  TypeOK'
<1>1. lastId' = lastId /\ sweep' = sweep /\ raced' = raced
  OBVIOUS
<1>2. SweepType'
  <2>1. Sweeps' = Sweeps
    BY <1>1, Zenon DEF Sweeps
  <2> QED BY <1>1, <2>1, Zenon DEF TypeOK, SweepType, On
<1>3. Cleanups' = Cleanups
  BY <1>1, Zenon DEF Cleanups
<1>4. CleanupType'
  BY <1>1, <1>3 DEF CleanupType, Busy
<1> QED BY <1>1, <1>2, <1>4 DEF TypeOK

\* What a removal is.
LEMMA CleanupFields ==
  ASSUME TypeOK
  PROVE  /\ cleanup \in Cleanups /\ cleanup.todo \subseteq Targets /\ cleanup.left \subseteq 1 .. lastId
         /\ cleanup.target \in Targets \cup {0}
         /\ cleanup.target # 0 <=> cleanup.left # {}
         /\ cleanup.target # 0 => Removing
         /\ cleanup.at = "recorded" => \A t \in cleanup.todo : row[t] # None /\ t # cleanup.target
         /\ cleanup.at # "idle" => \A p \in Processes : ~Busy(p)
<1>1. cleanup \in Cleanups
  BY DEF TypeOK, CleanupType
<1> QED BY <1>1 DEF TypeOK, CleanupType, Cleanups

\* and by each of the steps of a removal.
LEMMA UninstallTyped == ASSUME TypeOK, Uninstall PROVE TypeOK'
<1>1. /\ \A p \in Processes : ~Busy(p)
      /\ cleanup' = [NoCleanup EXCEPT !.at = "recorded", !.todo = {t \in Targets : row[t] # None}]
      /\ UNCHANGED gitlab /\ row' = row /\ sweep' = sweep /\ faults' = faults
      /\ settled' = settled /\ raced' = raced
  BY DEF Uninstall
<1>2. /\ cleanup' \in Cleanups /\ cleanup'.target = 0 /\ cleanup'.left = {}
      /\ \A t \in cleanup'.todo : row'[t] # None /\ t # cleanup'.target
  BY <1>1, Parameters DEF NoCleanup, Cleanups
<1>3. GitLabType' /\ lastId' = lastId
  BY <1>1, GitLabKept DEF TypeOK, gitlab
<1>4. RowType'
  BY <1>1, <1>3 DEF TypeOK, RowType
<1>5. faults' \in 0 .. MaxFaults /\ settled' \subseteq Targets \cup {None}
  BY <1>1 DEF TypeOK
<1> QED BY <1>1, <1>2, <1>3, <1>4, <1>5, RemovalTyped

LEMMA CleanTargetTyped == ASSUME TypeOK, NEW t \in Targets, CleanTarget(t) PROVE TypeOK'
<1> DEFINE found == IF cleanup.at = "recorded" THEN {row[t]} ELSE Ids(t)
           n == IF found = {} THEN 0 ELSE t
<1>1. /\ Removing /\ cleanup.target = 0 /\ t \in cleanup.todo
      /\ cleanup' = [cleanup EXCEPT !.todo = @ \ {t}, !.left = found, !.target = n]
      /\ UNCHANGED gitlab /\ row' = row /\ sweep' = sweep /\ faults' = faults
      /\ settled' = settled /\ raced' = raced
  BY DEF CleanTarget
<1>2. found \subseteq 1 .. lastId
  <2>1. CASE cleanup.at = "recorded"
    <3>1. row[t] # None
      BY <1>1, <2>1, CleanupFields
    <3> QED BY <2>1, <3>1 DEF TypeOK, RowType
  <2>2. CASE cleanup.at # "recorded"
    BY <2>2, HookType DEF TypeOK, Ids, Of
  <2> QED BY <2>1, <2>2
<1>3. n \in Targets \cup {0} /\ (n # 0 <=> found # {}) /\ n \in {0, t}
  BY Parameters
<1> HIDE DEF found, n
<1>4. /\ cleanup' \in Cleanups /\ cleanup'.target = n /\ cleanup'.left = found
      /\ cleanup'.at = cleanup.at /\ cleanup'.todo = cleanup.todo \ {t}
  BY <1>1, <1>2, <1>3, CleanupFields DEF Cleanups
<1>5. GitLabType' /\ lastId' = lastId
  BY <1>1, GitLabKept DEF TypeOK, gitlab
<1>6. RowType'
  BY <1>1, <1>5 DEF TypeOK, RowType
<1>7. faults' \in 0 .. MaxFaults /\ settled' \subseteq Targets \cup {None}
  BY <1>1 DEF TypeOK
<1>8. Removing'
  BY <1>1, <1>4 DEF Removing
<1>9. cleanup'.at = "recorded" => \A u \in cleanup'.todo : row'[u] # None /\ u # cleanup'.target
  BY <1>1, <1>3, <1>4, CleanupFields, Parameters
<1>10. \A p \in Processes : ~Busy(p)
  BY <1>1, CleanupFields DEF Removing
<1> QED BY <1>1, <1>3, <1>4, <1>5, <1>6, <1>7, <1>8, <1>9, <1>10, RemovalTyped

LEMMA removeHookTyped == ASSUME TypeOK, removeHook PROVE TypeOK'
<1> DEFINE t == cleanup.target
<1>1. PICK id \in cleanup.left :
        /\ hooks' = {h \in hooks : h.id # id}
        /\ cleanup' = [cleanup EXCEPT !.left = @ \ {id},
                                      !.target = IF cleanup.left = {id} THEN 0 ELSE t]
  BY DEF removeHook
<1>2. /\ t # 0 /\ row' = [row EXCEPT ![t] = None] /\ settled' = {}
      /\ lastId' = lastId /\ paid' = paid /\ denied' = denied /\ sweep' = sweep
      /\ faults' = faults /\ raced' = raced
  BY DEF removeHook
<1>3. t \in Targets /\ Removing /\ cleanup \in Cleanups /\ cleanup.left \subseteq 1 .. lastId
  BY <1>2, CleanupFields
<1> DEFINE n == IF cleanup.left = {id} THEN 0 ELSE t
<1>4. n \in Targets \cup {0} /\ (n # 0 <=> cleanup.left \ {id} # {}) /\ n \in {0, t}
  BY <1>1, <1>2, <1>3
<1>5. cleanup' = [cleanup EXCEPT !.left = @ \ {id}, !.target = n]
  BY <1>1
<1> HIDE DEF n
<1>6. /\ cleanup' \in Cleanups /\ cleanup'.target = n /\ cleanup'.left = cleanup.left \ {id}
      /\ cleanup'.at = cleanup.at /\ cleanup'.todo = cleanup.todo
  BY <1>3, <1>4, <1>5 DEF Cleanups
<1>7. GitLabType'
  <2>1. hooks' \subseteq hooks
    BY <1>1
  <2>2. paid' \in BOOLEAN /\ denied' \subseteq Targets /\ lastId' \in Nat \ {0}
    BY <1>2, Zenon DEF TypeOK, GitLabType
  <2>3. /\ hooks' \subseteq [id : 1 .. lastId', target : Targets, ours : BOOLEAN]
        /\ \A g, k \in hooks' : g.id = k.id => g = k
    BY <1>2, <2>1 DEF TypeOK, GitLabType
  <2> QED BY <2>2, <2>3 DEF GitLabType
<1>8. RowType'
  BY <1>2, <1>3 DEF TypeOK, RowType
<1>9. faults' \in 0 .. MaxFaults /\ settled' \subseteq Targets \cup {None}
  BY <1>2 DEF TypeOK
<1>10. Removing'
  BY <1>3, <1>6 DEF Removing
<1>11. cleanup'.at = "recorded" => \A u \in cleanup'.todo : row'[u] # None /\ u # cleanup'.target
  <2>1. SUFFICES ASSUME cleanup.at = "recorded", NEW u \in cleanup.todo
                 PROVE  row'[u] # None /\ u # cleanup'.target
    BY <1>6
  <2>2. row[u] # None /\ u # t /\ u \in Targets
    BY <2>1, CleanupFields
  <2>3. row'[u] = row[u]
    BY <1>2, <2>2 DEF TypeOK, RowType
  <2> QED BY <1>4, <1>6, <2>2, <2>3, Parameters
<1>12. \A p \in Processes : ~Busy(p)
  BY <1>3, CleanupFields DEF Removing
<1> QED BY <1>2, <1>4, <1>6, <1>7, <1>8, <1>9, <1>10, <1>11, <1>12, RemovalTyped

\* A removal that skips a target, goes on to sweep, is done or gives up.
LEMMA RemovalMovesTyped ==
  ASSUME TypeOK, CleanupSkips \/ CleanupNext \/ CleanupFails
  PROVE  TypeOK'
<1>1. /\ UNCHANGED gitlab /\ row' = row /\ sweep' = sweep
      /\ Fault \/ UNCHANGED faults
      /\ settled' = settled \/ settled' = {None}
      /\ raced' = raced /\ Removing
  BY CleanupFields DEF CleanupSkips, CleanupNext, CleanupFails, Removing
<1>2. /\ cleanup' \in Cleanups /\ (cleanup'.target # 0 <=> cleanup'.left # {})
      /\ cleanup'.target # 0 => Removing'
      /\ cleanup'.at = "recorded" => \A t \in cleanup'.todo : row'[t] # None /\ t # cleanup'.target
  <2>1. CASE CleanupSkips
    <3>1. CASE cleanup' = [cleanup EXCEPT !.target = 0, !.left = {}, !.alone = FALSE]
      <4>1. /\ cleanup' \in Cleanups /\ cleanup'.target = 0 /\ cleanup'.left = {}
            /\ cleanup'.at = cleanup.at /\ cleanup'.todo = cleanup.todo
        BY <3>1, CleanupFields DEF Cleanups
      <4>2. \A t \in cleanup.todo : t # 0
        BY CleanupFields, Parameters
      <4> QED BY <1>1, <4>1, <4>2, CleanupFields
    <3>2. CASE cleanup.at = "sweep" /\ cleanup.target = 0
               /\ \E t \in cleanup.todo \cap denied :
                    cleanup' = [cleanup EXCEPT !.todo = @ \ {t}, !.alone = FALSE]
      <4>1. PICK t \in cleanup.todo : cleanup' = [cleanup EXCEPT !.todo = @ \ {t}, !.alone = FALSE]
        BY <3>2
      <4>2. /\ cleanup' \in Cleanups /\ cleanup'.target = cleanup.target
            /\ cleanup'.left = cleanup.left /\ cleanup'.at = cleanup.at
        BY <4>1, CleanupFields DEF Cleanups
      <4> QED BY <3>2, <4>2, CleanupFields
    <3> QED BY <2>1, <3>1, <3>2 DEF CleanupSkips
  <2>2. CASE CleanupNext
    <3>1. cleanupScopes \subseteq Targets
      BY Parameters DEF cleanupScopes
    <3>2. /\ cleanup.target = 0
          /\ \/ cleanup' = [cleanup EXCEPT !.at = "sweep", !.todo = cleanupScopes, !.scopes = cleanupScopes]
             \/ cleanup' = [cleanup EXCEPT !.at = "done"]
      BY <2>2 DEF CleanupNext
    <3>3. /\ cleanup' \in Cleanups /\ cleanup'.target = cleanup.target
          /\ cleanup'.left = cleanup.left /\ cleanup'.at \in {"sweep", "done"}
      BY <3>1, <3>2, CleanupFields DEF Cleanups
    <3> QED BY <3>2, <3>3, CleanupFields
  <2>3. CASE CleanupFails
    <3>1. cleanup' = NoCleanup
      BY <2>3 DEF CleanupFails
    <3> QED BY <3>1 DEF NoCleanup, Cleanups
  <2> QED BY <2>1, <2>2, <2>3
<1>3. GitLabType' /\ lastId' = lastId
  BY <1>1, GitLabKept DEF TypeOK, gitlab
<1>4. RowType'
  BY <1>1, <1>3 DEF TypeOK, RowType
<1>5. faults' \in 0 .. MaxFaults
  BY <1>1, FaultCounts
<1>6. settled' \subseteq Targets \cup {None}
  BY <1>1 DEF TypeOK
<1>7. \A p \in Processes : ~Busy(p)
  BY <1>1, CleanupFields DEF Removing
<1> QED BY <1>1, <1>2, <1>3, <1>4, <1>5, <1>6, <1>7, RemovalTyped

\* All of them together.
LEMMA StutterTyped == ASSUME TypeOK, UNCHANGED vars PROVE TypeOK'
<1>1. /\ hooks' = hooks /\ lastId' = lastId /\ paid' = paid /\ denied' = denied /\ row' = row
      /\ sweep' = sweep /\ cleanup' = cleanup /\ faults' = faults /\ settled' = settled
      /\ raced' = raced
  BY DEF vars, gitlab
<1>2. GitLabType' /\ RowType'
  BY <1>1, Zenon DEF TypeOK, GitLabType, RowType
<1>3. SweepType'
  BY <1>1, Zenon DEF TypeOK, SweepType, Sweeps, On
<1>4. CleanupType'
  BY <1>1, Zenon DEF TypeOK, CleanupType, Cleanups, Removing, Busy
<1> QED BY <1>1, <1>2, <1>3, <1>4 DEF TypeOK

LEMMA StepTyped == TypeOK /\ [Next]_vars => TypeOK'
  BY BeginTyped, syncTargetTyped, EditingTyped, recoverHookTyped, AddTyped, storeHookIDTyped,
     LeavingTyped, ByHandTyped, UninstallTyped, CleanTargetTyped, removeHookTyped,
     RemovalMovesTyped, StutterTyped, Zenon DEF Next, SweepStep, CleanupStep

\* Hooks have identifiers of their own; rows, sweeps and removals name targets
\* and identifiers there are; nothing is removed while a sweep is under way.
THEOREM HooksTypeCorrect == Spec => []TypeOK
  BY InitTyped, StepTyped, PTL DEF Spec

-----------------------------------------------------------------------------
(* What a step does to the sweeps. *)

\* A sweep leaves the others where they are, disturbed if it changed something.
LEMMA Others ==
  ASSUME TypeOK, NEW p \in Processes, NEW next, Go(p, next) \/ Touch(p, next)
  PROVE  /\ sweep'[p] = next
         /\ \A q \in Processes \ {p} :
              /\ sweep'[q].at = sweep[q].at /\ sweep'[q].target = sweep[q].target
              /\ Go(p, next) => sweep'[q] = sweep[q]
              /\ Touch(p, next) => sweep'[q].at = "idle" \/ ~ sweep'[q].alone
<1>1. \A q \in Processes : sweep[q] \in Sweeps /\ DOMAIN sweep = Processes
  BY SweepFields DEF TypeOK
<1>2. ASSUME NEW q \in Processes
      PROVE  /\ Disturbed(q).at = sweep[q].at /\ Disturbed(q).target = sweep[q].target
             /\ Disturbed(q).at = "idle" \/ ~ Disturbed(q).alone
  <2>1. sweep[q] \in Sweeps
    BY <1>1
  <2> QED BY <2>1 DEF Disturbed, Sweeps, Busy
<1>3. CASE Go(p, next)
  <2>1. /\ sweep'[p] = next
        /\ \A q \in Processes \ {p} : sweep'[q] = sweep[q]
    BY <1>1, <1>3 DEF Go
  <2>2. Touch(p, next) => \A q \in Processes \ {p} : sweep'[q] = Disturbed(q)
    BY DEF Touch
  <2> QED BY <1>2, <2>1, <2>2
<1>4. CASE Touch(p, next)
  <2>1. sweep'[p] = next /\ \A q \in Processes \ {p} : sweep'[q] = Disturbed(q)
    BY <1>4 DEF Touch
  <2>2. Go(p, next) => \A q \in Processes \ {p} : sweep'[q] = sweep[q]
    BY <1>1 DEF Go
  <2> QED BY <1>2, <2>1, <2>2
<1> QED BY <1>3, <1>4

-----------------------------------------------------------------------------
(* At most one hook for a target, unless two sweeps raced. *)

\* As long as every hook there is was there before, perhaps configured
\* differently, and no sweep makes to add one where there is one.
LEMMA NoneAdded ==
  ASSUME TypeOK, TypeOK', AddsFirst, AtMostOne, raced' = raced,
         \A e \in hooks' : \E h \in hooks : h.id = e.id /\ h.target = e.target,
         \A q \in Processes :
           sweep'[q].at = "add" => \/ sweep[q].at = "add" /\ sweep'[q].target = sweep[q].target
                                   \/ Bare(hooks, sweep'[q].target)
  PROVE  AddsFirst' /\ AtMostOne'
<1>1. ASSUME NEW t, Bare(hooks, t) PROVE Bare(hooks', t)
  BY <1>1 DEF Bare
<1>2. AddsFirst'
  <2> SUFFICES ASSUME NEW q \in Processes, sweep'[q].at = "add"
               PROVE  Bare(hooks', sweep'[q].target) \/ sweep'[q].target \in raced'
    BY DEF AddsFirst, On
  <2>1. CASE Bare(hooks, sweep'[q].target)
    BY <1>1, <2>1
  <2>2. CASE sweep[q].at = "add" /\ sweep'[q].target = sweep[q].target
    <3>1. Bare(hooks, sweep[q].target) \/ sweep[q].target \in raced
      BY <2>2 DEF AddsFirst, On
    <3> QED BY <1>1, <2>2, <3>1
  <2> QED BY <2>1, <2>2
<1>3. AtMostOne'
  <2> SUFFICES ASSUME NEW t \in Targets, t \notin raced, NEW g \in hooks', NEW h \in hooks',
                      g.target = t, h.target = t
               PROVE  g = h
    BY Zenon DEF AtMostOne
  <2>1. PICK a \in hooks : a.id = g.id /\ a.target = t
    OBVIOUS
  <2>2. PICK b \in hooks : b.id = h.id /\ b.target = t
    OBVIOUS
  <2>3. a = b
    BY <2>1, <2>2 DEF AtMostOne
  <2>4. g.id = h.id
    BY <2>1, <2>2, <2>3
  <2>5. \A x, y \in hooks' : x.id = y.id => x = y
    BY DEF TypeOK, GitLabType
  <2> QED BY <2>4, <2>5
<1> QED BY <1>2, <1>3

\* A hook is added where there is none, or two sweeps raced.
LEMMA AddRaces ==
  ASSUME TypeOK, AddsFirst, AtMostOne, NEW p \in Processes, Add(p)
  PROVE  AddsFirst' /\ AtMostOne'
<1> DEFINE t == On(p)
           new == [id |-> lastId', target |-> t, ours |-> TRUE]
<1>1. /\ sweep[p].at = "add" /\ hooks' = hooks \cup {new}
      /\ raced' = IF \E q \in Processes \ {p} : sweep[q].at = "add" /\ On(q) = t
                  THEN raced \cup {t} ELSE raced
  BY DEF Add
<1>2. new.target = t
  OBVIOUS
<1> HIDE DEF new
<1>3. PICK next : Touch(p, next) /\ next.at # "add"
  <2>1. sweep[p] \in Sweeps
    BY SweepFields DEF TypeOK
  <2>2. /\ [sweep[p] EXCEPT !.at = "store", !.id = lastId'].at # "add"
        /\ Idle.at # "add"
    BY <2>1 DEF Idle, Sweeps
  <2> QED BY <2>2 DEF Add
<1>4. AddsFirst'
  <2> SUFFICES ASSUME NEW q \in Processes, sweep'[q].at = "add"
               PROVE  Bare(hooks', sweep'[q].target) \/ sweep'[q].target \in raced'
    BY DEF AddsFirst, On
  <2>1. q # p /\ sweep[q].at = "add" /\ sweep'[q].target = On(q)
    BY <1>3, Others DEF On
  <2>2. CASE On(q) = t
    BY <1>1, <2>1, <2>2
  <2>3. CASE On(q) # t
    <3>1. Bare(hooks, On(q)) \/ On(q) \in raced
      BY <2>1 DEF AddsFirst
    <3>2. Bare(hooks, On(q)) => Bare(hooks', On(q))
      BY <1>1, <1>2, <2>3 DEF Bare
    <3> QED BY <1>1, <2>1, <3>1, <3>2
  <2> QED BY <2>2, <2>3
<1>5. AtMostOne'
  <2> SUFFICES ASSUME NEW u \in Targets, u \notin raced', NEW g \in hooks', NEW h \in hooks',
                      g.target = u, h.target = u
               PROVE  g = h
    BY Zenon DEF AtMostOne
  <2>1. u \notin raced
    BY <1>1
  <2>2. CASE u = t
    <3>1. Bare(hooks, u)
      BY <1>1, <2>1, <2>2 DEF AddsFirst
    <3> QED BY <1>1, <3>1 DEF Bare
  <2>3. CASE u # t
    <3>1. g \in hooks /\ h \in hooks
      BY <1>1, <1>2, <2>3
    <3> QED BY <2>1, <3>1 DEF AtMostOne
  <2> QED BY <2>2, <2>3
<1> QED BY <1>4, <1>5

\* The steps that leave the hooks as they are, or take some away or edit them.
LEMMA OthersRace ==
  ASSUME TypeOK, TypeOK', AddsFirst, AtMostOne, [Next]_vars,
         \A p \in Processes : ~ Add(p)
  PROVE  AddsFirst' /\ AtMostOne'
<1> DEFINE Same == \A e \in hooks' : \E h \in hooks : h.id = e.id /\ h.target = e.target
           Held == \A q \in Processes :
                     sweep'[q].at = "add" =>
                       \/ sweep[q].at = "add" /\ sweep'[q].target = sweep[q].target
                       \/ Bare(hooks, sweep'[q].target)
<1>1. ASSUME NEW p \in Processes, NEW next, Go(p, next) \/ Touch(p, next),
             next.at = "add" => Bare(hooks, next.target)
      PROVE  Held
  BY <1>1, Others
<1>2. hooks' = hooks => Same
  OBVIOUS
<1>3. ASSUME NEW i, hooks' = Edit(i) PROVE Same
  BY <1>3, Edited DEF TypeOK
<1>4. ASSUME NEW p \in Processes, Begin(p) \/ SweepStep(p) \/ Fail(p)
      PROVE  Same /\ Held /\ raced' = raced
  <2>1. sweep[p] \in Sweeps
    BY SweepFields DEF TypeOK
  <2> HIDE DEF Same, Held
  <2>2. CASE Begin(p)
    <3>1. [Idle EXCEPT !.at = "next", !.todo = resolveHookScope].at # "add"
      BY DEF Idle
    <3> QED BY <1>1, <1>2, <2>2, <3>1 DEF Begin, gitlab
  <2>3. CASE syncTarget(p)
    <3>1. PICK next : Go(p, next) /\ next.at # "add"
      <4> DEFINE t == Least(sweep[p].todo)
                 a == IF row[t] = None THEN "list" ELSE "edit stored"
      <4>1. [sweep[p] EXCEPT !.todo = @ \ {t}, !.target = t, !.at = a,
                             !.id = IF row[t] = None THEN 0 ELSE row[t]].at = a
        BY <2>1 DEF Sweeps
      <4>2. a # "add"
        OBVIOUS
      <4> QED BY <2>3, <4>1, <4>2 DEF syncTarget
    <3> QED BY <1>1, <1>2, <2>3, <3>1 DEF syncTarget, gitlab
  <2>4. CASE reuseStoredHook(p) \/ EditExisting(p)
    <3>1. PICK a \in {"store", "list"} : Go(p, [sweep[p] EXCEPT !.at = a])
      BY <2>4 DEF reuseStoredHook, EditExisting
    <3>2. [sweep[p] EXCEPT !.at = a].at # "add"
      BY <2>1, <3>1 DEF Sweeps
    <3>3. raced' = raced /\ hooks' = Edit(sweep[p].id)
      BY <2>4 DEF reuseStoredHook, EditExisting
    <3> QED BY <1>1, <1>3, <3>1, <3>2, <3>3
  <2>5. CASE recoverHook(p)
    <3>1. raced' = raced /\ hooks' = hooks
      BY <2>5 DEF recoverHook, gitlab
    <3>2. CASE Of(On(p)) = {}
      <4>1. Go(p, [sweep[p] EXCEPT !.at = "add"])
        BY <2>5, <3>2 DEF recoverHook
      <4>2. [sweep[p] EXCEPT !.at = "add"].target = On(p)
        BY <2>1 DEF Sweeps, On
      <4>3. Bare(hooks, On(p))
        BY <3>2 DEF Bare, Of
      <4> QED BY <1>1, <1>2, <3>1, <4>1, <4>2, <4>3
    <3>3. CASE Of(On(p)) # {}
      <4>1. PICK h \in Of(On(p)) : Go(p, [sweep[p] EXCEPT !.at = "edit existing", !.id = h.id])
        BY <2>5, <3>3 DEF recoverHook
      <4>2. [sweep[p] EXCEPT !.at = "edit existing", !.id = h.id].at # "add"
        BY <2>1 DEF Sweeps
      <4> QED BY <1>1, <1>2, <3>1, <4>1, <4>2
    <3> QED BY <3>2, <3>3
  <2>6. CASE storeHookID(p)
    <3> DEFINE t == On(p)
               next == [sweep[p] EXCEPT !.at = "next", !.target = 0, !.id = 0, !.reached = @ \cup {t}]
    <3>1. (Go(p, next) \/ Touch(p, next)) /\ hooks' = hooks /\ raced' = raced
      BY <2>6 DEF storeHookID, gitlab
    <3>2. next.at # "add"
      BY <2>1 DEF Sweeps
    <3> QED BY <1>1, <1>2, <3>1, <3>2
  <2>7. CASE handleTargetError(p)
    <3>1. [sweep[p] EXCEPT !.at = "next", !.target = 0, !.id = 0].at # "add"
      BY <2>1 DEF Sweeps
    <3> QED BY <1>1, <1>2, <2>7, <3>1 DEF handleTargetError, gitlab
  <2>8. CASE End(p) \/ Fail(p)
    <3>1. Idle.at # "add"
      BY DEF Idle
    <3> QED BY <1>1, <1>2, <2>8, <3>1 DEF End, Fail, gitlab
  <2> QED BY <1>4, <2>2, <2>3, <2>4, <2>5, <2>6, <2>7, <2>8 DEF SweepStep
<1>5. CASE ByHand
  <2>1. Same
    <3>1. hooks' \subseteq hooks => Same
      OBVIOUS
    <3>2. ASSUME NEW h \in hooks,
                 hooks' = (hooks \ {h}) \cup (IF h.ours THEN {[h EXCEPT !.ours = FALSE]} ELSE {})
          PROVE  Same
      <4> DEFINE e == [h EXCEPT !.ours = FALSE]
      <4>1. e.id = h.id /\ e.target = h.target
        BY DEF TypeOK, GitLabType
      <4> HIDE DEF e
      <4>2. hooks' \subseteq hooks \cup {e}
        BY <3>2 DEF e
      <4> QED BY <4>1, <4>2
    <3> HIDE DEF Same
    <3> QED BY <1>5, <3>1, <3>2 DEF ByHand
  <2>2. \A q \in Processes : sweep'[q] = Disturbed(q)
    BY <1>5 DEF ByHand
  <2>3. ASSUME NEW q \in Processes
        PROVE  Disturbed(q).at = sweep[q].at /\ Disturbed(q).target = sweep[q].target
    <3>1. sweep[q] \in Sweeps
      BY SweepFields DEF TypeOK
    <3> QED BY <3>1 DEF Disturbed, Sweeps
  <2>4. raced' = raced
    BY <1>5 DEF ByHand
  <2> QED BY <2>1, <2>2, <2>3, <2>4, NoneAdded
<1>6. CASE Uninstall \/ CleanupStep \/ CleanupFails \/ UNCHANGED vars
  <2>1. sweep' = sweep /\ raced' = raced
    BY <1>6 DEF Uninstall, CleanupStep, CleanTarget, removeHook, CleanupSkips, CleanupNext,
                CleanupFails, vars
  <2>2. hooks' \subseteq hooks
    BY <1>6 DEF Uninstall, CleanupStep, CleanTarget, removeHook, CleanupSkips, CleanupNext,
                CleanupFails, vars, gitlab
  <2> QED BY <2>1, <2>2, NoneAdded
<1>7. CASE \E p \in Processes : Begin(p) \/ SweepStep(p) \/ Fail(p)
  BY <1>4, <1>7, NoneAdded
<1> QED BY <1>5, <1>6, <1>7 DEF Next

\* All of them together.
LEMMA StepRaces == TypeOK /\ TypeOK' /\ AddsFirst /\ AtMostOne /\ [Next]_vars => AddsFirst' /\ AtMostOne'
  BY AddRaces, OthersRace, Zenon

-----------------------------------------------------------------------------
(* What is settled is in order. *)

\* A hook that is edited stays a hook of its target, and becomes this app's.
LEMMA EditKeeps ==
  ASSUME GitLabType, NEW i, hooks' = Edit(i)
  PROVE  \A t, j : \/ HookOf(hooks, t, j)
                   \/ j = i /\ \E h \in hooks : h.target = t /\ h.id = i
                   => HookOf(hooks', t, j)
  BY Edited DEF HookOf

\* The steps of a sweep: those that change what others rely on disturb them.
LEMMA SweepsKeep ==
  ASSUME TypeOK, SweepsTrue, Kept, Removed, NEW p \in Processes, NEW next,
         cleanup.at = "idle", cleanup' = cleanup, SweepTrue(next, hooks', row'),
         \/ /\ Go(p, next)
            /\ row' = row
            /\ \A t, i : HookOf(hooks, t, i) => HookOf(hooks', t, i)
            /\ \/ settled' = settled
               \/ settled' = sweep[p].reached /\ sweep[p].alone /\ Busy(p)
         \/ Touch(p, next)
  PROVE  SweepsTrue' /\ Kept' /\ Removed' /\ CleanupTrue(cleanup, hooks, row)'
<1>1. SweepsTrue'
  <2> SUFFICES ASSUME NEW q \in Processes PROVE SweepTrue(sweep'[q], hooks', row')
    BY DEF SweepsTrue
  <2>1. CASE q = p
    BY <2>1, Others
  <2>2. CASE q # p /\ Go(p, next)
    <3>1. sweep'[q] = sweep[q]
      BY <2>2, Others
    <3>2. SweepTrue(sweep[q], hooks, row)
      BY DEF SweepsTrue
    <3>3. Touch(p, next) => sweep'[q].at = "idle" \/ ~ sweep'[q].alone
      BY <2>2, Others
    <3> QED BY <3>1, <3>2, <3>3 DEF SweepTrue
  <2>3. CASE q # p /\ Touch(p, next)
    BY <2>3, Others DEF SweepTrue
  <2> QED BY <2>1, <2>2, <2>3
<1>2. None \notin settled
  BY DEF Removed
<1>3. None \notin Targets /\ sweep[p].reached \subseteq Targets
  BY Parameters, SweepFields DEF TypeOK
<1>4. Removed'
  <2>1. None \notin settled'
    BY <1>2, <1>3 DEF Touch
  <2> QED BY <2>1 DEF Removed
<1>5. Kept'
  <2>1. CASE settled' = {}
    BY <2>1 DEF Kept
  <2>2. CASE settled' = settled /\ row' = row /\ \A t, i : HookOf(hooks, t, i) => HookOf(hooks', t, i)
    BY <2>2 DEF Kept
  <2>3. CASE /\ settled' = sweep[p].reached /\ sweep[p].alone /\ Busy(p)
             /\ row' = row /\ \A t, i : HookOf(hooks, t, i) => HookOf(hooks', t, i)
    <3>1. \A t \in sweep[p].reached : HookOf(hooks, t, row[t])
      BY <2>3 DEF SweepsTrue, SweepTrue, Busy
    <3> QED BY <2>3, <3>1 DEF Kept
  <2> QED BY <2>1, <2>2, <2>3 DEF Touch
<1>6. CleanupTrue(cleanup', hooks', row')
  BY DEF CleanupTrue
<1> QED BY <1>1, <1>4, <1>5, <1>6

\* Each step of a sweep keeps what is true of the sweeps and of what is settled.
LEMMA SweepStepKeeps ==
  ASSUME TypeOK, SweepsTrue, Kept, Removed, NEW p \in Processes,
         Begin(p) \/ SweepStep(p) \/ Fail(p)
  PROVE  SweepsTrue' /\ Kept' /\ Removed' /\ CleanupTrue(cleanup, hooks, row)'
<1> DEFINE Still == \A t, i : HookOf(hooks, t, i) => HookOf(hooks', t, i)
<1>1. /\ sweep[p] \in Sweeps /\ SweepTrue(sweep[p], hooks, row)
      /\ sweep[p].at \notin {"idle", "next"} => On(p) \in Targets
  BY SweepFields DEF TypeOK, SweepsTrue
<1>2. cleanup.at = "idle" /\ cleanup' = cleanup
  <2>1. Begin(p) \/ Busy(p)
    BY DEF SweepStep, Fail, syncTarget, reuseStoredHook, recoverHook, EditExisting, Add,
           storeHookID, handleTargetError, End, Busy
  <2>2. cleanup' = cleanup
    BY DEF SweepStep, Begin, Fail, syncTarget, reuseStoredHook, recoverHook, EditExisting, Add,
           storeHookID, handleTargetError, End
  <2>3. Busy(p) => cleanup.at = "idle"
    BY CleanupFields
  <2> QED BY <2>1, <2>2, <2>3 DEF Begin
<1>3. hooks' = hooks => Still
  OBVIOUS
<1>4. ASSUME NEW next, next.at # "store", next.at = "idle" \/ next.reached = {}
      PROVE  SweepTrue(next, hooks', row')
  BY <1>4 DEF SweepTrue
<1>5. ASSUME NEW next, sweep[p].at # "idle", next.at # "store", next.reached = sweep[p].reached,
             next.alone = sweep[p].alone, Still, row' = row
      PROVE  SweepTrue(next, hooks', row')
  BY <1>1, <1>5 DEF SweepTrue
<1> HIDE DEF Still
<1>6. ASSUME NEW next, Go(p, next), row' = row, Still, SweepTrue(next, hooks', row'),
             settled' = settled \/ (settled' = sweep[p].reached /\ sweep[p].alone /\ Busy(p))
      PROVE  SweepsTrue' /\ Kept' /\ Removed' /\ CleanupTrue(cleanup, hooks, row)'
  <2>1. \A t, i : HookOf(hooks, t, i) => HookOf(hooks', t, i)
    BY <1>6 DEF Still
  <2> QED BY <1>2, <1>6, <2>1, SweepsKeep
<1>7. CASE Begin(p)
  <2> DEFINE next == [Idle EXCEPT !.at = "next", !.todo = resolveHookScope]
  <2>1. next.at # "store" /\ next.reached = {}
    BY DEF Idle
  <2> HIDE DEF next
  <2>2. Go(p, next) /\ row' = row /\ hooks' = hooks /\ settled' = settled
    BY <1>7 DEF Begin, gitlab, next
  <2> QED BY <1>3, <1>4, <1>6, <2>1, <2>2
<1>8. CASE syncTarget(p)
  <2> DEFINE t == Least(sweep[p].todo)
             a == IF row[t] = None THEN "list" ELSE "edit stored"
             next == [sweep[p] EXCEPT !.todo = @ \ {t}, !.target = t, !.at = a,
                                      !.id = IF row[t] = None THEN 0 ELSE row[t]]
  <2>1. a # "store"
    OBVIOUS
  <2>2. Go(p, next) /\ row' = row /\ hooks' = hooks /\ settled' = settled /\ sweep[p].at # "idle"
    BY <1>8 DEF syncTarget, gitlab
  <2> HIDE DEF a
  <2>3. next.at = a /\ next.reached = sweep[p].reached /\ next.alone = sweep[p].alone
    BY <1>1 DEF Sweeps
  <2> HIDE DEF next
  <2> QED BY <1>3, <1>5, <1>6, <2>1, <2>2, <2>3
<1>9. CASE reuseStoredHook(p) \/ EditExisting(p)
  <2>1. PICK a \in {"store", "list"} :
          /\ Go(p, [sweep[p] EXCEPT !.at = a])
          /\ a = "store" => sweep[p].id \in Ids(On(p))
    BY <1>9 DEF reuseStoredHook, EditExisting
  <2>2. /\ hooks' = Edit(sweep[p].id) /\ row' = row /\ settled' = settled
        /\ sweep[p].at \notin {"idle", "store"}
    BY <1>9 DEF reuseStoredHook, EditExisting
  <2> DEFINE next == [sweep[p] EXCEPT !.at = a]
  <2>3. /\ next.at = a /\ next.reached = sweep[p].reached /\ next.alone = sweep[p].alone
        /\ next.id = sweep[p].id /\ next.target = On(p)
    BY <1>1 DEF Sweeps, On
  <2> HIDE DEF next
  <2>4. Still
    BY <2>2, EditKeeps DEF Still, TypeOK
  <2>5. a = "store" => HookOf(hooks', On(p), sweep[p].id)
    <3>1. a = "store" => \E h \in hooks : h.target = On(p) /\ h.id = sweep[p].id
      BY <2>1 DEF Ids, Of
    <3> QED BY <2>2, <3>1, EditKeeps DEF TypeOK
  <2>6. SweepTrue(next, hooks', row')
    BY <1>1, <2>2, <2>3, <2>4, <2>5 DEF SweepTrue, Still
  <2>7. Go(p, next)
    BY <2>1 DEF next
  <2> QED BY <1>6, <2>2, <2>4, <2>6, <2>7
<1>10. CASE recoverHook(p)
  <2>1. row' = row /\ hooks' = hooks /\ settled' = settled /\ sweep[p].at # "idle"
    BY <1>10 DEF recoverHook, gitlab
  <2>2. PICK next : /\ Go(p, next) /\ next.at # "store" /\ next.reached = sweep[p].reached
                    /\ next.alone = sweep[p].alone
    <3>1. CASE Of(On(p)) = {}
      <4> DEFINE n == [sweep[p] EXCEPT !.at = "add"]
      <4>1. n.at # "store" /\ n.reached = sweep[p].reached /\ n.alone = sweep[p].alone
        BY <1>1 DEF Sweeps
      <4>2. Go(p, n)
        BY <1>10, <3>1 DEF recoverHook
      <4> HIDE DEF n
      <4> QED BY <4>1, <4>2
    <3>2. CASE Of(On(p)) # {}
      <4>1. PICK h \in Of(On(p)) : Go(p, [sweep[p] EXCEPT !.at = "edit existing", !.id = h.id])
        BY <1>10, <3>2 DEF recoverHook
      <4> DEFINE n == [sweep[p] EXCEPT !.at = "edit existing", !.id = h.id]
      <4>2. n.at # "store" /\ n.reached = sweep[p].reached /\ n.alone = sweep[p].alone
        BY <1>1 DEF Sweeps
      <4>3. Go(p, n)
        BY <4>1
      <4> HIDE DEF n
      <4> QED BY <4>2, <4>3
    <3> QED BY <3>1, <3>2
  <2> QED BY <1>3, <1>5, <1>6, <2>1, <2>2
<1>11. CASE Add(p)
  <2> DEFINE new == [id |-> lastId', target |-> On(p), ours |-> TRUE]
             next == [sweep[p] EXCEPT !.at = "store", !.id = lastId']
  <2>1. hooks' = hooks \cup {new} /\ row' = row /\ sweep[p].at = "add"
        /\ (Touch(p, next) \/ Touch(p, Idle))
    BY <1>11 DEF Add
  <2>2. new.id = lastId' /\ new.target = On(p) /\ new.ours
    OBVIOUS
  <2>3. /\ next.reached = sweep[p].reached /\ next.alone = sweep[p].alone
        /\ next.id = lastId' /\ next.target = On(p)
    BY <1>1 DEF Sweeps, On
  <2> HIDE DEF new, next
  <2>4. HookOf(hooks', On(p), lastId') /\ Still
    BY <2>1, <2>2 DEF HookOf, Still
  <2>5. SweepTrue(next, hooks', row')
    BY <1>1, <2>1, <2>3, <2>4 DEF SweepTrue, Still
  <2>6. SweepTrue(Idle, hooks', row')
    BY DEF SweepTrue, Idle
  <2> QED BY <1>2, <2>1, <2>5, <2>6, SweepsKeep
<1>12. CASE storeHookID(p)
  <2> DEFINE t == On(p)
             next == [sweep[p] EXCEPT !.at = "next", !.target = 0, !.id = 0, !.reached = @ \cup {t}]
  <2>1. /\ sweep[p].at = "store" /\ row' = [row EXCEPT ![t] = sweep[p].id] /\ hooks' = hooks
        /\ \/ row[t] = sweep[p].id /\ Go(p, next) /\ settled' = settled
           \/ Touch(p, next)
    BY <1>12 DEF storeHookID, gitlab
  <2>2. /\ next.at = "next" /\ next.reached = sweep[p].reached \cup {t}
        /\ next.alone = sweep[p].alone
    BY <1>1 DEF Sweeps
  <2> HIDE DEF next
  <2>3. t \in Targets /\ row \in [Targets -> (1 .. lastId) \cup {None}]
        /\ sweep[p].reached \subseteq Targets
    BY <1>1, <2>1, SweepFields DEF TypeOK, RowType
  <2>4. SweepTrue(next, hooks', row')
    <3> SUFFICES ASSUME sweep[p].alone, NEW u \in sweep[p].reached \cup {t}
                 PROVE  HookOf(hooks, u, row'[u])
      BY <2>1, <2>2 DEF SweepTrue
    <3>1. HookOf(hooks, t, sweep[p].id)
      BY <1>1, <2>1 DEF SweepTrue, On
    <3>2. CASE u = t
      BY <2>1, <2>3, <3>1, <3>2
    <3>3. CASE u # t
      <4>1. row'[u] = row[u]
        BY <2>1, <2>3, <3>3
      <4> QED BY <1>1, <2>1, <3>3, <4>1 DEF SweepTrue
    <3> QED BY <3>2, <3>3
  <2>5. row[t] = sweep[p].id => row' = row
    BY <2>1, <2>3
  <2>6. Still
    BY <1>3, <2>1
  <2> HIDE DEF t
  <2>7. CASE Touch(p, next)
    BY <1>2, <2>4, <2>7, SweepsKeep
  <2>8. CASE row[t] = sweep[p].id /\ Go(p, next) /\ settled' = settled
    BY <1>6, <2>4, <2>5, <2>6, <2>8
  <2> QED BY <2>1, <2>7, <2>8
<1>13. CASE handleTargetError(p)
  <2> DEFINE next == [sweep[p] EXCEPT !.at = "next", !.target = 0, !.id = 0]
  <2>1. /\ Go(p, next) /\ row' = row /\ hooks' = hooks /\ settled' = settled
        /\ sweep[p].at # "idle"
    BY <1>13 DEF handleTargetError, gitlab
  <2>2. next.at # "store" /\ next.reached = sweep[p].reached /\ next.alone = sweep[p].alone
    BY <1>1 DEF Sweeps
  <2> HIDE DEF next
  <2> QED BY <1>3, <1>5, <1>6, <2>1, <2>2
<1>14. CASE End(p) \/ Fail(p)
  <2>1. /\ Go(p, Idle) /\ row' = row /\ hooks' = hooks
        /\ settled' = settled \/ (settled' = sweep[p].reached /\ sweep[p].alone /\ Busy(p))
    BY <1>14 DEF End, Fail, gitlab, Busy
  <2>2. Idle.at = "idle"
    BY DEF Idle
  <2>3. SweepTrue(Idle, hooks', row')
    BY <1>4, <2>2
  <2> QED BY <1>3, <1>6, <2>1, <2>3
<1> QED BY <1>7, <1>8, <1>9, <1>10, <1>11, <1>12, <1>13, <1>14 DEF SweepStep

\* Others disturb every sweep and the removal, and nothing counts as settled.
LEMMA ByHandKeeps ==
  ASSUME TypeOK, ByHand
  PROVE  SweepsTrue' /\ Kept' /\ Removed' /\ CleanupTrue(cleanup, hooks, row)'
<1>1. /\ sweep' = [q \in Processes |-> Disturbed(q)] /\ settled' = {}
      /\ cleanup' = [cleanup EXCEPT !.alone = @ /\ ~Removing]
  BY DEF ByHand
<1>2. SweepsTrue'
  <2> SUFFICES ASSUME NEW q \in Processes PROVE SweepTrue(sweep'[q], hooks', row')
    BY DEF SweepsTrue
  <2>1. sweep[q] \in Sweeps
    BY SweepFields DEF TypeOK
  <2>2. Disturbed(q).at = "idle" \/ ~ Disturbed(q).alone
    BY <2>1 DEF Disturbed, Sweeps, Busy
  <2> QED BY <1>1, <2>2 DEF SweepTrue
<1>3. CleanupTrue(cleanup', hooks', row')
  <2>1. cleanup \in Cleanups
    BY CleanupFields
  <2> DEFINE b == cleanup.alone /\ ~Removing
  <2>2. cleanup' = [cleanup EXCEPT !.alone = b]
    BY <1>1
  <2>3. b => ~Removing
    OBVIOUS
  <2> HIDE DEF b
  <2>4. cleanup'.alone = b /\ cleanup'.at = cleanup.at
    BY <2>1, <2>2 DEF Cleanups
  <2> QED BY <2>3, <2>4 DEF CleanupTrue, Removing
<1>4. Kept' /\ Removed'
  BY <1>1 DEF Kept, Removed
<1> QED BY <1>2, <1>3, <1>4

\* The steps of a removal: no sweep is under way, and the hooks and rows are
\* left as they are or nothing counts as settled.
LEMMA RemovalKeeps ==
  ASSUME TypeOK, \A p \in Processes : ~Busy(p), sweep' = sweep,
         CleanupTrue(cleanup', hooks', row'), Kept, None \notin settled,
         \/ hooks' = hooks /\ row' = row /\ settled' = settled
         \/ settled' = {}
         \/ settled' = {None} /\ Removed'
  PROVE  SweepsTrue' /\ Kept' /\ Removed' /\ CleanupTrue(cleanup, hooks, row)'
<1>1. SweepsTrue'
  BY DEF SweepsTrue, SweepTrue, Busy
<1>2. Kept'
  BY DEF Kept
<1>3. Removed'
  BY DEF Removed
<1> QED BY <1>1, <1>2, <1>3

\* So does each step of a removal.
LEMMA UninstallKeeps ==
  ASSUME TypeOK, Kept, Removed, Uninstall
  PROVE  SweepsTrue' /\ Kept' /\ Removed' /\ CleanupTrue(cleanup, hooks, row)'
<1>1. /\ \A p \in Processes : ~Busy(p)
      /\ cleanup' = [NoCleanup EXCEPT !.at = "recorded", !.todo = {t \in Targets : row[t] # None}]
      /\ hooks' = hooks /\ row' = row /\ sweep' = sweep /\ settled' = settled
      /\ cleanup.at = "idle"
  BY DEF Uninstall, gitlab
<1>2. CleanupTrue(cleanup', hooks', row')
  BY <1>1 DEF CleanupTrue, NoCleanup
<1>3. None \notin settled
  BY <1>1 DEF Removed
<1> QED BY <1>1, <1>2, <1>3, RemovalKeeps

LEMMA CleanTargetKeeps ==
  ASSUME TypeOK, Kept, Removed, CleanupTrue(cleanup, hooks, row), NEW t \in Targets, CleanTarget(t)
  PROVE  SweepsTrue' /\ Kept' /\ Removed' /\ CleanupTrue(cleanup, hooks, row)'
<1> DEFINE found == IF cleanup.at = "recorded" THEN {row[t]} ELSE Ids(t)
           n == IF found = {} THEN 0 ELSE t
<1>1. /\ Removing /\ cleanup.target = 0 /\ t \in cleanup.todo
      /\ cleanup' = [cleanup EXCEPT !.todo = @ \ {t}, !.left = found, !.target = n]
      /\ hooks' = hooks /\ row' = row /\ sweep' = sweep /\ settled' = settled
  BY DEF CleanTarget, gitlab
<1>2. cleanup.at = "recorded" => n = t
  OBVIOUS
<1>3. cleanup.at = "sweep" => \A h \in hooks : h.target = t => t = n /\ h.id \in found
  BY DEF Ids, Of
<1> HIDE DEF found, n
<1>4. /\ cleanup'.target = n /\ cleanup'.left = found /\ cleanup'.scopes = cleanup.scopes
      /\ cleanup'.at = cleanup.at /\ cleanup'.todo = cleanup.todo \ {t}
      /\ cleanup'.alone = cleanup.alone
  BY <1>1, CleanupFields DEF Cleanups
<1>5. CleanupTrue(cleanup', hooks', row')
  <2>1. ASSUME cleanup.alone, cleanup.at = "recorded", NEW u \in Targets, row[u] # None
        PROVE  u \in cleanup.todo \ {t} \/ u = n
    <3>1. u \in cleanup.todo
      BY <1>1, <2>1, Parameters DEF CleanupTrue
    <3> QED BY <1>2, <2>1, <3>1
  <2>2. ASSUME cleanup.alone, cleanup.at = "sweep", NEW u \in Targets
        PROVE  /\ row[u] = None
               /\ u \in cleanup.scopes =>
                    \/ u \in cleanup.todo \ {t}
                    \/ \A h \in hooks : h.target = u => u = n /\ h.id \in found
    <3>1. /\ row[u] = None
          /\ u \in cleanup.scopes => u \in cleanup.todo \/ \A h \in hooks : h.target # u
      BY <1>1, <2>2, Parameters DEF CleanupTrue
    <3> QED BY <1>3, <2>2, <3>1
  <2> QED BY <1>1, <1>4, <2>1, <2>2 DEF CleanupTrue
<1>6. \A p \in Processes : ~Busy(p)
  BY <1>1, CleanupFields DEF Removing
<1>7. None \notin settled
  BY <1>1 DEF Removed, Removing
<1> QED BY <1>1, <1>5, <1>6, <1>7, RemovalKeeps

LEMMA removeHookKeeps ==
  ASSUME TypeOK, Kept, Removed, CleanupTrue(cleanup, hooks, row), removeHook
  PROVE  SweepsTrue' /\ Kept' /\ Removed' /\ CleanupTrue(cleanup, hooks, row)'
<1> DEFINE t == cleanup.target
<1>1. PICK id \in cleanup.left :
        /\ hooks' = {h \in hooks : h.id # id}
        /\ cleanup' = [cleanup EXCEPT !.left = @ \ {id},
                                      !.target = IF cleanup.left = {id} THEN 0 ELSE t]
  BY DEF removeHook
<1>2. t # 0 /\ row' = [row EXCEPT ![t] = None] /\ settled' = {} /\ sweep' = sweep
  BY DEF removeHook
<1>3. t \in Targets /\ Removing /\ row \in [Targets -> (1 .. lastId) \cup {None}]
  BY <1>2, CleanupFields DEF TypeOK, RowType
<1> DEFINE n == IF cleanup.left = {id} THEN 0 ELSE t
<1>4. \A j \in cleanup.left \ {id} : n = t
  OBVIOUS
<1>5. cleanup' = [cleanup EXCEPT !.left = @ \ {id}, !.target = n]
  BY <1>1
<1> HIDE DEF n
<1>6. /\ cleanup'.target = n /\ cleanup'.left = cleanup.left \ {id}
      /\ cleanup'.scopes = cleanup.scopes /\ cleanup'.at = cleanup.at
      /\ cleanup'.todo = cleanup.todo /\ cleanup'.alone = cleanup.alone
  BY <1>5, CleanupFields DEF Cleanups
<1>7. row'[t] = None /\ \A u \in Targets \ {t} : row'[u] = row[u]
  BY <1>2, <1>3
<1>8. CleanupTrue(cleanup', hooks', row')
  <2>1. ASSUME cleanup.alone, cleanup.at = "recorded", NEW u \in Targets, row'[u] # None
        PROVE  u \in cleanup.todo
    <3>1. u # t /\ row[u] # None
      BY <1>7, <2>1
    <3> QED BY <2>1, <3>1 DEF CleanupTrue
  <2>2. ASSUME cleanup.alone, cleanup.at = "sweep", NEW u \in Targets
        PROVE  /\ row'[u] = None
               /\ u \in cleanup.scopes =>
                    \/ u \in cleanup.todo
                    \/ \A h \in hooks' : h.target = u => u = n /\ h.id \in cleanup.left \ {id}
    <3>1. /\ row[u] = None
          /\ u \in cleanup.scopes =>
               \/ u \in cleanup.todo
               \/ \A h \in hooks : h.target = u => u = t /\ h.id \in cleanup.left
      BY <2>2 DEF CleanupTrue
    <3>2. row'[u] = None
      BY <1>7, <3>1
    <3>3. ASSUME u \in cleanup.scopes, u \notin cleanup.todo, NEW h \in hooks', h.target = u
          PROVE  u = n /\ h.id \in cleanup.left \ {id}
      <4>1. h \in hooks /\ h.id # id
        BY <1>1, <3>3
      <4>2. u = t /\ h.id \in cleanup.left \ {id}
        BY <3>1, <3>3, <4>1
      <4> QED BY <1>4, <4>2
    <3> QED BY <3>2, <3>3
  <2> QED BY <1>6, <2>1, <2>2 DEF CleanupTrue
<1>9. \A p \in Processes : ~Busy(p)
  BY <1>3, CleanupFields DEF Removing
<1>10. None \notin settled
  BY <1>3 DEF Removed, Removing
<1> QED BY <1>2, <1>8, <1>9, <1>10, RemovalKeeps

\* A removal that skips a target, goes on to sweep, is done or gives up.
LEMMA RemovalMovesKeep ==
  ASSUME TypeOK, Kept, Removed, CleanupTrue(cleanup, hooks, row),
         CleanupSkips \/ CleanupNext \/ CleanupFails
  PROVE  SweepsTrue' /\ Kept' /\ Removed' /\ CleanupTrue(cleanup, hooks, row)'
<1>1. hooks' = hooks /\ row' = row /\ sweep' = sweep /\ Removing
  BY CleanupFields DEF CleanupSkips, CleanupNext, CleanupFails, Removing, gitlab
<1>2. \A p \in Processes : ~Busy(p)
  BY <1>1, CleanupFields DEF Removing
<1>3. None \notin settled
  BY <1>1 DEF Removed, Removing
<1>4. CASE CleanupSkips
  <2>1. ~ cleanup'.alone
    BY <1>4, CleanupFields DEF CleanupSkips, Cleanups
  <2>2. settled' = settled
    BY <1>4 DEF CleanupSkips
  <2>3. CleanupTrue(cleanup', hooks', row')
    BY <2>1 DEF CleanupTrue
  <2> QED BY <1>1, <1>2, <1>3, <2>2, <2>3, RemovalKeeps
<1>5. CASE CleanupFails
  <2>1. settled' = settled /\ cleanup' = NoCleanup
    BY <1>5 DEF CleanupFails
  <2>2. CleanupTrue(cleanup', hooks', row')
    BY <2>1 DEF CleanupTrue, NoCleanup
  <2> QED BY <1>1, <1>2, <1>3, <2>1, <2>2, RemovalKeeps
<1>6. CASE CleanupNext /\ cleanup.at = "recorded"
  <2>1. /\ cleanup.target = 0 /\ cleanup.todo = {} /\ settled' = settled
        /\ cleanup' = [cleanup EXCEPT !.at = "sweep", !.todo = cleanupScopes, !.scopes = cleanupScopes]
    BY <1>6 DEF CleanupNext
  <2>2. /\ cleanup'.at = "sweep" /\ cleanup'.todo = cleanup'.scopes
        /\ cleanup'.alone = cleanup.alone
    BY <2>1, CleanupFields DEF Cleanups
  <2>3. cleanup.alone => \A t \in Targets : row[t] = None
    BY <1>6, <2>1, Parameters DEF CleanupTrue
  <2>4. CleanupTrue(cleanup', hooks', row')
    BY <1>1, <2>2, <2>3 DEF CleanupTrue
  <2> QED BY <1>1, <1>2, <1>3, <2>1, <2>4, RemovalKeeps
<1>7. CASE CleanupNext /\ cleanup.at # "recorded"
  <2>1. /\ cleanup.target = 0 /\ cleanup.todo = {} /\ cleanup.at = "sweep"
        /\ cleanup' = [cleanup EXCEPT !.at = "done"]
        /\ settled' = IF cleanup.alone THEN {None} ELSE settled
    BY <1>1, <1>7 DEF CleanupNext, Removing
  <2>2. cleanup'.at = "done" /\ cleanup'.scopes = cleanup.scopes
    BY <2>1, CleanupFields DEF Cleanups
  <2>3. CleanupTrue(cleanup', hooks', row')
    BY <2>2 DEF CleanupTrue
  <2>4. ASSUME cleanup.alone PROVE Removed'
    <3>1. ASSUME NEW t \in Targets
          PROVE  row[t] = None /\ (t \in cleanup.scopes => Bare(hooks, t))
      BY <2>1, <2>4, Parameters DEF CleanupTrue, Bare
    <3> QED BY <1>1, <2>2, <3>1 DEF Removed
  <2>5. CASE cleanup.alone
    BY <1>1, <1>2, <1>3, <2>1, <2>3, <2>4, <2>5, RemovalKeeps
  <2>6. CASE ~ cleanup.alone
    BY <1>1, <1>2, <1>3, <2>1, <2>3, <2>6, RemovalKeeps
  <2> QED BY <2>5, <2>6
<1> QED BY <1>4, <1>5, <1>6, <1>7

LEMMA StutterKeeps ==
  ASSUME SweepsTrue, Kept, Removed, CleanupTrue(cleanup, hooks, row), UNCHANGED vars
  PROVE  SweepsTrue' /\ Kept' /\ Removed' /\ CleanupTrue(cleanup, hooks, row)'
<1>1. hooks' = hooks /\ row' = row /\ sweep' = sweep /\ cleanup' = cleanup /\ settled' = settled
  BY DEF vars, gitlab
<1> QED BY <1>1 DEF SweepsTrue, Kept, Removed

-----------------------------------------------------------------------------

\* The whole invariant holds at first, and every step keeps it.
LEMMA InitInv == Init => HooksInv
<1> SUFFICES ASSUME Init PROVE HooksInv
  OBVIOUS
<1>1. /\ hooks \in {{}, {[id |-> 1, target |-> Least(Targets), ours |-> FALSE]}}
      /\ sweep = [p \in Processes |-> Idle] /\ cleanup = NoCleanup /\ settled = {}
  BY DEF Init
<1>2. \A g, h \in hooks : g = h
  BY <1>1
<1>3. AtMostOne
  BY <1>2 DEF AtMostOne
<1>4. \A p \in Processes : sweep[p].at = "idle"
  BY <1>1 DEF Idle
<1>5. SweepsTrue /\ AddsFirst
  BY <1>4 DEF SweepsTrue, SweepTrue, AddsFirst
<1>6. CleanupTrue(cleanup, hooks, row)
  BY <1>1 DEF CleanupTrue, NoCleanup
<1>7. Kept /\ Removed
  BY <1>1 DEF Kept, Removed
<1> QED BY <1>3, <1>5, <1>6, <1>7, InitTyped DEF HooksInv

LEMMA StepInv == HooksInv /\ [Next]_vars => HooksInv'
<1> SUFFICES ASSUME HooksInv, [Next]_vars PROVE HooksInv'
  OBVIOUS
<1>1. TypeOK' /\ AddsFirst' /\ AtMostOne'
  BY StepTyped, StepRaces DEF HooksInv
<1>2. SweepsTrue' /\ Kept' /\ Removed' /\ CleanupTrue(cleanup, hooks, row)'
  BY SweepStepKeeps, ByHandKeeps, UninstallKeeps, CleanTargetKeeps, removeHookKeeps,
     RemovalMovesKeep, StutterKeeps, Zenon DEF HooksInv, Next, CleanupStep
<1> QED BY <1>1, <1>2 DEF HooksInv

\* The inductive invariant holds in every state.
THEOREM HooksInvariant == Spec => []HooksInv
  BY InitInv, StepInv, PTL DEF Spec

\* What an undisturbed sweep or removal leaves stays as promised until someone
\* changes it, however many processes sweep at the same time (syncHooks,
\* RemoveWebhooks).
THEOREM SettledIsTrue == Spec => []SettledAsPromised
<1>1. HooksInv => SettledAsPromised
  <2> SUFFICES ASSUME HooksInv PROVE SettledAsPromised
    OBVIOUS
  <2>1. ASSUME NEW t \in settled \ {None} PROVE InOrder(t)
    BY DEF HooksInv, Kept, HookOf, InOrder, Of
  <2>2. ASSUME None \in settled, NEW t \in Targets
        PROVE  row[t] = None /\ (t \in cleanup.scopes => Of(t) = {})
    BY <2>2 DEF HooksInv, Removed, Bare, Of
  <2> QED BY <2>1, <2>2 DEF SettledAsPromised
<1> QED BY <1>1, HooksInvariant, PTL

\* A target gets a second hook only when two sweeps were about to register on
\* it at the same time: no lost answer, lost row, crash or change of plan does
\* it (RegisteredHook, recoverHook).
THEOREM OneHook == Spec => []OneHookUnlessRaced
<1>1. HooksInv => OneHookUnlessRaced
  <2> SUFFICES ASSUME HooksInv, NEW t \in Targets, t \notin raced PROVE Cardinality(Of(t)) <= 1
    BY DEF OneHookUnlessRaced
  <2>1. \A g, h \in Of(t) : g = h
    BY DEF HooksInv, AtMostOne, Of
  <2>2. CASE Of(t) = {}
    <3>1. Cardinality(Of(t)) = 0
      BY <2>2, FS_EmptySet
    <3> QED BY <3>1
  <2>3. CASE Of(t) # {}
    <3>1. PICK h : Of(t) = {h}
      BY <2>1, <2>3
    <3>2. Cardinality(Of(t)) = 1
      BY <3>1, FS_Singleton
    <3> QED BY <3>2
  <2> QED BY <2>2, <2>3
<1> QED BY <1>1, HooksInvariant, PTL

=============================================================================
