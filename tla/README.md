# gitlab-achievements in TLA+

gitlab-achievements awards GitLab achievements for activity on a GitLab
instance. It learns of activity from webhooks, from a one-off walk over history
(backfill) and from a periodic re-reading of recent history (reconciliation),
counts it per user and criteria in its own database, records which tiers the
counters reach, and pushes the highest tier of each criteria to GitLab.

This directory models the parts of it where several things happen at once or
can fail half-way. TLC checks each model on a small instance; TLAPS proves the
safety of every one of them for every instance, and that the engine and the
identity cache implement their abstract specifications.

    tlc -workers 2 -config Engine_rc.cfg MCEngine.tla
    tlapm EngineProofs.tla

`PROJECT.json` has the list of runs, the lines of the source each definition
models, and the mutants: for every property one plausible bug (a "faulty
variant" beside the definition it replaces) with which the property fails.

## Inventory

### Evaluation engine (internal/engine)

State: `processed_events` (dedup keys), `users` (exp_total, excluded_reason),
`progress_counters`, `user_activity_days`, `user_projects`, `awards`.
Operations: `Process`, called by the queue's workers, the backfill and the
reconciliation pass; inside it the participation filter, then one transaction:
look up and insert the mark, upsert the user, claim the user's row, add the
weight to each criteria, award every reached tier, recompute the day and
project criteria, settle EXP. An activity already marked only adds a project
the user is not known in. `RecomputeAll` repairs EXP totals.
Hard: duplicate and concurrent sightings, exclusion between check and claim,
partial failure, snapshot reads under MySQL, activity out of order.
Correct when: counted exactly once and whole, held tiers are the tiers reached,
EXP is what the tiers are worth, nothing is counted for an excluded user.

### Webhook receiver and queue (internal/webhook, serve in cmd/root.go)

State: the bounded channel, `done`, the workers' context, atomic counters; the
handlers' and workers' program counters. Operations: `ServeHTTP`/`Enqueue`,
`work`, `drain`, `evaluate` with retries and backoff, `Shutdown`; `serve` and
`drainQueue` end the process. Hard: a full queue, a select with several cases
ready, a delivery accepted in part and sent again, shutdown finding handlers
and workers anywhere, an engine that hangs.
Correct when: what GitLab is told succeeded is not lost by an orderly shutdown,
every delivery is answered, the process ends.

### Award delivery and leases (internal/bootstrap/awards.go, internal/db/lease.go)

State: status and GitLab ID of each award row, what GitLab holds, the lease's
row, and what each pass read. Operations: acquire, renew, lose and release the
lease; list, adopt, award, supersede, record (compare-and-set on the row), take
back, record a failure. Hard: awarding is not idempotent and its answer may be
lost; crashes between GitLab and the database; passes that overlap because a
lease ran out under a live holder.
Correct when: a tier is awarded at most once, a recorded award is the user's and
stays tracked, the top tier and nothing else shows in the end.

### Participation (internal/exclusion)

State: is_bot, bot_checked_at, opted_out_at and excluded_reason of a user's row,
and the policy of the running process. Operations: `Check` (load, perhaps ask
GitLab, decide, record), `OptOut`, `OptIn`, `Apply`, `SweepBots`. Hard: all of
them read, decide and write without a lock.
Correct when: the recorded reason is what the policy decides about the row, and
nothing is counted for somebody it leaves out.

### Definitions, hooks, uninstall (internal/bootstrap)

State: the achievement definitions with their GitLab IDs, and the hook recorded
for each group or project. Operations: claim, adopt, update or recreate an
achievement, with a repair of EXP totals (`RecomputeAll`); register, adopt or
edit hooks on each target; remove both (`uninstall`). At start-up both run under
the bootstrap lease; every hour the definitions do, the hooks do not. Hard:
failing half-way through a catalog, two releases at it during a rolling restart,
objects edited and deleted on GitLab, a plan or rights that change.
Correct when: one achievement and one hook per definition and target, EXP totals
follow a retune, nothing is left after an uninstall.

### Backfill and reconciliation (internal/backfill, internal/reconcile, internal/scheduler)

State: the cursor (last project, current project, phase, position in it), the
completion watermarks. Operations: walk projects and phases, flush the cursor,
skip unreadable projects, mark completed; re-read a window, advance the
watermark. Hard: crashes between flushes, ceilings and windows that must meet.
Correct when: every activity is read by somebody, and a crash costs repetition
and never a gap.

### Normalisers (internal/webhook/normalize.go, internal/eventsapi)

Stateless: a payload becomes activities with dedup keys. Correct when both
sources give one activity one key, and two activities two.

### Sessions, sign-in and identity cache (internal/api)

State: session rows with sealed tokens, tokens renewed but not saved, the cache
of verified identities. Operations: create, load, refresh (single-flight),
destroy, prune; verify, forget, evict. Hard: refresh racing logout, a
verification in flight while its token is forgotten; the cache's map and its
queue fall out of step.
Correct when: a logged-out session yields no tokens, its grant is dead and its
identity forgotten, one refresh token is used once; the cache is bounded and drops no more than it has to.

### The rest

Catalog (a table of tiers with their curves), API queries, the GitLab client,
scheduler, metrics, configuration, the web application and the chart. They keep
no state that the achievements depend on. Of the client one thing matters to
the models: it replays only calls whose method is idempotent.

### How they interact

The queue, the backfill and the reconciliation pass call the engine, which calls
the filter and shares the `users` table with it; the engine writes award rows
that the delivery pass reads and updates; definitions give both their tiers.
Beyond function calls, everything is shared through the database (row locks,
unique indexes, leases) and through GitLab.

## Plan

| # | modules | status |
|---|---------|--------|
| 1 | `Criteria`, `Engine`, `Ledger` (abstract), `MCEngine` | done, proved |
| 2 | `Queue`, `MCQueue` | done, proved |
| 3 | `AwardDelivery` | done, proved |
| 4 | `Exclusion` | done, proved |
| 5 | `History`, `MCHistory`: backfill, ceiling, reconciliation window and live ingestion over one timeline; the cursor and its flushes | done, proved |
| 6 | `Definitions`, `MCDefinitions`: claim, adopt, update, recreate, the EXP repair beside evaluations, the removal; `Hooks`: the sweep, its overlaps, the removal | done, proved |
| 7 | `Sessions`: renewal, held tokens, the identity cache, logout | done, proved |
| 8 | `Normalise`: the dedup keys of both normalisers | done, proved in `HistoryProofs` |
| 9 | proofs: `QueueProofs`, `AwardProofs`, `ExclusionProofs`, `HistoryProofs`, `HooksProofs` | done |
| 10 | proofs: `SessionsProofs`, `DefinitionsProofs` | done |
| 11 | `IdentityCache`, `Recollection` (abstract), `MCSessions`: the cache at its limit | done, proved in `SessionsProofs` |
| 12 | the timing of a lease's renewal and expiry; the catalog's curves | left out, see the end |

Two abstract specifications are worth stating: `Ledger`, which the engine
implements, and `Recollection`, which the identity cache does; the invariants of
the other modules are stated on their own state.

## What is modelled

### Criteria, Engine, Ledger

`Criteria` holds the constant level: the table from kinds to criteria, and the
reduction of active days to totals. `LongestRun` is written as the number of run
lengths that occur, and `SumOver` as the size of a disjoint union, so that the
library's theorems about finite sets apply; `MCEngine` checks both against the
direct definitions (`LongestRunIsMax`, `SumOverIsSum`).

`Engine` has one process per concurrent caller of `Process`. A caller takes any
sighting at any time, so repeated, concurrent and retried deliveries need no
machinery of their own. A transaction is cut where another one can interfere:

| step | code |
|------|------|
| `Check` | `Process` up to the transaction, with the filter's verdict |
| `LookUp`, `InsertMark` | `recordProcessed`: SELECT, then INSERT, which waits on the unique index |
| `UpsertUser` | `upsertUser` |
| `ClaimParticipant` | `claimParticipant`: the UPDATE that takes the row's lock and re-checks the reason |
| `Evaluate` | `evaluate` to the commit; nobody else touches that user's rows |
| `Repeat`, `EvaluateRepeat` | `evaluateRepeat` for an activity already marked |
| `Abort` | any error, a cancelled context, a crash: everything is rolled back |
| `Exclude`, `Include` | another connection's committed change of excluded_reason |

`Isolation` selects what a plain SELECT sees: the last commit (PostgreSQL, SQL
Server, and as a restriction SQLite) or InnoDB's snapshot. The initial database
is one an earlier release left, which kept no set of projects.

`Ledger` is the abstract specification: activities are counted one at a time,
whole, while their actor takes part. `ImplementsLedger` maps the committed
tables onto it.

Run `engine`: 2 callers, 2 users, 7 activities (one weighs two, one was counted
by the earlier release, one is seen on two days and projects, one had its actor
absent, one has no timestamp, two are ignored), 7 tiers over five criteria.
Two callers are enough for every conflict, which are all pairwise; one user
would do but for the independence of rows.

Run `engine_repeatable_read` shows the lost increment under MySQL's default
isolation: both transactions read their snapshot before the first commits, and
the claim makes the second wait but not read again.

### Queue

Handlers (one per delivery), workers, and the end of the process. Each case of
a `select` is an action, each atomic counter update a step of its own. `Process`
succeeds, fails, or does not return.

| action | code |
|--------|------|
| `Deliver` | GitLab sends, or sends again what was answered 503 |
| `CheckOpen`, `Send`, `CountAccepted`, `Refuse` | `Enqueue` and the answer of `ServeHTTP` |
| `Receive`, `BeginDrain`, `Leave` | `work` and `drain` |
| `Succeed`, `Fail`, `Retry`, `CancelRetry` | `evaluate` and `sleep` |
| `Signal`, `CloseDone`, `Drained`, `Deadline`, `Exit` | `serve`, `Shutdown`, `drainQueue` |

Run `queue`: a delivery of four activities sent up to twice, room for one
activity, two workers, two attempts. Two hung workers hold two activities and
the channel a third, so the fourth finds the queue full for good; a refusal
half-way and a second delivery put the same activity into both workers' hands.
Handlers share nothing but the channel and the counters, and a second delivery
multiplies the states beyond what the temporal properties can be checked on; it
was explored for the invariants. `MaxSends` is the only artificial bound; it
limits GitLab's re-deliveries.

Fairness: weak fairness of every handler and worker step that does not depend on
the engine (goroutines are scheduled, timers fire), of the end of the HTTP
server's shutdown and of the drain (both have deadlines), and of the exit. None
for `Process` to return, except as the hypothesis of `QueuedSettled`; none for
GitLab to send or for the process to be stopped.

Run `queue_shutdown`: the look at `done` ahead of the select narrows the window
and does not close it. It takes a handler that outlives `httpSrv.Shutdown`: its
ten seconds ran out, or the listener failed and `drainQueue` is called at once.

### AwardDelivery

One user, one criteria with tiers 1 .. Top; passes of any process. An action
makes at most one access to the database or one call to GitLab. A mutation may
take effect and its answer be lost; a pass may crash or fail at any point;
`MaxFaults` bounds how often. The lease is its holder and whether its claim
still stands: `Expire` hits a live holder only if `LeaseMayLapse`. A pass that
lost its lease goes on until it notices (`Renew`, `GiveUpLease`), and calls
under a cancelled context are refused. `transitionAward`'s compare-and-set is
`Unmoved`.

Awards come in any order within a pass, as `Find` without an ORDER BY may
return them. A listing that failed is remembered for the pass, as in `heldAwards`.

Run `awards`: 2 passes, 2 tiers, 2 faults, leases that lapse. Two faults reach
every pair of them, such as a lost answer followed by a crash. `overlapped`
records whether two passes ever ran together; the properties that need the
lease say so, those that `transitionAward` alone must keep do not.

Fairness: passes start again (the hourly loop), each runs on, and claims nobody
renews run out. `TopTierDelivered` also needs faults to cease, which `MaxFaults`
gives, and tiers to cease being earned, which `Top` gives.

Run `awards_overlap`: A awards, is overtaken; B lists A's award, adopts and
records it; A's compare-and-set fails and A revokes "its duplicate", the award
the row records.

docs/content/docs/achievements-api-behavior.md:93 says of a crash between award
and revoke that it leaves "never zero tiers". The code gives no such guarantee
and the module claims none: awards are walked in the order the database returns
them, so the lower tier is usually revoked first, and a pass that ends there
leaves the user showing nothing until the next one (`TopTierDelivered`).

### Exclusion

One user's row; callers of `Check` (the engine's, and the bot sweep's), a start
with another list, `Apply`, the user's opt-outs and opt-ins. Reads and writes
are separate steps because the code holds no lock between them. GitLab may be
asked between the two and may not answer. `stale` records whether a decision was
written that the row had outrun (`Informed`).

Run `exclusion`: two checks at once, one changed list, one opt-out, any number of
opt-ins. `ReasonConverges` assumes the user stays active (weak fairness of
`Load`) and weak fairness for finishing what was begun. Run `exclusion_optout`:
a check of a user with no row writes over the opt-out that made the row.

### History

How activity reaches the engine over time. GitLab is a fixed table of records
(events, pipelines, merge requests, releases), each of which happens when the
clock passes it and may be stamped by a clock up to `Slack` off. The engine is
the set of activities it counted; presenting one again changes nothing, which
is what `Engine` shows of it.

| action | code |
|--------|------|
| `Tick` | time passes; what happens is delivered while the process serves, or lost |
| `Boot`, `Serve`, `Stop` | `run`: the ceiling is taken, bootstrap registers hooks, `serve`, a stop or crash |
| `WalkProject`, `Read`, `Process`, `EndPhase` | `backfill.walkProjects`, the four phases, `process` |
| `Flush` | `maybeFlush`, `flush`: every `FlushRecords` records and after each project |
| `SkipProject`, `WalkFails` | `handleProjectError`, an error that ends the walk, with a last flush that may fail |
| `Complete`, `ClearProgress` | `markCompleted`, two writes |
| `PassBegin`, `PassProject`, `PassEnd` | `executeReconcile`, `window`, `walkProject`, the watermark |
| `PassSkipProject`, `PassFails` | an unreadable project, an error that ends the pass |

The walk takes one activity per step and keeps its cursor apart from the
persisted one, so a stop falls between any two of: counting, moving the cursor,
writing it. A pass reads a project in one step, because nothing it keeps depends
on where in a project it stopped. Pipelines are listed once they ended, and a
project has one ref. Ghost variables record under which ceiling a phase was
walked, which projects were skipped, how far back the first successful pass
reached.

Run `history`: two projects; in the first, two events of one day and a failed
pipeline with the one that fixed it, all before the process starts; in the
second, a merge request later, stamped behind. The cursor is written every two
records, so it falls in the middle of the events' day and between the pipelines,
the two places where resuming is delicate. `MaxClock` 3 leaves room for an
outage longer than the look-back of 1; `MaxFaults` 1 bounds failures, while
restarts are unbounded.

Fairness: weak fairness of starting, of reaching `serve`, of the walk's steps and
of the passes (the loop of `startReconcileLoop`). None that the process stays
up: `LostIsMadeUp` has that as its hypothesis.

`CorrectUpToWatermark` and `LostIsMadeUp` except projects that a walk or a pass
skipped as unreadable: the watermark advances past them, and the code accepts
that hole.

The first pass has no watermark, so its window is the look-back from its own
start, and it waits for the walk. docs/content/docs/backfill.md:36 says that it
closes the gap of the registration sweep; that holds only of a walk shorter than
the look-back, which is why `CorrectUpToWatermark` begins at the first window.

### Normalise

History takes it that an activity has one identity, whoever reports it.
`Normalise` says what the identity is: the two normalisers as constant-level
operators over every sort of occurrence (pushes, merge requests, issues,
comments, pipelines, jobs, deployments, reactions, wiki pages, releases,
threads). A key is the tuple of the parts its spelling joins. The payloads'
shapes are external: hooks carry full refs and null SHAs, events short refs or
full ones, empty commits for a deletion, two dialects of verbs and renamed
target types, which `PushData`, `ActionNames` and `TargetTypes` enumerate.

`KeyIsIdentity` is that both paths make the same of an occurrence however it is
reported, except what eventsapi/normalize.go lists as beyond the APIs, the
outcomes a retried pipeline had before, and `Misread` pushes, and that keys and
things done correspond one to one within a kind. Run `history` checks it where it
is relied upon (`CountedByItsKey`), over two identifiers, two users, two plain
names and one that begins with "refs/": keys are built from identities by
joining, so that a collision shows between two of each. `KeysIdentify` proves it
for any number.

`Misread` is an exception the code does not mention. `pushDedupKey` takes whatever
begins with "refs/" for a ref that is qualified already, and a branch or tag may
itself be called refs/x. The hook then spells refs/heads/refs/x, the Events API's
short form refs/x is left as it is, and the two keys count the push twice; a
branch called refs/heads/main, reported short, even gets the key of a push to
main. `HasPrefix` is that test, and `Qualified` names the names it misleads.
Not modelled is the key `normalizeResolution` falls back to when a note hook names
no discussion (`discussion:note:<id>:resolved`): GitLab names it, and the APIs
have no counterpart.

### Definitions

Catalog entries in their order; processes that run a release each; one user
whose tiers are awarded meanwhile, by a transaction that stays open for a step.

| action | code |
|--------|------|
| `Begin`, `End`, `Fail`, `Refused`, `Lapse` | `reconcileDefinitions` under the lease, its first error, a crash, a lease that runs out under it |
| `listAchievements` | read once for the pass |
| `reconcileEntry`, `BadgeDrift` | `claimAchievement`, `resyncAchievement`, `detectAchievementDrift`: which way an entry goes |
| `CreateOnGitLab`, `RecordCreated` | `createAchievement`, `recreateAchievement`, two steps |
| `adoptAchievement`, `pushAchievementUpdate`, `SaveRow` | the like-named functions and the saves of `reconcileAchievement` |
| `LoadUsers`, `CompareTotal`, `recomputeExp`, `RecomputeResumes` | `repairExpTotals`, `RecomputeAll`: select, compare, one UPDATE that waits for the user's row |
| `AwardTier`, `Commit` | the engine's transaction |
| `Start`, `Stop` | a rolling restart to `Latest` |
| `ByHand` | somebody deletes or rewords an achievement on GitLab, replaces or clears its badge |
| `Uninstall`, `Remove`, `forget`, `SkipRemoval`, `CleanupNext`, `CleanupFails` | `RemoveAchievements --sweep`, with no server up, as the documentation asks |

`settled` is what the last undisturbed pass promised to leave, and
`SettledAsPromised` is that promise from any state interrupted passes, lost
databases and people left.

Badges are the exception. GitLab shows that an achievement has one and not which
("the one thing it cannot verify is an avatar's contents",
docs/content/docs/achievements.md), so a pass compares the key its row records
with the catalog's, uploads when they differ or GitLab shows none, and takes any
badge of an achievement it adopts for the entry's. `mistaken` records of which
achievements the record may mislead: the badge was replaced by hand; another one
was adopted; an upload was cut short before the row was saved, so that a later
pass of the release the row still speaks of finds nothing to do; or it went on
beside another pass. Where it does not, and the release has a badge, a settled
pass leaves that badge; where it does, some badge. The docs promise for a redrawn
icon that the service "re-uploads the affected avatars on the next pass": that is
so whenever the row's key is the old one, whatever else happened. A badge that the
release no longer has stays on GitLab, as there is no call to clear it.

`owed` records why a total may be wrong.
`ExpStaleOnlyIfOwed` is how much of exp.go's "the correction lands with the
retune rather than whenever the user next does something" holds. It does not
when the pass was cut short between saving a retuned row and the repair (the next
pass finds the row right and repairs nothing), when the retuned achievement was
adopted rather than updated (`Adopted` is no reason to repair), when an award
went on beside the repair, or when `uninstall` removed awards. In all four the
total is put right by the user's next tier, or by the next pass that updates
something. An award beside the repair spoils it in three ways: uncommitted, it is
not seen; the UPDATE that waits for it may write a sum from before it; and
committed between the select of the users and the comparison, it may make up for
the difference exactly, so that a total read too high is found right. The last
came out of the proof, which could not be completed without it.

Run `definitions`: two entries, two releases of which the second retunes and
redraws the first, and rewords the second and drops its badge, two processes, one fault anywhere, an achievement left by an earlier
installation, with a badge or without, or none. Two entries are needed for a pass to be cut short between
them. Fairness: passes come round and run on, whoever waits for the lease gets
it in the end (the ticker and the lease's retries; strong fairness, as others
take it in between), transactions end, and the superseded process is stopped
(the orchestrator). `Converges` has as its hypothesis that a process of the
latest release stays up.

### Hooks

| action | code |
|--------|------|
| `Begin`, `resolveHookScope`, `End`, `Fail` | `ReconcileWebhooks`, `syncHooks`, its scope, an error that ends it or a crash |
| `syncTarget` | the next target and its recorded hook |
| `reuseStoredHook` | edited by its identifier, or gone |
| `recoverHook`, `EditExisting`, `Add` | found by its URL, edited; or registered |
| `storeHookID`, `handleTargetError` | recorded; a target out of reach is skipped |
| `ByHand` | hooks edited or deleted, rights taken and given, the plan changed |
| `Uninstall`, `CleanTarget`, `removeHook`, `CleanupSkips`, `CleanupNext`, `CleanupFails` | `RemoveWebhooks --sweep` |

models.go says of `RegisteredHook` that "this app registers at most one hook per
target". Nothing in the hourly sweep enforces it, as it takes no lease;
`OneHookUnlessRaced` is what does hold: a second hook appears only on a target
that two sweeps were about to register on at once. The duplicate stays (a sweep
edits the one on record) until an uninstall sweeps by URL; its deliveries are
absorbed by the dedup keys. So are those of the other scope's hooks, which a
change of plan leaves where they are.

Run `hooks`: a group and a project, two processes, two faults, hooks left by an
earlier installation or none. Two faults reach a lost answer followed by a
deletion, or a right taken and given back. `recoverHook` lists the first hundred
hooks of a target only; the model has fewer. Fairness: sweeps come round and run
on. No process is assumed to stay up, as `Fail` is a restart.

### Sessions

One browser session and the grant behind it. A token pair is a number; GitLab
renews the newest only, once.

| action | code |
|--------|------|
| `Login`, `Begin` | `handleCallback` and `establish`; a request, a logout or the login that replaces the session |
| `ReadRow`, `Held`, `WriteBack`, `destroy` | `sessions.load`: the row, the tokens held in memory, their write-back, an unreadable row |
| `Wanted`, `Loaded`, `Shared` | `sessionToken` and `refresh`: one renewal, whose outcome all who wait share |
| `Renew`, `update` | `oauthFlow.refresh`; `sessions.update`, which holds what it could not save |
| `Verify`, `Store`, `evict`, `forget` | `cachingVerifier` |
| `revoke`, `EndSession` | `endSession`, best effort |
| `RunsOut`, `prune`, `Restart`, `RevokedByUser` | tokens and the session run out; a restart, perhaps with another secret; the grant is revoked on GitLab |

A request's `load`, its verification and its write-back are separate steps, so
that they fall anywhere in another thread's renewal or logout. The excuses are
part of the statements. `NewestKept` excuses an answer GitLab gave and nobody
got, a restart while only memory held the pair, a session that was ended in
memory while its row could not be deleted (a logout, or `destroy`: the row then
keeps an older pair, and a later logout revokes that one),
and one more that sessions.go does not mention: a `load` that read the held
tokens writes them back without looking at the row, so a renewal that completed
meanwhile, against a row that was saved by somebody else's write-back, is
overwritten by the pair it spent; or a renewal's own `load` reads the row before
the write-back and memory after it, and presents the spent pair. GitLab refuses
it and the session ends. The comment on `update`, that with one replica the held copy cannot
lose a session, leaves this interleaving out.
`LoggedOutIsGone` has two parts. The session does not come back: whatever renewal,
write-back or request was under way when the row went, a request that comes
after finds none, as saving is an UPDATE and a pair held in memory is served only
for a row. That has no exception. And the credential is gone: the grant is dead
unless a renewal, a write-back or another logout went on beside the logout
(`raced`; a renewal in flight obtains a pair that nobody revokes). As for the
cache, oauth.go says that "the identity it vouched for is not still honored for
the rest of the cache window", and `endSession` forgets one access token, the
session's newest. That one is forgotten unless a verification that was in flight
beside the logout, or was overtaken by it, remembers it again (`vouched`), for as
long as the entry lives; nothing in the code prevents that. An access token that
was renewed earlier is not looked for, and its identity stays remembered until it
runs out, even if nothing goes on beside the logout. Neither serves the session,
whose requests are refused before they get to the cache; somebody who presents
the token itself, as a Bearer credential, would be.

Run `sessions`: two handlers beside the shared renewal, three pairs, two faults.
Three pairs let a write-back of the second be overtaken by the third; two
handlers are a request and a logout, or two of either. The last pair never runs
out, which bounds the behaviours and no property. No fairness: browsers promise
nothing.

### IdentityCache, Recollection

`cachingVerifier` keeps a map of what it remembers, bounded by
`identityCacheEntries`, and a queue of keys in the order they were stored. The
two fall out of step: a key that was forgotten, or looked up too late, stays in
the queue, and one stored again is in it twice. `Sessions` lets any entry go at
any time, which is more than eviction does; here is what it does.

| action | code |
|--------|------|
| `lookup` | `Verify` as far as its look-up, which drops a key that has run out |
| `Answered`, `Failed` | GitLab's answer: an identity or a refusal is stored, any other error is not |
| `store`, with `Popped`, `Left`, `Queued` | `store` and the `evict` it begins with |
| `Forgotten` | `forget` |
| `Tick` | time passes |

What the mutex covers is one step; a call to GitLab is under way between two, so
that several requests may ask about one key and each store it. The loop of
`evict` is written as its result: the fewest keys popped after which it stops.
An entry is the moment it runs out; what it holds changes nothing here.

`Recollection` has no queue: when a key comes, what has run out goes and, if there
is still no room, one key that no other runs out before. That the map and the
queue implement it says that a place in the queue left behind by an earlier entry
costs the newer one nothing. `InLine` says why eviction ends with room at all:
popping reaches everything the map has.

Run `sessions` again: three keys, room for two, two requests. Three keys are one
more than there is room for, and two requests store one key twice in a row or at
one moment. `TTL` 2 and `MaxClock` 3 let an entry live through a tick, run out, and
be stored again; `MaxQueued` bounds the queue, which the code bounds only by what is
stored within one time to live. At four places the queue is twice the room, so
both kinds of stale place occur together. `MCSessions` puts the two models into
one run without multiplying their states: each runs while the other rests, which
loses nothing, as they share no variable and each property is about one of them.
The run checks the refinement; that the map is bounded, and the queue in step,
are theorems, whose invariant was checked on the same instance.
No fairness: nobody has to ask.

## What is proved

Each theorem holds for every value of the constants its module's assumption
admits and, but for `KeysIdentify`, rests on an inductive invariant stated at the head of the proof
module; TLC checked each of these invariants on the instance of the runs before
it was proved. One lemma per action shows that the invariant is kept. Leaves are
kept small enough for the solver to find them in a fraction of the time it is
given.

| module | theorem | states |
|--------|---------|--------|
| `EngineProofs` | `TypeCorrect`, `ExclusionRespected` | `TypeOK`, `NothingCountedWhileExcluded` |
| | `CountedExactlyOnce`, `AwardsAreTheTiersReached`, `ExpTotalsCorrect`, `DerivedCountersCorrect` | `ExactlyOnce`, `HeldTiersAreReached`, `ExpMatchesAwards`, `DerivedCountersCurrent` (read committed) |
| | `EngineImplementsLedger` | `ImplementsLedger` (read committed) |
| `QueueProofs` | `QueueTypeCorrect`, `NothingDisappears`, `AcknowledgedIsTracked`, `DrainSettles` | `TypeOK`, `Conservation`, `AcknowledgedTracked`, `DrainSettlesEarlier` |
| `AwardProofs` | `AwardTypeCorrect`, `TierAwardedOnce`, `RecordIsTrue`, `NothingLostTrackOf` | `TypeOK`, `AwardedOnce`, `RecordMatchesGitLab`, `TrackedStaysTracked` |
| `ExclusionProofs` | `ExclusionTypeCorrect`, `ReasonIsCurrent`, `OnlyParticipantsCounted` | `TypeOK`, `ReasonKeptCurrent`, `NothingCountedForExcluded` |
| `HistoryProofs` | `HistoryTypeCorrect`, `WalkIsExact`, `WatermarkIsTrue` | `TypeOK`, `WalkCountsExactly`, `CorrectUpToWatermark` |
| | `KeysIdentify`, `CountedUnderItsKey` | `KeyIsIdentity`, `CountedByItsKey` |
| `HooksProofs` | `HooksTypeCorrect`, `SettledIsTrue`, `OneHook` | `TypeOK`, `SettledAsPromised`, `OneHookUnlessRaced` |
| `SessionsProofs` | `SessionsTypeCorrect`, `NewestIsKept`, `LogoutMeansGone`, `SessionEndsForCause` | `TypeOK`, `NewestKept`, `LoggedOutIsGone`, `EndsForCause` |
| | `CacheTypeCorrect`, `CacheBounded`, `NothingStranded` | `CacheTypeOK`, `Bounded`, `InLine` |
| | `CacheImplementsRecollection` | `ImplementsRecollection` |
| `DefinitionsProofs` | `DefinitionsTypeCorrect`, `PassSettles`, `TotalsAccountedFor` | `TypeOK`, `SettledAsPromised`, `ExpStaleOnlyIfOwed` |

`EngineInv` is `TypeInv /\ Coordination /\ Accounts`.
The accounts (counters against processed activities, awards against counters,
EXP against awards, derived counters against sets) are not inductive alone:
`Evaluate` adds an activity to the counters and to `processed` in one step, and
would count it twice if another caller had committed it since the look-up, or
if another caller changed the rows between its claim and its commit.
`Coordination` says why neither happens: a caller at `evaluate` holds its user's
lock (the claims), and of the callers that carry a fresh uncommitted mark for an
activity there is at most one, and the activity is not in `processed` (the
marks). One lemma per action shows the marks and claims are kept; one per
committing action shows the accounts are, from the lemmas on rows at the head
of the module: sums as sizes of disjoint unions, and what evaluating an activity
does to one user's rows.
The refinement is shown step by step from the same invariant.

`QueueInv`. That an acknowledged activity is tracked needs how far each handler
has come (`Queued`: the activities before `next`, and the one being counted).
That a drain settles what came earlier needs why a worker may leave: it found the
channel empty after `done` was closed, so what is in it by then came late
(`LeftEmptyHanded`); and that a worker holds an activity exactly while it
evaluates it. The server has at least one worker (`applyDefaults` turns a count
of none into four), or the channel would drain with nobody to empty it.

`AwardInv`. `TrackedStaysTracked` holds whatever passes overlap and needs only
`Records`: what a pass loaded is what the rows once were (`Snapshot`), and what
it does follows from that (`Decided`). Awarding at most once, and rows that
match GitLab, hold while no two passes ran together (`Solo`), and need what such
a pass knows (`Alone`): the rows it has not dealt with are as it loaded them, its
listing covers them, and it awards a tier only if GitLab never had it.

`ExclusionInv`. Every check, opt-in and application of the policy carries a copy
of the row; the invariant says of each copy what it still says about the row
(rows are not deleted, verdicts are not forgotten), and that a reason about to be
written is what the policy decides about the copy. `AppliesNothing` covers the
moment before a start serves: an `Apply` under way that finds the row's reason
right will leave it.

`HistoryInv` has two halves. `WalkInv` says of a cursor, the one in memory and the
saved one alike, that what lies behind it is counted: whole days of events before
the day it names, pipelines up to the one it names. Within a listing, what was
listed is counted except what is due of the record in hand, and the remembered
outcome is that of the last pipeline that ended; so a resumed walk neither skips a
fix nor makes one up. `PassInv` says that a pass reaches back to the watermark and
the slack before it, and what it has covered so far. The assumptions are
those the two paths rely on: identifiers are unique and follow time up to
`Slack`, and only pipelines end one way or the other.

`KeysIdentify` needs no invariant. `MeaningOf` reads off a key what was done and
about what, `KeyOf` gives the key back, and every activity either normaliser makes
of an occurrence fits both (`Fits`, a lemma per sort of occurrence); so keys and
things done correspond one to one. That the paths make the same of an occurrence
(`Agrees`, again a lemma per sort) goes through every way in which it may be
reported.

`HooksInv`. A sweep that nothing disturbed has each target it reached in order,
and when it is about to record a hook, that hook is there (`SweepTrue`); a removal
that nothing disturbed has forgotten every row but those it has left, and looked
at every scope but those it has left (`CleanupTrue`). Whatever changes a row or a
hook disturbs the others or finds none under way. One hook per target needs that
a sweep at `add` found none (`AddsFirst`).

`SessionsInv`. That the newest pair is kept needs what the renewal knows of it at
each of its steps (`Renews`): it was handed the newest, or memory holds a newer
one, and it is about to record the one it was given. That a logout leaves no
grant needs the same of each logout beside which the tokens do not change
(`LogsOut`): it read the newest pair, forgot its identity, revoked it, in that
order, and nothing but a verification remembers the identity after that. Tokens that cannot
be unsealed lead to `destroy` and nowhere else (`Unseals`), which is why a session
goes for a cause only. The proof attempt showed that an excuse was missing: a
`destroy` whose DELETE fails has dropped the newer pair from memory already.

`CacheInv` is `CacheTypeOK /\ Bounded /\ InLine`, inductive as it stands, but
its parts need each other: a store leaves room because, once enough is popped,
the first in the queue has not run out, the queue is in order, and whatever the
map has is in the queue (`EnoughLeaves`). For the refinement, a key popped before
its time was popped because the map was full; it is the first of the queue that
stands for anything, so no other runs out before it, and with it gone there is
room and the next has not run out either: popping stops (`OneGoesEarly`).
`Popped` is a least number, which exists because the empty queue is enough.

`DefinitionsInv`. A pass beside which nothing changed knows the entries behind it
to be as released, those ahead to be on GitLab as listed, and of the one in hand
what its last step did (`Knows`); whoever writes to GitLab or the rows, people
included, ends that for every other pass. A removal knows what it has done
(`RemovedSoFar`). Of each row the invariant says which badge GitLab shows: the
recorded one, or none, unless the record is mistaken (`BadgeKnown`); so a pass
that sees a badge and finds the key right may leave both. For the totals the invariant looks ahead of the open
transaction: either it and the total are right, or a pass has yet to load,
compare or recompute, or it is owed (`StaleForCause`), which is stronger than
`ExpStaleOnlyIfOwed` as a pass at its end no longer counts. What tiers are worth
is a natural number because the catalog is finite.

Proved, and no property of a run: the type invariant of `Exclusion`, and
`CacheTypeOK`, `Bounded` and `InLine`, which the refinement rests on.

Only model-checked: all liveness (`EveryDeliveryAnswered`, `ShutdownEnds`,
`QueuedSettled`, `TopTierDelivered`, `ReasonConverges`, `LostIsMadeUp`,
`Converges`, `EveryTargetHooked`), which is beyond the prover. That `LongestRun`
and `SumOver` agree with the direct definitions is checked in `MCEngine`.

## What the runs found

1. MySQL's repeatable read loses increments (`engine_repeatable_read`).
2. A delivery acknowledged after the drain is lost (`queue_shutdown`).
3. A recorded award is revoked as a duplicate (`awards_overlap`).
4. A check overwrites an opt-out (`exclusion_optout`).

Seven statements of the documentation and comments hold less widely than they
say, and the models state what does hold: "never zero tiers" (AwardDelivery), the
registration gap closed by the first pass (History), keys that "match, byte for
byte" (Normalise, refs called refs/...), the correction that lands with the
retune (Definitions), one hook per target (Hooks), that a held token cannot cost
a session, and that no identity is honoured after a logout (Sessions).

## What is not modelled

- Payload parsing, formatting, HTTP details, dialect-specific SQL other than
  isolation, connection pools: no state the properties are about.
- The timing of a lease (its TTL against the renewal interval) and of any other
  timer: timers may fire whenever they are armed, and a lease may run out under
  its holder whenever `LeaseMayLapse` or a fault says so, which includes what
  the clocks allow.
- `BACKFILL_SINCE`, forced and one-off walks, several processes walking or
  reconciling at once.
- Thresholds that change from release to release: `Engine` has one catalog, and
  `Definitions` retunes rewards only. A tier lowered below a counter's value is
  awarded when that counter next moves.
- Achievements renamed by hand, and names that change from release to release:
  `Definitions` takes an entry's name for the entry. A renamed achievement that a
  row records gets its name back, like its description; one that no row records
  is not recognised, and another is created beside it.
- The OAuth application (found, adopted or created at start-up, in the shape of
  one more hook), permission checks, the OAuth handshake's state and PKCE, the
  allowed group, several replicas serving one session.
- A dry run of `uninstall`, one beside a running server, and the sweep over
  achievements of the namespace that the catalog does not name.
- API queries, the catalog's table and curves, the GitLab client's pacing,
  metrics, configuration, the web application and the chart: read-only or
  stateless.
