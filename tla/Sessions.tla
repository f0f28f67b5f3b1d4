------------------------------ MODULE Sessions ------------------------------
(***************************************************************************)
(* One browser session and the GitLab grant behind it: renewing its tokens,   *)
(* holding those that could not be saved, caching the identity they vouch    *)
(* for, and logging out (internal/api: sessions.go, auth.go, oauth.go,        *)
(* identity.go). Sessions share nothing but the cache's capacity, which is    *)
(* IdentityCache's, so one is enough; one replica runs.                       *)
(*                                                                          *)
(* A grant's token pairs are numbered as GitLab issues them; a refresh token  *)
(* works once, and both tokens of a pair are on one record. One database      *)
(* access or one call to GitLab is one step.                                  *)
(***************************************************************************)
EXTENDS Integers

CONSTANTS
  Handlers,  \* what serves the browser's requests
  MaxPairs,  \* bound: token pairs issued
  MaxFaults, \* bound: failed or unanswered calls, restarts, revocations on GitLab
  None

Renewal == "renewal"

ASSUME SessionsAssumption ==
  MaxPairs \in Nat \ {0} /\ MaxFaults \in Nat /\ None \notin Nat /\ Renewal \notin Handlers

VARIABLES
  pair,    \* GitLab: the pair issued last
  live,    \* GitLab: whether that pair has not been revoked
  near,    \* pairs up to here are within refreshMargin of running out
  over,    \* pairs up to here have run out
  row,     \* sessions table: the pair saved, 0 if sealed under another secret, or None
  ended,   \* whether the session has reached expires_at
  unsaved, \* sessions.unsaved: the pair held in memory, or None
  cache,   \* cachingVerifier: pairs whose access token's identity is remembered
  thread,  \* what each handler, and the renewal they share, is doing
  faults,
  excused, \* history: the newest pair may have been lost, see Excuse
  parted,  \* history: a logout revoked, then deleted, the session, in its time
  raced,   \* history: something changed the tokens beside a logout
  vouched  \* history: an identity was remembered beside a logout, or after it

gitlab == <<pair, live, near, over>>
vars == <<gitlab, row, ended, unsaved, cache, thread, faults, excused, parted, raced, vouched>>

Threads == Handlers \cup {Renewal}
Idle == [at |-> "idle", does |-> "request", got |-> 0, tokens |-> 0, late |-> FALSE]

Near(p) == p <= near
Over(p) == p <= over
Fault == faults < MaxFaults /\ faults' = faults + 1

\* h changes tokens, or remembers an identity, while another thread logs out.
Beside(h) == \E g \in Handlers \ {h} : thread[g].does = "logout" /\ thread[g].at # "read"

-----------------------------------------------------------------------------
(* Where a thread goes on: each of these is the next value of `thread`.      *)

Put(h, t) == [thread EXCEPT ![h] = t]

\* Faulty variant: only success is passed on to those who wait.
SharedOnSuccess(outcome, p) ==
  [h \in Threads |->
    IF h = Renewal THEN Idle
    ELSE IF thread[h].at = "wait" /\ outcome = "ok"
    THEN [thread[h] EXCEPT !.at = "verify", !.tokens = p]
    ELSE thread[h]]

\* The shared renewal ends and everyone waiting on it gets its outcome: the
\* tokens, no session, or an error, on which tokens that still work are used.
Shared(outcome, p) ==
  [h \in Threads |->
    IF h = Renewal THEN Idle
    ELSE IF thread[h].at # "wait" THEN thread[h]
    ELSE IF outcome = "ok" THEN [thread[h] EXCEPT !.at = "verify", !.tokens = p]
    ELSE IF outcome = "none" \/ Over(thread[h].tokens) THEN Idle
    ELSE [thread[h] EXCEPT !.at = "verify"]]

\* Faulty variant: the renewal presents the tokens its request came with.
WantedAsRead(h, p) ==
  IF ~Near(p) THEN Put(h, [thread[h] EXCEPT !.at = "verify", !.got = 0, !.tokens = p])
  ELSE [Put(h, [thread[h] EXCEPT !.at = "wait", !.got = 0, !.tokens = p]) EXCEPT ![Renewal] =
          IF @.at = "idle" THEN [Idle EXCEPT !.at = "renew", !.does = "renewal", !.tokens = p] ELSE @]

\* sessionToken: renew what is about to run out, in the renewal under way if
\* there is one.
Wanted(h, p) ==
  IF ~Near(p) THEN Put(h, [thread[h] EXCEPT !.at = "verify", !.got = 0, !.tokens = p])
  ELSE [Put(h, [thread[h] EXCEPT !.at = "wait", !.got = 0, !.tokens = p]) EXCEPT ![Renewal] =
          IF @.at = "idle" THEN [Idle EXCEPT !.at = "read", !.does = "renewal"] ELSE @]

\* What follows load in a request, in a renewal and in a logout.
Loaded(h, outcome, p) ==
  LET next(at) == Put(h, [thread[h] EXCEPT !.at = at, !.got = 0, !.tokens = p]) IN
  CASE thread[h].does = "request" -> IF outcome = "ok" THEN Wanted(h, p) ELSE Put(h, Idle)
    [] thread[h].does = "renewal" ->
         IF outcome = "ok" /\ Near(p) THEN next("renew") ELSE Shared(outcome, p)
    [] OTHER -> next(IF outcome = "ok" THEN "forget" ELSE "delete")

-----------------------------------------------------------------------------
(* Logging in: handleCallback, establish, sessions.create.                   *)

Login ==
  /\ pair = 0
  /\ pair' = 1 /\ live' = TRUE /\ row' = 1 /\ cache' = {1}
  /\ UNCHANGED <<near, over, ended, unsaved, thread, faults, excused, parted, raced, vouched>>

\* A request, or a logout: handleLogout, or the login that replaces this
\* session (endPreviousSession).
Begin(h) ==
  /\ thread[h].at = "idle" /\ pair > 0
  /\ \E does \in {"request", "logout"} :
       thread' = Put(h, [Idle EXCEPT !.at = "read", !.does = does, !.late = row = None])
  /\ UNCHANGED <<gitlab, row, ended, unsaved, cache, faults, excused, parted, raced, vouched>>

-----------------------------------------------------------------------------
(* load.                                                                     *)

ReadRow(h) ==
  /\ thread[h].at = "read"
  /\ \/ /\ row = None \/ ended
        /\ unsaved' = None /\ thread' = Loaded(h, "none", 0)
        /\ UNCHANGED <<faults, raced>>
     \/ /\ row # None /\ ~ended
        /\ thread' = Put(h, [thread[h] EXCEPT !.at = "held", !.got = row])
        /\ raced' = (raced \/ (thread[h].does = "logout" /\ thread[Renewal].at = "update"))
        /\ UNCHANGED <<unsaved, faults>>
     \/ /\ Fault
        /\ thread' = Loaded(h, "error", 0)
        /\ UNCHANGED <<unsaved, raced>>
  /\ UNCHANGED <<gitlab, row, ended, cache, excused, parted, vouched>>

\* What is held in memory is served in place of the row.
Held(h) ==
  LET t == thread[h] IN
  /\ t.at = "held"
  /\ thread' = IF unsaved # None THEN Put(h, [t EXCEPT !.at = "save", !.tokens = unsaved])
               ELSE IF t.got = 0 THEN Put(h, [t EXCEPT !.at = "destroy"])
               ELSE Loaded(h, "ok", t.got)
  /\ UNCHANGED <<gitlab, row, ended, unsaved, cache, faults, excused, parted, raced, vouched>>

\* Faulty variant: saving inserts a row that is gone, as an upsert would.
savedAnyway(p) == p

\* save: an UPDATE, which does nothing once the row is gone.
saved(p) == IF row = None THEN None ELSE p

\* A write-back that lands after a newer one, or between the two reads of the
\* renewal's own load.
Overtakes(p) ==
  \/ (row # None /\ row > p)
  \/ (thread[Renewal].at = "held" /\ thread[Renewal].got < p)

\* Held tokens are written back, and dropped from memory if nothing newer is
\* held by then; they are returned in any case.
WriteBack(h) ==
  LET p == thread[h].tokens IN
  /\ thread[h].at = "save"
  /\ \/ /\ row' = saved(p)
        /\ unsaved' = (IF unsaved = p THEN None ELSE unsaved)
        /\ excused' = (excused \/ Overtakes(p))
        /\ UNCHANGED faults
     \/ Fault /\ UNCHANGED <<row, unsaved, excused>>
  /\ thread' = Loaded(h, "ok", p) /\ raced' = (raced \/ Beside(h))
  /\ UNCHANGED <<gitlab, ended, cache, parted, vouched>>

\* destroy, of a session whose tokens cannot be unsealed or renewed. What was
\* held in memory goes first; that the row could not be deleted, and keeps an
\* older pair, goes unnoticed.
destroy(h) ==
  /\ thread[h].at = "destroy"
  /\ unsaved' = None
  /\ \/ row' = None /\ UNCHANGED <<faults, excused>>
     \/ Fault /\ excused' = (excused \/ unsaved # None) /\ UNCHANGED row
  /\ thread' = Loaded(h, "none", 0) /\ raced' = (raced \/ Beside(h))
  /\ UNCHANGED <<gitlab, ended, cache, parted, vouched>>

-----------------------------------------------------------------------------
(* refresh: one renewal, shared.                                             *)

Issue ==
  /\ live /\ thread[Renewal].tokens = pair /\ pair < MaxPairs
  /\ pair' = pair + 1
  /\ raced' = (raced \/ Beside(Renewal))

Renew ==
  LET t == thread[Renewal] IN
  /\ t.at = "renew"
  /\ \/ /\ Issue
        /\ thread' = Put(Renewal, [t EXCEPT !.at = "update", !.tokens = pair'])
        /\ UNCHANGED <<faults, excused>>
     \/ /\ ~live \/ t.tokens # pair \* invalid_grant
        /\ thread' = Put(Renewal, [t EXCEPT !.at = "destroy"])
        /\ UNCHANGED <<pair, faults, excused, raced>>
     \/ /\ Fault /\ Issue /\ excused' = TRUE \* the answer is lost
        /\ thread' = Shared("error", 0)
     \/ /\ Fault /\ thread' = Shared("error", 0) \* nothing was issued
        /\ UNCHANGED <<pair, excused, raced>>
  /\ UNCHANGED <<live, near, over, row, ended, unsaved, cache, parted, vouched>>

\* Faulty variant: renewed tokens that could not be saved are dropped.
updateOrDrop ==
  LET p == thread[Renewal].tokens IN
  /\ thread[Renewal].at = "update"
  /\ \/ row' = saved(p) /\ unsaved' = None /\ UNCHANGED faults
     \/ Fault /\ UNCHANGED <<row, unsaved>>
  /\ thread' = Shared("ok", p)
  /\ UNCHANGED <<gitlab, ended, cache, excused, parted, raced, vouched>>

\* update: saved, or held in memory.
update ==
  LET p == thread[Renewal].tokens IN
  /\ thread[Renewal].at = "update"
  /\ \/ row' = saved(p) /\ unsaved' = None /\ UNCHANGED faults
     \/ Fault /\ unsaved' = p /\ UNCHANGED row
  /\ thread' = Shared("ok", p)
  /\ UNCHANGED <<gitlab, ended, cache, excused, parted, raced, vouched>>

-----------------------------------------------------------------------------
(* The identity behind the access token: cachingVerifier.                    *)

\* GitLab is asked what is not remembered. It knows the newest access token
\* until that runs out, and an older one perhaps.
Verify(h) ==
  LET p == thread[h].tokens IN
  /\ thread[h].at = "verify"
  /\ \/ /\ p \notin cache /\ live /\ ~Over(p)
        /\ thread' = Put(h, [thread[h] EXCEPT !.at = "store"])
        /\ UNCHANGED faults
     \/ /\ p \in cache \/ ~live \/ Over(p) \/ p # pair
        /\ thread' = Put(h, Idle) /\ UNCHANGED faults
     \/ Fault /\ thread' = Put(h, Idle)
  /\ UNCHANGED <<gitlab, row, ended, unsaved, cache, excused, parted, raced, vouched>>

Store(h) ==
  /\ thread[h].at = "store"
  /\ cache' = cache \cup {thread[h].tokens}
  /\ thread' = Put(h, Idle)
  /\ vouched' = (vouched \/ parted \/ Beside(h))
  /\ UNCHANGED <<gitlab, row, ended, unsaved, faults, excused, parted, raced>>

\* An entry runs out or makes room for another.
evict ==
  /\ \E p \in cache : cache' = cache \ {p}
  /\ UNCHANGED <<gitlab, row, ended, unsaved, thread, faults, excused, parted, raced, vouched>>

-----------------------------------------------------------------------------
(* endSession.                                                               *)

forget(h) ==
  /\ thread[h].at = "forget"
  /\ cache' = cache \ {thread[h].tokens}
  /\ thread' = Put(h, [thread[h] EXCEPT !.at = "revoke"])
  /\ UNCHANGED <<gitlab, row, ended, unsaved, faults, excused, parted, raced, vouched>>

\* Faulty variant: only the access token is revoked, which leaves the pair's
\* refresh token.
revokeAccess(h) ==
  /\ thread[h].at = "revoke"
  /\ \/ thread' = Put(h, [thread[h] EXCEPT !.at = "delete revoked"]) /\ UNCHANGED <<live, faults>>
     \/ thread' = Put(h, [thread[h] EXCEPT !.at = "delete"]) /\ Fault /\ UNCHANGED live
  /\ UNCHANGED <<pair, near, over, row, ended, unsaved, cache, excused, parted, raced, vouched>>

\* A pair that was renewed since takes the newer one down with it no more.
\* Best effort.
revoke(h) ==
  /\ thread[h].at = "revoke"
  /\ \/ /\ live' = (live /\ thread[h].tokens # pair)
        /\ thread' = Put(h, [thread[h] EXCEPT !.at = "delete revoked"]) /\ UNCHANGED faults
     \/ thread' = Put(h, [thread[h] EXCEPT !.at = "delete"]) /\ Fault /\ UNCHANGED live
  /\ UNCHANGED <<pair, near, over, row, ended, unsaved, cache, excused, parted, raced, vouched>>

\* The row goes; if it cannot be deleted, the browser's cookie goes all the
\* same. What was held in memory goes first.
EndSession(h) ==
  /\ thread[h].at \in {"delete", "delete revoked"}
  /\ unsaved' = None
  /\ \/ /\ row' = None /\ UNCHANGED faults
        /\ parted' = (parted \/ (thread[h].at = "delete revoked" /\ ~ended)) /\ UNCHANGED excused
     \/ Fault /\ excused' = (excused \/ unsaved # None) /\ UNCHANGED <<row, parted>>
  /\ thread' = Put(h, Idle) /\ raced' = (raced \/ Beside(h))
  /\ UNCHANGED <<gitlab, ended, cache, vouched>>

-----------------------------------------------------------------------------
(* Time, restarts, and what is done on GitLab.                               *)

\* The last pair of a behaviour never runs out.
RunsOut ==
  /\ pair > 0
  /\ \/ near < pair /\ near < MaxPairs - 1 /\ near' = near + 1 /\ UNCHANGED <<over, ended>>
     \/ over < near /\ over' = over + 1 /\ UNCHANGED <<near, ended>>
     \/ ~ended /\ ended' = TRUE /\ UNCHANGED <<near, over>>
  /\ UNCHANGED <<pair, live, row, unsaved, cache, thread, faults, excused, parted, raced, vouched>>

prune ==
  /\ ended /\ row # None /\ row' = None
  /\ UNCHANGED <<gitlab, ended, unsaved, cache, thread, faults, excused, parted, raced, vouched>>

\* With the same SESSION_SECRET, or another.
Restart ==
  /\ Fault
  /\ thread' = [h \in Threads |-> Idle] /\ unsaved' = None /\ cache' = {}
  /\ row' \in {row, IF row = None THEN None ELSE 0}
  /\ excused' = (excused \/ row # pair)
  /\ UNCHANGED <<gitlab, ended, parted, raced, vouched>>

\* The user takes the application's authorization back.
RevokedByUser ==
  /\ live /\ Fault
  /\ live' = FALSE
  /\ UNCHANGED <<pair, near, over, row, ended, unsaved, cache, thread, excused, parted, raced, vouched>>

-----------------------------------------------------------------------------

Init ==
  /\ pair = 0 /\ live = FALSE /\ near = 0 /\ over = 0
  /\ row = None /\ ended = FALSE /\ unsaved = None /\ cache = {}
  /\ thread = [h \in Threads |-> Idle]
  /\ faults = 0 /\ excused = FALSE /\ parted = FALSE /\ raced = FALSE /\ vouched = FALSE

Next ==
  \/ Login \/ Renew \/ update \/ evict \/ RunsOut \/ prune \/ Restart \/ RevokedByUser
  \/ \E h \in Threads : ReadRow(h) \/ Held(h) \/ WriteBack(h) \/ destroy(h)
  \/ \E h \in Handlers : Begin(h) \/ Verify(h) \/ Store(h) \/ forget(h) \/ revoke(h) \/ EndSession(h)

Spec == Init /\ [][Next]_vars

-----------------------------------------------------------------------------
(* What must hold. *)

GrantType ==
  /\ pair \in 0 .. MaxPairs /\ near \in 0 .. pair /\ over \in 0 .. near
  /\ live \in BOOLEAN /\ ended \in BOOLEAN
  /\ row \in (0 .. pair) \cup {None} /\ unsaved \in (1 .. pair) \cup {None}
  /\ cache \subseteq 1 .. pair

Tasks ==
  [at : {"idle", "read", "held", "save", "destroy", "wait", "renew", "update", "verify", "store",
         "forget", "revoke", "delete", "delete revoked"},
   does : {"request", "logout", "renewal"}, got : 0 .. pair, tokens : 0 .. pair, late : BOOLEAN]

\* What a handler, or the renewal, may be doing.
Suits(h, t) ==
  /\ t.at = "idle" => t = Idle
  /\ IF h = Renewal
     THEN /\ t.at \in {"idle", "read", "held", "save", "destroy", "renew", "update"}
          /\ t.at # "idle" => t.does = "renewal"
     ELSE t.at \notin {"renew", "update"} /\ t.does # "renewal"
  /\ t.at \in {"wait", "verify", "store"} => t.does = "request"
  /\ t.at \in {"forget", "revoke", "delete", "delete revoked"} => t.does = "logout"
  /\ t.at \in {"save", "wait", "renew", "update", "verify", "store", "forget", "revoke"} => t.tokens # 0

ThreadType ==
  /\ thread \in [Threads -> Tasks]
  /\ \A h \in Threads :
       /\ Suits(h, thread[h])
       /\ thread[h].at = "wait" => thread[Renewal].at # "idle"

TypeOK ==
  /\ GrantType /\ ThreadType
  /\ faults \in 0 .. MaxFaults
  /\ excused \in BOOLEAN /\ parted \in BOOLEAN /\ raced \in BOOLEAN /\ vouched \in BOOLEAN

\* The pair that load would serve, or that the renewal is about to record, is
\* the newest: it is the only one GitLab still renews. Excused once GitLab's
\* answer was lost, the process restarted while only memory held the pair, a
\* session was ended whose row could not be deleted, or a write-back was
\* overtaken (update, destroy).
NewestKept ==
  row \notin {None, 0} /\ live /\ ~ended /\ ~excused =>
    \/ pair = IF unsaved # None THEN unsaved ELSE row
    \/ thread[Renewal].at = "update" /\ thread[Renewal].tokens = pair

\* However many requests find the tokens about to run out at once, nobody is
\* logged out over it: a session goes only by a logout, when its time is up,
\* when it cannot be unsealed, or when its grant is gone, bar the excuses
\* above (refresh).
EndsForCause ==
  [][row # None /\ row' = None =>
       \/ ended \/ row = 0 \/ ~live \/ excused
       \/ \E h \in Handlers : thread[h].at \in {"delete", "delete revoked"}]_vars

\* "Revoking them is what makes logging out mean the credential is gone": a
\* logout that got through leaves no live grant, unless a renewal, a write-back
\* or another logout went on beside it; and the identity behind the newest
\* access token is forgotten, unless a verification beside it, or after it,
\* remembered it anew. Only that one is promised: the identities of tokens
\* renewed since stay remembered until they run out (endSession). Nor does the
\* session come back, whatever was under way: a request that comes after the
\* row is gone is refused before it gets to any token or identity (load, save).
LoggedOutIsGone ==
  /\ parted /\ ~raced /\ ~excused => ~live /\ (pair \notin cache \/ vouched)
  /\ \A h \in Handlers : thread[h].late => thread[h].at \in {"idle", "read", "delete"}

=============================================================================
