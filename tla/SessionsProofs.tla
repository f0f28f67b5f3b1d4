---------------------------- MODULE SessionsProofs ----------------------------
(***************************************************************************)
(* Theorems about a browser session, for any number of handlers and token    *)
(* pairs, and any number of failed calls, restarts and revocations; and, in   *)
(* the last part, about the cache of identities that all sessions share.     *)
(***************************************************************************)
EXTENDS Sessions, IdentityCache, FiniteSetTheorems, SequenceTheorems, WellFoundedInduction, TLAPS

-----------------------------------------------------------------------------
(* The inductive invariant. *)

\* Before the login there is nothing.
Fresh ==
  pair = 0 =>
    /\ row = None /\ unsaved = None /\ cache = {} /\ ~parted
    /\ \A h \in Threads : thread[h] = Idle

\* The newest pair is what load would serve, or what the renewal is about to
\* record, unless the session is lost.
Lost     == row \in {None, 0} \/ ended \/ excused
Updating == thread[Renewal].at = "update"
Newest   == Lost \/ Updating \/ pair = IF unsaved # None THEN unsaved ELSE row

\* A row sealed under another secret, and only such a row, yields no tokens.
Unseals(t) ==
  /\ row = 0 => t.at \in {"idle", "read", "held", "destroy", "delete"}
  /\ t.at = "held" => (row = 0 => t.got = 0) /\ (t.got = 0 => row \in {None, 0})

\* The renewal works with the newest pair.
Renews(t) ==
  /\ t.at = "update" => t.tokens = pair
  /\ t.at = "held" => Lost \/ unsaved # None \/ t.got = pair
  /\ t.at \in {"save", "renew"} => Lost \/ t.tokens = pair
  /\ t.at = "destroy" => Lost \/ ~live

\* A logout beside which nothing changes the tokens deals with the newest pair:
\* it reads it, forgets its identity, revokes it.
Moot == raced \/ excused \/ ended
Parting(t) == t.does = "logout" /\ t.at \in {"held", "save", "forget", "revoke", "delete revoked"}
LogsOut(t) ==
  Parting(t) =>
    \/ Moot
    \/ /\ row # None /\ ~Updating
       /\ t.at = "held" => t.got = 0 \/ pair = IF unsaved # None THEN unsaved ELSE t.got
       /\ t.at \in {"save", "forget", "revoke"} => t.tokens = pair
       /\ t.at \in {"revoke", "delete revoked"} => pair \notin cache \/ vouched
       /\ t.at = "delete revoked" => ~live

\* A request that came after the row was gone finds none.
ComesLate(t) == t.late => row = None /\ pair > 0 /\ t.at \in {"read", "delete"}

Works(h) ==
  /\ Unseals(thread[h])
  /\ h = Renewal => Renews(thread[h])
  /\ h # Renewal => /\ thread[h].at = "destroy" => row \in {None, 0}
                    /\ LogsOut(thread[h]) /\ ComesLate(thread[h])

\* What a logout leaves.
Parted == parted => raced \/ excused \/ (~live /\ (pair \notin cache \/ vouched))

SessionsInv ==
  /\ TypeOK /\ Fresh /\ Newest /\ Parted
  /\ row = 0 => unsaved = None
  /\ \A h \in Threads : Works(h)

-----------------------------------------------------------------------------
(* Lemmas about the operators. *)

\* What the constants are.
LEMMA Parameters ==
  /\ MaxPairs \in Nat \ {0} /\ MaxFaults \in Nat /\ None \notin Nat /\ None \notin {0, 1}
  /\ Renewal \notin Handlers /\ Renewal \in Threads /\ Handlers \subseteq Threads
<1>1. 0 \in Nat /\ 1 \in Nat
  OBVIOUS
<1> QED BY <1>1, SessionsAssumption DEF Threads

\* What a thread is.
LEMMA ThreadFields ==
  ASSUME ThreadType, NEW h \in Threads
  PROVE  /\ thread[h] \in Tasks /\ DOMAIN thread = Threads
         /\ thread[h].got \in 0 .. pair /\ thread[h].tokens \in 0 .. pair
         /\ thread[h].late \in BOOLEAN
         /\ Suits(h, thread[h])
  BY DEF ThreadType, Tasks

\* Idle is a task.
LEMMA IdleTask ==
  /\ Idle.at = "idle" /\ Idle.does = "request" /\ Idle.got = 0 /\ Idle.tokens = 0 /\ ~ Idle.late
  /\ pair \in Nat => Idle \in Tasks
  /\ \A h : Suits(h, Idle)
  BY DEF Idle, Tasks, Suits

\* Threads keep their type as pairs are issued.
LEMMA TasksGrow ==
  ASSUME pair \in Nat, pair' = pair \/ pair' = pair + 1
  PROVE  Tasks \subseteq Tasks' /\ pair' \in Nat
<1>1. 0 .. pair \subseteq 0 .. pair' /\ pair' \in Nat
  OBVIOUS
<1> QED BY <1>1 DEF Tasks

\* A thread that goes on while the others stay where they are.
LEMMA PutTyped ==
  ASSUME TypeOK, NEW h \in Threads, NEW t, thread' = Put(h, t), pair' = pair \/ pair' = pair + 1,
         t \in Tasks', Suits(h, t), t.at # "wait",
         h = Renewal => t.at # "idle" \/ \A g \in Threads : thread[g].at # "wait"
  PROVE  ThreadType'
<1>1. pair \in Nat
  BY DEF TypeOK, GrantType
<1>2. thread \in [Threads -> Tasks] /\ Tasks \subseteq Tasks'
  BY <1>1, TasksGrow DEF TypeOK, ThreadType
<1>3. /\ thread' \in [Threads -> Tasks'] /\ thread'[h] = t
      /\ \A g \in Threads \ {h} : thread'[g] = thread[g]
  BY <1>2 DEF Put
<1>4. \A g \in Threads : Suits(g, thread'[g])
  BY <1>3 DEF TypeOK, ThreadType
<1>5. ASSUME NEW g \in Threads, thread'[g].at = "wait" PROVE thread'[Renewal].at # "idle"
  BY <1>3, <1>5, Parameters DEF TypeOK, ThreadType
<1> QED BY <1>3, <1>4, <1>5 DEF ThreadType, Suits

\* How a handler that waited, or a request, goes on.
Served(g, before, after) ==
  /\ before.does = "request"
  /\ \/ after = Idle
     \/ after.at \in {"verify", "wait"} /\ after.does = "request" /\ after.late = before.late

\* Everyone waiting gets the outcome of the renewal, which ends.
LEMMA SharedMoves ==
  ASSUME TypeOK, NEW outcome, NEW p, outcome = "ok" => p \in 1 .. pair,
         pair' = pair \/ pair' = pair + 1, thread' = Shared(outcome, p)
  PROVE  /\ ThreadType' /\ thread'[Renewal] = Idle
         /\ \A g \in Handlers :
              \/ thread'[g] = thread[g]
              \/ thread[g].at = "wait" /\ Served(g, thread[g], thread'[g]) /\ thread'[g].at # "wait"
<1>1. pair \in Nat /\ pair' \in Nat /\ Tasks \subseteq Tasks'
  BY TasksGrow DEF TypeOK, GrantType
<1>2. /\ DOMAIN thread' = Threads /\ thread' = [g \in Threads |-> thread'[g]]
      /\ thread'[Renewal] = Idle
  BY Parameters DEF Shared
<1>3. ASSUME NEW g \in Handlers
      PROVE  /\ thread'[g] \in Tasks' /\ Suits(g, thread'[g]) /\ thread'[g].at # "wait"
             /\ \/ thread'[g] = thread[g]
                \/ thread[g].at = "wait" /\ Served(g, thread[g], thread'[g])
  <2>1. thread[g] \in Tasks /\ Suits(g, thread[g]) /\ g # Renewal /\ g \in Threads
    BY <1>3, ThreadFields, Parameters DEF TypeOK
  <2>2. CASE thread[g].at # "wait"
    <3>1. thread'[g] = thread[g]
      BY <2>1, <2>2 DEF Shared
    <3> QED BY <1>1, <2>1, <2>2, <3>1
  <2>3. CASE thread[g].at = "wait" /\ outcome = "ok"
    <3> DEFINE t == [thread[g] EXCEPT !.at = "verify", !.tokens = p]
    <3>1. thread'[g] = t
      BY <2>1, <2>3 DEF Shared
    <3>2. t.at = "verify" /\ t.does = thread[g].does /\ t.tokens = p /\ t.late = thread[g].late
      BY <2>1 DEF Tasks
    <3>3. t \in Tasks' /\ p # 0
      <4>1. p \in 0 .. pair /\ p # 0
        BY <1>1, <2>3
      <4> QED BY <1>1, <2>1, <4>1 DEF Tasks
    <3> HIDE DEF t
    <3> QED BY <2>1, <2>3, <3>1, <3>2, <3>3, <1>1 DEF Suits, Served
  <2>4. CASE thread[g].at = "wait" /\ outcome # "ok" /\ (outcome = "none" \/ Over(thread[g].tokens))
    <3>1. thread'[g] = Idle
      BY <2>1, <2>4 DEF Shared
    <3> QED BY <1>1, <2>1, <2>4, <3>1, IdleTask DEF Suits, Served
  <2>5. CASE thread[g].at = "wait" /\ outcome # "ok" /\ ~ (outcome = "none" \/ Over(thread[g].tokens))
    <3> DEFINE t == [thread[g] EXCEPT !.at = "verify"]
    <3>1. thread'[g] = t
      BY <2>1, <2>5 DEF Shared
    <3>2. /\ t.at = "verify" /\ t.does = thread[g].does /\ t.tokens = thread[g].tokens
          /\ t.late = thread[g].late /\ t \in Tasks
      BY <2>1 DEF Tasks
    <3> HIDE DEF t
    <3> QED BY <2>1, <2>5, <3>1, <3>2, <1>1 DEF Suits, Served
  <2> QED BY <2>2, <2>3, <2>4, <2>5
<1>4. Idle \in Tasks'
  BY <1>1, IdleTask
<1>5. \A g \in Threads : thread'[g] \in Tasks' /\ Suits(g, thread'[g]) /\ thread'[g].at # "wait"
  BY <1>2, <1>3, <1>4, IdleTask DEF Threads
<1>6. thread' \in [Threads -> Tasks']
  BY <1>2, <1>5
<1>7. ThreadType'
  BY <1>5, <1>6 DEF ThreadType, Suits
<1> QED BY <1>2, <1>3, <1>7

\* What follows load.
LEMMA LoadedMoves ==
  ASSUME TypeOK, NEW h \in Threads, thread[h].at \in {"read", "held", "save", "destroy"},
         NEW outcome, NEW p \in 0 .. pair, outcome = "ok" => p # 0,
         pair' = pair, thread' = Loaded(h, outcome, p)
  PROVE  /\ ThreadType'
         /\ \A g \in Handlers :
              \/ g # h /\ thread'[g] = thread[g]
              \/ g # h /\ thread[g].at = "wait" /\ Served(g, thread[g], thread'[g])
              \/ /\ g = h /\ Served(g, thread[g], thread'[g])
                 /\ outcome = "ok" \/ thread'[g] = Idle
              \/ /\ g = h /\ thread[g].does = "logout" /\ thread'[g].does = "logout"
                 /\ thread'[g].late = thread[g].late
                 /\ thread'[g].at = IF outcome = "ok" THEN "forget" ELSE "delete"
                 /\ thread'[g].tokens = p
         /\ h # Renewal => \/ thread'[Renewal] = thread[Renewal]
                           \/ thread[Renewal].at = "idle" /\ thread'[Renewal].at = "read"
         /\ h = Renewal => \/ thread'[Renewal].at = "idle"
                           \/ /\ outcome = "ok" /\ thread'[Renewal].at = "renew"
                              /\ thread'[Renewal].tokens = p
<1>1. pair \in Nat /\ Tasks' = Tasks
  BY DEF TypeOK, GrantType, Tasks
<1>2. thread[h] \in Tasks /\ Suits(h, thread[h]) /\ DOMAIN thread = Threads
  BY ThreadFields DEF TypeOK
<1>3. \A g \in Handlers : g \in Threads /\ g # Renewal
  BY Parameters
<1> DEFINE to(a) == [thread[h] EXCEPT !.at = a, !.got = 0, !.tokens = p]
<1>4. ASSUME NEW a \in {"verify", "wait", "renew", "forget", "delete"}
      PROVE  /\ to(a) \in Tasks /\ to(a).at = a /\ to(a).does = thread[h].does
             /\ to(a).tokens = p /\ to(a).late = thread[h].late
  <2>1. 0 \in 0 .. pair
    BY <1>1
  <2> QED BY <1>2, <1>4, <2>1 DEF Tasks
<1>5. h = Renewal <=> thread[h].does = "renewal"
  BY <1>2 DEF Suits
<1>6. CASE thread[h].does = "request" /\ outcome = "ok"
  <2>1. h \in Handlers
    BY <1>5, <1>6 DEF Threads
  <2>2. thread' = Wanted(h, p)
    BY <1>6 DEF Loaded
  <2>3. CASE ~ Near(p)
    <3>1. thread' = Put(h, to("verify"))
      BY <2>2, <2>3 DEF Wanted
    <3> HIDE DEF to
    <3>2. Suits(h, to("verify"))
      BY <1>3, <1>4, <1>6, <2>1 DEF Suits
    <3>3. ThreadType'
      BY <1>1, <1>3, <1>4, <2>1, <3>1, <3>2, PutTyped
    <3>4. /\ thread'[h] = to("verify") /\ \A g \in Threads \ {h} : thread'[g] = thread[g]
      BY <1>2, <3>1 DEF Put
    <3> QED BY <1>3, <1>4, <1>6, <2>1, <3>3, <3>4, Parameters DEF Served
  <2>4. CASE Near(p)
    <3> DEFINE r == [Idle EXCEPT !.at = "read", !.does = "renewal"]
               n == IF thread[Renewal].at = "idle" THEN r ELSE thread[Renewal]
    <3>1. thread' = [Put(h, to("wait")) EXCEPT ![Renewal] = IF @.at = "idle" THEN r ELSE @]
      BY <2>2, <2>4 DEF Wanted
    <3>2. /\ r \in Tasks /\ r.at = "read" /\ r.does = "renewal"
      <4>1. 0 \in 0 .. pair
        BY <1>1
      <4> QED BY <4>1 DEF Idle, Tasks
    <3> HIDE DEF to, r
    <3>3. /\ DOMAIN thread' = Threads /\ thread' = [g \in Threads |-> thread'[g]]
          /\ thread'[Renewal] = n /\ thread'[h] = to("wait")
          /\ \A g \in Threads \ {h, Renewal} : thread'[g] = thread[g]
      BY <1>2, <1>3, <2>1, <3>1, Parameters DEF Put
    <3>4. n \in Tasks /\ n.at # "idle" /\ Suits(Renewal, n)
      BY <3>2, ThreadFields, Parameters DEF TypeOK, Suits
    <3>5. Suits(h, to("wait"))
      BY <1>3, <1>4, <1>6, <2>1 DEF Suits
    <3>6. ASSUME NEW g \in Threads PROVE thread'[g] \in Tasks /\ Suits(g, thread'[g])
      BY <1>4, <3>3, <3>4, <3>5, ThreadFields DEF TypeOK
    <3>7. ThreadType'
      <4>1. Tasks' = Tasks
        BY <1>1 DEF Tasks
      <4>2. thread' \in [Threads -> Tasks']
        BY <3>3, <3>6, <4>1
      <4>3. \A g \in Threads : Suits(g, thread'[g])
        BY <3>6
      <4> QED BY <3>3, <3>4, <3>6, <4>2, <4>3 DEF ThreadType
    <3>8. thread'[Renewal] = thread[Renewal] \/ (thread[Renewal].at = "idle" /\ thread'[Renewal].at = "read")
      BY <3>2, <3>3
    <3> QED BY <1>3, <1>4, <1>6, <2>1, <3>3, <3>7, <3>8 DEF Served
  <2> QED BY <2>3, <2>4
<1>7. CASE thread[h].does = "request" /\ outcome # "ok"
  <2>1. h \in Handlers
    BY <1>5, <1>7 DEF Threads
  <2>2. thread' = Put(h, Idle)
    BY <1>7 DEF Loaded
  <2>3. ThreadType'
    BY <1>1, <1>3, <2>1, <2>2, IdleTask, PutTyped
  <2>4. thread'[h] = Idle /\ \A g \in Threads \ {h} : thread'[g] = thread[g]
    BY <1>2, <2>2 DEF Put
  <2> QED BY <1>3, <1>7, <2>1, <2>3, <2>4, Parameters DEF Served
<1>8. CASE h = Renewal /\ outcome = "ok" /\ Near(p)
  <2>1. thread' = Put(h, to("renew"))
    BY <1>5, <1>8 DEF Loaded
  <2> HIDE DEF to
  <2>2. Suits(h, to("renew"))
    BY <1>4, <1>5, <1>8 DEF Suits
  <2>3. ThreadType'
    BY <1>1, <1>4, <2>1, <2>2, PutTyped
  <2>4. thread'[h] = to("renew") /\ \A g \in Threads \ {h} : thread'[g] = thread[g]
    BY <1>2, <2>1 DEF Put
  <2> QED BY <1>3, <1>4, <1>8, <2>3, <2>4
<1>9. CASE h = Renewal /\ ~ (outcome = "ok" /\ Near(p))
  <2>1. thread' = Shared(outcome, p)
    BY <1>5, <1>9 DEF Loaded
  <2>2. outcome = "ok" => p \in 1 .. pair
    BY <1>1
  <2>3. /\ ThreadType' /\ thread'[Renewal] = Idle
        /\ \A g \in Handlers :
              \/ thread'[g] = thread[g]
              \/ thread[g].at = "wait" /\ Served(g, thread[g], thread'[g])
    BY <2>1, <2>2, SharedMoves
  <2> QED BY <1>3, <1>9, <2>3, IdleTask
<1>10. CASE h # Renewal /\ thread[h].does = "logout"
  <2> DEFINE a == IF outcome = "ok" THEN "forget" ELSE "delete"
  <2>1. thread' = Put(h, to(a))
    BY <1>10 DEF Loaded
  <2>2. a \in {"forget", "delete"} /\ (a = "forget" <=> outcome = "ok")
    OBVIOUS
  <2> HIDE DEF to, a
  <2>3. Suits(h, to(a))
    BY <1>4, <1>10, <2>2 DEF Suits
  <2>4. ThreadType'
    BY <1>1, <1>4, <1>10, <2>1, <2>2, <2>3, PutTyped
  <2>5. thread'[h] = to(a) /\ \A g \in Threads \ {h} : thread'[g] = thread[g]
    BY <1>2, <2>1 DEF Put
  <2> QED BY <1>3, <1>4, <1>10, <2>2, <2>4, <2>5, Parameters
<1> QED BY <1>2, <1>5, <1>6, <1>7, <1>8, <1>9, <1>10 DEF Suits, Tasks

-----------------------------------------------------------------------------
(* Types. *)

\* One more fault stays within their bound.
LEMMA FaultCounts ==
  ASSUME TypeOK, Fault \/ UNCHANGED faults
  PROVE  faults' \in 0 .. MaxFaults
  BY Parameters DEF TypeOK, Fault

\* The grant, the row and what is held in memory.
LEMMA GrantKept ==
  ASSUME GrantType, UNCHANGED <<pair, near, over>>, live' \in BOOLEAN, ended' \in BOOLEAN,
         row' \in (0 .. pair) \cup {None}, unsaved' \in (1 .. pair) \cup {None},
         cache' \subseteq 1 .. pair
  PROVE  GrantType'
  BY DEF GrantType

\* The history of a behaviour only ever adds to these.
LEMMA FlagsTyped ==
  ASSUME TypeOK, [Next]_vars
  PROVE  /\ excused' \in BOOLEAN /\ parted' \in BOOLEAN /\ raced' \in BOOLEAN
         /\ (excused => excused') /\ (parted => parted') /\ (raced => raced') /\ (ended => ended')
         /\ vouched' \in BOOLEAN /\ (vouched => vouched')
<1>1. /\ vouched \in BOOLEAN /\ excused \in BOOLEAN /\ parted \in BOOLEAN /\ raced \in BOOLEAN
  BY DEF TypeOK
<1>2. excused' = excused \/ excused' = TRUE \/ \E b : excused' = (excused \/ b)
  BY DEF Next, Login, Renew, update, evict, RunsOut, prune, Restart, RevokedByUser, ReadRow, Held,
         WriteBack, destroy, Begin, Verify, Store, forget, revoke, EndSession, vars, gitlab
<1>3. parted' = parted \/ \E b : parted' = (parted \/ b)
  BY DEF Next, Login, Renew, update, evict, RunsOut, prune, Restart, RevokedByUser, ReadRow, Held,
         WriteBack, destroy, Begin, Verify, Store, forget, revoke, EndSession, vars, gitlab
<1>4. raced' = raced \/ \E b : raced' = (raced \/ b)
  BY DEF Next, Login, Renew, Issue, update, evict, RunsOut, prune, Restart, RevokedByUser, ReadRow, Held,
         WriteBack, destroy, Begin, Verify, Store, forget, revoke, EndSession, vars, gitlab
<1>5. ended' = ended \/ ended' = TRUE
  BY DEF Next, Login, Renew, update, evict, RunsOut, prune, Restart, RevokedByUser, ReadRow, Held,
         WriteBack, destroy, Begin, Verify, Store, forget, revoke, EndSession, vars, gitlab
<1>6. excused' \in BOOLEAN /\ (excused => excused')
  BY <1>1, <1>2, Zenon
<1>7. parted' \in BOOLEAN /\ (parted => parted')
  BY <1>1, <1>3, Zenon
<1>8. raced' \in BOOLEAN /\ (raced => raced')
  BY <1>1, <1>4, Zenon
<1>9. vouched' = vouched \/ \E b : vouched' = (vouched \/ b)
  BY DEF Next, Login, Renew, update, evict, RunsOut, prune, Restart, RevokedByUser, ReadRow, Held,
         WriteBack, destroy, Begin, Verify, Store, forget, revoke, EndSession, vars, gitlab
<1>10. vouched' \in BOOLEAN /\ (vouched => vouched')
  BY <1>1, <1>9, Zenon
<1> QED BY <1>5, <1>6, <1>7, <1>8, <1>10

\* The start is well typed.
LEMMA InitTyped == Init => TypeOK
<1> SUFFICES ASSUME Init PROVE TypeOK
  OBVIOUS
<1>1. GrantType
  <2>1. live \in BOOLEAN /\ ended \in BOOLEAN
    BY Zenon DEF Init
  <2> QED BY <2>1, Parameters DEF Init, GrantType
<1>2. ThreadType
  <2>1. thread = [h \in Threads |-> Idle] /\ pair \in Nat
    BY DEF Init
  <2> QED BY <2>1, IdleTask DEF ThreadType
<1>3. faults \in 0 .. MaxFaults
  BY Parameters DEF Init
<1>4. excused \in BOOLEAN /\ parted \in BOOLEAN /\ raced \in BOOLEAN /\ vouched \in BOOLEAN
  BY Zenon DEF Init
<1> QED BY <1>1, <1>2, <1>3, <1>4 DEF TypeOK

\* The grant and the row are typed by each action.
LEMMA GrantTyped == ASSUME TypeOK, [Next]_vars PROVE GrantType'
<1>1. /\ pair \in 0 .. MaxPairs /\ near \in 0 .. pair /\ over \in 0 .. near
      /\ live \in BOOLEAN /\ ended \in BOOLEAN
      /\ row \in (0 .. pair) \cup {None} /\ unsaved \in (1 .. pair) \cup {None}
      /\ cache \subseteq 1 .. pair
  BY DEF TypeOK, GrantType
<1>2. ASSUME NEW h \in Threads
      PROVE  /\ thread[h].tokens \in 0 .. pair
             /\ thread[h].at \in {"save", "update", "store"} => thread[h].tokens \in 1 .. pair
  <2>1. thread[h].tokens \in 0 .. pair /\ Suits(h, thread[h])
    BY ThreadFields DEF TypeOK
  <2>2. thread[h].at \in {"save", "update", "store"} => thread[h].tokens # 0
    BY <2>1 DEF Suits
  <2>3. pair \in Nat
    BY <1>1
  <2> QED BY <2>1, <2>2, <2>3
<1>3. CASE Login
  BY <1>1, <1>3, Parameters DEF Login, GrantType
<1>4. CASE Renew
  <2>1. /\ pair' = pair \/ (pair < MaxPairs /\ pair' = pair + 1)
        /\ UNCHANGED <<live, near, over, row, ended, unsaved, cache>>
    BY <1>4 DEF Renew, Issue
  <2>2. CASE pair' = pair
    BY <1>1, <2>1, <2>2 DEF GrantType
  <2>3. CASE pair < MaxPairs /\ pair' = pair + 1
    <3>1. pair' \in 0 .. MaxPairs /\ 0 .. pair \subseteq 0 .. pair' /\ 1 .. pair \subseteq 1 .. pair'
      BY <1>1, <2>3, Parameters
    <3> QED BY <1>1, <2>1, <3>1 DEF GrantType
  <2> QED BY <2>1, <2>2, <2>3
<1>5. CASE update
  <2>1. /\ thread[Renewal].tokens \in 1 .. pair
        /\ row' \in {row, None, thread[Renewal].tokens}
        /\ unsaved' \in {None, thread[Renewal].tokens}
        /\ UNCHANGED <<gitlab, ended, cache>>
    BY <1>2, <1>5, Parameters DEF update, saved
  <2> QED BY <1>1, <2>1 DEF GrantType, gitlab
<1>6. CASE evict \/ RunsOut \/ prune \/ Restart \/ RevokedByUser \/ UNCHANGED vars
  <2>1. CASE evict
    BY <1>1, <2>1 DEF evict, GrantType, gitlab
  <2>2. CASE RunsOut
    <3>1. /\ \/ near' = near + 1 /\ near < pair /\ UNCHANGED <<over, ended>>
             \/ over' = over + 1 /\ over < near /\ UNCHANGED <<near, ended>>
             \/ ended' = TRUE /\ UNCHANGED <<near, over>>
          /\ UNCHANGED <<pair, live, row, unsaved, cache>>
      BY <2>2 DEF RunsOut
    <3>2. ended' \in BOOLEAN /\ live' \in BOOLEAN
      BY <1>1, <3>1, Zenon
    <3>3. near' \in 0 .. pair /\ over' \in 0 .. near'
      BY <1>1, <3>1
    <3> QED BY <1>1, <3>1, <3>2, <3>3 DEF GrantType
  <2>3. CASE prune
    BY <1>1, <2>3 DEF prune, GrantType, gitlab
  <2>4. CASE Restart
    BY <1>1, <2>4 DEF Restart, GrantType, gitlab
  <2>5. CASE RevokedByUser
    BY <1>1, <2>5 DEF RevokedByUser, GrantType
  <2>6. CASE UNCHANGED vars
    BY <1>1, <2>6 DEF vars, gitlab, GrantType
  <2> QED BY <1>6, <2>1, <2>2, <2>3, <2>4, <2>5, <2>6
<1>7. ASSUME NEW h \in Threads, ReadRow(h) \/ Held(h) \/ WriteBack(h) \/ destroy(h)
      PROVE  GrantType'
  <2>1. /\ UNCHANGED gitlab /\ ended' = ended /\ cache' = cache
        /\ \/ row' \in {row, None}
           \/ thread[h].at = "save" /\ row' \in {row, None, thread[h].tokens}
        /\ unsaved' \in {unsaved, None}
    BY <1>7 DEF ReadRow, Held, WriteBack, destroy, saved
  <2> QED BY <1>1, <1>2, <2>1 DEF GrantType, gitlab
<1>8. ASSUME NEW h \in Handlers,
             Begin(h) \/ Verify(h) \/ Store(h) \/ forget(h) \/ revoke(h) \/ EndSession(h)
      PROVE  GrantType'
  <2>1. /\ UNCHANGED <<pair, near, over>> /\ ended' = ended
        /\ row' \in {row, None} /\ unsaved' \in {unsaved, None}
    BY <1>8 DEF Begin, Verify, Store, forget, revoke, EndSession, gitlab
  <2>2. live' \in BOOLEAN
    <3>1. live' = live \/ \E b : live' = (live /\ b)
      BY <1>8 DEF Begin, Verify, Store, forget, revoke, EndSession, gitlab
    <3> QED BY <1>1, <3>1, Zenon
  <2>3. cache' \subseteq 1 .. pair
    <3>1. \/ cache' \subseteq cache
          \/ thread[h].at = "store" /\ cache' = cache \cup {thread[h].tokens}
      BY <1>8 DEF Begin, Verify, Store, forget, revoke, EndSession
    <3>2. thread[h].at = "store" => thread[h].tokens \in 1 .. pair
      BY <1>2, <1>8, Parameters
    <3> QED BY <1>1, <3>1, <3>2
  <2> QED BY <1>1, <2>1, <2>2, <2>3 DEF GrantType
<1> QED BY <1>3, <1>4, <1>5, <1>6, <1>7, <1>8 DEF Next

-----------------------------------------------------------------------------
(* The invariant. *)

\* Whoever does something does so after the login.
LEMMA LoggedIn ==
  ASSUME SessionsInv, NEW h \in Threads, thread[h].at # "idle"
  PROVE  pair > 0 /\ pair # 0 /\ pair \in Nat
<1>1. pair \in 0 .. MaxPairs
  BY DEF SessionsInv, TypeOK, GrantType
<1>2. pair # 0
  BY IdleTask DEF SessionsInv, Fresh
<1> QED BY <1>1, <1>2, Parameters

\* The row goes, and a sealed one never comes back.
RowGoes == (row = None => row' = None) /\ (row = 0 => row' \in {None, 0}) /\ (row' = 0 => row = 0)

\* A thread that stays where it is, as long as what it relies on does.
LEMMA Untouched ==
  ASSUME SessionsInv, [Next]_vars, RowGoes, NEW g \in Threads, thread'[g] = thread[g],
         pair' = pair \/ pair' = pair + 1, live' => live,
         g = Renewal => /\ pair' = pair /\ (Lost => Lost')
                        /\ thread[g].at = "held" => Lost' \/ unsaved' # None \/ thread[g].got = pair,
         g # Renewal /\ Parting(thread[g]) =>
           \/ Moot'
           \/ /\ pair' = pair /\ row' = row /\ unsaved' = unsaved /\ ~Updating'
              /\ cache' \subseteq cache \/ vouched'
  PROVE  Works(g)'
<1>1. Works(g) /\ pair \in Nat
  BY DEF SessionsInv, TypeOK, GrantType
<1>2. (Moot => Moot') /\ (vouched => vouched')
  BY FlagsTyped DEF SessionsInv, Moot
<1>3. Unseals(thread[g])'
  BY <1>1 DEF Works, Unseals, RowGoes
<1>4. g = Renewal => Renews(thread[g])'
  BY <1>1 DEF Works, Renews
<1>5. g # Renewal => LogsOut(thread[g])'
  <2> SUFFICES ASSUME g # Renewal, Parting(thread[g]), ~Moot' PROVE LogsOut(thread[g])'
    BY DEF LogsOut, Parting
  <2>1. /\ pair' = pair /\ row' = row /\ unsaved' = unsaved /\ ~Updating'
        /\ cache' \subseteq cache \/ vouched'
        /\ ~ Moot /\ LogsOut(thread[g])
    BY <1>1, <1>2 DEF Works
  <2>2. pair \notin cache \/ vouched => pair' \notin cache' \/ vouched'
    BY <1>2, <2>1
  <2> QED BY <2>1, <2>2 DEF LogsOut
<1>6. g # Renewal => ComesLate(thread[g])' /\ (thread'[g].at = "destroy" => row' \in {None, 0})
  BY <1>1 DEF Works, ComesLate, RowGoes
<1> QED BY <1>3, <1>4, <1>5, <1>6 DEF Works

\* A thread about which there is nothing to say.
LEMMA Plain ==
  ASSUME NEW g \in Threads, thread'[g].at \in {"idle", "read", "verify", "wait", "store"},
         ~ thread'[g].late, row' = 0 => thread'[g].at \in {"idle", "read"}
  PROVE  Works(g)'
<1>1. Unseals(thread[g])' /\ Renews(thread[g])' /\ ComesLate(thread[g])'
  BY DEF Unseals, Renews, ComesLate
<1>2. LogsOut(thread[g])'
  BY DEF LogsOut, Parting
<1> QED BY <1>1, <1>2 DEF Works

\* What follows load, once it did what it does to the row and to memory.
LEMMA LoadedKeeps ==
  ASSUME SessionsInv, [Next]_vars, RowGoes, NEW h \in Threads,
         thread[h].at \in {"read", "held", "save", "destroy"},
         NEW outcome, NEW p \in 0 .. pair, thread' = Loaded(h, outcome, p),
         outcome = "ok" => p # 0 /\ row' # 0 /\ thread[h].at \in {"held", "save"},
         pair' = pair, live' = live, cache' = cache, parted' = parted, faults' \in 0 .. MaxFaults,
         row' = 0 => unsaved' = None, Lost => Lost',
         Lost' \/ Updating' \/ pair = IF unsaved' # None THEN unsaved' ELSE row',
         thread[Renewal].at = "held" /\ h # Renewal =>
           Lost' \/ unsaved' # None \/ thread[Renewal].got = pair,
         outcome = "ok" /\ h = Renewal => Lost' \/ p = pair,
         \A g \in Handlers \ {h} : Parting(thread[g]) => Moot' \/ (row' = row /\ unsaved' = unsaved),
         outcome = "ok" /\ Parting(thread[h]) => Moot' \/ (row' # None /\ ~Updating /\ p = pair)
  PROVE  SessionsInv'
<1>1. /\ TypeOK /\ \A g \in Threads : Works(g) /\ thread[g] \in Tasks /\ Suits(g, thread[g])
  BY ThreadFields DEF SessionsInv, TypeOK
<1>2. /\ ThreadType'
      /\ \A g \in Handlers :
           \/ g # h /\ thread'[g] = thread[g]
           \/ g # h /\ thread[g].at = "wait" /\ Served(g, thread[g], thread'[g])
           \/ /\ g = h /\ Served(g, thread[g], thread'[g])
              /\ outcome = "ok" \/ thread'[g] = Idle
           \/ /\ g = h /\ thread[g].does = "logout" /\ thread'[g].does = "logout"
              /\ thread'[g].late = thread[g].late
              /\ thread'[g].at = IF outcome = "ok" THEN "forget" ELSE "delete"
              /\ thread'[g].tokens = p
      /\ h # Renewal => \/ thread'[Renewal] = thread[Renewal]
                        \/ thread[Renewal].at = "idle" /\ thread'[Renewal].at = "read"
      /\ h = Renewal => \/ thread'[Renewal].at = "idle"
                        \/ /\ outcome = "ok" /\ thread'[Renewal].at = "renew"
                           /\ thread'[Renewal].tokens = p
  BY <1>1, LoadedMoves
<1>3. pair > 0 /\ pair # 0
  BY LoggedIn
<1>4. TypeOK'
  BY <1>1, <1>2, FlagsTyped, GrantTyped DEF TypeOK
<1>5. Updating' => Updating
  BY <1>2 DEF Updating
<1>6. Moot => Moot'
  BY <1>1, FlagsTyped DEF Moot
<1>7. ASSUME NEW g \in Handlers PROVE Works(g)'
  <2>0. g \in Threads /\ g # Renewal /\ Works(g) /\ Suits(g, thread[g])
    BY <1>1, Parameters
  <2>1. CASE g # h /\ thread'[g] = thread[g]
    <3>1. Parting(thread[g]) => \/ Moot'
                                \/ row' = row /\ unsaved' = unsaved /\ ~Updating'
      <4> SUFFICES ASSUME Parting(thread[g]), ~ Moot' PROVE row' = row /\ unsaved' = unsaved /\ ~Updating'
        OBVIOUS
      <4>1. ~ Updating
        BY <1>6, <2>0 DEF Works, LogsOut
      <4> QED BY <1>5, <2>1, <4>1
    <3> QED BY <2>0, <2>1, <3>1, Untouched
  <2>2. CASE /\ Served(g, thread[g], thread'[g])
             /\ \/ thread[g].at = "wait"
                \/ g = h /\ (outcome = "ok" \/ thread'[g] = Idle)
    <3>1. thread'[g].at \in {"idle", "verify", "wait"}
      BY <2>2, IdleTask DEF Served
    <3>2. ~ thread'[g].late
      <4>1. thread[g].late => thread[g].at \in {"read", "delete"}
        BY <2>0 DEF Works, ComesLate
      <4> QED BY <2>2, <4>1, IdleTask DEF Served
    <3>3. row' = 0 => thread'[g].at = "idle"
      <4>1. row' = 0 => thread[g].at # "wait"
        BY <2>0 DEF Works, Unseals, RowGoes
      <4> QED BY <2>2, <4>1, IdleTask
    <3> QED BY <2>0, <3>1, <3>2, <3>3, Plain
  <2>3. CASE /\ g = h /\ thread[g].does = "logout" /\ thread'[g].does = "logout"
             /\ thread'[g].late = thread[g].late
             /\ thread'[g].at = IF outcome = "ok" THEN "forget" ELSE "delete"
             /\ thread'[g].tokens = p
    <3>1. Unseals(thread[g])'
      BY <2>3 DEF Unseals
    <3>2. ComesLate(thread[g])'
      <4>1. ComesLate(thread[g])
        BY <2>0 DEF Works
      <4> QED BY <1>3, <2>3, <4>1 DEF ComesLate, RowGoes
    <3>3. LogsOut(thread[g])'
      <4>1. outcome = "ok" => Parting(thread[g])
        BY <2>3 DEF Parting, Suits
      <4> QED BY <1>5, <2>3, <4>1 DEF LogsOut, Parting
    <3> QED BY <2>0, <2>3, <3>1, <3>2, <3>3 DEF Works
  <2> QED BY <1>2, <2>1, <2>2, <2>3
<1>8. Works(Renewal)'
  <2>1. CASE h # Renewal /\ thread'[Renewal] = thread[Renewal]
    BY <2>1, Untouched, Parameters
  <2>2. CASE \/ h # Renewal /\ thread'[Renewal].at = "read"
             \/ h = Renewal /\ thread'[Renewal].at = "idle"
    <3>1. Unseals(thread[Renewal])' /\ Renews(thread[Renewal])'
      BY <2>2 DEF Unseals, Renews
    <3> QED BY <3>1 DEF Works
  <2>3. CASE h = Renewal /\ outcome = "ok" /\ thread'[Renewal].at = "renew" /\ thread'[Renewal].tokens = p
    <3>1. Unseals(thread[Renewal])' /\ Renews(thread[Renewal])'
      BY <2>3 DEF Unseals, Renews
    <3> QED BY <3>1 DEF Works
  <2> QED BY <1>2, <2>1, <2>2, <2>3
<1>9. Parted'
  BY <1>1, FlagsTyped DEF SessionsInv, Parted
<1>10. Newest' /\ Fresh'
  BY <1>3 DEF Newest, Fresh
<1> QED BY <1>4, <1>7, <1>8, <1>9, <1>10 DEF SessionsInv, Threads

\* A thread goes on by itself, while the others stay where they are.
LEMMA Moves ==
  ASSUME SessionsInv, [Next]_vars, RowGoes, NEW h \in Threads, NEW t \in Tasks',
         thread' = Put(h, t), Suits(h, t), t.at # "wait", h = Renewal => t.at # "idle",
         pair' = pair \/ (h = Renewal /\ pair' = pair + 1), pair > 0, live' => live,
         faults' \in 0 .. MaxFaults, row' = 0 => unsaved' = None,
         Newest', Parted', Works(h)',
         h # Renewal => /\ Lost => Lost'
                        /\ thread[Renewal].at = "held" =>
                             Lost' \/ unsaved' # None \/ thread[Renewal].got = pair,
         \A g \in Handlers \ {h} : Parting(thread[g]) =>
           \/ Moot'
           \/ /\ pair' = pair /\ row' = row /\ unsaved' = unsaved
              /\ cache' \subseteq cache \/ vouched'
              /\ h = Renewal => t.at # "update"
  PROVE  SessionsInv'
<1>1. /\ TypeOK /\ \A g \in Threads : Works(g)
      /\ DOMAIN thread = Threads /\ pair \in Nat
  BY ThreadFields DEF SessionsInv, TypeOK, GrantType
<1>2. thread'[h] = t /\ \A g \in Threads \ {h} : thread'[g] = thread[g]
  BY <1>1 DEF Put
<1>3. TypeOK'
  <2>1. ThreadType'
    BY <1>1, PutTyped
  <2> QED BY <1>1, <2>1, FlagsTyped, GrantTyped DEF TypeOK
<1>4. Moot => Moot'
  BY <1>1, FlagsTyped DEF Moot
<1>5. ASSUME NEW g \in Threads \ {h} PROVE Works(g)'
  <2>1. thread'[g] = thread[g] /\ Works(g)
    BY <1>1, <1>2
  <2>2. CASE g = Renewal
    BY <1>5, <2>1, <2>2, Untouched
  <2>3. CASE g # Renewal
    <3>1. g \in Handlers \ {h}
      BY <1>5, <2>3 DEF Threads
    <3>2. ASSUME Parting(thread[g]), ~ Moot' PROVE ~ Updating'
      <4>1. ~ Updating
        BY <1>4, <2>1, <2>3, <3>2 DEF Works, LogsOut
      <4> QED BY <1>2, <3>1, <3>2, <4>1, Parameters DEF Updating
    <3>3. Parting(thread[g]) =>
            \/ Moot'
            \/ /\ pair' = pair /\ row' = row /\ unsaved' = unsaved /\ ~Updating'
               /\ cache' \subseteq cache \/ vouched'
      BY <3>1, <3>2
    <3> QED BY <2>1, <2>3, <3>3, Untouched
  <2> QED BY <2>2, <2>3
<1>6. Fresh'
  <2>1. pair' # 0
    BY <1>1
  <2> QED BY <2>1 DEF Fresh
<1> QED BY <1>3, <1>5, <1>6 DEF SessionsInv

\* No thread moves.
LEMMA Stays ==
  ASSUME SessionsInv, [Next]_vars, RowGoes, UNCHANGED <<pair, unsaved, thread>>, live' => live,
         cache' \subseteq cache, parted' = parted, row' = row \/ (ended /\ row' = None),
         faults' \in 0 .. MaxFaults, row' = 0 => unsaved' = None
  PROVE  SessionsInv'
<1>1. /\ TypeOK /\ Fresh /\ Newest /\ Parted /\ \A g \in Threads : Works(g)
      /\ pair \in Nat
  BY DEF SessionsInv, TypeOK, GrantType
<1>2. (excused => excused') /\ (raced => raced') /\ (ended => ended') /\ (vouched => vouched')
  BY <1>1, FlagsTyped
<1>3. Lost => Lost'
  BY <1>2 DEF Lost, RowGoes
<1>4. TypeOK'
  <2>1. ThreadType'
    BY <1>1 DEF TypeOK, ThreadType, Tasks
  <2> QED BY <1>1, <2>1, FlagsTyped, GrantTyped DEF TypeOK
<1>5. Newest'
  BY <1>1, <1>3 DEF Newest, Updating, Lost
<1>6. Parted'
  BY <1>1, <1>2 DEF Parted
<1>7. ASSUME NEW g \in Threads PROVE Works(g)'
  <2>1. Works(g) /\ Works(Renewal)
    BY <1>1, Parameters
  <2>2. g = Renewal /\ thread[g].at = "held" => Lost' \/ unsaved' # None \/ thread[g].got = pair
    BY <1>3, <2>1 DEF Works, Renews
  <2>3. g # Renewal /\ Parting(thread[g]) =>
          \/ Moot'
          \/ pair' = pair /\ row' = row /\ unsaved' = unsaved /\ ~Updating' /\ cache' \subseteq cache
    BY <1>2, <2>1 DEF Works, LogsOut, Moot, Updating
  <2> QED BY <1>1, <1>3, <2>2, <2>3, Untouched
<1>8. Fresh'
  BY <1>1 DEF Fresh, RowGoes
<1> QED BY <1>4, <1>5, <1>6, <1>7, <1>8 DEF SessionsInv

\* What SessionsInv says of a thread.
LEMMA Known ==
  ASSUME SessionsInv, NEW h \in Threads
  PROVE  /\ TypeOK /\ GrantType /\ Newest /\ Parted /\ Works(h) /\ thread[h] \in Tasks
         /\ pair \in Nat /\ Suits(h, thread[h])
         /\ thread[h].got \in 0 .. pair /\ thread[h].tokens \in 0 .. pair
         /\ (h # Renewal <=> h \in Handlers) /\ (row = 0 => unsaved = None)
  BY ThreadFields, Parameters DEF SessionsInv, TypeOK, GrantType, Threads

\* A logout under way is one beside which others go on.
LEMMA Besides ==
  ASSUME SessionsInv, NEW h, NEW g \in Handlers \ {h}, Parting(thread[g])
  PROVE  Beside(h)
  BY DEF Parting, Beside

\* load reads the row: a renewal or a logout that reads it now knows the newest pair.
LEMMA ReadRowKeeps ==
  ASSUME SessionsInv, [Next]_vars, NEW h \in Threads, ReadRow(h) PROVE SessionsInv'
<1>1. /\ TypeOK /\ Newest /\ Parted /\ Works(h) /\ thread[h] \in Tasks /\ Suits(h, thread[h])
      /\ pair \in Nat /\ 0 \in 0 .. pair /\ (row = 0 => unsaved = None)
      /\ (h # Renewal <=> h \in Handlers)
  BY Known
<1>2. /\ UNCHANGED <<pair, live, row, ended, cache, excused, parted>> /\ RowGoes
      /\ thread[h].at = "read"
  BY DEF ReadRow, gitlab, RowGoes
<1>3. faults' \in 0 .. MaxFaults
  BY <1>1, FaultCounts DEF ReadRow
<1>4. ASSUME NEW g \in Threads PROVE Works(g)
  BY Known
<1>5. Lost => Lost'
  BY <1>2 DEF Lost
<1>6. CASE (row = None \/ ended) /\ unsaved' = None /\ thread' = Loaded(h, "none", 0)
  <2>1. \A g \in Handlers \ {h} : Parting(thread[g]) => Moot'
    <3> SUFFICES ASSUME NEW g \in Handlers \ {h}, Parting(thread[g]) PROVE Moot'
      OBVIOUS
    <3>1. Moot
      <4>1. g \in Threads /\ g # Renewal
        BY Parameters
      <4> QED BY <1>4, <1>6, <4>1 DEF Works, LogsOut, Moot
    <3> QED BY <1>1, <1>2, <3>1, FlagsTyped DEF Moot
  <2>2. Lost'
    BY <1>2, <1>6 DEF Lost
  <2> QED BY <1>1, <1>2, <1>3, <1>6, <2>1, <2>2, LoadedKeeps
<1>7. CASE Fault /\ thread' = Loaded(h, "error", 0) /\ UNCHANGED <<unsaved, raced>>
  <2>1. Lost' \/ Updating' \/ pair = IF unsaved' # None THEN unsaved' ELSE row'
    <3>1. Lost \/ Updating \/ pair = IF unsaved # None THEN unsaved ELSE row
      BY <1>1 DEF Newest
    <3>2. Updating => h # Renewal
      BY <1>2 DEF Updating
    <3>3. h # Renewal /\ Updating => Updating'
      <4> SUFFICES ASSUME h # Renewal, Updating PROVE Updating'
        OBVIOUS
      <4>1. \/ thread'[Renewal] = thread[Renewal]
            \/ thread[Renewal].at = "idle" /\ thread'[Renewal].at = "read"
        BY <1>1, <1>2, <1>7, LoadedMoves
      <4> QED BY <4>1 DEF Updating
    <3> QED BY <1>2, <1>5, <1>7, <3>1, <3>2, <3>3
  <2>2. thread[Renewal].at = "held" => Lost' \/ unsaved' # None \/ thread[Renewal].got = pair
    BY <1>4, <1>5, <1>7, Parameters DEF Works, Renews
  <2> QED BY <1>1, <1>2, <1>3, <1>5, <1>7, <2>1, <2>2, LoadedKeeps
<1>8. CASE /\ row # None /\ ~ended
           /\ thread' = Put(h, [thread[h] EXCEPT !.at = "held", !.got = row])
           /\ raced' = (raced \/ (thread[h].does = "logout" /\ thread[Renewal].at = "update"))
           /\ UNCHANGED <<unsaved, faults>>
  <2> DEFINE t == [thread[h] EXCEPT !.at = "held", !.got = row]
  <2>1. row \in 0 .. pair
    BY <1>1, <1>8 DEF TypeOK, GrantType
  <2>2. /\ t \in Tasks' /\ t.at = "held" /\ t.got = row /\ t.does = thread[h].does
        /\ t.late = thread[h].late
    BY <1>1, <1>2, <2>1 DEF Tasks
  <2>3. thread' = Put(h, t) /\ thread'[h] = t
    BY <1>1, <1>8, ThreadFields DEF Put, TypeOK
  <2> HIDE DEF t
  <2>4. Suits(h, t)
    BY <1>1, <1>2, <2>2 DEF Suits
  <2>5. Newest' /\ Parted' /\ (Updating => h # Renewal) /\ (Updating <=> Updating')
    <3>1. h # Renewal => thread'[Renewal] = thread[Renewal]
      BY <2>3, Parameters, ThreadFields, <1>1 DEF Put, TypeOK
    <3>2. (Updating => h # Renewal) /\ (Updating <=> Updating')
      BY <1>2, <2>2, <2>3, <3>1 DEF Updating
    <3> QED BY <1>1, <1>2, <1>5, <1>8, <3>2, FlagsTyped DEF Newest, Parted
  <2>6. Works(h)'
    <3>1. Unseals(thread[h])'
      BY <1>2, <2>2, <2>3 DEF Unseals
    <3>2. h = Renewal => Renews(thread[h])'
      BY <1>1, <1>2, <1>5, <1>8, <2>2, <2>3, <2>5 DEF Renews, Newest
    <3>3. h # Renewal => ComesLate(thread[h])'
      BY <1>1, <1>8, <2>2, <2>3 DEF Works, ComesLate
    <3>4. LogsOut(thread[h])'
      <4> SUFFICES ASSUME t.does = "logout", ~ Moot'
                   PROVE  row # None /\ ~Updating /\ (row = 0 \/ pair = IF unsaved # None THEN unsaved ELSE row)
        BY <1>2, <1>8, <2>2, <2>3, <2>5 DEF LogsOut, Parting
      <4>1. ~ Updating
        BY <1>8, <2>2 DEF Moot, Updating
      <4>2. ~ ended /\ ~ excused
        BY <1>2 DEF Moot
      <4> QED BY <1>1, <1>8, <4>1, <4>2 DEF Newest, Lost
    <3> QED BY <2>2, <2>3, <3>1, <3>2, <3>3, <3>4 DEF Works
  <2>7. thread[Renewal].at = "held" => Lost' \/ unsaved' # None \/ thread[Renewal].got = pair
    BY <1>4, <1>5, <1>8, Parameters DEF Works, Renews
  <2>8. pair > 0
    BY <1>2, LoggedIn
  <2> QED BY <1>1, <1>2, <1>3, <1>5, <1>8, <2>2, <2>3, <2>4, <2>5, <2>6, <2>7, <2>8, Moves
<1> QED BY <1>6, <1>7, <1>8 DEF ReadRow

\* What is held in memory goes before what the row says, and is the newest.
LEMMA HeldKeeps ==
  ASSUME SessionsInv, [Next]_vars, NEW h \in Threads, Held(h) PROVE SessionsInv'
<1>1. /\ TypeOK /\ Newest /\ Parted /\ Works(h) /\ thread[h] \in Tasks /\ Suits(h, thread[h])
      /\ pair \in Nat /\ 0 \in 0 .. pair /\ (row = 0 => unsaved = None)
      /\ thread[h].got \in 0 .. pair /\ unsaved \in (1 .. pair) \cup {None}
      /\ (h # Renewal <=> h \in Handlers) /\ DOMAIN thread = Threads
  BY Known, ThreadFields DEF GrantType, TypeOK
<1>2. /\ UNCHANGED <<pair, live, row, ended, unsaved, cache, faults, excused, parted, raced, vouched>>
      /\ RowGoes /\ thread[h].at = "held"
  BY DEF Held, gitlab, RowGoes
<1>3. faults' \in 0 .. MaxFaults
  BY <1>1, <1>2 DEF TypeOK
<1>4. \A g \in Threads : Works(g)
  BY Known
<1>5. (Lost <=> Lost') /\ (Moot <=> Moot')
  BY <1>2 DEF Lost, Moot
<1>6. thread[Renewal].at = "held" => Lost' \/ unsaved' # None \/ thread[Renewal].got = pair
  BY <1>2, <1>4, <1>5, Parameters DEF Works, Renews
<1>7. pair > 0
  BY <1>2, LoggedIn
<1>8. h = Renewal => ~ Updating
  BY <1>2 DEF Updating
<1>9. ASSUME NEW t \in Tasks, t.at \in {"save", "destroy"}, thread' = Put(h, t), Suits(h, t), Works(h)'
      PROVE  SessionsInv'
  <2>1. t \in Tasks'
    BY <1>2, <1>9 DEF Tasks
  <2>2. Updating <=> Updating'
    BY <1>1, <1>2, <1>9, Parameters DEF Updating, Put
  <2>3. Newest' /\ Parted'
    BY <1>1, <1>2, <1>5, <2>2 DEF Newest, Parted
  <2> QED BY <1>2, <1>1, <1>3, <1>5, <1>6, <1>7, <1>9, <2>1, <2>3, Moves
<1>10. CASE unsaved # None
  <2> DEFINE t == [thread[h] EXCEPT !.at = "save", !.tokens = unsaved]
  <2>1. unsaved \in 1 .. pair /\ unsaved \in 0 .. pair /\ unsaved # 0
    BY <1>1, <1>10
  <2>2. /\ t \in Tasks /\ t.at = "save" /\ t.does = thread[h].does /\ t.late = thread[h].late
        /\ t.tokens = unsaved
    BY <1>1, <2>1 DEF Tasks
  <2>3. thread' = Put(h, t) /\ thread'[h] = t
    BY <1>1, <1>10 DEF Held, Put
  <2> HIDE DEF t
  <2>4. Suits(h, t)
    BY <1>1, <1>2, <2>1, <2>2 DEF Suits
  <2>5. Updating <=> Updating'
    BY <1>1, <1>2, <2>2, <2>3, Parameters DEF Updating, Put
  <2>6. Works(h)'
    <3>1. Unseals(thread[h])'
      BY <1>1, <1>2, <1>10, <2>2, <2>3 DEF Unseals
    <3>2. h = Renewal => Renews(thread[h])'
      BY <1>1, <1>2, <1>5, <1>8, <1>10, <2>2, <2>3 DEF Renews, Newest
    <3>3. h # Renewal => ComesLate(thread[h])'
      BY <1>1, <1>2, <2>2, <2>3 DEF Works, ComesLate
    <3>4. h # Renewal => LogsOut(thread[h])'
      BY <1>1, <1>2, <1>5, <1>10, <2>1, <2>2, <2>3, <2>5 DEF Works, LogsOut, Parting, Unseals
    <3> QED BY <2>2, <2>3, <3>1, <3>2, <3>3, <3>4 DEF Works
  <2> QED BY <1>9, <2>2, <2>3, <2>4, <2>6
<1>11. CASE unsaved = None /\ thread[h].got = 0
  <2> DEFINE t == [thread[h] EXCEPT !.at = "destroy"]
  <2>1. /\ t \in Tasks /\ t.at = "destroy" /\ t.does = thread[h].does /\ t.late = thread[h].late
    BY <1>1 DEF Tasks
  <2>2. thread' = Put(h, t) /\ thread'[h] = t
    BY <1>1, <1>11 DEF Held, Put
  <2> HIDE DEF t
  <2>3. Suits(h, t)
    BY <1>1, <1>2, <2>1 DEF Suits
  <2>4. row \in {None, 0}
    BY <1>1, <1>2, <1>11 DEF Works, Unseals
  <2>5. Works(h)'
    <3>1. Unseals(thread[h])' /\ Renews(thread[h])' /\ LogsOut(thread[h])'
      BY <1>2, <2>1, <2>2, <2>4 DEF Unseals, Renews, LogsOut, Parting, Lost
    <3>2. h # Renewal => ComesLate(thread[h])'
      BY <1>1, <1>2, <2>1, <2>2 DEF Works, ComesLate
    <3> QED BY <1>2, <2>4, <3>1, <3>2 DEF Works
  <2> QED BY <1>9, <2>1, <2>2, <2>3, <2>5
<1>12. CASE unsaved = None /\ thread[h].got # 0
  <2> DEFINE p == thread[h].got
  <2>1. thread' = Loaded(h, "ok", p) /\ p \in 0 .. pair /\ p # 0
    BY <1>1, <1>12 DEF Held
  <2>2. row # 0
    BY <1>1, <1>2, <1>12 DEF Works, Unseals
  <2>3. h = Renewal => Lost' \/ p = pair
    BY <1>1, <1>2, <1>5, <1>12 DEF Works, Renews
  <2>4. Parting(thread[h]) => Moot' \/ (row # None /\ ~Updating /\ p = pair)
    BY <1>1, <1>2, <1>5, <1>8, <1>12, Known DEF Works, LogsOut, Parting, Suits
  <2> HIDE DEF p
  <2>5. Lost' \/ Updating' \/ pair = IF unsaved' # None THEN unsaved' ELSE row'
    <3>1. h # Renewal /\ Updating => Updating'
      <4> SUFFICES ASSUME h # Renewal, Updating PROVE Updating'
        OBVIOUS
      <4>1. \/ thread'[Renewal] = thread[Renewal]
            \/ thread[Renewal].at = "idle" /\ thread'[Renewal].at = "read"
        BY <1>1, <1>2, <2>1, LoadedMoves
      <4> QED BY <4>1 DEF Updating
    <3> QED BY <1>1, <1>2, <1>5, <1>8, <3>1 DEF Newest
  <2> QED BY <1>1, <1>2, <1>3, <1>5, <1>6, <2>1, <2>2, <2>3, <2>4, <2>5, LoadedKeeps
<1> QED BY <1>10, <1>11, <1>12

\* The write-back saves the newest pair, unless a renewal overtook it.
LEMMA WriteBackKeeps ==
  ASSUME SessionsInv, [Next]_vars, NEW h \in Threads, WriteBack(h) PROVE SessionsInv'
<1> DEFINE p == thread[h].tokens
<1>1. /\ TypeOK /\ Newest /\ Parted /\ Works(h) /\ thread[h] \in Tasks /\ Suits(h, thread[h])
      /\ pair \in Nat /\ 0 \in 0 .. pair /\ (row = 0 => unsaved = None)
      /\ p \in 0 .. pair /\ unsaved \in (1 .. pair) \cup {None} /\ row \in (0 .. pair) \cup {None}
      /\ (h # Renewal <=> h \in Handlers) /\ None \notin Nat
  BY Known, Parameters DEF GrantType
<1>2. /\ UNCHANGED <<pair, live, ended, cache, parted>> /\ thread[h].at = "save"
      /\ thread' = Loaded(h, "ok", p) /\ raced' = (raced \/ Beside(h))
  BY DEF WriteBack, gitlab
<1>3. p \in 1 .. pair /\ p # 0 /\ row # 0 /\ p # None
  <2>1. p # 0 /\ row # 0
    BY <1>1, <1>2 DEF Suits, Works, Unseals
  <2> QED BY <1>1, <2>1
<1>4. faults' \in 0 .. MaxFaults
  BY <1>1, FaultCounts DEF WriteBack
<1>5. \/ row' = saved(p) /\ unsaved' = (IF unsaved = p THEN None ELSE unsaved) /\ excused' = (excused \/ Overtakes(p))
      \/ UNCHANGED <<row, unsaved, excused>>
  BY DEF WriteBack
<1>6. row' # 0 /\ (row = None <=> row' = None) /\ RowGoes
  BY <1>3, <1>5 DEF saved, RowGoes
<1>7. (Lost => Lost') /\ (Moot => Moot')
  BY <1>1, <1>2, <1>3, <1>6, FlagsTyped DEF Lost, Moot
<1>8. \A g \in Threads : Works(g)
  BY Known
<1>9. h = Renewal => ~ Updating
  BY <1>2 DEF Updating
<1> HIDE DEF p
<1>10. h # Renewal /\ Updating => Updating'
  <2> SUFFICES ASSUME h # Renewal, Updating PROVE Updating'
    OBVIOUS
  <2>1. \/ thread'[Renewal] = thread[Renewal]
        \/ thread[Renewal].at = "idle" /\ thread'[Renewal].at = "read"
    BY <1>1, <1>2, <1>3, LoadedMoves
  <2> QED BY <2>1 DEF Updating
<1>11. ASSUME ~ Lost', ~ Updating
       PROVE  /\ pair = IF unsaved # None THEN unsaved ELSE row
              /\ pair = IF unsaved' # None THEN unsaved' ELSE row'
  <2>1. pair = IF unsaved # None THEN unsaved ELSE row
    BY <1>1, <1>7, <1>11 DEF Newest
  <2>2. CASE UNCHANGED <<row, unsaved, excused>>
    BY <2>1, <2>2
  <2>3. CASE /\ row' = saved(p) /\ unsaved' = (IF unsaved = p THEN None ELSE unsaved)
             /\ excused' = (excused \/ Overtakes(p))
    <3>1. row # None /\ row \in Nat /\ ~ (row > p)
      <4>1. row # None /\ ~ Overtakes(p)
        BY <1>6, <1>11, <2>3 DEF Lost
      <4> QED BY <1>1, <4>1 DEF Overtakes
    <3>2. row' = p
      BY <2>3, <3>1 DEF saved
    <3>3. CASE unsaved = None
      BY <1>1, <1>3, <2>1, <2>3, <3>1, <3>2, <3>3
    <3>4. CASE unsaved # None
      BY <2>1, <2>3, <3>2, <3>4
    <3> QED BY <3>3, <3>4
  <2> QED BY <1>5, <2>1, <2>2, <2>3
<1>12. Lost' \/ Updating' \/ pair = IF unsaved' # None THEN unsaved' ELSE row'
  BY <1>9, <1>10, <1>11
<1>13. thread[Renewal].at = "held" => Lost' \/ unsaved' # None \/ thread[Renewal].got = pair
  <2> SUFFICES ASSUME thread[Renewal].at = "held", ~ Lost', unsaved' = None PROVE thread[Renewal].got = pair
    OBVIOUS
  <2>1. CASE unsaved = None
    BY <1>7, <1>8, <2>1, Parameters DEF Works, Renews
  <2>2. CASE unsaved # None
    <3>1. pair = unsaved /\ unsaved = p /\ ~ Overtakes(p)
      BY <1>5, <1>11, <2>2 DEF Updating, Lost
    <3>2. thread[Renewal].got \in 0 .. pair
      BY Known, Parameters
    <3> QED BY <1>1, <3>1, <3>2 DEF Overtakes
  <2> QED BY <2>1, <2>2
<1>14. h = Renewal => Lost' \/ p = pair
  BY <1>1, <1>2, <1>7 DEF Works, Renews, p
<1>15. ASSUME NEW g \in Handlers \ {h}, Parting(thread[g]) PROVE Moot'
  BY <1>2, <1>15, Besides DEF Moot
<1>16. Parting(thread[h]) => Moot' \/ (row' # None /\ ~Updating /\ p = pair)
  BY <1>1, <1>2, <1>6, <1>7 DEF Works, LogsOut, Parting, Suits, p
<1> QED BY <1>1, <1>2, <1>3, <1>4, <1>6, <1>7, <1>12, <1>13, <1>14, <1>15, <1>16, LoadedKeeps

\* The copy in memory goes even if the row stays, which is then an excuse.
LEMMA destroyKeeps ==
  ASSUME SessionsInv, [Next]_vars, NEW h \in Threads, destroy(h) PROVE SessionsInv'
<1>1. /\ TypeOK /\ Newest /\ Parted /\ Works(h) /\ pair \in Nat /\ 0 \in 0 .. pair
      /\ (h # Renewal <=> h \in Handlers)
  BY Known
<1>2. /\ UNCHANGED <<pair, live, ended, cache, parted>> /\ thread[h].at = "destroy" /\ unsaved' = None
      /\ thread' = Loaded(h, "none", 0) /\ raced' = (raced \/ Beside(h))
      /\ row' = None \/ (row' = row /\ excused' = (excused \/ unsaved # None))
  BY DEF destroy, gitlab
<1>3. faults' \in 0 .. MaxFaults
  BY <1>1, FaultCounts DEF destroy
<1>4. RowGoes /\ (Lost => Lost')
  BY <1>1, <1>2, FlagsTyped, Parameters DEF RowGoes, Lost
<1>5. \A g \in Threads : Works(g)
  BY Known
<1>6. h = Renewal => ~ Updating
  BY <1>2 DEF Updating
<1>7. h # Renewal /\ Updating => Updating'
  <2> SUFFICES ASSUME h # Renewal, Updating PROVE Updating'
    OBVIOUS
  <2>1. \/ thread'[Renewal] = thread[Renewal]
        \/ thread[Renewal].at = "idle" /\ thread'[Renewal].at = "read"
    BY <1>1, <1>2, LoadedMoves
  <2> QED BY <2>1 DEF Updating
<1>8. Lost' \/ Updating' \/ pair = IF unsaved' # None THEN unsaved' ELSE row'
  BY <1>1, <1>2, <1>4, <1>6, <1>7 DEF Newest, Lost
<1>9. thread[Renewal].at = "held" => Lost' \/ unsaved' # None \/ thread[Renewal].got = pair
  BY <1>2, <1>4, <1>5, Parameters DEF Works, Renews, Lost
<1>10. ASSUME NEW g \in Handlers \ {h}, Parting(thread[g]) PROVE Moot'
  BY <1>2, <1>10, Besides DEF Moot
<1> QED BY <1>1, <1>2, <1>3, <1>4, <1>8, <1>9, <1>10, LoadedKeeps

\* The renewal ends otherwise than by load, and those who waited go on.
LEMMA SharedKeeps ==
  ASSUME SessionsInv, [Next]_vars, RowGoes, thread[Renewal].at \in {"renew", "update"},
         NEW outcome, NEW p, outcome = "ok" => p \in 1 .. pair, thread' = Shared(outcome, p),
         pair' = pair \/ pair' = pair + 1, pair > 0, live' => live, cache' = cache,
         faults' \in 0 .. MaxFaults, row' = 0 => unsaved' = None,
         Parted', Lost' \/ pair' = IF unsaved' # None THEN unsaved' ELSE row',
         \A g \in Handlers : Parting(thread[g]) =>
           Moot' \/ (pair' = pair /\ row' = row /\ unsaved' = unsaved)
  PROVE  SessionsInv'
<1>1. /\ TypeOK /\ \A g \in Threads : Works(g) /\ Suits(g, thread[g])
      /\ pair \in Nat
  BY Known, Parameters
<1>2. /\ ThreadType' /\ thread'[Renewal] = Idle
      /\ \A g \in Handlers :
           \/ thread'[g] = thread[g]
           \/ thread[g].at = "wait" /\ Served(g, thread[g], thread'[g]) /\ thread'[g].at # "wait"
  BY <1>1, SharedMoves
<1>3. TypeOK' /\ ~ Updating'
  BY <1>1, <1>2, FlagsTyped, GrantTyped, IdleTask DEF TypeOK, Updating
<1>4. Works(Renewal)'
  <2>1. Renewal \in Threads /\ thread'[Renewal].at = "idle" /\ ~ thread'[Renewal].late
    BY <1>2, IdleTask, Parameters
  <2> QED BY <2>1, Plain
<1>5. ASSUME NEW g \in Handlers PROVE Works(g)'
  <2>1. g \in Threads /\ g # Renewal /\ Works(g)
    BY <1>1, Parameters
  <2>2. CASE thread'[g] = thread[g]
    <3>1. Parting(thread[g]) =>
            \/ Moot'
            \/ pair' = pair /\ row' = row /\ unsaved' = unsaved /\ ~Updating' /\ cache' \subseteq cache
      BY <1>3
    <3> QED BY <2>1, <2>2, <3>1, Untouched
  <2>3. CASE thread[g].at = "wait" /\ Served(g, thread[g], thread'[g])
    <3>1. thread'[g].at \in {"idle", "verify", "wait"}
      BY <2>3, IdleTask DEF Served
    <3>2. ~ thread'[g].late
      BY <2>1, <2>3, IdleTask DEF Works, ComesLate, Served
    <3>3. row' # 0
      BY <2>1, <2>3 DEF Works, Unseals, RowGoes
    <3> QED BY <2>1, <3>1, <3>2, <3>3, Plain
  <2> QED BY <1>2, <2>2, <2>3
<1>6. Newest' /\ Fresh'
  <2>1. pair' # 0
    BY <1>1
  <2> QED BY <2>1 DEF Newest, Fresh
<1> QED BY <1>3, <1>4, <1>5, <1>6 DEF SessionsInv, Threads

\* The next pair is in the hand of the renewal, which is about to record it, or lost.
LEMMA RenewKeeps == ASSUME SessionsInv, [Next]_vars, Renew PROVE SessionsInv'
<1> DEFINE t == thread[Renewal]
<1>1. /\ TypeOK /\ Newest /\ Parted /\ Works(Renewal) /\ t \in Tasks /\ Suits(Renewal, t)
      /\ pair \in Nat /\ (row = 0 => unsaved = None) /\ t.tokens \in 0 .. pair
      /\ Renewal \in Threads /\ DOMAIN thread = Threads
  BY Known, ThreadFields, Parameters DEF TypeOK
<1>2. /\ UNCHANGED <<live, row, ended, unsaved, cache, parted>> /\ t.at = "renew" /\ RowGoes
  BY DEF Renew, RowGoes
<1>3. faults' \in 0 .. MaxFaults
  BY <1>1, FaultCounts DEF Renew
<1>4. pair > 0 /\ ~ Updating /\ (Lost => Lost')
  BY <1>1, <1>2, FlagsTyped, LoggedIn DEF Updating, Lost
<1>5. row # 0 /\ (Lost \/ t.tokens = pair)
  BY <1>1, <1>2 DEF Works, Unseals, Renews
<1>6. ASSUME Issue PROVE \A g \in Handlers : Parting(thread[g]) => Moot'
  <2> SUFFICES ASSUME NEW g \in Handlers, Parting(thread[g]) PROVE Moot'
    OBVIOUS
  <2>1. g \in Handlers \ {Renewal}
    BY Parameters
  <2> QED BY <1>6, <2>1, Besides DEF Issue, Moot
<1>7. Parted'
  BY <1>1, <1>2, FlagsTyped, Parameters DEF Parted, Renew, Issue
<1>8. CASE Issue /\ thread' = Put(Renewal, [t EXCEPT !.at = "update", !.tokens = pair']) /\ UNCHANGED <<faults, excused>>
  <2> DEFINE u == [t EXCEPT !.at = "update", !.tokens = pair']
  <2>1. pair' = pair + 1 /\ pair' \in 0 .. pair' /\ pair' # 0
    BY <1>1, <1>8 DEF Issue
  <2>2. t \in Tasks'
    BY <1>1, <2>1, TasksGrow
  <2>3. u \in Tasks' /\ u.at = "update" /\ u.does = t.does /\ u.late = t.late /\ u.tokens = pair'
    BY <2>1, <2>2 DEF Tasks
  <2>4. thread' = Put(Renewal, u) /\ thread'[Renewal] = u
    BY <1>1, <1>8 DEF Put
  <2> HIDE DEF t, u
  <2>5. Suits(Renewal, u)
    BY <1>1, <1>2, <2>1, <2>3 DEF Suits
  <2>6. Newest' /\ Works(Renewal)'
    <3>1. Updating'
      BY <2>3, <2>4 DEF Updating
    <3>2. Unseals(thread[Renewal])' /\ Renews(thread[Renewal])'
      BY <1>2, <1>5, <2>3, <2>4 DEF Unseals, Renews
    <3> QED BY <3>1, <3>2 DEF Newest, Works
  <2> QED BY <1>1, <1>2, <1>3, <1>4, <1>6, <1>7, <1>8, <2>1, <2>3, <2>4, <2>5, <2>6, Moves
<1>9. CASE /\ ~live \/ t.tokens # pair
           /\ thread' = Put(Renewal, [t EXCEPT !.at = "destroy"])
           /\ UNCHANGED <<pair, faults, excused, raced>>
  <2> DEFINE u == [t EXCEPT !.at = "destroy"]
  <2>1. u \in Tasks' /\ u.at = "destroy" /\ u.does = t.does /\ u.late = t.late
    BY <1>1, <1>9 DEF Tasks
  <2>2. thread' = Put(Renewal, u) /\ thread'[Renewal] = u
    BY <1>1, <1>9 DEF Put
  <2> HIDE DEF t, u
  <2>3. Suits(Renewal, u)
    BY <1>1, <1>2, <2>1 DEF Suits
  <2>4. (Lost <=> Lost') /\ (Moot <=> Moot')
    BY <1>2, <1>9 DEF Lost, Moot
  <2>5. Newest' /\ Works(Renewal)'
    <3>1. Unseals(thread[Renewal])' /\ Renews(thread[Renewal])'
      BY <1>2, <1>5, <1>9, <2>1, <2>2, <2>4 DEF Unseals, Renews
    <3> QED BY <1>1, <1>2, <1>4, <1>9, <2>4, <3>1 DEF Newest, Works
  <2> QED BY <1>1, <1>2, <1>3, <1>4, <1>7, <1>9, <2>1, <2>2, <2>3, <2>4, <2>5, Moves
<1>10. CASE Fault /\ Issue /\ excused' = TRUE /\ thread' = Shared("error", 0)
  <2>1. pair' = pair + 1 /\ Lost' /\ Moot'
    BY <1>10 DEF Issue, Lost, Moot
  <2> QED BY <1>1, <1>2, <1>3, <1>4, <1>7, <1>10, <2>1, SharedKeeps
<1>11. CASE Fault /\ thread' = Shared("error", 0) /\ UNCHANGED <<pair, excused, raced>>
  <2>1. Lost' \/ pair' = IF unsaved' # None THEN unsaved' ELSE row'
    BY <1>1, <1>2, <1>4, <1>11 DEF Newest
  <2> QED BY <1>1, <1>2, <1>3, <1>4, <1>7, <1>11, <2>1, SharedKeeps
<1> QED BY <1>8, <1>9, <1>10, <1>11 DEF Renew

\* What could not be saved is held in memory.
LEMMA updateKeeps == ASSUME SessionsInv, [Next]_vars, update PROVE SessionsInv'
<1> DEFINE p == thread[Renewal].tokens
<1>1. /\ TypeOK /\ Newest /\ Parted /\ Works(Renewal) /\ Suits(Renewal, thread[Renewal])
      /\ pair \in Nat /\ p \in 0 .. pair /\ Renewal \in Threads
      /\ row \in (0 .. pair) \cup {None} /\ None \notin Nat
  BY Known, Parameters DEF GrantType
<1>2. /\ UNCHANGED <<pair, live, ended, cache, excused, parted, raced, vouched>> /\ Updating
      /\ thread' = Shared("ok", p)
      /\ \/ row' = saved(p) /\ unsaved' = None
         \/ row' = row /\ unsaved' = p
  BY DEF update, gitlab, Updating
<1>3. faults' \in 0 .. MaxFaults
  BY <1>1, FaultCounts DEF update
<1>4. p = pair /\ p # 0 /\ row # 0 /\ p # None
  <2>1. p = pair /\ p # 0 /\ row # 0
    BY <1>1, <1>2 DEF Suits, Works, Unseals, Renews, Updating
  <2> QED BY <1>1, <2>1
<1>5. RowGoes /\ row' # 0
  BY <1>2, <1>4 DEF saved, RowGoes
<1>6. Parted' /\ pair > 0 /\ p \in 1 .. pair
  BY <1>1, <1>2, <1>4 DEF Parted
<1>7. ASSUME NEW g \in Handlers, Parting(thread[g]) PROVE Moot'
  <2>1. Works(g) /\ g # Renewal
    BY Known, Parameters
  <2> QED BY <1>2, <1>7, <2>1 DEF Works, LogsOut, Moot
<1>8. Lost' \/ pair' = IF unsaved' # None THEN unsaved' ELSE row'
  BY <1>2, <1>4 DEF Lost, saved
<1> HIDE DEF p
<1> QED BY <1>2, <1>3, <1>4, <1>5, <1>6, <1>7, <1>8, SharedKeeps DEF Updating

\* A handler's step that leaves the grant's pairs and the row alone.
LEMMA HandlerKeeps ==
  ASSUME SessionsInv, [Next]_vars, NEW h \in Handlers, NEW t \in Tasks, pair > 0,
         thread' = Put(h, t), Suits(h, t), t.at # "wait",
         UNCHANGED <<pair, row, ended, unsaved, excused, parted>>, live' => live,
         faults' \in 0 .. MaxFaults, Parted', Works(h)',
         cache' \subseteq cache \/ \A g \in Handlers \ {h} : Parting(thread[g]) => vouched'
  PROVE  SessionsInv'
<1>1. /\ Newest /\ DOMAIN thread = Threads /\ (row = 0 => unsaved = None)
      /\ h \in Threads /\ h # Renewal /\ Works(Renewal)
  BY Known, ThreadFields, Parameters DEF TypeOK
<1>2. t \in Tasks' /\ RowGoes /\ (Lost <=> Lost')
  BY DEF Tasks, RowGoes, Lost
<1>3. Newest'
  <2>1. Updating <=> Updating'
    BY <1>1, Parameters DEF Put, Updating
  <2> QED BY <1>1, <1>2, <2>1 DEF Newest
<1>4. thread[Renewal].at = "held" => Lost' \/ unsaved' # None \/ thread[Renewal].got = pair
  BY <1>1, <1>2 DEF Works, Renews
<1> QED BY <1>1, <1>2, <1>3, <1>4, Moves

\* A request that begins once the row is gone comes late.
LEMMA BeginKeeps ==
  ASSUME SessionsInv, [Next]_vars, NEW h \in Handlers, Begin(h) PROVE SessionsInv'
<1>1. /\ TypeOK /\ Parted /\ pair \in Nat /\ h \in Threads /\ h # Renewal /\ DOMAIN thread = Threads
  BY Known, ThreadFields, Parameters DEF TypeOK
<1>2. /\ pair > 0 /\ cache' = cache
      /\ UNCHANGED <<pair, live, row, ended, unsaved, excused, parted, raced, vouched, faults>>
  BY DEF Begin, gitlab
<1>3. PICK does \in {"request", "logout"} :
        thread' = Put(h, [Idle EXCEPT !.at = "read", !.does = does, !.late = row = None])
  BY DEF Begin
<1> DEFINE t == [Idle EXCEPT !.at = "read", !.does = does, !.late = row = None]
<1>4. Idle \in Tasks
  BY <1>1, IdleTask
<1>5. (row = None) \in BOOLEAN
  OBVIOUS
<1>6. t \in Tasks /\ t.at = "read" /\ t.does = does /\ t.late = (row = None)
  BY <1>4, <1>5 DEF Tasks
<1>7. thread' = Put(h, t) /\ thread'[h] = t
  BY <1>1, <1>3 DEF Put
<1> HIDE DEF t
<1>8. Suits(h, t)
  BY <1>1, <1>6 DEF Suits
<1>9. Works(h)'
  <2>1. Unseals(thread[h])' /\ LogsOut(thread[h])' /\ ComesLate(thread[h])'
    BY <1>2, <1>6, <1>7 DEF Unseals, LogsOut, Parting, ComesLate
  <2> QED BY <1>1, <1>6, <1>7, <2>1 DEF Works
<1>10. Parted'
  BY <1>1, <1>2 DEF Parted
<1>11. faults' \in 0 .. MaxFaults
  BY <1>1, <1>2 DEF TypeOK
<1> QED BY <1>2, <1>6, <1>7, <1>8, <1>9, <1>10, <1>11, HandlerKeeps

\* Asking GitLab who a token belongs to changes the place of the request only.
LEMMA VerifyKeeps ==
  ASSUME SessionsInv, [Next]_vars, NEW h \in Handlers, Verify(h) PROVE SessionsInv'
<1>1. /\ TypeOK /\ Parted /\ Works(h) /\ thread[h] \in Tasks /\ Suits(h, thread[h])
      /\ pair \in Nat /\ h \in Threads /\ h # Renewal /\ DOMAIN thread = Threads
  BY Known, ThreadFields, Parameters DEF TypeOK
<1>2. /\ UNCHANGED <<pair, live, row, ended, unsaved, cache, excused, parted, raced, vouched>>
      /\ thread[h].at = "verify"
  BY DEF Verify, gitlab
<1>3. faults' \in 0 .. MaxFaults
  BY <1>1, FaultCounts DEF Verify
<1>4. row # 0 /\ ~ thread[h].late /\ pair > 0
  BY <1>1, <1>2, LoggedIn DEF Works, Unseals, ComesLate
<1>5. Parted'
  BY <1>1, <1>2 DEF Parted
<1>6. PICK t \in {Idle, [thread[h] EXCEPT !.at = "store"]} : thread' = Put(h, t)
  BY DEF Verify
<1>7. t \in Tasks /\ t.at \in {"idle", "store"} /\ ~ t.late /\ Suits(h, t)
  <2>1. CASE t = Idle
    BY <1>1, <2>1, IdleTask
  <2>2. CASE t = [thread[h] EXCEPT !.at = "store"]
    <3>1. /\ t \in Tasks /\ t.at = "store" /\ t.does = thread[h].does /\ t.late = thread[h].late
          /\ t.tokens = thread[h].tokens
      BY <1>1, <2>2 DEF Tasks
    <3> QED BY <1>1, <1>2, <1>4, <3>1 DEF Suits
  <2> QED BY <1>6, <2>1, <2>2
<1>8. Works(h)'
  <2>1. thread'[h] = t
    BY <1>1, <1>6 DEF Put
  <2> QED BY <1>1, <1>2, <1>4, <1>7, <2>1, Plain
<1> QED BY <1>2, <1>3, <1>4, <1>5, <1>6, <1>7, <1>8, HandlerKeeps

\* What is remembered beside a logout, or after it, was vouched for anew.
LEMMA StoreKeeps ==
  ASSUME SessionsInv, [Next]_vars, NEW h \in Handlers, Store(h) PROVE SessionsInv'
<1>1. /\ TypeOK /\ Parted /\ Works(h) /\ pair \in Nat /\ h \in Threads /\ DOMAIN thread = Threads
  BY Known, ThreadFields, Parameters DEF TypeOK
<1>2. /\ UNCHANGED <<pair, live, row, ended, unsaved, excused, parted, raced, faults>>
      /\ thread[h].at = "store" /\ thread' = Put(h, Idle) /\ vouched' = (vouched \/ parted \/ Beside(h))
  BY DEF Store, gitlab
<1>3. faults' \in 0 .. MaxFaults
  BY <1>1, <1>2 DEF TypeOK
<1>4. pair > 0
  BY <1>1, <1>2, LoggedIn
<1>5. Parted'
  BY <1>1, <1>2 DEF Parted
<1>6. \A g \in Handlers \ {h} : Parting(thread[g]) => vouched'
  BY <1>2, Besides
<1>7. Works(h)'
  <2>1. thread'[h] = Idle
    BY <1>1, <1>2 DEF Put
  <2> QED BY <1>1, <2>1, IdleTask, Plain
<1>8. Idle \in Tasks /\ Idle.at # "wait" /\ Suits(h, Idle)
  BY <1>1, IdleTask
<1> QED BY <1>2, <1>3, <1>4, <1>5, <1>6, <1>7, <1>8, HandlerKeeps

\* The identity of the newest pair is out of the cache before the pair is revoked.
LEMMA forgetKeeps ==
  ASSUME SessionsInv, [Next]_vars, NEW h \in Handlers, forget(h) PROVE SessionsInv'
<1>1. /\ TypeOK /\ Parted /\ Works(h) /\ thread[h] \in Tasks /\ Suits(h, thread[h])
      /\ pair \in Nat /\ h \in Threads /\ h # Renewal /\ DOMAIN thread = Threads
  BY Known, ThreadFields, Parameters DEF TypeOK
<1>2. /\ UNCHANGED <<pair, live, row, ended, unsaved, excused, parted, raced, vouched, faults>>
      /\ thread[h].at = "forget" /\ cache' = cache \ {thread[h].tokens}
      /\ thread' = Put(h, [thread[h] EXCEPT !.at = "revoke"])
  BY DEF forget, gitlab
<1> DEFINE t == [thread[h] EXCEPT !.at = "revoke"]
<1>3. faults' \in 0 .. MaxFaults
  BY <1>1, <1>2 DEF TypeOK
<1>4. pair > 0
  BY <1>1, <1>2, LoggedIn
<1>5. Parted' /\ (Moot <=> Moot')
  BY <1>1, <1>2 DEF Parted, Moot
<1>6. /\ t \in Tasks /\ t.at = "revoke" /\ t.does = thread[h].does /\ t.late = thread[h].late
      /\ t.tokens = thread[h].tokens
  BY <1>1 DEF Tasks
<1>7. thread' = Put(h, t) /\ thread'[h] = t /\ thread'[Renewal] = thread[Renewal]
  BY <1>1, <1>2, Parameters DEF Put
<1> HIDE DEF t
<1>8. Suits(h, t)
  BY <1>1, <1>2, <1>6 DEF Suits
<1>9. Works(h)'
  <2>1. Unseals(thread[h])' /\ ComesLate(thread[h])'
    BY <1>1, <1>2, <1>6, <1>7 DEF Works, Unseals, ComesLate
  <2>2. LogsOut(thread[h])'
    BY <1>1, <1>2, <1>5, <1>6, <1>7 DEF Works, LogsOut, Parting, Updating
  <2> QED BY <1>1, <1>6, <1>7, <2>1, <2>2 DEF Works
<1> QED BY <1>2, <1>3, <1>4, <1>5, <1>6, <1>7, <1>8, <1>9, HandlerKeeps

\* What the logout revokes is the newest pair, so the grant is gone.
LEMMA revokeKeeps ==
  ASSUME SessionsInv, [Next]_vars, NEW h \in Handlers, revoke(h) PROVE SessionsInv'
<1>1. /\ TypeOK /\ Parted /\ Works(h) /\ thread[h] \in Tasks /\ Suits(h, thread[h])
      /\ pair \in Nat /\ h \in Threads /\ h # Renewal /\ DOMAIN thread = Threads
  BY Known, ThreadFields, Parameters DEF TypeOK
<1>2. /\ UNCHANGED <<pair, row, ended, unsaved, cache, excused, parted, raced, vouched>>
      /\ thread[h].at = "revoke" /\ (live' => live)
  <2>1. live' = live \/ live' = (live /\ thread[h].tokens # pair)
    BY DEF revoke
  <2>2. live' => live
    BY <2>1, Zenon
  <2> QED BY <2>2 DEF revoke
<1>3. faults' \in 0 .. MaxFaults
  BY <1>1, FaultCounts DEF revoke
<1>4. pair > 0 /\ Parted' /\ (Moot <=> Moot')
  BY <1>1, <1>2, LoggedIn DEF Parted, Moot
<1>5. PICK at \in {"delete", "delete revoked"} :
        /\ thread' = Put(h, [thread[h] EXCEPT !.at = at])
        /\ at = "delete revoked" => live' = (live /\ thread[h].tokens # pair)
  BY DEF revoke
<1> DEFINE t == [thread[h] EXCEPT !.at = at]
<1>6. t \in Tasks /\ t.at = at /\ t.does = thread[h].does /\ t.late = thread[h].late
  BY <1>1 DEF Tasks
<1>7. thread' = Put(h, t) /\ thread'[h] = t /\ thread'[Renewal] = thread[Renewal]
  BY <1>1, <1>5, Parameters DEF Put
<1> HIDE DEF t
<1>8. Suits(h, t)
  BY <1>1, <1>2, <1>6 DEF Suits
<1>9. Works(h)'
  <2>1. Unseals(thread[h])' /\ ComesLate(thread[h])'
    BY <1>1, <1>2, <1>6, <1>7 DEF Works, Unseals, ComesLate
  <2>2. LogsOut(thread[h])'
    BY <1>1, <1>2, <1>4, <1>5, <1>6, <1>7 DEF Works, LogsOut, Parting, Updating
  <2> QED BY <1>1, <1>6, <1>7, <2>1, <2>2 DEF Works
<1> QED BY <1>2, <1>3, <1>4, <1>6, <1>7, <1>8, <1>9, HandlerKeeps

\* The row goes last; a logout that ended all of it had revoked the newest pair.
LEMMA EndSessionKeeps ==
  ASSUME SessionsInv, [Next]_vars, NEW h \in Handlers, EndSession(h) PROVE SessionsInv'
<1>1. /\ TypeOK /\ Newest /\ Parted /\ Works(h) /\ thread[h] \in Tasks /\ Suits(h, thread[h])
      /\ pair \in Nat /\ h \in Threads /\ h # Renewal /\ DOMAIN thread = Threads
      /\ Works(Renewal)
  BY Known, ThreadFields, Parameters DEF TypeOK
<1>2. /\ UNCHANGED <<pair, live, ended, cache>>
      /\ thread[h].at \in {"delete", "delete revoked"} /\ unsaved' = None
      /\ \/ /\ row' = None /\ excused' = excused
            /\ parted' = (parted \/ (thread[h].at = "delete revoked" /\ ~ended))
         \/ excused' = (excused \/ unsaved # None) /\ UNCHANGED <<row, parted>>
      /\ thread' = Put(h, Idle) /\ raced' = (raced \/ Beside(h))
  BY DEF EndSession, gitlab
<1>3. faults' \in 0 .. MaxFaults
  BY <1>1, FaultCounts DEF EndSession
<1>4. pair > 0
  BY <1>1, <1>2, LoggedIn
<1>5. RowGoes /\ (Lost => Lost')
  <2>1. RowGoes
    BY <1>2, Parameters DEF RowGoes
  <2>2. (excused => excused') /\ (row' = row \/ row' = None)
    BY <1>1, <1>2, FlagsTyped
  <2> QED BY <1>2, <2>1, <2>2 DEF Lost
<1>6. Idle \in Tasks' /\ Idle.at # "wait" /\ Suits(h, Idle)
  BY <1>1, <1>2, IdleTask DEF Tasks
<1>7. Works(h)'
  <2>1. thread'[h] = Idle
    BY <1>1, <1>2 DEF Put
  <2> QED BY <1>1, <2>1, IdleTask, Plain
<1>8. Newest'
  <2>1. Updating <=> Updating'
    BY <1>1, <1>2, Parameters DEF Put, Updating
  <2> QED BY <1>1, <1>2, <1>5, <2>1 DEF Newest, Lost
<1>9. Parted'
  <2>0. vouched' = vouched
    BY DEF EndSession
  <2> SUFFICES ASSUME parted', ~ raced', ~ excused' PROVE ~ live /\ (pair \notin cache \/ vouched)
    BY <1>2, <2>0 DEF Parted
  <2>1. ~ raced /\ ~ excused
    BY <1>1, FlagsTyped
  <2>2. CASE parted
    BY <1>1, <2>1, <2>2 DEF Parted
  <2>3. CASE ~ parted
    <3>1. thread[h].at = "delete revoked" /\ ~ ended
      BY <1>2, <2>3
    <3>2. Parting(thread[h]) /\ ~ Moot
      BY <1>1, <2>1, <3>1 DEF Parting, Suits, Moot
    <3> QED BY <1>1, <3>1, <3>2 DEF Works, LogsOut
  <2> QED BY <2>2, <2>3
<1>10. \A g \in Handlers \ {h} : Parting(thread[g]) => Moot'
  BY <1>2, Besides DEF Moot
<1>11. thread[Renewal].at = "held" => Lost' \/ unsaved' # None \/ thread[Renewal].got = pair
  BY <1>1, <1>2, <1>5 DEF Works, Renews, Lost
<1> QED BY <1>1, <1>2, <1>3, <1>4, <1>5, <1>6, <1>7, <1>8, <1>9, <1>10, <1>11, Moves

\* With the login the row has the first pair.
LEMMA LoginKeeps == ASSUME SessionsInv, [Next]_vars, Login PROVE SessionsInv'
<1>1. /\ TypeOK /\ ~ parted /\ unsaved = None /\ \A h \in Threads : thread[h] = Idle
      /\ pair = 0
  BY DEF SessionsInv, Fresh, Login
<1>2. /\ pair' = 1 /\ row' = 1 /\ UNCHANGED <<unsaved, thread, parted, faults>>
  BY DEF Login
<1>3. ThreadType'
  <2>1. pair \in Nat /\ pair' = pair + 1
    BY <1>1, <1>2
  <2>2. Tasks \subseteq Tasks'
    BY <2>1, TasksGrow
  <2> QED BY <1>1, <1>2, <2>2 DEF TypeOK, ThreadType
<1>4. TypeOK'
  BY <1>1, <1>2, <1>3, FlagsTyped, GrantTyped DEF TypeOK
<1>5. ASSUME NEW h \in Threads PROVE Works(h)'
  <2>1. thread'[h] = Idle
    BY <1>1, <1>2
  <2> QED BY <2>1, IdleTask, Plain
<1> QED BY <1>1, <1>2, <1>4, <1>5 DEF SessionsInv, Fresh, Newest, Parted

\* A restart ends what was under way; a pair that only memory held is an excuse.
LEMMA RestartKeeps == ASSUME SessionsInv, [Next]_vars, Restart PROVE SessionsInv'
<1>1. TypeOK /\ Parted /\ pair \in Nat /\ Fresh
  BY DEF SessionsInv, TypeOK, GrantType
<1>2. /\ UNCHANGED <<pair, live, parted>> /\ thread' = [h \in Threads |-> Idle] /\ unsaved' = None
      /\ cache' = {} /\ row' \in {row, IF row = None THEN None ELSE 0}
      /\ excused' = (excused \/ row # pair)
  BY DEF Restart, gitlab
<1>3. faults' \in 0 .. MaxFaults
  BY <1>1, FaultCounts DEF Restart
<1>4. TypeOK'
  <2>1. ThreadType'
    <3>1. Idle \in Tasks'
      BY <1>1, <1>2, IdleTask DEF Tasks
    <3> QED BY <1>2, <3>1, IdleTask DEF ThreadType
  <2> QED BY <1>1, <1>3, <2>1, FlagsTyped, GrantTyped DEF TypeOK
<1>5. ASSUME NEW h \in Threads PROVE Works(h)' /\ thread'[h] = Idle
  <2>1. thread'[h] = Idle
    BY <1>2
  <2> QED BY <2>1, IdleTask, Plain
<1>6. Newest' /\ Fresh'
  BY <1>1, <1>2, <1>5 DEF Newest, Lost, Fresh
<1>7. Parted'
  BY <1>1, <1>2, FlagsTyped DEF Parted
<1> QED BY <1>2, <1>4, <1>5, <1>6, <1>7 DEF SessionsInv

\* What happens while no thread moves: time, the database's pruning, the
\* cache's eviction, the user on GitLab.
LEMMA OutsideKeeps ==
  ASSUME SessionsInv, [Next]_vars, evict \/ RunsOut \/ prune \/ RevokedByUser \/ UNCHANGED vars
  PROVE  SessionsInv'
<1>1. TypeOK /\ (row = 0 => unsaved = None)
  BY DEF SessionsInv
<1>2. /\ UNCHANGED <<pair, unsaved, thread, parted>> /\ (live' => live) /\ cache' \subseteq cache
      /\ row' = row \/ (ended /\ row' = None)
  BY DEF evict, RunsOut, prune, RevokedByUser, vars, gitlab
<1>3. faults' \in 0 .. MaxFaults
  <2>1. Fault \/ UNCHANGED faults
    BY DEF evict, RunsOut, prune, RevokedByUser, vars
  <2> QED BY <1>1, <2>1, FaultCounts
<1>4. RowGoes
  BY <1>2, Parameters DEF RowGoes
<1> QED BY <1>1, <1>2, <1>3, <1>4, Stays, Parameters

\* The invariant holds at the start.
LEMMA InitInv == Init => SessionsInv
<1> SUFFICES ASSUME Init PROVE SessionsInv
  OBVIOUS
<1>1. \A h \in Threads : thread[h] = Idle
  BY DEF Init
<1>2. ASSUME NEW h \in Threads PROVE Works(h)
  <2>1. Unseals(thread[h]) /\ Renews(thread[h]) /\ LogsOut(thread[h]) /\ ComesLate(thread[h])
    BY <1>1, IdleTask DEF Unseals, Renews, LogsOut, Parting, ComesLate
  <2> QED BY <1>1, <2>1, IdleTask DEF Works
<1>3. Fresh /\ Newest /\ Parted /\ (row = 0 => unsaved = None)
  BY <1>1 DEF Init, Fresh, Newest, Lost, Parted
<1> QED BY <1>2, <1>3, InitTyped DEF SessionsInv

\* Every step keeps it.
LEMMA NextInv == SessionsInv /\ [Next]_vars => SessionsInv'
<1> SUFFICES ASSUME SessionsInv, [Next]_vars PROVE SessionsInv'
  OBVIOUS
<1>1. CASE Login
  BY <1>1, LoginKeeps
<1>2. CASE Renew
  BY <1>2, RenewKeeps
<1>3. CASE update
  BY <1>3, updateKeeps
<1>4. CASE Restart
  BY <1>4, RestartKeeps
<1>5. CASE evict \/ RunsOut \/ prune \/ RevokedByUser \/ UNCHANGED vars
  BY <1>5, OutsideKeeps
<1>6. ASSUME NEW h \in Threads, ReadRow(h) \/ Held(h) \/ WriteBack(h) \/ destroy(h)
      PROVE  SessionsInv'
  BY <1>6, ReadRowKeeps, HeldKeeps, WriteBackKeeps, destroyKeeps
<1>7. ASSUME NEW h \in Handlers,
             Begin(h) \/ Verify(h) \/ Store(h) \/ forget(h) \/ revoke(h) \/ EndSession(h)
      PROVE  SessionsInv'
  BY <1>7, BeginKeeps, VerifyKeeps, StoreKeeps, forgetKeeps, revokeKeeps, EndSessionKeeps
<1> QED BY <1>1, <1>2, <1>3, <1>4, <1>5, <1>6, <1>7 DEF Next

-----------------------------------------------------------------------------
(* The theorems. *)

\* The inductive invariant holds throughout: what the database, the memory, the
\* renewal and each logout know of the newest pair agree.
THEOREM SessionsInvariant == Spec => []SessionsInv
<1> QED BY InitInv, NextInv, PTL DEF Spec

\* Every variable keeps its type: nobody waits on a renewal that is not under
\* way (sessionToken), nor works with tokens that do not exist.
THEOREM SessionsTypeCorrect == Spec => []TypeOK
<1>1. SessionsInv => TypeOK
  BY DEF SessionsInv
<1> QED BY <1>1, SessionsInvariant, PTL

\* Whatever failed, the pair GitLab still renews is the one load would serve, or
\* the one the renewal is about to record (update, load, save).
THEOREM NewestIsKept == Spec => []NewestKept
<1>1. SessionsInv => NewestKept
  <2> SUFFICES ASSUME SessionsInv PROVE NewestKept
    OBVIOUS
  <2>1. Newest /\ Works(Renewal)
    BY Parameters DEF SessionsInv
  <2> QED BY <2>1 DEF NewestKept, Newest, Lost, Updating, Works, Renews
<1> QED BY <1>1, SessionsInvariant, PTL

\* A logout that got through, with no renewal, write-back or other logout beside
\* it, leaves no live grant, and the identity behind the newest access token
\* forgotten unless a verification beside it or after it remembered it anew; a
\* request that came after it is refused (endSession, load).
THEOREM LogoutMeansGone == Spec => []LoggedOutIsGone
<1>1. SessionsInv => LoggedOutIsGone
  <2> SUFFICES ASSUME SessionsInv PROVE LoggedOutIsGone
    OBVIOUS
  <2>1. Parted /\ \A h \in Handlers : ComesLate(thread[h])
    BY Parameters DEF SessionsInv, Works
  <2> QED BY <2>1 DEF LoggedOutIsGone, Parted, ComesLate
<1> QED BY <1>1, SessionsInvariant, PTL

\* A session goes only by a logout, when its time is up, when it cannot be
\* unsealed, or when its grant is gone: however many renewals fail or race, none
\* of them logs the user out (refresh, destroy).
THEOREM SessionEndsForCause == Spec => EndsForCause
<1>1. ASSUME SessionsInv, [Next]_vars, row # None, row' = None
      PROVE  \/ ended \/ row = 0 \/ ~live \/ excused
             \/ \E h \in Handlers : thread[h].at \in {"delete", "delete revoked"}
  <2>1. CASE \E h \in Threads : destroy(h)
    <3>1. PICK h \in Threads : destroy(h)
      BY <2>1
    <3>2. thread[h].at = "destroy" /\ Works(h)
      BY <3>1, Known, <1>1 DEF destroy
    <3> QED BY <1>1, <3>2 DEF Works, Renews, Lost
  <2>2. CASE update \/ \E h \in Threads : WriteBack(h)
    <3>1. PICK h \in Threads : row' \in {row, saved(thread[h].tokens)}
      BY <2>2, Parameters DEF update, WriteBack
    <3>2. thread[h].tokens \in Nat
      BY <1>1, Known
    <3> QED BY <1>1, <3>1, <3>2, Parameters DEF saved
  <2>3. CASE \E h \in Handlers : EndSession(h)
    BY <2>3 DEF EndSession
  <2>4. CASE Restart
    BY <1>1, <2>4, Parameters DEF Restart
  <2>5. CASE prune
    BY <2>5 DEF prune
  <2>6. \/ row' = 1 \/ row' = row \/ update \/ Restart \/ prune
        \/ \E h \in Threads : destroy(h) \/ WriteBack(h)
        \/ \E h \in Handlers : EndSession(h)
    BY <1>1 DEF Next, Login, Renew, evict, RunsOut, RevokedByUser, ReadRow, Held, Begin, Verify, Store,
                forget, revoke, vars, gitlab
  <2> QED BY <1>1, <2>1, <2>2, <2>3, <2>4, <2>5, <2>6, Parameters
<1>2. SessionsInv /\ [Next]_vars =>
        [row # None /\ row' = None =>
           \/ ended \/ row = 0 \/ ~live \/ excused
           \/ \E h \in Handlers : thread[h].at \in {"delete", "delete revoked"}]_vars
  BY <1>1
<1> QED BY <1>2, SessionsInvariant, PTL DEF Spec, EndsForCause

-----------------------------------------------------------------------------
(* The cache of identities, for any number of keys, requests and moments.    *)

CacheInv == CacheTypeOK /\ Bounded /\ InLine

\* A set of natural numbers that is not empty has a least one.
LEMMA LeastOf ==
  ASSUME NEW S, S \subseteq Nat, S # {}
  PROVE  \E x \in S : \A y \in S : x <= y
<1> DEFINE R == OpToRel(<, Nat)
<1>1. IsWellFoundedOn(R, Nat)
  BY NatLessThanWellFounded, Zenon
<1>2. R = {ss \in Nat \X Nat : ss[1] < ss[2]}
  BY Zenon DEF OpToRel
<1> HIDE DEF R
<1>3. PICK x \in S : \A y \in S : ~ (<<y, x>> \in R)
  BY <1>1, WFMin
<1>4. \A y \in S : x <= y
  <2> SUFFICES ASSUME NEW y \in S PROVE x <= y
    OBVIOUS
  <2> DEFINE ss == <<y, x>>
  <2>1. ss \in Nat \X Nat /\ ss[1] = y /\ ss[2] = x
    OBVIOUS
  <2>2. ss \notin R
    BY <1>3
  <2> HIDE DEF ss
  <2>3. ~ (ss[1] < ss[2])
    BY <2>1, <2>2, <1>2, Zenon
  <2> QED BY <2>1, <2>3
<1> QED BY <1>4

\* What is queued, and what is remembered.
LEMMA QueueFields ==
  ASSUME CacheTypeOK
  PROVE  /\ now \in Nat /\ Len(order) \in Nat /\ TTL \in Nat \ {0} /\ Capacity \in Nat \ {0}
         /\ \A k \in Keys : entries[k] \in Nat /\ entries[k] <= now + TTL
         /\ \A i \in 1 .. Len(order) : /\ order[i] \in [key : Keys, expires : 1 .. now + TTL]
                                       /\ order[i].key \in Keys /\ order[i].expires \in Nat
                                       /\ order[i].expires <= now + TTL
<1>1. now \in Nat /\ TTL \in Nat \ {0} /\ Capacity \in Nat \ {0} /\ MaxClock \in Nat
  BY CacheAssumption DEF CacheTypeOK
<1>2. Len(order) \in Nat /\ \A i \in 1 .. Len(order) : order[i] \in [key : Keys, expires : 1 .. now + TTL]
  <2> DEFINE Stamped == [key : Keys, expires : 1 .. now + TTL]
  <2>1. order \in Seq(Stamped)
    BY DEF CacheTypeOK
  <2> HIDE DEF Stamped
  <2>2. Len(order) \in Nat /\ \A i \in 1 .. Len(order) : order[i] \in Stamped
    BY <2>1, LenProperties, ElementOfSeq
  <2> QED BY <2>2 DEF Stamped
<1>3. \A i \in 1 .. Len(order) : order[i].key \in Keys /\ order[i].expires \in 1 .. now + TTL
  BY <1>2
<1>4. \A k \in Keys : entries[k] \in 0 .. now + TTL
  BY DEF CacheTypeOK
<1> QED BY <1>1, <1>2, <1>3, <1>4

LEMMA RememberedFinite ==
  /\ IsFiniteSet(Remembered)
  /\ \A n : Left(n) \subseteq Remembered /\ IsFiniteSet(Left(n))
<1>1. Remembered \subseteq Keys /\ \A n : Left(n) \subseteq Remembered
  BY DEF Remembered, Left
<1>2. IsFiniteSet(Remembered)
  BY <1>1, CacheAssumption, FS_Subset
<1> QED BY <1>1, <1>2, FS_Subset

\* evict ends, at the first moment at which it has popped enough.
LEMMA PoppedIs ==
  ASSUME CacheTypeOK
  PROVE  /\ Popped \in 0 .. Len(order) /\ Enough(Popped)
         /\ \A m \in 0 .. Len(order) : m < Popped => ~Enough(m)
<1> DEFINE enough == {n \in 0 .. Len(order) : Enough(n)}
<1>1. Len(order) \in enough
  BY QueueFields DEF Enough
<1>2. enough \subseteq Nat
  BY QueueFields
<1>3. \E n \in enough : \A m \in enough : n <= m
  <2> HIDE DEF enough
  <2> QED BY <1>1, <1>2, LeastOf
<1>4. Popped \in enough /\ \A m \in enough : Popped <= m
  BY <1>3 DEF Popped
<1>5. ASSUME NEW m \in 0 .. Len(order), m < Popped, Enough(m) PROVE FALSE
  <2>1. Popped <= m
    BY <1>4, <1>5
  <2> QED BY <1>2, <1>4, <1>5, <2>1, QueueFields
<1> QED BY <1>4, <1>5

\* When enough is popped, what has run out is gone and there is room.
LEMMA EnoughLeaves ==
  ASSUME CacheInv, NEW n \in 0 .. Len(order), Enough(n)
  PROVE  /\ \A k \in Left(n) : now < entries[k]
         /\ Cardinality(Left(n)) < Capacity
<1> USE DEF CacheInv
<1>1. ASSUME NEW k \in Left(n)
      PROVE  n < Len(order) /\ now < entries[k]
  <2>1. k \in Remembered /\ \A i \in 1 .. n : ~StandsFor(i, k)
    BY DEF Left
  <2>2. PICK i \in 1 .. Len(order) : StandsFor(i, k)
    BY <2>1 DEF InLine
  <2>3. ~(i \in 1 .. n)
    BY <2>1, <2>2
  <2>4. n < i /\ n + 1 \in 1 .. Len(order) /\ n < Len(order)
    BY <2>3, QueueFields
  <2>5. order[n + 1].expires <= order[i].expires
    <3>1. CASE n + 1 = i
      BY <3>1, QueueFields
    <3>2. CASE n + 1 # i
      BY <2>4, <3>2 DEF InLine
    <3> QED BY <3>1, <3>2
  <2>6. now < order[n + 1].expires
    BY <2>4 DEF Enough
  <2>7. order[i].expires = entries[k] /\ k \in Keys
    BY <2>1, <2>2 DEF StandsFor, Remembered
  <2> QED BY <2>4, <2>5, <2>6, <2>7, QueueFields
<1>2. CASE n < Len(order)
  BY <1>1, <1>2 DEF Enough
<1>3. CASE ~(n < Len(order))
  <2>1. Left(n) = {}
    BY <1>1, <1>3
  <2> QED BY <1>1, <2>1, FS_EmptySet, QueueFields
<1> QED BY <1>2, <1>3

\* A key that is popped before it runs out was the next to, of a full cache, and
\* is the only one.
LEMMA OneGoesEarly ==
  ASSUME CacheInv, NEW k \in Remembered, k \notin Left(Popped), now < entries[k]
  PROVE  /\ \A j \in Remembered : entries[k] <= entries[j]
         /\ Cardinality(Remembered) = Capacity
         /\ Left(Popped) = Remembered \ {k}
<1> USE DEF CacheInv
<1>1. PICK i \in 1 .. Popped : StandsFor(i, k)
  BY DEF Left
<1>2. /\ i \in 1 .. Len(order) /\ i - 1 \in 0 .. Len(order) /\ i - 1 < Popped /\ (i - 1) + 1 = i
      /\ i \in 0 .. Len(order) /\ i - 1 < Len(order)
  BY PoppedIs, QueueFields
<1>3. order[i].key = k /\ order[i].expires = entries[k]
  BY <1>1 DEF StandsFor
<1>4. ~(Cardinality(Left(i - 1)) < Capacity)
  <2>1. ~Enough(i - 1)
    BY <1>2, PoppedIs
  <2> QED BY <1>2, <1>3, <2>1 DEF Enough
<1>5. Left(i - 1) = Remembered /\ Cardinality(Remembered) = Capacity
  <2>1. Cardinality(Left(i - 1)) <= Cardinality(Remembered)
    BY RememberedFinite, FS_Subset
  <2>2. Cardinality(Left(i - 1)) \in Nat /\ Cardinality(Remembered) \in Nat
    BY RememberedFinite, FS_CardinalityType
  <2>3. Cardinality(Left(i - 1)) = Cardinality(Remembered) /\ Cardinality(Remembered) = Capacity
    BY <1>4, <2>1, <2>2, QueueFields DEF Bounded
  <2> QED BY <2>3, RememberedFinite, FS_Subset
<1>6. ASSUME NEW j \in Remembered PROVE entries[k] <= entries[j]
  <2>1. PICK l \in 1 .. Len(order) : StandsFor(l, j)
    BY DEF InLine
  <2>2. ~(l \in 1 .. i - 1)
    BY <1>5, <2>1 DEF Left
  <2>3. i <= l
    BY <1>2, <2>2
  <2>4. order[i].expires <= order[l].expires
    <3>1. CASE i = l
      BY <3>1, QueueFields
    <3>2. CASE i # l
      BY <1>2, <2>3, <3>2 DEF InLine
    <3> QED BY <3>1, <3>2
  <2> QED BY <1>3, <2>1, <2>4 DEF StandsFor
<1>7. Left(i) = Remembered \ {k}
  <2>1. \A j \in Remembered : StandsFor(i, j) <=> j = k
    BY <1>1, <1>3 DEF StandsFor
  <2>2. \A j \in Remembered : \A l \in 1 .. i - 1 : ~StandsFor(l, j)
    BY <1>5 DEF Left
  <2>3. \A l \in 1 .. i : l = i \/ l \in 1 .. i - 1
    BY <1>2
  <2>4. i \in 1 .. i
    BY <1>2
  <2> QED BY <2>1, <2>2, <2>3, <2>4 DEF Left
<1>8. Enough(i)
  <2>1. Cardinality(Left(i)) < Capacity
    <3>1. Cardinality(Remembered \ {k}) = Cardinality(Remembered) - 1
      BY RememberedFinite, FS_RemoveElement
    <3> QED BY <1>5, <1>7, <3>1, QueueFields
  <2>2. ASSUME i < Len(order) PROVE now < order[i + 1].expires
    <3>1. i + 1 \in 1 .. Len(order) /\ i < i + 1
      BY <1>2, <2>2, QueueFields
    <3>2. order[i].expires <= order[i + 1].expires
      BY <1>2, <3>1 DEF InLine
    <3> QED BY <1>2, <1>3, <3>1, <3>2, QueueFields
  <2> QED BY <2>1, <2>2 DEF Enough
<1>9. Popped = i
  <2>1. ~(i < Popped)
    BY <1>2, <1>8, PoppedIs
  <2> QED BY <2>1, PoppedIs, QueueFields
<1> QED BY <1>5, <1>6, <1>7, <1>9

LEMMA SameCardinality == ASSUME NEW S PROVE Promised!Cardinality(S) = Cardinality(S)
  BY DEF Promised!Cardinality, Cardinality

\* So evict keeps what it promises to.
LEMMA KeepsFresh == ASSUME CacheInv PROVE Promised!Keeps(Left(Popped))
<1> USE DEF CacheInv
<1>1. /\ Promised!Remembered = Remembered /\ Promised!Fresh = {k \in Remembered : now < entries[k]}
  BY DEF Promised!Remembered, Promised!Fresh, Remembered
<1>2. Left(Popped) \subseteq Promised!Fresh /\ Cardinality(Left(Popped)) < Capacity
  BY <1>1, PoppedIs, EnoughLeaves, RememberedFinite
<1>3. CASE \E k \in Promised!Fresh : k \notin Left(Popped)
  <2>1. PICK k \in Remembered : k \notin Left(Popped) /\ now < entries[k]
    BY <1>1, <1>3
  <2>2. /\ \A j \in Remembered : entries[k] <= entries[j]
        /\ Cardinality(Remembered) = Capacity
        /\ Left(Popped) = Remembered \ {k}
    BY <2>1, OneGoesEarly
  <2>3. Promised!Fresh = Remembered
    <3>1. \A j \in Remembered : now < entries[j]
      BY <2>1, <2>2, QueueFields DEF Remembered
    <3> QED BY <1>1, <3>1
  <2>4. /\ Cardinality(Promised!Fresh) = Capacity /\ k \in Promised!Fresh
        /\ Left(Popped) = Promised!Fresh \ {k} /\ \A j \in Promised!Fresh : entries[k] <= entries[j]
    BY <2>1, <2>2, <2>3
  <2> QED BY <2>4, SameCardinality DEF Promised!Keeps
<1>4. CASE \A k \in Promised!Fresh : k \in Left(Popped)
  BY <1>2, <1>4, SameCardinality DEF Promised!Keeps
<1> QED BY <1>3, <1>4

-----------------------------------------------------------------------------
(* The invariant holds initially, and every step keeps it.                   *)

LEMMA QueueGrows ==
  ASSUME NEW q, NEW S, NEW T, q \in Seq(S), S \subseteq T PROVE q \in Seq(T)
<1>1. q \in [1 .. Len(q) -> T] /\ Len(q) \in Nat
  BY LenProperties
<1> QED BY <1>1, SeqDef

\* The queue once a key is stored: what was not popped, and the key.
LEMMA QueuedIs ==
  ASSUME CacheTypeOK, NEW k \in Keys, NEW n \in 0 .. Len(order)
  PROVE  /\ Queued(k, n) \in Seq([key : Keys, expires : 1 .. now + TTL])
         /\ Len(Queued(k, n)) = Len(order) - n + 1
         /\ \A i \in 1 .. Len(order) - n : Queued(k, n)[i] = order[n + i]
         /\ Queued(k, n)[Len(order) - n + 1] = [key |-> k, expires |-> now + TTL]
<1> DEFINE Stamped == [key : Keys, expires : 1 .. now + TTL]
           rest == SubSeq(order, n + 1, Len(order))
           elt == [key |-> k, expires |-> now + TTL]
<1>1. elt \in Stamped
  BY QueueFields
<1>2. \A i \in n + 1 .. Len(order) : order[i] \in Stamped
  BY QueueFields
<1>3. n + 1 \in Int /\ Len(order) \in Int /\ n \in Nat /\ Len(order) - n \in Nat
  BY QueueFields
<1>4. Queued(k, n) = Append(rest, elt)
  BY DEF Queued, Expiry
<1> HIDE DEF Stamped, elt
<1>5. /\ rest \in Seq(Stamped)
      /\ Len(rest) = IF n + 1 <= Len(order) THEN Len(order) - (n + 1) + 1 ELSE 0
      /\ \A i \in 1 .. Len(order) - (n + 1) + 1 : rest[i] = order[(n + 1) + i - 1]
  BY <1>2, <1>3, SubSeqProperties
<1>6. Len(rest) = Len(order) - n
  BY <1>3, <1>5
<1>7. \A i \in 1 .. Len(order) - n : rest[i] = order[n + i]
  <2> TAKE i \in 1 .. Len(order) - n
  <2>1. i \in 1 .. Len(order) - (n + 1) + 1 /\ (n + 1) + i - 1 = n + i
    BY <1>3
  <2> QED BY <1>5, <2>1
<1> HIDE DEF rest
<1>8. /\ Append(rest, elt) \in Seq(Stamped) /\ Len(Append(rest, elt)) = Len(rest) + 1
      /\ \A i \in 1 .. Len(rest) : Append(rest, elt)[i] = rest[i]
      /\ Append(rest, elt)[Len(rest) + 1] = elt
  BY <1>1, <1>5, AppendProperties
<1> QED BY <1>4, <1>6, <1>7, <1>8 DEF Stamped, elt

LEMMA CacheStarts == ASSUME CacheInit PROVE CacheInv
<1> USE DEF CacheInit
<1>1. CacheTypeOK
  BY CacheAssumption, EmptySeq DEF CacheTypeOK
<1>2. Bounded
  <2>1. Remembered = {}
    BY DEF Remembered
  <2> QED BY <2>1, FS_EmptySet, CacheAssumption DEF Bounded
<1>3. InLine
  BY DEF InLine, Remembered
<1> QED BY <1>1, <1>2, <1>3 DEF CacheInv

\* Dropping entries, by a look-up or a logout, leaves the rest in line.
LEMMA DroppingKeeps ==
  ASSUME CacheInv, NEW d \in Keys, entries' = [entries EXCEPT ![d] = 0], UNCHANGED <<now, order>>,
         asking' \in [Callers -> Keys \cup {NoKey}]
  PROVE  CacheInv'
<1> USE DEF CacheInv
<1>1. CacheTypeOK'
  BY QueueFields DEF CacheTypeOK
<1>2. Remembered' \subseteq Remembered /\ \A k \in Remembered' : entries'[k] = entries[k]
  BY DEF Remembered, CacheTypeOK
<1>3. Bounded'
  <2>1. Cardinality(Remembered') <= Cardinality(Remembered) /\ IsFiniteSet(Remembered')
    BY <1>2, RememberedFinite, FS_Subset
  <2>2. Cardinality(Remembered') \in Nat /\ Cardinality(Remembered) \in Nat
    BY <2>1, RememberedFinite, FS_CardinalityType
  <2> QED BY <2>1, <2>2, QueueFields DEF Bounded
<1>4. InLine'
  BY <1>2 DEF InLine, StandsFor
<1> QED BY <1>1, <1>3, <1>4

\* A new key goes to the end of the queue, where there is room for it.
LEMMA StoringKeeps ==
  ASSUME CacheInv, NEW k \in Keys, store(k), now' = now, asking' \in [Callers -> Keys \cup {NoKey}]
  PROVE  CacheInv'
<1> USE DEF CacheInv
<1> DEFINE n == Popped
<1>1. n \in 0 .. Len(order) /\ Enough(n)
  BY PoppedIs
<1>2. /\ order' = Queued(k, n)
      /\ entries' = [j \in Keys |-> IF j = k THEN now + TTL ELSE IF j \in Left(n) THEN entries[j] ELSE 0]
  BY DEF store, Expiry
<1>3. Left(n) \subseteq Keys
  BY DEF Left, Remembered
<1> HIDE DEF n
<1>4. CacheTypeOK'
  <2>1. entries' \in [Keys -> 0 .. now + TTL]
    BY <1>2, QueueFields
  <2> QED BY <1>1, <1>2, <2>1, QueuedIs DEF CacheTypeOK
<1>5. Bounded'
  <2>1. Remembered' \subseteq Left(n) \cup {k}
    BY <1>2 DEF Remembered
  <2>2. IsFiniteSet(Left(n)) /\ IsFiniteSet(Left(n) \cup {k})
    BY RememberedFinite, FS_AddElement
  <2>3. Cardinality(Left(n)) \in Nat /\ Cardinality(Left(n) \cup {k}) <= Cardinality(Left(n)) + 1
    BY <2>2, FS_AddElement, FS_CardinalityType
  <2>4. IsFiniteSet(Remembered') /\ Cardinality(Remembered') <= Cardinality(Left(n) \cup {k})
    BY <2>1, <2>2, FS_Subset
  <2>5. Cardinality(Remembered') \in Nat /\ Cardinality(Left(n) \cup {k}) \in Nat
    BY <2>2, <2>4, FS_CardinalityType
  <2>6. Cardinality(Left(n)) < Capacity
    BY <1>1, EnoughLeaves
  <2> QED BY <2>3, <2>4, <2>5, <2>6, QueueFields DEF Bounded
<1>6. InLine'
  <2> DEFINE new == Queued(k, n)
             last == Len(order) - n + 1
  <2>1. /\ Len(new) = last
        /\ \A i \in 1 .. Len(order) - n : new[i] = order[n + i]
        /\ new[last].key = k /\ new[last].expires = now + TTL
    <3>1. /\ Len(new) = last
          /\ \A i \in 1 .. Len(order) - n : new[i] = order[n + i]
          /\ new[last] = [key |-> k, expires |-> now + TTL]
      BY <1>1, QueuedIs
    <3> HIDE DEF new, last
    <3> QED BY <3>1
  <2>2. last \in Nat \ {0} /\ n \in Nat /\ Len(order) \in Nat
    BY <1>1, QueueFields
  <2> HIDE DEF new
  <2>3. ASSUME NEW i \in 1 .. last, NEW j \in 1 .. last, i < j PROVE new[i].expires <= new[j].expires
    <3>1. i \in 1 .. Len(order) - n /\ n + i \in 1 .. Len(order)
      BY <1>1, <2>2, <2>3
    <3>2. new[i] = order[n + i]
      BY <2>1, <3>1
    <3>3. CASE j = last
      BY <2>1, <3>1, <3>2, <3>3, QueueFields
    <3>4. CASE j # last
      <4>1. j \in 1 .. Len(order) - n /\ n + j \in 1 .. Len(order) /\ n + i < n + j
        BY <1>1, <2>2, <2>3, <3>4
      <4>2. new[j] = order[n + j]
        BY <2>1, <4>1
      <4>3. order[n + i].expires <= order[n + j].expires
        BY <3>1, <4>1 DEF InLine
      <4> QED BY <3>2, <4>2, <4>3
    <3> QED BY <3>3, <3>4
  <2>4. ASSUME NEW j \in Remembered'
        PROVE  \E i \in 1 .. last : new[i].key = j /\ new[i].expires = entries'[j]
    <3>1. CASE j = k
      <4>1. last \in 1 .. last
        BY <2>2
      <4>2. entries'[j] = now + TTL
        BY <1>2, <3>1
      <4> QED BY <2>1, <3>1, <4>1, <4>2
    <3>2. CASE j # k
      <4>1. j \in Keys /\ entries'[j] # 0
        BY DEF Remembered
      <4>2. j \in Left(n) /\ entries'[j] = entries[j]
        BY <1>2, <3>2, <4>1
      <4>3. j \in Remembered /\ \A i \in 1 .. n : ~StandsFor(i, j)
        BY <4>2 DEF Left
      <4>4. PICK i \in 1 .. Len(order) : StandsFor(i, j)
        BY <4>3 DEF InLine
      <4>5. ~(i \in 1 .. n)
        BY <4>3, <4>4
      <4>6. i - n \in 1 .. Len(order) - n /\ n + (i - n) = i /\ i - n \in 1 .. last
        BY <1>1, <2>2, <4>5
      <4>7. new[i - n] = order[i]
        BY <2>1, <4>6
      <4> QED BY <4>2, <4>4, <4>6, <4>7 DEF StandsFor
    <3> QED BY <3>1, <3>2
  <2>5. order' = new /\ Len(order') = last
    BY <1>2, <2>1 DEF new
  <2> HIDE DEF last
  <2> QED BY <2>3, <2>4, <2>5 DEF InLine, StandsFor
<1> QED BY <1>4, <1>5, <1>6

LEMMA StepKeeps == ASSUME CacheInv, [CacheNext]_cacheVars PROVE CacheInv'
<1>1. ASSUME NEW c \in Callers, NEW k \in Keys, lookup(c, k) PROVE CacheInv'
  <2>1. asking' \in [Callers -> Keys \cup {NoKey}]
    BY <1>1 DEF lookup, CacheInv, CacheTypeOK
  <2> QED BY <1>1, <2>1, DroppingKeeps DEF lookup
<1>2. ASSUME NEW c \in Callers, Answered(c) PROVE CacheInv'
  <2>1. asking[c] \in Keys /\ asking' \in [Callers -> Keys \cup {NoKey}]
    BY <1>2 DEF Answered, CacheInv, CacheTypeOK
  <2> QED BY <1>2, <2>1, StoringKeeps DEF Answered
<1>3. ASSUME NEW c \in Callers, Failed(c) PROVE CacheInv'
  BY <1>3 DEF Failed, CacheInv, CacheTypeOK, Bounded, InLine, Remembered, StandsFor
<1>4. ASSUME NEW k \in Keys, Forgotten(k) PROVE CacheInv'
  <2>1. asking' \in [Callers -> Keys \cup {NoKey}]
    BY <1>4 DEF Forgotten, CacheInv, CacheTypeOK
  <2> QED BY <1>4, <2>1, DroppingKeeps DEF Forgotten
<1>5. ASSUME Tick PROVE CacheInv'
  <2>1. now' = now + 1 /\ now' \in 0 .. MaxClock /\ UNCHANGED <<entries, order, asking>>
    BY <1>5, CacheAssumption DEF Tick, CacheInv, CacheTypeOK
  <2>2. entries' \in [Keys -> 0 .. now' + TTL]
    BY <2>1, CacheAssumption DEF CacheInv, CacheTypeOK
  <2>3. order' \in Seq([key : Keys, expires : 1 .. now' + TTL])
    <3>1. [key : Keys, expires : 1 .. now + TTL] \subseteq [key : Keys, expires : 1 .. now' + TTL]
      BY <2>1, CacheAssumption DEF CacheInv, CacheTypeOK
    <3> QED BY <2>1, <3>1, QueueGrows DEF CacheInv, CacheTypeOK
  <2>4. CacheTypeOK'
    BY <2>1, <2>2, <2>3 DEF CacheInv, CacheTypeOK
  <2> QED BY <2>1, <2>4 DEF CacheInv, Bounded, InLine, Remembered, StandsFor
<1>6. CASE UNCHANGED cacheVars
  BY <1>6 DEF cacheVars, CacheInv, CacheTypeOK, Bounded, InLine, Remembered, StandsFor
<1> QED BY <1>1, <1>2, <1>3, <1>4, <1>5, <1>6 DEF CacheNext

THEOREM CacheInductive == CacheSpec => []CacheInv
  BY CacheStarts, StepKeeps, PTL DEF CacheSpec

\* cachingVerifier: what is remembered and queued is about keys, and nothing is
\* remembered for longer than the time to live.
THEOREM CacheTypeCorrect == CacheSpec => []CacheTypeOK
<1>1. CacheInv => CacheTypeOK
  BY DEF CacheInv
<1> QED BY <1>1, CacheInductive, PTL

\* identityCacheEntries bounds the map, however keys are forgotten, run out and
\* are stored again, and however many requests store at once.
THEOREM CacheBounded == CacheSpec => []Bounded
<1>1. CacheInv => Bounded
  BY DEF CacheInv
<1> QED BY <1>1, CacheInductive, PTL

\* The queue is in the order in which its keys run out, and evict would find
\* everything that is remembered: nothing stays in the map for good.
THEOREM NothingStranded == CacheSpec => []InLine
<1>1. CacheInv => InLine
  BY DEF CacheInv
<1> QED BY <1>1, CacheInductive, PTL

\* store drops what has run out, and at most one key before its time: of a full
\* cache, the one closest to it.
THEOREM CacheImplementsRecollection == CacheSpec => ImplementsRecollection
<1>1. ASSUME CacheInit PROVE Promised!Init
  BY <1>1 DEF CacheInit, Promised!Init
<1>2. ASSUME CacheInv, [CacheNext]_cacheVars PROVE [Promised!Next]_<<now, entries>>
  <2>1. ASSUME NEW c \in Callers, NEW k \in Keys, lookup(c, k) PROVE Promised!Next
    BY <2>1 DEF lookup, Promised!Next, Promised!Forget
  <2>2. ASSUME NEW c \in Callers, Answered(c) PROVE Promised!Next
    <3> DEFINE kept == Left(Popped)
    <3>1. asking[c] \in Keys /\ store(asking[c]) /\ now' = now
      BY <1>2, <2>2 DEF Answered, CacheInv, CacheTypeOK
    <3>2. kept \in SUBSET Keys /\ Promised!Keeps(kept)
      BY <1>2, KeepsFresh DEF Left, Remembered
    <3>3. entries' = [j \in Keys |-> IF j = asking[c] THEN now + TTL ELSE IF j \in kept THEN entries[j] ELSE 0]
      BY <3>1 DEF store, Expiry
    <3> HIDE DEF kept
    <3>4. Promised!Remember(asking[c])
      BY <3>1, <3>2, <3>3 DEF Promised!Remember
    <3> QED BY <3>1, <3>4 DEF Promised!Next
  <2>3. ASSUME NEW c \in Callers, Failed(c) PROVE UNCHANGED <<now, entries>>
    BY <2>3 DEF Failed
  <2>4. ASSUME NEW k \in Keys, Forgotten(k) PROVE Promised!Next
    BY <2>4 DEF Forgotten, Promised!Next, Promised!Forget
  <2>5. ASSUME Tick PROVE Promised!Next
    BY <2>5 DEF Tick, Promised!Next, Promised!Tick
  <2>6. CASE UNCHANGED cacheVars
    BY <2>6 DEF cacheVars
  <2> QED BY <1>2, <2>1, <2>2, <2>3, <2>4, <2>5, <2>6 DEF CacheNext
<1> QED
  BY <1>1, <1>2, CacheInductive, PTL DEF CacheSpec, ImplementsRecollection, Promised!Spec

=============================================================================
