---------------------------- MODULE IdentityCache ----------------------------
(***************************************************************************)
(* The cache of verified identities that all sessions share, at its limit    *)
(* (internal/api/identity.go: cachingVerifier). A map says when each key     *)
(* runs out; a queue names the keys as they were stored, and falls out of    *)
(* step with the map when keys are looked up too late, forgotten, or stored  *)
(* by several requests at once. What is remembered, an identity or a         *)
(* refusal, makes no difference here; Sessions has what it is worth.         *)
(*                                                                          *)
(* What the mutex covers is one step; the call to GitLab is between two.     *)
(***************************************************************************)
EXTENDS Integers, Sequences, FiniteSets

CONSTANTS
  Keys,      \* digests of tokens
  Callers,   \* requests being authenticated
  Capacity,  \* identityCacheEntries
  TTL,       \* how long a key is remembered; the cache is not used without
  NoKey,
  MaxClock,  \* bound: the last moment
  MaxQueued  \* bound: keys queued

ASSUME CacheAssumption ==
  /\ IsFiniteSet(Keys) /\ NoKey \notin Keys
  /\ Capacity \in Nat \ {0} /\ TTL \in Nat \ {0} /\ MaxClock \in Nat /\ MaxQueued \in Nat

VARIABLES
  now,     \* time.Now
  entries, \* entries: when each key runs out, 0 if it is not in the map
  order,   \* order
  asking   \* the key each caller is asking GitLab about, or NoKey

cacheVars == <<now, entries, order, asking>>

Remembered == {k \in Keys : entries[k] # 0}

-----------------------------------------------------------------------------
(* evict: keys are popped until the first in the queue is good and there is  *)
(* room, or the queue is empty.                                              *)

\* Faulty variant: whatever a popped key has become goes.
StandsForAnyOf(i, k) == order[i].key = k

\* Only the entry the queued key stands for goes.
StandsFor(i, k) == order[i].key = k /\ order[i].expires = entries[k]

\* What the map still has when the first n are popped.
Left(n) == {k \in Remembered : \A i \in 1 .. n : ~StandsFor(i, k)}

Enough(n) ==
  n < Len(order) => now < order[n + 1].expires /\ Cardinality(Left(n)) < Capacity

Popped ==
  LET enough == {n \in 0 .. Len(order) : Enough(n)} IN CHOOSE n \in enough : \A m \in enough : n <= m

-----------------------------------------------------------------------------

Expiry == now + TTL

Queued(k, n) == Append(SubSeq(order, n + 1, Len(order)), [key |-> k, expires |-> Expiry])

store(k) ==
  /\ entries' = [j \in Keys |-> IF j = k THEN Expiry ELSE IF j \in Left(Popped) THEN entries[j] ELSE 0]
  /\ order' = Queued(k, Popped)
  /\ Len(order') <= MaxQueued

\* Verify, as far as its look-up: a key that has run out is dropped, and GitLab
\* is asked. One that has not is answered from, and nothing changes.
lookup(c, k) ==
  /\ asking[c] = NoKey /\ ~(now < entries[k])
  /\ entries' = [entries EXCEPT ![k] = 0]
  /\ asking' = [asking EXCEPT ![c] = k]
  /\ UNCHANGED <<now, order>>

\* GitLab has vouched for the token, or its user is not allowed in.
Answered(c) ==
  /\ asking[c] # NoKey
  /\ store(asking[c])
  /\ asking' = [asking EXCEPT ![c] = NoKey]
  /\ UNCHANGED now

\* No answer, or a token that GitLab rejects.
Failed(c) ==
  /\ asking[c] # NoKey
  /\ asking' = [asking EXCEPT ![c] = NoKey]
  /\ UNCHANGED <<now, entries, order>>

\* forget: somebody logged out.
Forgotten(k) ==
  /\ entries' = [entries EXCEPT ![k] = 0]
  /\ UNCHANGED <<now, order, asking>>

Tick == now < MaxClock /\ now' = now + 1 /\ UNCHANGED <<entries, order, asking>>

CacheInit ==
  /\ now = 0 /\ entries = [k \in Keys |-> 0] /\ order = <<>> /\ asking = [c \in Callers |-> NoKey]

CacheNext ==
  \/ \E c \in Callers : (\E k \in Keys : lookup(c, k)) \/ Answered(c) \/ Failed(c)
  \/ \E k \in Keys : Forgotten(k)
  \/ Tick

CacheSpec == CacheInit /\ [][CacheNext]_cacheVars

-----------------------------------------------------------------------------
(* What must hold. *)

\* Every expiry is at most the time to live away.
CacheTypeOK ==
  /\ now \in 0 .. MaxClock
  /\ entries \in [Keys -> 0 .. now + TTL]
  /\ order \in Seq([key : Keys, expires : 1 .. now + TTL])
  /\ asking \in [Callers -> Keys \cup {NoKey}]

\* "Bounds the cache ... so a stream of distinct tokens cannot grow it without
\* limit" (identityCacheEntries), although popping may find nothing to drop.
Bounded == Cardinality(Remembered) <= Capacity

\* "This is also the order they expire in" (order), and nothing is remembered
\* that popping would not find.
InLine ==
  /\ \A i, j \in 1 .. Len(order) : i < j => order[i].expires <= order[j].expires
  /\ \A k \in Remembered : \E i \in 1 .. Len(order) : StandsFor(i, k)

\* evict drops what has run out and, "while the cache is still full", the one
\* entry closest to it, whatever the queue still names: a key forgotten and
\* stored again does not go before its time.
Promised == INSTANCE Recollection
ImplementsRecollection == Promised!Spec

=============================================================================
