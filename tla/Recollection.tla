---------------------------- MODULE Recollection ----------------------------
(***************************************************************************)
(* What the cache of identities promises, free of how it finds what to drop: *)
(* a bounded number of keys, each remembered for the same while. Room is     *)
(* made by dropping what has run out and, only if that is not enough, the    *)
(* one key that would have run out first.                                   *)
(***************************************************************************)
EXTENDS Integers, FiniteSets

CONSTANTS Keys, Capacity, TTL, MaxClock

VARIABLES now, entries  \* when each key runs out, 0 if it is not remembered

Remembered == {k \in Keys : entries[k] # 0}
Fresh      == {k \in Remembered : now < entries[k]}

\* What may be kept when another key comes.
Keeps(kept) ==
  \/ Cardinality(Fresh) < Capacity /\ kept = Fresh
  \/ /\ Cardinality(Fresh) = Capacity
     /\ \E k \in Fresh : kept = Fresh \ {k} /\ \A j \in Fresh : entries[k] <= entries[j]

Init == now = 0 /\ entries = [k \in Keys |-> 0]

Tick == now < MaxClock /\ now' = now + 1 /\ UNCHANGED entries

Remember(k) ==
  /\ \E kept \in SUBSET Keys :
       /\ Keeps(kept)
       /\ entries' = [j \in Keys |-> IF j = k THEN now + TTL ELSE IF j \in kept THEN entries[j] ELSE 0]
  /\ UNCHANGED now

Forget(k) == entries' = [entries EXCEPT ![k] = 0] /\ UNCHANGED now

Next == Tick \/ \E k \in Keys : Remember(k) \/ Forget(k)

Spec == Init /\ [][Next]_<<now, entries>>

=============================================================================
