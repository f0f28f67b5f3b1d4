----------------------------- MODULE MCSessions -----------------------------
(* One session, and the cache that all sessions share. Sessions loses cached  *)
(* identities at any time and IdentityCache says when it really does; the two *)
(* have no variable in common and every property is about one of them, so     *)
(* each runs while the other rests: all behaviours of both, without their     *)
(* interleavings.                                                            *)
EXTENDS Sessions, IdentityCache

MCInit == Init /\ CacheInit

MCNext ==
  \/ CacheInit /\ Next /\ UNCHANGED cacheVars
  \/ Init /\ CacheNext /\ UNCHANGED vars

MCSpec == MCInit /\ [][MCNext]_<<vars, cacheVars>>

=============================================================================
