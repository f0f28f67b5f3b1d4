------------------------------ MODULE MCHistory ------------------------------
(* Two projects. The first has two events on one day, a failed pipeline and   *)
(* the one that fixed it, before the process ever starts; the second a merge  *)
(* request that happens later, under a clock that runs behind.                *)
(* History counts what a record stands for once, whoever presents it; that     *)
(* rests on the keys of Normalise.                                             *)
EXTENDS History, Normalise

Rec(i, p, ph, at, stamp, ended) ==
  [id |-> i, project |-> p, phase |-> ph, at |-> at, stamp |-> stamp, ended |-> ended]

MCRecords ==
  {Rec(1, 1, "events", 0, 0, ""), Rec(2, 1, "events", 0, 0, ""),
   Rec(3, 1, "pipelines", 0, 0, "failed"), Rec(4, 1, "pipelines", 0, 0, "success"),
   Rec(5, 2, "merge_requests", 1, 0, "")}

\* Whatever was counted, its key stood for it alone, in the webhook's words
\* and in those of every API the walk and the passes read ("match, byte for
\* byte", eventsapi/normalize.go; see KeyIsIdentity for the exception, the
\* branches and tags whose own name begins with "refs/").
CountedByItsKey == counted # {} => KeyIsIdentity

=============================================================================
