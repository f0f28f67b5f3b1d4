------------------------------- MODULE MCQueue -------------------------------
(* A delivery of four activities that may be sent again, two workers and     *)
(* room for one activity: handlers block, are refused half-way and come back  *)
(* while the workers still hold what was accepted the first time, shutdown    *)
(* finds them anywhere, and an engine that hangs leaves the queue full.       *)
EXTENDS Queue

MCLength   == [d \in Deliveries |-> 4]
MCMaxSends == [d \in Deliveries |-> 2]

=============================================================================
