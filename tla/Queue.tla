-------------------------------- MODULE Queue --------------------------------
(***************************************************************************)
(* The webhook queue (internal/webhook/queue.go) between the HTTP handlers  *)
(* that accept deliveries (webhook.go) and the workers that evaluate them,  *)
(* through an orderly end of the process (serve and drainQueue in           *)
(* cmd/root.go).                                                            *)
(*                                                                          *)
(* A delivery carries a list of activities; activity i of delivery d is the *)
(* pair <<d, i>>. A delivery that carries none, or that fails the token     *)
(* check, never reaches the queue and is left out. The engine behind        *)
(* Process is a coin: it may succeed, fail, or not return.                  *)
(*                                                                          *)
(* Go's select takes any of the cases that are ready, so each case of a     *)
(* select is an action of its own. The counters are atomics updated after   *)
(* the channel operation they count, so they are steps of their own too.    *)
(***************************************************************************)
EXTENDS Naturals, Sequences, FiniteSets

CONSTANTS
  Deliveries,  \* what GitLab sends
  Length,      \* Deliveries -> how many activities each carries
  Workers,
  Size,        \* capacity of the channel
  MaxAttempts, \* evaluations of one activity before it is dropped
  MaxSends,    \* bound: Deliveries -> how often each may be sent
  Nothing      \* no activity in hand

ASSUME QueueAssumption ==
  /\ IsFiniteSet(Deliveries) /\ IsFiniteSet(Workers) /\ Workers # {}
  /\ Length \in [Deliveries -> Nat \ {0}]
  /\ Size \in Nat \ {0} /\ MaxAttempts \in Nat \ {0} /\ MaxSends \in [Deliveries -> Nat]
  /\ Nothing \notin Deliveries \X Nat

Events == UNION {{d} \X (1 .. Length[d]) : d \in Deliveries}

VARIABLES
  phase,   \* of the process: serve's select, the server's shutdown, the drain
  done,    \* the channel Shutdown closes
  stopped, \* the workers' context is cancelled
  buffer,  \* the events channel
  at,      \* where each delivery's handler is
  next,    \* the activity it is at
  sends,   \* how often each delivery was sent
  reply,   \* the status code GitLab was last answered for a delivery
  worker,  \* each worker's loop: which one, and where in it
  hand,    \* the activity each worker is evaluating
  attempt, \* which attempt it is
  stats,   \* the queue's counters
  settled, \* history: activities evaluated, or reported as dropped
  late     \* history: activities queued after Shutdown began

serverVars  == <<phase, done, stopped>>
handlerVars == <<at, next, sends, reply>>
workerVars  == <<worker, hand, attempt, settled>>
vars == <<serverVars, buffer, handlerVars, workerVars, stats, late>>

Count(field, n) == stats' = [stats EXCEPT ![field] = @ + n]

-----------------------------------------------------------------------------
(* Receiver.ServeHTTP and Enqueue. *)

InFlight(d) == at[d] \notin {"none", "answered"}

Answer(d, code) ==
  /\ at'    = [at EXCEPT ![d] = "answered"]
  /\ reply' = [reply EXCEPT ![d] = code]
  /\ UNCHANGED <<next, sends>>

\* GitLab sends a delivery, or sends again one that was refused.
Deliver(d) ==
  /\ phase = "serving"
  /\ at[d] = "none" \/ (at[d] = "answered" /\ reply[d] = 503)
  /\ sends[d] < MaxSends[d]
  /\ at'    = [at EXCEPT ![d] = "checking"]
  /\ next'  = [next EXCEPT ![d] = 1]
  /\ sends' = [sends EXCEPT ![d] = @ + 1]
  /\ UNCHANGED <<serverVars, buffer, reply, workerVars, stats, late>>

Remaining(d) == Length[d] + 1 - next[d]

\* The look at done ahead of each send, and the end of the loop.
CheckOpen(d) ==
  /\ at[d] = "checking"
  /\ \/ /\ next[d] > Length[d]
        /\ Answer(d, 200)
        /\ UNCHANGED stats
     \/ /\ next[d] <= Length[d] /\ done
        /\ Answer(d, 503)
        /\ Count("rejected", Remaining(d))
     \/ /\ next[d] <= Length[d] /\ ~done
        /\ at' = [at EXCEPT ![d] = "sending"]
        /\ UNCHANGED <<next, sends, reply, stats>>
  /\ UNCHANGED <<serverVars, buffer, workerVars, late>>

\* The select's send.
Send(d) ==
  /\ at[d] = "sending"
  /\ Len(buffer) < Size
  /\ buffer' = Append(buffer, <<d, next[d]>>)
  /\ at'     = [at EXCEPT ![d] = "counting"]
  /\ late'   = IF done THEN late \cup {<<d, next[d]>>} ELSE late
  /\ UNCHANGED <<serverVars, next, sends, reply, workerVars, stats>>

CountAccepted(d) ==
  /\ at[d] = "counting"
  /\ Count("accepted", 1)
  /\ at'   = [at EXCEPT ![d] = "checking"]
  /\ next' = [next EXCEPT ![d] = @ + 1]
  /\ UNCHANGED <<serverVars, buffer, sends, reply, workerVars, late>>

\* Faulty variants: what no longer fits is skipped rather than refused; there
\* is no timer and the request's context is ignored.
SkipWhenFull(d) ==
  /\ at[d] = "sending"
  /\ Answer(d, 200)
  /\ UNCHANGED <<serverVars, buffer, workerVars, stats, late>>
RefuseWhenDone(d) ==
  /\ at[d] = "sending" /\ done
  /\ Answer(d, 503)
  /\ Count("rejected", Remaining(d))
  /\ UNCHANGED <<serverVars, buffer, workerVars, late>>

\* The select's other cases: shutdown, the request abandoned, the timer.
Refuse(d) ==
  /\ at[d] = "sending"
  /\ Answer(d, 503)
  /\ Count("rejected", Remaining(d))
  /\ UNCHANGED <<serverVars, buffer, workerVars, late>>

-----------------------------------------------------------------------------
(* work, drain and evaluate. *)

Selecting(w) == worker[w].at = "select"

\* Either loop receives an event.
Receive(w) ==
  /\ Selecting(w)
  /\ buffer # <<>>
  /\ buffer'  = Tail(buffer)
  /\ hand'    = [hand EXCEPT ![w] = Head(buffer)]
  /\ attempt' = [attempt EXCEPT ![w] = 1]
  /\ worker'  = [worker EXCEPT ![w].at = "processing"]
  /\ UNCHANGED <<serverVars, handlerVars, settled, stats, late>>

\* Faulty variant: work returns as soon as shutdown begins.
LeaveOnDone(w) ==
  /\ Selecting(w) /\ worker[w].loop = "work"
  /\ done
  /\ worker' = [worker EXCEPT ![w].at = "gone"]
  /\ UNCHANGED <<serverVars, buffer, handlerVars, hand, attempt, settled, stats, late>>

BeginDrain(w) ==
  /\ Selecting(w) /\ worker[w].loop = "work"
  /\ done
  /\ worker' = [worker EXCEPT ![w].loop = "drain"]
  /\ UNCHANGED <<serverVars, buffer, handlerVars, hand, attempt, settled, stats, late>>

\* Either loop sees its context cancelled, or drain finds nothing ready.
Leave(w) ==
  /\ Selecting(w)
  /\ stopped \/ (worker[w].loop = "drain" /\ buffer = <<>>)
  /\ worker' = [worker EXCEPT ![w].at = "gone"]
  /\ UNCHANGED <<serverVars, buffer, handlerVars, hand, attempt, settled, stats, late>>

\* evaluate returns, having counted its activity one way or the other.
Settle(w, field) ==
  /\ worker'  = [worker EXCEPT ![w].at = "select"]
  /\ hand'    = [hand EXCEPT ![w] = Nothing]
  /\ attempt' = [attempt EXCEPT ![w] = 0]
  /\ settled' = settled \cup {hand[w]}
  /\ Count(field, 1)

Succeed(w) ==
  /\ worker[w].at = "processing"
  /\ Settle(w, "processed")
  /\ UNCHANGED <<serverVars, buffer, handlerVars, late>>

BackOff(w) ==
  /\ worker' = [worker EXCEPT ![w].at = "sleeping"]
  /\ UNCHANGED <<hand, attempt, settled, stats>>

\* Faulty variants: one attempt too many; retried without end.
FailOffByOne(w) ==
  /\ worker[w].at = "processing"
  /\ IF stopped \/ attempt[w] > MaxAttempts THEN Settle(w, "failed") ELSE BackOff(w)
  /\ UNCHANGED <<serverVars, buffer, handlerVars, late>>
FailForever(w) ==
  /\ worker[w].at = "processing"
  /\ worker'  = [worker EXCEPT ![w].at = "sleeping"]
  /\ attempt' = [attempt EXCEPT ![w] = 0]
  /\ UNCHANGED <<serverVars, buffer, handlerVars, hand, settled, stats, late>>

Fail(w) ==
  /\ worker[w].at = "processing"
  /\ IF stopped \/ attempt[w] = MaxAttempts THEN Settle(w, "failed") ELSE BackOff(w)
  /\ UNCHANGED <<serverVars, buffer, handlerVars, late>>

\* The backoff ends, one way or the other.
Retry(w) ==
  /\ worker[w].at = "sleeping"
  /\ worker'  = [worker EXCEPT ![w].at = "processing"]
  /\ attempt' = [attempt EXCEPT ![w] = @ + 1]
  /\ UNCHANGED <<serverVars, buffer, handlerVars, hand, settled, stats, late>>

\* Faulty variant: a backoff cut short returns without counting the failure.
ForgetCancelled(w) ==
  /\ worker[w].at = "sleeping" /\ stopped
  /\ worker'  = [worker EXCEPT ![w].at = "select"]
  /\ hand'    = [hand EXCEPT ![w] = Nothing]
  /\ attempt' = [attempt EXCEPT ![w] = 0]
  /\ UNCHANGED <<serverVars, buffer, handlerVars, settled, stats, late>>

CancelRetry(w) ==
  /\ worker[w].at = "sleeping" /\ stopped
  /\ Settle(w, "failed")
  /\ UNCHANGED <<serverVars, buffer, handlerVars, late>>

-----------------------------------------------------------------------------
(* serve, drainQueue and Shutdown. *)

queueVars == <<buffer, handlerVars, workerVars, stats, late>>

Idle    == [loop |-> "work", at |-> "select"]
NoStats == [accepted |-> 0, processed |-> 0, failed |-> 0, rejected |-> 0]

\* SIGTERM: the listener closes, and serve waits for the handlers.
Signal ==
  /\ phase = "serving"
  /\ phase' = "stopping"
  /\ UNCHANGED <<done, stopped, queueVars>>

\* Shutdown is called: once no handler is left, once the server's shutdown
\* timed out, or at once if the listener failed.
CloseDone ==
  /\ phase \in {"serving", "stopping"}
  /\ phase' = "draining" /\ done' = TRUE
  /\ UNCHANGED <<stopped, queueVars>>

\* Shutdown returns nil once every worker is gone.
Drained ==
  /\ phase = "draining"
  /\ \A w \in Workers : worker[w].at = "gone"
  /\ phase' = "drained" /\ stopped' = TRUE
  /\ UNCHANGED <<done, queueVars>>

\* Faulty variant: no deadline on the drain.
NoDeadline == FALSE /\ UNCHANGED vars

\* Shutdown gives up waiting.
Deadline ==
  /\ phase = "draining"
  /\ phase' = "gave up" /\ stopped' = TRUE
  /\ UNCHANGED <<done, queueVars>>

\* The process exits: connections are dropped, memory is lost.
Exit ==
  /\ phase \in {"drained", "gave up"}
  /\ phase'   = "exited"
  /\ buffer'  = <<>>
  /\ at'      = [d \in Deliveries |-> IF InFlight(d) THEN "none" ELSE at[d]]
  /\ next'    = [d \in Deliveries |-> 1]
  /\ worker'  = [w \in Workers |-> Idle]
  /\ hand'    = [w \in Workers |-> Nothing]
  /\ attempt' = [w \in Workers |-> 0]
  /\ stats'   = NoStats
  /\ UNCHANGED <<done, stopped, sends, reply, settled, late>>

-----------------------------------------------------------------------------

Init ==
  /\ phase = "serving" /\ done = FALSE /\ stopped = FALSE
  /\ buffer  = <<>>
  /\ at      = [d \in Deliveries |-> "none"]
  /\ next    = [d \in Deliveries |-> 1]
  /\ sends   = [d \in Deliveries |-> 0]
  /\ reply   = [d \in Deliveries |-> 0]
  /\ worker  = [w \in Workers |-> Idle]
  /\ hand    = [w \in Workers |-> Nothing]
  /\ attempt = [w \in Workers |-> 0]
  /\ stats   = NoStats
  /\ settled = {} /\ late = {}

Handle(d) == CheckOpen(d) \/ Send(d) \/ CountAccepted(d) \/ Refuse(d)
Process(w) == Succeed(w) \/ Fail(w)
Loop(w) == Receive(w) \/ BeginDrain(w) \/ Leave(w) \/ Retry(w) \/ CancelRetry(w)

\* Nothing runs once the process has exited.
Terminated == phase = "exited" /\ UNCHANGED vars

Next ==
  \/ /\ phase # "exited"
     /\ \/ \E d \in Deliveries : Deliver(d) \/ Handle(d)
        \/ \E w \in Workers : Loop(w) \/ Process(w)
        \/ Signal \/ CloseDone \/ Drained \/ Deadline \/ Exit
  \/ Terminated

Running(A) == phase # "exited" /\ A

\* Goroutines are scheduled and timers fire; nothing says that Process
\* returns, that GitLab sends anything or that the process is ever stopped.
Fairness ==
  /\ \A d \in Deliveries : WF_vars(Running(Handle(d)))
  /\ \A w \in Workers : WF_vars(Running(Loop(w)))
  /\ WF_vars(phase = "stopping" /\ CloseDone)
  /\ WF_vars(Drained \/ Deadline)
  /\ WF_vars(Exit)

Spec == Init /\ [][Next]_vars /\ Fairness

-----------------------------------------------------------------------------
(* What must hold. *)

Loops    == [loop : {"work", "drain"}, at : {"select", "processing", "sleeping", "gone"}]
Counters == [accepted : Nat, processed : Nat, failed : Nat, rejected : Nat]

ServerType ==
  /\ phase \in {"serving", "stopping", "draining", "drained", "gave up", "exited"}
  /\ done \in BOOLEAN /\ stopped \in BOOLEAN
HandlerType ==
  /\ at \in [Deliveries -> {"none", "checking", "sending", "counting", "answered"}]
  /\ next \in [Deliveries -> Nat] /\ sends \in [Deliveries -> Nat]
  /\ \A d \in Deliveries : next[d] \in 1 .. Length[d] + 1 /\ sends[d] <= MaxSends[d]
  /\ reply \in [Deliveries -> {0, 200, 503}]
BufferType == buffer \in Seq(Events) /\ Len(buffer) <= Size
WorkerType ==
  /\ worker \in [Workers -> Loops]
  /\ hand \in [Workers -> Events \cup {Nothing}]
  /\ attempt \in [Workers -> 0 .. MaxAttempts]
  /\ settled \subseteq Events
TypeOK ==
  /\ ServerType /\ HandlerType /\ BufferType /\ WorkerType
  /\ stats \in Counters /\ late \subseteq Events

Counting == {d \in Deliveries : at[d] = "counting"}
Busy     == {w \in Workers : hand[w] # Nothing}

\* No activity disappears inside the queue: what was accepted, counted or
\* about to be, was processed, failed, is buffered or is in a worker's hands
\* (the counters of Stats, which drainQueue reports).
Conservation ==
  stats.accepted + Cardinality(Counting)
    = stats.processed + stats.failed + Len(buffer) + Cardinality(Busy)

Held == {buffer[i] : i \in DOMAIN buffer} \cup {hand[w] : w \in Busy}

\* GitLab is told a delivery succeeded only if every one of its activities
\* was taken responsibility for, and none is forgotten afterwards (Enqueue,
\* ServeHTTP).
AcknowledgedTracked ==
  phase # "exited" => \A d \in Deliveries : at[d] = "answered" /\ reply[d] = 200 =>
    \A i \in 1 .. Length[d] : <<d, i>> \in Held \cup settled

\* Shutdown reports success only when everything queued before it began was
\* settled (Shutdown, work, drain).
DrainSettlesEarlier ==
  phase = "drained" => Busy = {} /\ \A i \in DOMAIN buffer : buffer[i] \in late

\* "Draining rather than dropping is what keeps a rolling restart from losing
\* the deliveries GitLab has already been told succeeded" (Shutdown): a drain
\* that succeeded leaves no acknowledged activity behind.
DrainLosesNothing ==
  phase = "drained" =>
    \A d \in Deliveries : at[d] = "answered" /\ reply[d] = 200 =>
      \A i \in 1 .. Length[d] : <<d, i>> \in settled

\* Every delivery is answered, even if the engine is stuck and the queue
\* full (enqueueTimeout), unless the process ends first.
EveryDeliveryAnswered ==
  \A d \in Deliveries : InFlight(d) ~> (at[d] = "answered" \/ phase = "exited")

\* The shutdown ends, even if the engine is stuck (webhookShutdownTimeout).
ShutdownEnds == phase = "stopping" ~> phase = "exited"

\* Provided evaluations return, whatever is queued is processed or reported
\* as failed, unless the process ends first (evaluate's bounded retries).
ProcessReturns == \A w \in Workers : WF_vars(Running(Process(w)))
QueuedSettled ==
  ProcessReturns =>
    \A e \in Events : e \in Held ~> (e \in settled \/ phase = "exited")

=============================================================================
