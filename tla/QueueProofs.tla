----------------------------- MODULE QueueProofs -----------------------------
(***************************************************************************)
(* Theorems about the webhook queue, for any number of deliveries, of        *)
(* activities in each, of workers and attempts, and any room in the channel. *)
(***************************************************************************)
EXTENDS Queue, FiniteSetTheorems, SequenceTheorems, TLAPS

-----------------------------------------------------------------------------
(* The inductive invariant. *)

\* The phases of the process, and the two signals they stand for.
Phases ==
  /\ done <=> phase \in {"draining", "drained", "gave up", "exited"}
  /\ stopped <=> phase \in {"drained", "gave up", "exited"}

\* A handler that is about to queue an activity, or has, has one to queue.
HandlersInLoop ==
  \A d \in Deliveries : at[d] \in {"sending", "counting"} => next[d] <= Length[d]

\* A worker has an activity in hand while it evaluates it and no longer, and
\* backs off only from an attempt that is not the last.
WorkersInLoop ==
  \A w \in Workers :
    /\ hand[w] # Nothing <=> worker[w].at \in {"processing", "sleeping"}
    /\ worker[w].at = "sleeping" => attempt[w] < MaxAttempts
    /\ worker[w].loop = "drain" => done

Gone(w) == worker[w].at = "gone"

\* A worker that left by itself found the channel empty with done closed:
\* whatever is in it by now came late.
LeftEmptyHanded ==
  /\ ~stopped => \A w \in Workers : Gone(w) => worker[w].loop = "drain"
  /\ (~stopped /\ \E w \in Workers : Gone(w)) \/ phase = "drained" =>
       \A i \in DOMAIN buffer : buffer[i] \in late
  /\ phase = "drained" => \A w \in Workers : Gone(w)

\* How far a handler has come with its delivery.
Queued(d, i) ==
  \/ InFlight(d) /\ i < next[d]
  \/ at[d] = "counting" /\ i = next[d]
  \/ at[d] = "answered" /\ reply[d] = 200

\* What a handler queued is in the queue's hands, or settled.
QueuedTracked ==
  phase # "exited" =>
    \A d \in Deliveries : \A i \in 1 .. Length[d] : Queued(d, i) => <<d, i>> \in Held \cup settled

QueueInv ==
  /\ TypeOK /\ Phases /\ HandlersInLoop /\ WorkersInLoop
  /\ LeftEmptyHanded /\ QueuedTracked /\ Conservation

-----------------------------------------------------------------------------

(* Facts about the model's operators. *)

\* What an event is: a delivery and the place of an activity in it.
LEMMA EventsType ==
  /\ \A d \in Deliveries : \A i \in 1 .. Length[d] : <<d, i>> \in Events
  /\ Nothing \notin Events
  /\ \A d \in Deliveries : Length[d] \in Nat \ {0} /\ MaxSends[d] \in Nat
BY QueueAssumption DEF Events

\* Joining or leaving those whose activity is queued but not yet counted.
LEMMA CountingKept ==
  ASSUME TypeOK, NEW d \in Deliveries, at[d] # "counting",
         NEW v \in {"checking", "sending", "answered"}, at' = [at EXCEPT ![d] = v]
  PROVE  Counting' = Counting
BY DEF Counting, TypeOK, HandlerType

\* One handler more, one fewer, or one worker fewer: the sets the account of the
\* queue counts.
LEMMA CountingJoined ==
  ASSUME TypeOK, NEW d \in Deliveries, at[d] # "counting", at' = [at EXCEPT ![d] = "counting"]
  PROVE  Cardinality(Counting') = Cardinality(Counting) + 1
<1>1. Counting' = Counting \cup {d} /\ d \notin Counting
  BY DEF Counting, TypeOK, HandlerType
<1>2. IsFiniteSet(Counting)
  BY QueueAssumption, FS_Subset DEF Counting
<1> QED
  BY <1>1, <1>2, FS_AddElement

LEMMA CountingLeft ==
  ASSUME TypeOK, NEW d \in Deliveries, at[d] = "counting", at' = [at EXCEPT ![d] = "checking"]
  PROVE  Cardinality(Counting') = Cardinality(Counting) - 1
<1>1. Counting' = Counting \ {d} /\ d \in Counting
  BY DEF Counting, TypeOK, HandlerType
<1>2. IsFiniteSet(Counting)
  BY QueueAssumption, FS_Subset DEF Counting
<1> QED
  BY <1>1, <1>2, FS_RemoveElement

\* Taking an activity in hand, or putting it down.
LEMMA BusyJoined ==
  ASSUME TypeOK, NEW w \in Workers, hand[w] = Nothing,
         NEW e \in Events, hand' = [hand EXCEPT ![w] = e]
  PROVE  Cardinality(Busy') = Cardinality(Busy) + 1
<1>1. Busy' = Busy \cup {w} /\ w \notin Busy
  BY EventsType DEF Busy, TypeOK, WorkerType
<1>2. IsFiniteSet(Busy)
  BY QueueAssumption, FS_Subset DEF Busy
<1> QED
  BY <1>1, <1>2, FS_AddElement

LEMMA BusyLeft ==
  ASSUME TypeOK, NEW w \in Workers, hand[w] # Nothing, hand' = [hand EXCEPT ![w] = Nothing]
  PROVE  Cardinality(Busy') = Cardinality(Busy) - 1
<1>1. Busy' = Busy \ {w} /\ w \in Busy
  BY DEF Busy, TypeOK, WorkerType
<1>2. IsFiniteSet(Busy)
  BY QueueAssumption, FS_Subset DEF Busy
<1> QED
  BY <1>1, <1>2, FS_RemoveElement

\* What Conservation counts are numbers.
LEMMA Sizes ==
  ASSUME TypeOK
  PROVE  /\ Cardinality(Counting) \in Nat /\ Cardinality(Busy) \in Nat /\ Len(buffer) \in Nat
         /\ stats.accepted \in Nat /\ stats.processed \in Nat /\ stats.failed \in Nat
<1>1. IsFiniteSet(Counting) /\ IsFiniteSet(Busy)
  BY QueueAssumption, FS_Subset DEF Counting, Busy
<1> QED
  BY <1>1, FS_CardinalityType, LenProperties DEF TypeOK, BufferType, Counters

\* What an activity's way through the queue adds to one side of the account,
\* it adds to the other or moves within it: queued, counted, received, settled.
LEMMA ConservationKept ==
  ASSUME TypeOK, Conservation,
         LET c == Cardinality(Counting)  l == Len(buffer)  b == Cardinality(Busy)
             a == stats.accepted         s == stats.processed + stats.failed
         IN  \/ a' = a /\ s' = s /\ c' = c + 1 /\ l' = l + 1 /\ b' = b
             \/ a' = a + 1 /\ s' = s /\ c' = c - 1 /\ l' = l /\ b' = b
             \/ a' = a /\ s' = s /\ c' = c /\ l' = l - 1 /\ b' = b + 1
             \/ a' = a /\ s' = s + 1 /\ c' = c /\ l' = l /\ b' = b - 1
  PROVE  Conservation'
<1> DEFINE c == Cardinality(Counting)  l == Len(buffer)  b == Cardinality(Busy)
           a == stats.accepted         s == stats.processed + stats.failed
<1>1. c \in Nat /\ l \in Nat /\ b \in Nat /\ a \in Nat /\ s \in Nat
  BY Sizes
<1>2. a + c = s + l + b
  BY DEF Conservation
<1>3. \/ a' = a /\ s' = s /\ c' = c + 1 /\ l' = l + 1 /\ b' = b
      \/ a' = a + 1 /\ s' = s /\ c' = c - 1 /\ l' = l /\ b' = b
      \/ a' = a /\ s' = s /\ c' = c /\ l' = l - 1 /\ b' = b + 1
      \/ a' = a /\ s' = s + 1 /\ c' = c /\ l' = l /\ b' = b - 1
  OBVIOUS
<1> HIDE DEF a, c, s, l, b
<1>4. a' + c' = s' + l' + b'
  BY ONLY <1>1, <1>2, <1>3
<1> QED
  BY <1>4 DEF a, c, s, l, b, Conservation

\* A step of the handlers leaves the process, the channel and the workers alone.
LEMMA ServerKept ==
  ASSUME ServerType, Phases, UNCHANGED <<phase, done, stopped>>
  PROVE  ServerType' /\ Phases'
<1>1. ServerType'
  BY Zenon DEF ServerType
<1>2. Phases'
  BY Zenon DEF Phases
<1> QED
  BY <1>1, <1>2

\* A step that changes nothing a worker sees.
LEMMA WorkersKept ==
  ASSUME WorkersInLoop, LeftEmptyHanded,
         UNCHANGED <<phase, done, stopped, buffer, worker, hand, attempt, late>>
  PROVE  WorkersInLoop' /\ LeftEmptyHanded'
<1>1. WorkersInLoop'
  BY Zenon DEF WorkersInLoop
<1>2. LeftEmptyHanded'
  BY Zenon DEF LeftEmptyHanded, Gone
<1> QED
  BY <1>1, <1>2

\* The types of what a step leaves alone.
LEMMA TypesKept ==
  /\ ServerType /\ phase' = phase /\ done' = done /\ stopped' = stopped => ServerType'
  /\ HandlerType /\ at' = at /\ next' = next /\ sends' = sends /\ reply' = reply => HandlerType'
  /\ BufferType /\ buffer' = buffer => BufferType'
  /\ WorkerType /\ worker' = worker /\ hand' = hand /\ attempt' = attempt /\ settled' = settled
       => WorkerType'
<1>1. ServerType /\ phase' = phase /\ done' = done /\ stopped' = stopped => ServerType'
  BY Zenon DEF ServerType
<1>2. HandlerType /\ at' = at /\ next' = next /\ sends' = sends /\ reply' = reply => HandlerType'
  BY SMT DEF HandlerType
<1>3. BufferType /\ buffer' = buffer => BufferType'
  BY Zenon DEF BufferType
<1>4. WorkerType /\ worker' = worker /\ hand' = hand /\ attempt' = attempt /\ settled' = settled
        => WorkerType'
  BY Zenon DEF WorkerType
<1> QED
  BY <1>1, <1>2, <1>3, <1>4

\* What is tracked stays tracked as long as nothing is taken out of the
\* queue's hands unsettled and no handler claims to have queued more.
LEMMA TrackedKept ==
  ASSUME QueuedTracked, phase' # "exited" => phase # "exited",
         Held \cup settled \subseteq (Held \cup settled)',
         \A d \in Deliveries : \A i \in 1 .. Length[d] : Queued(d, i)' => Queued(d, i)
  PROVE  QueuedTracked'
BY DEF QueuedTracked

-----------------------------------------------------------------------------

\* The initial states satisfy the invariant, and (below) every action keeps it.
LEMMA InitCorrect == Init => QueueInv
<1> SUFFICES ASSUME Init PROVE QueueInv
  OBVIOUS
<1>1. TypeOK
  <2>1. buffer \in Seq(Events) /\ Len(buffer) <= Size
    BY QueueAssumption, EmptySeq DEF Init
  <2>2. worker \in [Workers -> Loops] /\ stats \in Counters
    BY DEF Init, Idle, NoStats, Loops, Counters
  <2>3. \A d \in Deliveries : 1 \in 1 .. Length[d] + 1 /\ 0 <= MaxSends[d]
    BY QueueAssumption
  <2>4. 0 \in 0 .. MaxAttempts
    BY QueueAssumption
  <2> QED
    BY <2>1, <2>2, <2>3, <2>4 DEF Init, TypeOK, ServerType, HandlerType, BufferType, WorkerType
<1>2. Phases /\ HandlersInLoop
  BY DEF Init, Phases, HandlersInLoop
<1>3. WorkersInLoop /\ LeftEmptyHanded
  BY DEF Init, Idle, WorkersInLoop, LeftEmptyHanded, Gone
<1>4. QueuedTracked
  BY DEF Init, QueuedTracked, Queued, InFlight
<1>5. Conservation
  <2>1. Counting = {} /\ Busy = {} /\ Len(buffer) = 0
    BY EmptySeq DEF Init, Counting, Busy
  <2> QED
    BY <2>1, FS_EmptySet DEF Init, NoStats, Conservation
<1> QED
  BY <1>1, <1>2, <1>3, <1>4, <1>5 DEF QueueInv

-----------------------------------------------------------------------------
(* The handlers. *)

LEMMA DeliverKeeps ==
  ASSUME QueueInv, NEW d \in Deliveries, Deliver(d)
  PROVE  QueueInv'
<1> USE DEF QueueInv, Deliver
<1>0. UNCHANGED <<phase, done, stopped, buffer, reply, worker, hand, attempt, settled, stats, late>>
  BY DEF serverVars, workerVars
<1>1. TypeOK'
  <2>1. HandlerType'
    <3>1. at' \in [Deliveries -> {"none", "checking", "sending", "counting", "answered"}]
      BY DEF TypeOK, HandlerType
    <3>2. next' \in [Deliveries -> Nat]
      BY DEF TypeOK, HandlerType
    <3>3. sends' \in [Deliveries -> Nat]
      BY DEF TypeOK, HandlerType
    <3>4. \A c \in Deliveries : next'[c] \in 1 .. Length[c] + 1
      BY EventsType DEF TypeOK, HandlerType
    <3>5. \A c \in Deliveries : sends'[c] <= MaxSends[c]
      BY EventsType DEF TypeOK, HandlerType
    <3> QED
      BY <1>0, <3>1, <3>2, <3>3, <3>4, <3>5 DEF TypeOK, HandlerType
  <2> QED
    BY <1>0, <2>1 DEF TypeOK, ServerType, BufferType, WorkerType
<1>2. HandlersInLoop'
  BY DEF TypeOK, HandlerType, HandlersInLoop
<1>3. Phases' /\ WorkersInLoop' /\ LeftEmptyHanded'
  BY <1>0 DEF Phases, WorkersInLoop, LeftEmptyHanded, Gone
<1>4. QueuedTracked'
  <2>1. \A c \in Deliveries : \A i \in 1 .. Length[c] : Queued(c, i)' => Queued(c, i)
    <3> SUFFICES ASSUME NEW c \in Deliveries, NEW i \in 1 .. Length[c], Queued(c, i)'
                 PROVE  Queued(c, i)
      OBVIOUS
    <3>1. c # d
      BY EventsType DEF TypeOK, HandlerType, Queued, InFlight
    <3> QED
      BY <1>0, <3>1 DEF TypeOK, HandlerType, Queued, InFlight
  <2>2. Held' = Held
    BY <1>0 DEF Held, Busy
  <2> QED
    BY <1>0, <2>1, <2>2, TrackedKept
<1>5. Conservation'
  <2>1. Counting' = Counting
    BY CountingKept
  <2>2. Busy' = Busy
    BY <1>0 DEF Busy
  <2> QED
    BY <1>0, <2>1, <2>2 DEF Conservation
<1> QED
  BY <1>1, <1>2, <1>3, <1>4, <1>5

\* Refusing what remains of a delivery only counts it as rejected.
LEMMA RejectCounts ==
  ASSUME QueueInv, NEW d \in Deliveries, next[d] <= Length[d], Count("rejected", Remaining(d))
  PROVE  /\ stats' \in Counters
         /\ stats'.accepted = stats.accepted /\ stats'.processed = stats.processed
         /\ stats'.failed = stats.failed
<1>1. Remaining(d) \in Nat
  BY EventsType DEF QueueInv, TypeOK, HandlerType, Remaining
<1> QED
  BY <1>1 DEF QueueInv, TypeOK, Count, Counters

LEMMA AnswerKeeps ==
  ASSUME QueueInv, NEW d \in Deliveries, NEW code \in {200, 503}, Answer(d, code),
         at[d] \in {"checking", "sending"}, code = 200 => next[d] > Length[d],
         UNCHANGED stats \/ (next[d] <= Length[d] /\ Count("rejected", Remaining(d))),
         UNCHANGED <<serverVars, buffer, workerVars, late>>
  PROVE  QueueInv'
<1> USE DEF QueueInv
<1>0. UNCHANGED <<phase, done, stopped, buffer, worker, hand, attempt, settled, late>>
  BY DEF serverVars, workerVars
<1>c. /\ stats' \in Counters
      /\ stats'.accepted = stats.accepted /\ stats'.processed = stats.processed
      /\ stats'.failed = stats.failed
  BY RejectCounts DEF TypeOK
<1>1. HandlerType'
  BY DEF Answer, TypeOK, HandlerType
<1>2. TypeOK'
  BY <1>0, <1>c, <1>1, TypesKept DEF TypeOK
<1>3. HandlersInLoop'
  BY DEF Answer, TypeOK, HandlerType, HandlersInLoop
<1>4. Phases' /\ WorkersInLoop' /\ LeftEmptyHanded'
  BY <1>0, ServerKept, WorkersKept DEF TypeOK
<1>5. QueuedTracked'
  <2>1. ASSUME NEW c \in Deliveries, NEW i \in 1 .. Length[c], Queued(c, i)'
        PROVE  Queued(c, i)
    <3>1. CASE c = d
      <4>1. code = 200 /\ i < next[d]
        BY <2>1, <3>1, EventsType DEF Answer, TypeOK, HandlerType, Queued, InFlight
      <4> QED
        BY <3>1, <4>1 DEF Queued, InFlight
    <3>2. CASE c # d
      BY <1>0, <2>1, <3>2 DEF Answer, TypeOK, HandlerType, Queued, InFlight
    <3> QED
      BY <3>1, <3>2
  <2>2. Held' = Held
    BY <1>0 DEF Held, Busy
  <2> QED
    BY <1>0, <2>1, <2>2, TrackedKept
<1>6. Conservation'
  <2>1. Counting' = Counting
    BY CountingKept DEF Answer
  <2>2. Busy' = Busy
    BY <1>0 DEF Busy
  <2> QED
    BY <1>0, <1>c, <2>1, <2>2 DEF Conservation
<1> QED
  BY <1>2, <1>3, <1>4, <1>5, <1>6

LEMMA RefuseKeeps ==
  ASSUME QueueInv, NEW d \in Deliveries, Refuse(d)
  PROVE  QueueInv'
<1>1. next[d] <= Length[d]
  BY DEF Refuse, QueueInv, HandlersInLoop
<1> QED
  BY <1>1, AnswerKeeps DEF Refuse

LEMMA CheckOpenKeeps ==
  ASSUME QueueInv, NEW d \in Deliveries, CheckOpen(d)
  PROVE  QueueInv'
<1>1. CASE next[d] > Length[d] /\ Answer(d, 200) /\ UNCHANGED stats
  BY <1>1, AnswerKeeps DEF CheckOpen
<1>2. CASE next[d] <= Length[d] /\ Answer(d, 503) /\ Count("rejected", Remaining(d))
  BY <1>2, AnswerKeeps DEF CheckOpen
<1>3. CASE /\ next[d] <= Length[d]
           /\ at' = [at EXCEPT ![d] = "sending"]
           /\ UNCHANGED <<next, sends, reply, stats>>
  <2> USE <1>3 DEF QueueInv
  <2>0. /\ UNCHANGED <<phase, done, stopped, buffer, worker, hand, attempt, settled, late>>
        /\ at[d] = "checking"
    BY DEF CheckOpen, serverVars, workerVars
  <2>1. TypeOK'
    BY <2>0 DEF TypeOK, ServerType, HandlerType, BufferType, WorkerType
  <2>2. HandlersInLoop'
    BY DEF TypeOK, HandlerType, HandlersInLoop
  <2>3. Phases' /\ WorkersInLoop' /\ LeftEmptyHanded'
    BY <2>0 DEF Phases, WorkersInLoop, LeftEmptyHanded, Gone
  <2>4. QueuedTracked'
    <3>1. \A c \in Deliveries : \A i \in 1 .. Length[c] : Queued(c, i)' => Queued(c, i)
      BY <2>0 DEF TypeOK, HandlerType, Queued, InFlight
    <3>2. Held' = Held
      BY <2>0 DEF Held, Busy
    <3> QED
      BY <2>0, <3>1, <3>2, TrackedKept
  <2>5. Conservation'
    <3>1. Counting' = Counting
      BY <2>0, CountingKept
    <3>2. Busy' = Busy
      BY <2>0 DEF Busy
    <3> QED
      BY <2>0, <3>1, <3>2 DEF Conservation
  <2> QED
    BY <2>1, <2>2, <2>3, <2>4, <2>5
<1> QED
  BY <1>1, <1>2, <1>3 DEF CheckOpen

LEMMA SendKeeps ==
  ASSUME QueueInv, NEW d \in Deliveries, Send(d)
  PROVE  QueueInv'
<1> USE DEF QueueInv
<1> DEFINE e == <<d, next[d]>>
<1>0. /\ UNCHANGED <<phase, done, stopped, next, sends, reply, worker, hand, attempt, settled, stats>>
      /\ at[d] = "sending" /\ at' = [at EXCEPT ![d] = "counting"]
      /\ Len(buffer) < Size /\ buffer' = Append(buffer, e)
      /\ late' = (IF done THEN late \cup {e} ELSE late)
  BY DEF Send, serverVars, workerVars
<1>1. e \in Events /\ next[d] <= Length[d]
  BY <1>0, EventsType DEF TypeOK, HandlerType, HandlersInLoop
<1> HIDE DEF e
<1>2. /\ buffer' \in Seq(Events) /\ Len(buffer') = Len(buffer) + 1
      /\ \A i \in 1 .. Len(buffer) : buffer'[i] = buffer[i]
      /\ buffer'[Len(buffer) + 1] = e
      /\ DOMAIN buffer = 1 .. Len(buffer) /\ DOMAIN buffer' = 1 .. Len(buffer) + 1
      /\ Len(buffer) \in Nat
  BY <1>0, <1>1, AppendProperties, LenProperties DEF TypeOK, BufferType
<1>3. TypeOK'
  <2>1. HandlerType'
    BY <1>0 DEF TypeOK, HandlerType
  <2>2. BufferType'
    BY <1>0, <1>2, QueueAssumption DEF TypeOK, BufferType
  <2>3. late' \subseteq Events
    BY <1>0, <1>1 DEF TypeOK
  <2> QED
    BY <1>0, <2>1, <2>2, <2>3 DEF TypeOK, ServerType, WorkerType
<1>4. HandlersInLoop'
  BY <1>0, <1>1 DEF TypeOK, HandlerType, HandlersInLoop
<1>5. Phases' /\ WorkersInLoop'
  BY <1>0 DEF Phases, WorkersInLoop
<1>6. LeftEmptyHanded'
  <2>1. ASSUME (~stopped /\ \E w \in Workers : Gone(w)) \/ phase = "drained",
               NEW i \in DOMAIN buffer'
        PROVE  buffer'[i] \in late'
    <3>1. done
      BY <2>1 DEF Phases, WorkersInLoop, LeftEmptyHanded
    <3>2. CASE i = Len(buffer) + 1
      BY <1>0, <1>2, <3>1, <3>2
    <3>3. CASE i # Len(buffer) + 1
      BY <1>0, <1>2, <2>1, <3>1, <3>3 DEF LeftEmptyHanded
    <3> QED
      BY <3>2, <3>3
  <2> QED
    BY <1>0, <2>1 DEF LeftEmptyHanded, Gone
<1>7. QueuedTracked'
  <2>1. Held' = Held \cup {e}
    BY <1>0, <1>2 DEF Held, Busy
  <2>2. ASSUME NEW c \in Deliveries, NEW i \in 1 .. Length[c], Queued(c, i)'
        PROVE  Queued(c, i) \/ <<c, i>> = e
    <3>1. CASE c = d
      <4>1. i < next[d] \/ i = next[d]
        BY <1>0, <2>2, <3>1, EventsType DEF TypeOK, HandlerType, Queued, InFlight
      <4> QED
        BY <1>0, <3>1, <4>1 DEF Queued, InFlight, e
    <3>2. CASE c # d
      BY <1>0, <2>2, <3>2 DEF TypeOK, HandlerType, Queued, InFlight
    <3> QED
      BY <3>1, <3>2
  <2> QED
    BY <1>0, <2>1, <2>2 DEF QueuedTracked
<1>8. Conservation'
  <2>1. Cardinality(Counting') = Cardinality(Counting) + 1
    BY <1>0, CountingJoined
  <2>2. Busy' = Busy
    BY <1>0 DEF Busy
  <2>3. Len(buffer') = Len(buffer) + 1 /\ stats' = stats
    BY <1>0, <1>2
  <2> QED
    BY <2>1, <2>2, <2>3, ConservationKept
<1> QED
  BY <1>3, <1>4, <1>5, <1>6, <1>7, <1>8

LEMMA CountAcceptedKeeps ==
  ASSUME QueueInv, NEW d \in Deliveries, CountAccepted(d)
  PROVE  QueueInv'
<1> USE DEF QueueInv
<1>0. /\ UNCHANGED <<phase, done, stopped, buffer, sends, reply, worker, hand, attempt, settled, late>>
      /\ at[d] = "counting" /\ at' = [at EXCEPT ![d] = "checking"]
      /\ next' = [next EXCEPT ![d] = @ + 1] /\ next[d] <= Length[d]
  BY DEF CountAccepted, HandlersInLoop, serverVars, workerVars
<1>1. TypeOK'
  <2>1. \A c \in Deliveries : next'[c] \in 1 .. Length[c] + 1
    BY <1>0, EventsType DEF TypeOK, HandlerType
  <2>2. HandlerType'
    BY <1>0, <2>1 DEF TypeOK, HandlerType
  <2>3. stats' \in Counters
    BY DEF CountAccepted, Count, Counters, TypeOK
  <2> QED
    BY <1>0, <2>2, <2>3 DEF TypeOK, ServerType, BufferType, WorkerType
<1>2. HandlersInLoop'
  BY <1>0 DEF TypeOK, HandlerType, HandlersInLoop
<1>3. Phases' /\ WorkersInLoop' /\ LeftEmptyHanded'
  BY <1>0 DEF Phases, WorkersInLoop, LeftEmptyHanded, Gone
<1>4. QueuedTracked'
  <2>1. ASSUME NEW c \in Deliveries, NEW i \in 1 .. Length[c], Queued(c, i)'
        PROVE  Queued(c, i)
    <3>1. CASE c = d
      <4>1. i < next[d] \/ i = next[d]
        BY <1>0, <2>1, <3>1, EventsType DEF TypeOK, HandlerType, Queued, InFlight
      <4> QED
        BY <1>0, <3>1, <4>1 DEF Queued, InFlight
    <3>2. CASE c # d
      BY <1>0, <2>1, <3>2 DEF TypeOK, HandlerType, Queued, InFlight
    <3> QED
      BY <3>1, <3>2
  <2>2. Held' = Held
    BY <1>0 DEF Held, Busy
  <2> QED
    BY <1>0, <2>1, <2>2, TrackedKept
<1>5. Conservation'
  <2>1. Cardinality(Counting') = Cardinality(Counting) - 1
    BY <1>0, CountingLeft
  <2>2. Busy' = Busy
    BY <1>0 DEF Busy
  <2>3. stats'.accepted = stats.accepted + 1 /\ stats'.processed = stats.processed
        /\ stats'.failed = stats.failed
    BY DEF CountAccepted, Count, Counters, TypeOK
  <2> QED
    BY <1>0, <2>1, <2>2, <2>3, ConservationKept
<1> QED
  BY <1>1, <1>2, <1>3, <1>4, <1>5

-----------------------------------------------------------------------------
(* The workers. *)

LEMMA ReceiveKeeps ==
  ASSUME QueueInv, NEW w \in Workers, Receive(w)
  PROVE  QueueInv'
<1> USE DEF QueueInv
<1>0. /\ UNCHANGED <<phase, done, stopped, at, next, sends, reply, settled, stats, late>>
      /\ worker[w].at = "select" /\ buffer # <<>>
      /\ hand' = [hand EXCEPT ![w] = Head(buffer)] /\ attempt' = [attempt EXCEPT ![w] = 1]
      /\ worker' = [worker EXCEPT ![w].at = "processing"]
  BY DEF Receive, Selecting, serverVars, handlerVars
<1>1. /\ buffer' \in Seq(Events) /\ Len(buffer') = Len(buffer) - 1
      /\ \A i \in 1 .. Len(buffer) - 1 : buffer'[i] = buffer[i + 1]
      /\ DOMAIN buffer = 1 .. Len(buffer) /\ DOMAIN buffer' = 1 .. Len(buffer) - 1
      /\ Len(buffer) \in Nat \ {0}
      /\ Head(buffer) = buffer[1] /\ Head(buffer) \in Events
  BY <1>0, HeadTailProperties, LenProperties, EmptySeq DEF Receive, TypeOK, BufferType
<1>2. hand[w] = Nothing
  BY <1>0 DEF WorkersInLoop
<1>3. TypeOK'
  <2>1. BufferType'
    BY <1>1, QueueAssumption DEF TypeOK, BufferType
  <2>2. WorkerType'
    <3>1. worker' \in [Workers -> Loops]
      BY <1>0 DEF TypeOK, WorkerType, Loops
    <3>2. attempt' \in [Workers -> 0 .. MaxAttempts]
      BY <1>0, QueueAssumption DEF TypeOK, WorkerType
    <3> QED
      BY <1>0, <1>1, <3>1, <3>2 DEF TypeOK, WorkerType
  <2> QED
    BY <1>0, <2>1, <2>2, TypesKept DEF TypeOK
<1>4. Phases' /\ HandlersInLoop'
  BY <1>0, ServerKept DEF HandlersInLoop, TypeOK
<1>5. WorkersInLoop'
  BY <1>0, <1>1, EventsType, QueueAssumption DEF TypeOK, WorkerType, Loops, WorkersInLoop
<1>6. LeftEmptyHanded'
  <2>1. \A v \in Workers : Gone(v)' <=> Gone(v)
    BY <1>0 DEF TypeOK, WorkerType, Loops, Gone
  <2>2. \A v \in Workers : worker'[v].loop = worker[v].loop
    BY <1>0 DEF TypeOK, WorkerType, Loops
  <2>3. ASSUME \A i \in DOMAIN buffer : buffer[i] \in late, NEW i \in DOMAIN buffer'
        PROVE  buffer'[i] \in late'
    BY <1>0, <1>1, <2>3
  <2> QED
    BY <1>0, <2>1, <2>2, <2>3 DEF LeftEmptyHanded
<1>7. QueuedTracked'
  <2>1. \A c \in Deliveries : \A i \in 1 .. Length[c] : Queued(c, i)' => Queued(c, i)
    BY <1>0 DEF Queued, InFlight
  <2>2. \A i \in DOMAIN buffer : buffer[i] \in Held'
    <3>1. Head(buffer) \in Held'
      BY <1>0, <1>1, EventsType DEF TypeOK, WorkerType, Held, Busy
    <3>2. \A i \in 1 .. Len(buffer) - 1 : buffer[i + 1] \in Held'
      BY <1>1 DEF Held
    <3>3. \A i \in DOMAIN buffer : i = 1 \/ \E j \in 1 .. Len(buffer) - 1 : i = j + 1
      <4> SUFFICES ASSUME NEW i \in DOMAIN buffer, i # 1
                   PROVE  i - 1 \in 1 .. Len(buffer) - 1 /\ i = (i - 1) + 1
        OBVIOUS
      <4> QED
        BY <1>1
    <3> QED
      BY <1>1, <3>1, <3>2, <3>3
  <2>3. \A v \in Busy : hand[v] \in Held'
    BY <1>0, <1>2 DEF TypeOK, WorkerType, Held, Busy
  <2> QED
    BY <1>0, <2>1, <2>2, <2>3, TrackedKept DEF Held
<1>8. Conservation'
  <2>1. Cardinality(Busy') = Cardinality(Busy) + 1
    BY <1>0, <1>1, <1>2, BusyJoined
  <2>2. Counting' = Counting
    BY <1>0 DEF Counting
  <2>3. Len(buffer') = Len(buffer) - 1 /\ stats' = stats
    BY <1>0, <1>1
  <2> QED
    BY <2>1, <2>2, <2>3, ConservationKept
<1> QED
  BY <1>3, <1>4, <1>5, <1>6, <1>7, <1>8

\* A worker in its loop that takes nothing from the channel and settles nothing.
LEMMA LoopKeeps ==
  ASSUME QueueInv, NEW w \in Workers, WorkerType', WorkersInLoop', LeftEmptyHanded',
         UNCHANGED <<serverVars, buffer, handlerVars, hand, settled, stats, late>>
  PROVE  QueueInv'
<1> USE DEF QueueInv
<1>0. UNCHANGED <<phase, done, stopped, buffer, at, next, sends, reply, hand, settled, stats, late>>
  BY DEF serverVars, handlerVars
<1>1. TypeOK'
  BY <1>0, TypesKept DEF TypeOK
<1>2. Phases' /\ HandlersInLoop'
  BY <1>0, ServerKept DEF HandlersInLoop, TypeOK
<1>3. QueuedTracked'
  <2>1. Held' = Held /\ \A c \in Deliveries : \A i \in 1 .. Length[c] : Queued(c, i)' => Queued(c, i)
    BY <1>0 DEF Held, Busy, Queued, InFlight
  <2> QED
    BY <1>0, <2>1, TrackedKept
<1>4. Conservation'
  <2>1. Counting' = Counting /\ Busy' = Busy
    BY <1>0 DEF Counting, Busy
  <2> QED
    BY <1>0, <2>1 DEF Conservation
<1> QED
  BY <1>1, <1>2, <1>3, <1>4

LEMMA BeginDrainKeeps ==
  ASSUME QueueInv, NEW w \in Workers, BeginDrain(w)
  PROVE  QueueInv'
<1> USE DEF QueueInv
<1>0. /\ UNCHANGED <<phase, done, stopped, buffer, hand, attempt, settled, late>>
      /\ done /\ worker[w].at = "select" /\ worker' = [worker EXCEPT ![w].loop = "drain"]
  BY DEF BeginDrain, Selecting, serverVars
<1>1. WorkerType'
  BY <1>0 DEF TypeOK, WorkerType, Loops
<1>2. WorkersInLoop'
  BY <1>0 DEF TypeOK, WorkerType, Loops, WorkersInLoop
<1>3. LeftEmptyHanded'
  <2>1. \A v \in Workers : Gone(v)' <=> Gone(v)
    BY <1>0 DEF TypeOK, WorkerType, Loops, Gone
  <2>2. \A v \in Workers : worker'[v].loop \in {worker[v].loop, "drain"}
    BY <1>0 DEF TypeOK, WorkerType, Loops
  <2> QED
    BY <1>0, <2>1, <2>2 DEF LeftEmptyHanded
<1> QED
  BY <1>1, <1>2, <1>3, LoopKeeps DEF BeginDrain

LEMMA LeaveKeeps ==
  ASSUME QueueInv, NEW w \in Workers, Leave(w)
  PROVE  QueueInv'
<1> USE DEF QueueInv
<1>0. /\ UNCHANGED <<phase, done, stopped, buffer, hand, attempt, settled, late>>
      /\ stopped \/ (worker[w].loop = "drain" /\ buffer = <<>>)
      /\ worker[w].at = "select" /\ worker' = [worker EXCEPT ![w].at = "gone"]
  BY DEF Leave, Selecting, serverVars
<1>1. WorkerType'
  BY <1>0 DEF TypeOK, WorkerType, Loops
<1>2. WorkersInLoop'
  BY <1>0 DEF TypeOK, WorkerType, Loops, WorkersInLoop
<1>3. LeftEmptyHanded'
  <2>1. \A v \in Workers : (Gone(v)' <=> Gone(v) \/ v = w) /\ worker'[v].loop = worker[v].loop
    BY <1>0 DEF TypeOK, WorkerType, Loops, Gone
  <2>2. phase # "drained"
    BY <1>0 DEF LeftEmptyHanded, Gone
  <2>3. ~stopped => DOMAIN buffer = {}
    BY <1>0, EmptySeq, LenProperties
  <2> QED
    BY <1>0, <2>1, <2>2, <2>3 DEF LeftEmptyHanded
<1> QED
  BY <1>1, <1>2, <1>3, LoopKeeps DEF Leave

LEMMA RetryKeeps ==
  ASSUME QueueInv, NEW w \in Workers, Retry(w)
  PROVE  QueueInv'
<1> USE DEF QueueInv
<1>0. /\ UNCHANGED <<phase, done, stopped, buffer, hand, settled, late>>
      /\ worker[w].at = "sleeping" /\ worker' = [worker EXCEPT ![w].at = "processing"]
      /\ attempt' = [attempt EXCEPT ![w] = @ + 1]
  BY DEF Retry, serverVars
<1>1. WorkerType'
  <2>1. attempt[w] + 1 \in 0 .. MaxAttempts
    BY <1>0, QueueAssumption DEF TypeOK, WorkerType, WorkersInLoop
  <2> QED
    BY <1>0, <2>1 DEF TypeOK, WorkerType, Loops
<1>2. WorkersInLoop'
  BY <1>0 DEF TypeOK, WorkerType, Loops, WorkersInLoop
<1>3. LeftEmptyHanded'
  <2>1. \A v \in Workers : (Gone(v)' <=> Gone(v)) /\ worker'[v].loop = worker[v].loop
    BY <1>0 DEF TypeOK, WorkerType, Loops, Gone
  <2> QED
    BY <1>0, <2>1 DEF LeftEmptyHanded
<1> QED
  BY <1>1, <1>2, <1>3, LoopKeeps DEF Retry

\* evaluate returns with its activity counted and settled.
LEMMA SettleKeeps ==
  ASSUME QueueInv, NEW w \in Workers, NEW field \in {"processed", "failed"}, Settle(w, field),
         worker[w].at \in {"processing", "sleeping"},
         UNCHANGED <<serverVars, buffer, handlerVars, late>>
  PROVE  QueueInv'
<1> USE DEF QueueInv
<1>0. /\ UNCHANGED <<phase, done, stopped, buffer, at, next, sends, reply, late>>
      /\ worker' = [worker EXCEPT ![w].at = "select"]
      /\ hand' = [hand EXCEPT ![w] = Nothing] /\ attempt' = [attempt EXCEPT ![w] = 0]
      /\ settled' = settled \cup {hand[w]}
      /\ stats' = [stats EXCEPT ![field] = @ + 1]
  BY DEF Settle, Count, serverVars, handlerVars
<1>1. hand[w] # Nothing /\ hand[w] \in Events
  BY DEF WorkersInLoop, TypeOK, WorkerType
<1>2. TypeOK'
  <2>1. WorkerType'
    <3>1. worker' \in [Workers -> Loops]
      BY <1>0 DEF TypeOK, WorkerType, Loops
    <3>2. attempt' \in [Workers -> 0 .. MaxAttempts]
      BY <1>0, QueueAssumption DEF TypeOK, WorkerType
    <3> QED
      BY <1>0, <1>1, <3>1, <3>2 DEF TypeOK, WorkerType
  <2>2. stats' \in Counters
    BY <1>0 DEF TypeOK, Counters
  <2> QED
    BY <1>0, <2>1, <2>2, TypesKept DEF TypeOK
<1>3. Phases' /\ HandlersInLoop'
  BY <1>0, ServerKept DEF HandlersInLoop, TypeOK
<1>4. WorkersInLoop'
  BY <1>0 DEF TypeOK, WorkerType, Loops, WorkersInLoop
<1>5. LeftEmptyHanded'
  <2>1. \A v \in Workers : (Gone(v)' <=> Gone(v)) /\ worker'[v].loop = worker[v].loop
    BY <1>0 DEF TypeOK, WorkerType, Loops, Gone
  <2> QED
    BY <1>0, <2>1 DEF LeftEmptyHanded
<1>6. QueuedTracked'
  <2>1. \A c \in Deliveries : \A i \in 1 .. Length[c] : Queued(c, i)' => Queued(c, i)
    BY <1>0 DEF Queued, InFlight
  <2>2. \A v \in Busy : hand[v] \in (Held \cup settled)'
    BY <1>0 DEF TypeOK, WorkerType, Held, Busy
  <2> QED
    BY <1>0, <2>1, <2>2, TrackedKept DEF Held
<1>7. Conservation'
  <2>1. Cardinality(Busy') = Cardinality(Busy) - 1
    BY <1>0, <1>1, BusyLeft
  <2>2. Counting' = Counting
    BY <1>0 DEF Counting
  <2>3. /\ stats'.accepted = stats.accepted
        /\ stats'.processed + stats'.failed = stats.processed + stats.failed + 1
    BY <1>0 DEF TypeOK, Counters
  <2> QED
    BY <1>0, <2>1, <2>2, <2>3, ConservationKept
<1> QED
  BY <1>2, <1>3, <1>4, <1>5, <1>6, <1>7

LEMMA SucceedKeeps ==
  ASSUME QueueInv, NEW w \in Workers, Succeed(w)
  PROVE  QueueInv'
BY SettleKeeps DEF Succeed

LEMMA CancelRetryKeeps ==
  ASSUME QueueInv, NEW w \in Workers, CancelRetry(w)
  PROVE  QueueInv'
BY SettleKeeps DEF CancelRetry

LEMMA FailKeeps ==
  ASSUME QueueInv, NEW w \in Workers, Fail(w)
  PROVE  QueueInv'
<1>1. CASE stopped \/ attempt[w] = MaxAttempts
  BY <1>1, SettleKeeps DEF Fail
<1>2. CASE ~(stopped \/ attempt[w] = MaxAttempts)
  <2> USE DEF QueueInv
  <2>0. /\ UNCHANGED <<phase, done, stopped, buffer, hand, attempt, settled, late>>
        /\ worker[w].at = "processing" /\ worker' = [worker EXCEPT ![w].at = "sleeping"]
        /\ attempt[w] < MaxAttempts
    BY <1>2, QueueAssumption DEF Fail, BackOff, serverVars, TypeOK, WorkerType
  <2>1. WorkerType'
    BY <2>0 DEF TypeOK, WorkerType, Loops
  <2>2. WorkersInLoop'
    BY <2>0 DEF TypeOK, WorkerType, Loops, WorkersInLoop
  <2>3. LeftEmptyHanded'
    <3>1. \A v \in Workers : (Gone(v)' <=> Gone(v)) /\ worker'[v].loop = worker[v].loop
      BY <2>0 DEF TypeOK, WorkerType, Loops, Gone
    <3> QED
      BY <2>0, <3>1 DEF LeftEmptyHanded
  <2> QED
    BY <1>2, <2>1, <2>2, <2>3, LoopKeeps DEF Fail, BackOff
<1> QED
  BY <1>1, <1>2

-----------------------------------------------------------------------------
(* The process. *)

\* A step of the process leaves what the queue holds alone.
LEMMA ProcessKeeps ==
  ASSUME QueueInv, ServerType', Phases', LeftEmptyHanded', done => done',
         phase # "exited", UNCHANGED queueVars
  PROVE  QueueInv'
<1> USE DEF QueueInv
<1>0. UNCHANGED <<buffer, at, next, sends, reply, worker, hand, attempt, settled, stats, late>>
  BY DEF queueVars, handlerVars, workerVars
<1>1. TypeOK'
  BY <1>0, TypesKept DEF TypeOK
<1>2. HandlersInLoop' /\ WorkersInLoop'
  BY <1>0 DEF HandlersInLoop, WorkersInLoop
<1>3. QueuedTracked'
  <2>1. Held' = Held /\ \A c \in Deliveries : \A i \in 1 .. Length[c] : Queued(c, i)' => Queued(c, i)
    BY <1>0 DEF Held, Busy, Queued, InFlight
  <2> QED
    BY <1>0, <2>1, TrackedKept
<1>4. Conservation'
  <2>1. Counting' = Counting /\ Busy' = Busy
    BY <1>0 DEF Counting, Busy
  <2> QED
    BY <1>0, <2>1 DEF Conservation
<1> QED
  BY <1>1, <1>2, <1>3, <1>4

LEMMA SignalKeeps == QueueInv /\ Signal => QueueInv'
<1> SUFFICES ASSUME QueueInv, Signal PROVE QueueInv'
  OBVIOUS
<1>1. UNCHANGED <<buffer, worker, late>>
  BY DEF Signal, queueVars, workerVars
<1>2. ServerType' /\ Phases'
  BY DEF Signal, QueueInv, TypeOK, ServerType, Phases
<1>3. LeftEmptyHanded'
  BY <1>1 DEF Signal, QueueInv, LeftEmptyHanded, Gone
<1> QED
  BY <1>2, <1>3, ProcessKeeps DEF Signal

LEMMA CloseDoneKeeps == QueueInv /\ CloseDone => QueueInv'
<1> SUFFICES ASSUME QueueInv, CloseDone PROVE QueueInv'
  OBVIOUS
<1>1. UNCHANGED <<buffer, worker, late>>
  BY DEF CloseDone, queueVars, workerVars
<1>2. ServerType' /\ Phases'
  BY DEF CloseDone, QueueInv, TypeOK, ServerType, Phases
<1>3. LeftEmptyHanded'
  BY <1>1 DEF CloseDone, QueueInv, LeftEmptyHanded, Gone
<1> QED
  BY <1>2, <1>3, ProcessKeeps DEF CloseDone

\* Every worker left by itself, and there is one.
LEMMA DrainedKeeps == QueueInv /\ Drained => QueueInv'
<1> SUFFICES ASSUME QueueInv, Drained PROVE QueueInv'
  OBVIOUS
<1>1. UNCHANGED <<buffer, worker, late>> /\ ~stopped
  BY DEF Drained, queueVars, workerVars, QueueInv, Phases
<1>2. ServerType' /\ Phases'
  BY DEF Drained, QueueInv, TypeOK, ServerType, Phases
<1>3. LeftEmptyHanded'
  <2>1. \E w \in Workers : Gone(w)
    BY QueueAssumption DEF Drained, Gone
  <2> QED
    BY <1>1, <2>1 DEF Drained, QueueInv, LeftEmptyHanded, Gone
<1> QED
  BY <1>2, <1>3, ProcessKeeps DEF Drained

LEMMA DeadlineKeeps == QueueInv /\ Deadline => QueueInv'
<1> SUFFICES ASSUME QueueInv, Deadline PROVE QueueInv'
  OBVIOUS
<1>1. ServerType' /\ Phases'
  BY DEF Deadline, QueueInv, TypeOK, ServerType, Phases
<1>2. LeftEmptyHanded'
  BY DEF Deadline, LeftEmptyHanded
<1> QED
  BY <1>1, <1>2, ProcessKeeps DEF Deadline

LEMMA ExitKeeps == QueueInv /\ Exit => QueueInv'
<1> SUFFICES ASSUME QueueInv, Exit PROVE QueueInv'
  OBVIOUS
<1> USE DEF QueueInv, Exit
<1>1. TypeOK'
  <2>1. ServerType'
    BY DEF TypeOK, ServerType
  <2>2. HandlerType'
    <3>1. \A d \in Deliveries : 1 \in 1 .. Length[d] + 1
      BY ONLY QueueAssumption
    <3>2. at' \in [Deliveries -> {"none", "checking", "sending", "counting", "answered"}]
      <4>1. /\ at \in [Deliveries -> {"none", "checking", "sending", "counting", "answered"}]
            /\ at' = [d \in Deliveries |-> IF InFlight(d) THEN "none" ELSE at[d]]
        BY DEF TypeOK, HandlerType
      <4> QED
        BY ONLY <4>1
    <3> QED
      BY <3>1, <3>2 DEF TypeOK, HandlerType
  <2>3. BufferType'
    <3>1. <<>> \in Seq(Events) /\ Len(<<>>) <= Size
      BY ONLY QueueAssumption, EmptySeq
    <3> QED
      BY <3>1 DEF BufferType
  <2>4. WorkerType'
    <3>1. worker' \in [Workers -> Loops]
      BY DEF Idle, Loops
    <3>2. 0 \in 0 .. MaxAttempts
      BY ONLY QueueAssumption
    <3> QED
      BY <3>1, <3>2 DEF TypeOK, WorkerType
  <2>5. stats' \in Counters
    BY DEF NoStats, Counters
  <2> QED
    BY <2>1, <2>2, <2>3, <2>4, <2>5 DEF TypeOK
<1>2. Phases'
  BY DEF Phases
<1>3. HandlersInLoop'
  BY DEF HandlersInLoop, InFlight
<1>4. WorkersInLoop' /\ LeftEmptyHanded'
  BY DEF Idle, WorkersInLoop, LeftEmptyHanded, Gone, Phases
<1>5. QueuedTracked'
  BY DEF QueuedTracked
<1>6. Conservation'
  <2>1. Counting' = {} /\ Busy' = {} /\ Len(buffer') = 0
    BY EmptySeq DEF Counting, Busy, InFlight
  <2>2. stats'.accepted = 0 /\ stats'.processed = 0 /\ stats'.failed = 0
    BY DEF NoStats
  <2> QED
    BY ONLY <2>1, <2>2, FS_EmptySet DEF Conservation
<1> QED
  BY <1>1, <1>2, <1>3, <1>4, <1>5, <1>6

LEMMA StutterKeeps == QueueInv /\ UNCHANGED vars => QueueInv'
<1> SUFFICES ASSUME QueueInv, UNCHANGED vars PROVE QueueInv'
  OBVIOUS
<1> USE DEF QueueInv
<1>0. /\ UNCHANGED <<phase, done, stopped, buffer, at, next, sends, reply>>
      /\ UNCHANGED <<worker, hand, attempt, settled, stats, late>>
  BY DEF vars, serverVars, handlerVars, workerVars
<1>1. TypeOK' /\ Phases' /\ HandlersInLoop'
  BY <1>0, TypesKept, ServerKept DEF TypeOK, HandlersInLoop
<1>2. WorkersInLoop' /\ LeftEmptyHanded'
  BY <1>0, WorkersKept
<1>3. QueuedTracked'
  <2>1. Held' = Held /\ \A c \in Deliveries : \A i \in 1 .. Length[c] : Queued(c, i)' => Queued(c, i)
    BY <1>0 DEF Held, Busy, Queued, InFlight
  <2> QED
    BY <1>0, <2>1, TrackedKept
<1>4. Conservation'
  <2>1. Counting' = Counting /\ Busy' = Busy
    BY <1>0 DEF Counting, Busy
  <2> QED
    BY <1>0, <2>1 DEF Conservation
<1> QED
  BY <1>1, <1>2, <1>3, <1>4

-----------------------------------------------------------------------------
(* The theorems. *)

LEMMA NextKeeps == QueueInv /\ [Next]_vars => QueueInv'
<1> SUFFICES ASSUME QueueInv, [Next]_vars PROVE QueueInv'
  OBVIOUS
<1>1. ASSUME NEW d \in Deliveries, Deliver(d) \/ Handle(d) PROVE QueueInv'
  BY <1>1, DeliverKeeps, CheckOpenKeeps, SendKeeps, CountAcceptedKeeps, RefuseKeeps DEF Handle
<1>2. ASSUME NEW w \in Workers, Loop(w) PROVE QueueInv'
  BY <1>2, ReceiveKeeps, BeginDrainKeeps, LeaveKeeps, RetryKeeps, CancelRetryKeeps DEF Loop
<1>3. ASSUME NEW w \in Workers, Process(w) PROVE QueueInv'
  BY <1>3, SucceedKeeps, FailKeeps DEF Process
<1>4. CASE Signal \/ CloseDone \/ Drained \/ Deadline \/ Exit
  BY <1>4, SignalKeeps, CloseDoneKeeps, DrainedKeeps, DeadlineKeeps, ExitKeeps
<1>5. CASE UNCHANGED vars
  BY <1>5, StutterKeeps
<1> QED
  BY <1>1, <1>2, <1>3, <1>4, <1>5 DEF Next, Terminated

\* The account of the queue, the loops of its workers and handlers and the
\* phases of the shutdown fit together in every reachable state.
THEOREM QueueInvariant == Spec => []QueueInv
<1>1. Init => QueueInv
  BY InitCorrect
<1>2. QueueInv /\ [Next]_vars => QueueInv'
  BY NextKeeps
<1> QED
  BY <1>1, <1>2, PTL DEF Spec

\* Every variable of the queue stays in its type; the channel never holds more
\* than it has room for, and no activity is attempted more often than allowed.
THEOREM QueueTypeCorrect == Spec => []TypeOK
<1>1. QueueInv => TypeOK
  BY DEF QueueInv
<1> QED
  BY <1>1, QueueInvariant, PTL

\* No activity disappears inside the queue (Stats).
THEOREM NothingDisappears == Spec => []Conservation
<1>1. QueueInv => Conservation
  BY DEF QueueInv
<1> QED
  BY <1>1, QueueInvariant, PTL

\* GitLab is told a delivery succeeded only if the queue answers for each of
\* its activities, and none is forgotten as long as the process lives.
THEOREM AcknowledgedIsTracked == Spec => []AcknowledgedTracked
<1>1. QueueInv => AcknowledgedTracked
  BY DEF QueueInv, QueuedTracked, Queued, AcknowledgedTracked
<1> QED
  BY <1>1, QueueInvariant, PTL

\* A Shutdown that reports success has settled whatever was queued before it
\* began: what is left came late.
THEOREM DrainSettles == Spec => []DrainSettlesEarlier
<1>1. QueueInv => DrainSettlesEarlier
  <2> SUFFICES ASSUME QueueInv, phase = "drained"
               PROVE  Busy = {} /\ \A i \in DOMAIN buffer : buffer[i] \in late
    BY DEF DrainSettlesEarlier
  <2> QED
    BY DEF QueueInv, LeftEmptyHanded, WorkersInLoop, Gone, Busy
<1> QED
  BY <1>1, QueueInvariant, PTL

=============================================================================
