--------------------------- MODULE ExclusionProofs ---------------------------
(***************************************************************************)
(* Theorems about who takes part, for any number of callers of Check, of     *)
(* opt-outs and of starts under another list.                                *)
(***************************************************************************)
EXTENDS Exclusion, TLAPS

-----------------------------------------------------------------------------
(* The inductive invariant. *)

\* What a copy of the row says of the account is what GitLab said: once asked,
\* the verdict; before that, nothing. Nobody is left out as a bot without one.
Truthful(user) ==
  /\ user.isBot <=> (user.checked /\ bot)
  /\ user.reason = "bot" => user.isBot

\* A row is never deleted, nor a verdict forgotten: what an earlier read saw of
\* either, the row still has.
Outlived(user) ==
  /\ user.exists => row.exists
  /\ user.checked => row.checked

\* A caller of Check decided by the subject it holds, and acts on the row as
\* it read it.
InHand(k) ==
  /\ Truthful(k.user) /\ Outlived(k.user)
  /\ k.subject.isBot <=> (k.subject.checked /\ bot)
  /\ k.at \in {"create", "update", "return"} => k.reason = Decide(k.inList, k.subject)
  /\ k.at = "update" => k.user.exists

ChecksInHand == \A c \in Checkers : InHand(check[c])

\* So do Apply and an opt-in, which writes to a row that is there.
WritersInHand ==
  /\ Truthful(apply.subject) /\ Outlived(apply.subject)
  /\ apply.busy => apply.inList = listed
  /\ optIn.subject.isBot <=> (optIn.subject.checked /\ bot)
  /\ optIn.subject.checked => row.checked
  /\ optIn.busy => row.exists /\ ~optIn.subject.optedOut

\* An Apply in progress that will leave the row as it is.
AppliesNothing ==
  apply.busy /\ (apply.subject.exists => apply.subject.reason = Decide(listed, apply.subject))

Current == (serving \/ AppliesNothing) /\ ~stale => ReasonCurrent

ExclusionInv == TypeOK /\ Truthful(row) /\ ChecksInHand /\ WritersInHand /\ Current

-----------------------------------------------------------------------------
(* What the operators of Exclusion yield. *)

\* A decision is a reason, "bot" only of a bot, and none only of one who opted for nothing, is
\* on no list and is no bot.
LEMMA DecideType ==
  ASSUME NEW inList \in BOOLEAN, NEW user \in Rows
  PROVE  /\ Decide(inList, user) \in Reasons
         /\ Decide(inList, user) = "bot" => user.isBot
         /\ (Decide(inList, user) = "") <=> (~user.optedOut /\ ~inList /\ ~user.isBot)
BY DEF Decide, Reasons, Rows

\* Only three things decide.
LEMMA DecideDepends ==
  ASSUME NEW inList \in BOOLEAN, NEW user \in Rows, NEW other \in Rows,
         user.optedOut = other.optedOut, user.isBot = other.isBot
  PROVE  Decide(inList, user) = Decide(inList, other)
BY DEF Decide, Rows

\* Where everybody starts.
LEMMA BlankType ==
  /\ NoRow \in Rows /\ FirstRow \in Rows
  /\ Idle \in Checks /\ Free \in Actors
<1>1. NoRow \in Rows
  BY DEF NoRow, Rows, Reasons
<1>2. FirstRow \in Rows
  BY DEF FirstRow, NoRow, Rows, Reasons
<1>3. Idle \in Checks
  BY <1>1 DEF Idle, Checks, Reasons
<1>4. Free \in Actors
  BY <1>1 DEF Free, Actors
<1> QED
  BY <1>1, <1>2, <1>3, <1>4

\* A user without a row, or with a fresh one, is one nothing is known of.
LEMMA BlankSaysNothing ==
  /\ ~NoRow.exists /\ ~NoRow.checked /\ ~NoRow.isBot /\ ~NoRow.optedOut /\ NoRow.reason = ""
  /\ FirstRow.exists /\ ~FirstRow.checked /\ ~FirstRow.isBot /\ ~FirstRow.optedOut
  /\ FirstRow.reason = ""
BY DEF FirstRow, NoRow

\* The initial states satisfy the invariant, and (below) every action keeps it.
LEMMA InitCorrect == Init => ExclusionInv
<1> SUFFICES ASSUME Init PROVE ExclusionInv
  OBVIOUS
<1>1. TypeOK
  <2>1. ~row.exists => row = NoRow
    BY DEF Init, NoRow, FirstRow
  <2>2. starts \in 0 .. MaxStarts /\ optOuts \in 0 .. MaxOptOuts
    BY ExclusionAssumption DEF Init
  <2>3. row \in Rows /\ check \in [Checkers -> Checks] /\ apply \in Actors /\ optIn \in Actors
    BY BlankType DEF Init
  <2> QED
    BY <2>1, <2>2, <2>3 DEF Init, TypeOK
<1>2. Truthful(row)
  <2>1. ~row.isBot /\ ~row.checked /\ row.reason = ""
    BY BlankSaysNothing DEF Init
  <2> QED
    BY <2>1 DEF Truthful
<1>3. ChecksInHand
  BY DEF Init, ChecksInHand, InHand, Truthful, Outlived, Idle, NoRow
<1>4. WritersInHand
  BY DEF Init, WritersInHand, Truthful, Outlived, Free, NoRow
<1>5. Current
  BY DEF Init, Current, AppliesNothing, Free
<1> QED
  BY <1>1, <1>2, <1>3, <1>4, <1>5 DEF ExclusionInv

-----------------------------------------------------------------------------
(* The steps. *)

\* What was read of a row stays true of the account, and the row outlives it.
LEMMA CopiesKept ==
  ASSUME UNCHANGED bot, row.exists => row'.exists, row.checked => row'.checked
  PROVE  /\ \A k : InHand(k) => InHand(k)'
         /\ UNCHANGED <<listed, apply, optIn>> /\ WritersInHand => WritersInHand'
BY DEF InHand, WritersInHand, Truthful, Outlived

LEMMA LoadKeeps ==
  ASSUME ExclusionInv, NEW c \in Checkers, Load(c)
  PROVE  ExclusionInv'
<1> USE DEF ExclusionInv, Load
<1> DEFINE k == [Idle EXCEPT !.at = "decide", !.inList = listed, !.user = row, !.subject = row]
<1>1. k \in Checks
  BY BlankType DEF TypeOK, Checks
<1>2. TypeOK'
  BY <1>1 DEF TypeOK
<1>3. Truthful(row)'
  BY DEF Truthful
<1>4. ChecksInHand'
  <2>1. InHand(k)'
    BY DEF InHand, Truthful, Outlived, Idle
  <2> QED
    BY <2>1, CopiesKept DEF TypeOK, ChecksInHand
<1>5. WritersInHand'
  BY CopiesKept
<1>6. Current'
  BY DEF Current, AppliesNothing, ReasonCurrent
<1> QED
  BY <1>2, <1>3, <1>4, <1>5, <1>6

LEMMA DecideAndAskKeeps ==
  ASSUME ExclusionInv, NEW c \in Checkers, DecideAndAsk(c)
  PROVE  ExclusionInv'
<1> USE DEF ExclusionInv
<1> DEFINE k == check[c]
<1>0. k \in Checks /\ InHand(k) /\ k.at = "decide" /\ bot \in BOOLEAN
  BY DEF DecideAndAsk, TypeOK, ChecksInHand
<1> DEFINE subj(answered) ==
             IF answered THEN [k.subject EXCEPT !.isBot = bot, !.checked = TRUE] ELSE k.subject
           decided(answered) == Decide(k.inList, subj(answered))
           rest(answered) == Remaining(k, decided(answered), answered)
<1>a. PICK answered \in BOOLEAN :
        check' = [check EXCEPT ![c] = [k EXCEPT !.at = rest(answered), !.subject = subj(answered),
                                               !.reason = decided(answered)]]
  BY DEF DecideAndAsk
<1> DEFINE subject == subj(answered)
           reason == decided(answered)
           at == rest(answered)
<1>1. /\ subject = IF answered THEN [k.subject EXCEPT !.isBot = bot, !.checked = TRUE] ELSE k.subject
      /\ reason = Decide(k.inList, subject)
      /\ at = Remaining(k, reason, answered)
      /\ check' = [check EXCEPT ![c] = [k EXCEPT !.at = at, !.subject = subject, !.reason = reason]]
  BY <1>a
<1> HIDE DEF subj, decided, rest, subject, reason, at
<1> DEFINE next == [k EXCEPT !.at = at, !.subject = subject, !.reason = reason]
<1>2. subject \in Rows /\ (subject.isBot <=> (subject.checked /\ bot))
  BY <1>0, <1>1 DEF Checks, Rows, InHand
<1>3. reason \in Reasons
  BY <1>0, <1>1, <1>2, DecideType DEF Checks
<1>4. at \in {"create", "update", "return"} /\ (at = "update" => k.user.exists)
  BY <1>1 DEF Remaining
<1>5. next \in Checks /\ next.at = at /\ next.subject = subject /\ next.reason = reason
      /\ next.inList = k.inList /\ next.user = k.user
  BY <1>0, <1>2, <1>3, <1>4 DEF Checks
<1>6. InHand(next)
  BY <1>0, <1>1, <1>2, <1>4, <1>5 DEF InHand
<1> HIDE DEF next
<1>7. check' = [check EXCEPT ![c] = next]
      /\ UNCHANGED <<bot, row, listed, starts, serving, apply, optIn, optOuts, stale>> /\ counted' = FALSE
  BY <1>1 DEF DecideAndAsk, next
<1>8. TypeOK'
  BY <1>5, <1>7 DEF TypeOK
<1>9. Truthful(row)'
  BY <1>7 DEF Truthful
<1>10. ChecksInHand'
  BY <1>6, <1>7, CopiesKept DEF TypeOK, ChecksInHand
<1>11. WritersInHand'
  BY <1>7, CopiesKept
<1>12. Current'
  BY <1>7 DEF Current, AppliesNothing, ReasonCurrent
<1> QED
  BY <1>8, <1>9, <1>10, <1>11, <1>12

\* A row that is created says what was decided.
LEMMA CreateKeeps ==
  ASSUME ExclusionInv, NEW c \in Checkers, Create(c)
  PROVE  ExclusionInv'
<1> DEFINE k == check[c]
<1>1. /\ k \in Checks /\ InHand(k) /\ k.at = "create" /\ k.reason = Decide(k.inList, k.subject)
      /\ row \in Rows /\ Truthful(row) /\ bot \in BOOLEAN /\ listed \in BOOLEAN
      /\ check \in [Checkers -> Checks]
  BY DEF Create, ExclusionInv, TypeOK, ChecksInHand, InHand
<1>2. UNCHANGED <<bot, listed, starts, serving, apply, optIn, optOuts>> /\ counted' = FALSE
  BY DEF Create
<1>3. CASE row.exists
  <2> DEFINE next == [k EXCEPT !.at = "update", !.user = row]
  <2>1. check' = [check EXCEPT ![c] = next] /\ UNCHANGED <<row, stale>>
    BY <1>1, <1>3 DEF Create, Checks
  <2>2. next \in Checks
    BY <1>1 DEF Checks
  <2>3. InHand(next)
    BY <1>1, <1>3 DEF InHand, Outlived, Checks
  <2> HIDE DEF next
  <2>4. TypeOK'
    BY <1>2, <2>1, <2>2 DEF ExclusionInv, TypeOK
  <2>5. Truthful(row)' /\ ChecksInHand' /\ WritersInHand'
    BY <1>1, <1>2, <2>1, <2>3, CopiesKept DEF Truthful, ChecksInHand, ExclusionInv
  <2>6. Current'
    BY <1>2, <2>1 DEF ExclusionInv, Current, AppliesNothing, ReasonCurrent
  <2> QED
    BY <2>4, <2>5, <2>6 DEF ExclusionInv
<1>4. CASE ~row.exists
  <2> DEFINE next == [k EXCEPT !.at = "return"]
             new  == [k.subject EXCEPT !.exists = TRUE, !.reason = k.reason]
  <2>1. check' = [check EXCEPT ![c] = next] /\ row' = new /\ Decided(k.inList, k.subject)
    BY <1>1, <1>4 DEF Create
  <2>2. next \in Checks /\ InHand(next)
    BY <1>1 DEF Checks, InHand
  <2>3. new \in Rows /\ new.exists /\ new.reason = k.reason
        /\ new.optedOut = k.subject.optedOut /\ new.isBot = k.subject.isBot
        /\ new.checked = k.subject.checked
    BY <1>1 DEF Checks, Rows
  <2> HIDE DEF next, new
  <2>4. TypeOK'
    BY <1>2, <2>1, <2>2, <2>3 DEF ExclusionInv, TypeOK, Decided
  <2>5. k.reason = "bot" => k.subject.isBot
    BY <1>1, DecideType DEF Checks
  <2>6. Truthful(new)
    BY <1>1, <2>3, <2>5 DEF Truthful, InHand
  <2>7. ~row.checked
    BY <1>4, BlankSaysNothing DEF ExclusionInv, TypeOK
  <2>8. Truthful(row)' /\ ChecksInHand' /\ WritersInHand'
    BY <1>1, <1>2, <1>4, <2>1, <2>2, <2>6, <2>7, CopiesKept DEF Truthful, ChecksInHand, ExclusionInv
  <2>9. Current'
    <3> SUFFICES ASSUME ~stale' PROVE new.reason = Decide(listed, new)
      BY <1>2, <2>1, <2>3 DEF Current, ReasonCurrent
    <3>1. k.inList = listed
      BY <2>1 DEF Decided, Informed
    <3> QED
      BY <1>1, <2>3, <3>1, DecideDepends DEF Checks
  <2> QED
    BY <2>4, <2>8, <2>9 DEF ExclusionInv
<1> QED
  BY <1>3, <1>4

\* An update in time leaves the row as the policy decides about it, though it
\* writes only what it found to differ from an earlier read.
LEMMA UpdateKeeps ==
  ASSUME ExclusionInv, NEW c \in Checkers, Update(c)
  PROVE  ExclusionInv'
<1> DEFINE k == check[c]
           new == pendingUpdates(k)
           news == k.subject.checked /\ (~k.user.checked \/ k.user.isBot # k.subject.isBot)
           next == [k EXCEPT !.at = "return"]
<1>1. /\ k \in Checks /\ InHand(k) /\ k.at = "update" /\ k.reason = Decide(k.inList, k.subject)
      /\ row \in Rows /\ Truthful(row) /\ bot \in BOOLEAN /\ listed \in BOOLEAN
      /\ check \in [Checkers -> Checks]
  BY DEF Update, ExclusionInv, TypeOK, ChecksInHand, InHand
<1>2. UNCHANGED <<bot, listed, starts, serving, apply, optIn, optOuts>> /\ counted' = FALSE
      /\ check' = [check EXCEPT ![c] = next] /\ row' = new /\ Decided(k.inList, k.subject)
  BY DEF Update
<1>3. next \in Checks /\ InHand(next)
  BY <1>1 DEF Checks, InHand
<1>4. k.user \in Rows /\ k.subject \in Rows /\ k.inList \in BOOLEAN /\ k.reason \in Reasons
  BY <1>1 DEF Checks
<1>5. /\ new \in Rows /\ new.exists = row.exists /\ new.optedOut = row.optedOut
      /\ new.reason = (IF k.user.reason # k.reason THEN k.reason ELSE row.reason)
      /\ new.isBot = (IF news THEN k.subject.isBot ELSE row.isBot)
      /\ new.checked = (news \/ row.checked)
  BY <1>1, <1>4 DEF Rows, pendingUpdates
<1>6. row.exists
  BY <1>1 DEF InHand, Outlived
<1> HIDE DEF next, new
\* The row's verdict only becomes better known.
<1>7. /\ k.subject.isBot /\ ~news => row.isBot
      /\ row.isBot => new.isBot
      /\ new.isBot <=> (new.checked /\ bot)
  BY <1>1, <1>4, <1>5 DEF InHand, Truthful, Outlived, Rows
<1>8. TypeOK'
  BY <1>2, <1>3, <1>5, <1>6 DEF ExclusionInv, TypeOK, Decided
<1>9. k.reason = "bot" => new.isBot
  BY <1>1, <1>4, <1>5, <1>7, DecideType DEF Rows
<1>10. Truthful(new)
  BY <1>1, <1>5, <1>7, <1>9 DEF Truthful
<1>11. Truthful(row)' /\ ChecksInHand' /\ WritersInHand'
  BY <1>1, <1>2, <1>3, <1>5, <1>10, CopiesKept DEF Truthful, ChecksInHand, ExclusionInv
<1>12. Current'
  <2> SUFFICES ASSUME serving \/ AppliesNothing, ~stale' PROVE new.reason = Decide(listed, new)
    BY <1>2 DEF Current, ReasonCurrent, AppliesNothing
  <2>1. ~stale /\ k.inList = listed /\ row.optedOut = k.subject.optedOut
        /\ (row.isBot => k.subject.isBot)
    BY <1>2 DEF Decided, Informed
  <2>2. row.reason = Decide(listed, row)
    BY <1>6, <2>1 DEF ExclusionInv, Current, ReasonCurrent
  <2>3. CASE k.user.reason # k.reason
    <3>1. new.isBot = k.subject.isBot
      BY <1>1, <1>4, <1>5, <1>7, <2>1 DEF Rows
    <3> QED
      BY <1>1, <1>4, <1>5, <2>1, <2>3, <3>1, DecideDepends
  <2>4. CASE k.user.reason = k.reason
    <3>1. CASE new.isBot = row.isBot
      BY <1>1, <1>5, <2>2, <2>4, <3>1, DecideDepends
    <3>2. CASE new.isBot # row.isBot
      <4>1. new.isBot /\ ~row.isBot /\ news /\ k.subject.isBot
        BY <1>1, <1>5, <1>7, <3>2 DEF Rows
      <4>2. k.reason # "bot"
        BY <1>1, <1>4, <2>4, <4>1 DEF InHand, Truthful, Rows
      <4>3. row.optedOut \/ listed
        BY <1>1, <1>4, <2>1, <4>1, <4>2 DEF Decide, Rows
      <4> QED
        BY <1>1, <1>5, <2>2, <2>4, <4>3 DEF Decide, Rows
    <3> QED
      BY <3>1, <3>2
  <2> QED
    BY <2>3, <2>4
<1> QED
  BY <1>8, <1>11, <1>12 DEF ExclusionInv

\* The claim after a Check that let the user take part.
LEMMA ReturnKeeps ==
  ASSUME ExclusionInv, NEW c \in Checkers, Return(c)
  PROVE  /\ ExclusionInv'
         /\ counted' /\ serving /\ ~stale' => Decide(listed, row) = ""
<1> DEFINE k == check[c]
<1>1. /\ k \in Checks /\ InHand(k) /\ k.reason = Decide(k.inList, k.subject)
      /\ row \in Rows /\ Truthful(row) /\ bot \in BOOLEAN /\ listed \in BOOLEAN
      /\ check \in [Checkers -> Checks]
  BY DEF Return, ExclusionInv, TypeOK, ChecksInHand, InHand
<1>2. /\ UNCHANGED <<bot, listed, starts, serving, apply, optIn, optOuts>>
      /\ check' = [check EXCEPT ![c] = Idle] /\ counted' \in BOOLEAN
      /\ counted' => k.reason = "" /\ row.reason = ""
  BY DEF Return
<1>3. InHand(Idle)
  BY DEF InHand, Idle, Truthful, Outlived, NoRow
<1>4. CASE counted' /\ ~row.exists
  <2>1. row' = FirstRow /\ Decided(k.inList, k.subject)
    BY <1>4 DEF Return
  <2>2. row = NoRow
    BY <1>4 DEF ExclusionInv, TypeOK
  <2>4. TypeOK'
    BY <1>2, <2>1, BlankSaysNothing, BlankType DEF ExclusionInv, TypeOK, Decided
  <2>5. Truthful(FirstRow) /\ ~row.checked
    BY <2>2, BlankSaysNothing DEF Truthful
  <2>6. Truthful(row)' /\ ChecksInHand' /\ WritersInHand'
    BY <1>1, <1>2, <1>3, <1>4, <2>1, <2>5, CopiesKept DEF Truthful, ChecksInHand, ExclusionInv
  <2>7. ~stale' => ~listed
    BY <1>1, <1>2, <1>4, <2>1, DecideType DEF Decided, Informed, Checks
  <2>8. ~stale' => Decide(listed, FirstRow) = "" /\ Decide(listed, row) = ""
    BY <1>1, <2>2, <2>7, BlankSaysNothing, BlankType, DecideType
  <2> QED
    BY <1>2, <2>1, <2>4, <2>6, <2>8, BlankSaysNothing DEF ExclusionInv, Current, ReasonCurrent
<1>5. CASE ~(counted' /\ ~row.exists)
  <2>1. UNCHANGED <<row, stale>>
    BY <1>5 DEF Return
  <2>2. TypeOK'
    BY <1>2, <2>1, BlankType DEF ExclusionInv, TypeOK
  <2>3. Truthful(row)' /\ ChecksInHand' /\ WritersInHand'
    BY <1>1, <1>2, <1>3, <2>1, CopiesKept DEF Truthful, ChecksInHand, ExclusionInv
  <2>4. Current'
    BY <1>2, <2>1 DEF ExclusionInv, Current, AppliesNothing, ReasonCurrent
  <2>5. counted' /\ serving /\ ~stale' => Decide(listed, row) = ""
    BY <1>2, <1>5, <2>1 DEF ExclusionInv, Current, ReasonCurrent
  <2> QED
    BY <2>2, <2>3, <2>4, <2>5 DEF ExclusionInv
<1> QED
  BY <1>4, <1>5

LEMMA OptOutKeeps ==
  ASSUME ExclusionInv, OptOut
  PROVE  ExclusionInv'
<1> DEFINE new == [row EXCEPT !.exists = TRUE, !.optedOut = TRUE, !.reason = "opted_out"]
<1>1. /\ row' = new /\ UNCHANGED <<bot, listed, starts, serving, check, apply, optIn, stale>>
      /\ counted' = FALSE /\ optOuts' \in 0 .. MaxOptOuts
  BY ExclusionAssumption DEF OptOut, ExclusionInv, TypeOK
<1>2. /\ new \in Rows /\ new.exists /\ new.optedOut /\ new.reason = "opted_out"
      /\ new.isBot = row.isBot /\ new.checked = row.checked
  BY DEF ExclusionInv, TypeOK, Rows, Reasons
<1> HIDE DEF new
<1>3. TypeOK'
  BY <1>1, <1>2 DEF ExclusionInv, TypeOK
<1>4. Truthful(row)' /\ ChecksInHand' /\ WritersInHand'
  BY <1>1, <1>2, CopiesKept DEF Truthful, ChecksInHand, ExclusionInv
<1>5. Current'
  BY <1>1, <1>2 DEF Current, ReasonCurrent, Decide
<1> QED
  BY <1>3, <1>4, <1>5 DEF ExclusionInv

LEMMA OptInKeeps ==
  ASSUME ExclusionInv, OptIn
  PROVE  ExclusionInv'
<1> DEFINE subject == [row EXCEPT !.optedOut = FALSE]
           next == [busy |-> TRUE, inList |-> listed, subject |-> subject]
<1>1. optIn' = next /\ counted' = FALSE /\ row.optedOut
      /\ UNCHANGED <<bot, row, listed, starts, serving, check, apply, optOuts, stale>>
  BY DEF OptIn
<1>2. /\ subject \in Rows /\ ~subject.optedOut
      /\ subject.isBot = row.isBot /\ subject.checked = row.checked
  BY DEF ExclusionInv, TypeOK, Rows
<1> HIDE DEF subject
<1>3. next \in Actors
  BY <1>2 DEF Actors, ExclusionInv, TypeOK
<1>4. row.exists
  BY <1>1, BlankSaysNothing DEF ExclusionInv, TypeOK
<1>5. TypeOK'
  BY <1>1, <1>3 DEF ExclusionInv, TypeOK
<1>6. Truthful(row)' /\ ChecksInHand'
  BY <1>1, CopiesKept DEF Truthful, ChecksInHand, ExclusionInv
<1>7. WritersInHand'
  BY <1>1, <1>2, <1>4 DEF ExclusionInv, WritersInHand, Truthful, Outlived
<1>8. Current'
  BY <1>1 DEF ExclusionInv, Current, AppliesNothing, ReasonCurrent
<1> QED
  BY <1>5, <1>6, <1>7, <1>8 DEF ExclusionInv

LEMMA OptInWriteKeeps ==
  ASSUME ExclusionInv, OptInWrite
  PROVE  ExclusionInv'
<1> DEFINE subject == optIn.subject
           reason  == Decide(optIn.inList, subject)
           new     == [row EXCEPT !.optedOut = FALSE, !.reason = reason]
<1>1. /\ optIn \in Actors /\ optIn.busy /\ row \in Rows /\ listed \in BOOLEAN /\ bot \in BOOLEAN
      /\ Truthful(row)
  BY DEF OptInWrite, ExclusionInv, TypeOK
<1>2. /\ row' = new /\ optIn' = Free /\ counted' = FALSE
      /\ stale' = (stale \/ ~Informed(optIn.inList, [subject EXCEPT !.optedOut = row.optedOut]))
      /\ UNCHANGED <<bot, listed, starts, serving, check, apply, optOuts>>
  BY DEF OptInWrite
<1>3. /\ subject \in Rows /\ ~subject.optedOut /\ (subject.isBot => row.isBot) /\ row.exists
  BY <1>1 DEF Actors, ExclusionInv, WritersInHand, Truthful
<1>4. reason \in Reasons /\ (reason = "bot" => subject.isBot)
  BY <1>1, <1>3, DecideType DEF Actors
<1>5. /\ new \in Rows /\ new.exists = row.exists /\ ~new.optedOut /\ new.reason = reason
      /\ new.isBot = row.isBot /\ new.checked = row.checked
  BY <1>1, <1>4 DEF Rows
<1> HIDE DEF new
<1>6. TypeOK'
  BY <1>2, <1>3, <1>5, BlankType DEF ExclusionInv, TypeOK
<1>7. Truthful(row)' /\ ChecksInHand'
  BY <1>1, <1>2, <1>3, <1>4, <1>5, CopiesKept DEF Truthful, ChecksInHand, ExclusionInv
<1>8. WritersInHand'
  BY <1>2, <1>5 DEF ExclusionInv, WritersInHand, Truthful, Outlived, Free, NoRow
<1>9. Current'
  <2> SUFFICES ASSUME ~stale' PROVE reason = Decide(listed, new)
    BY <1>2, <1>5 DEF Current, ReasonCurrent
  <2>1. optIn.inList = listed /\ (row.isBot => subject.isBot)
    BY <1>2, <1>3 DEF Informed, Rows
  <2> QED
    BY <1>1, <1>3, <1>5, <2>1, DecideDepends DEF Rows
<1> QED
  BY <1>6, <1>7, <1>8, <1>9 DEF ExclusionInv

LEMMA ReconfigureKeeps ==
  ASSUME ExclusionInv, Reconfigure
  PROVE  ExclusionInv'
<1>1. TypeOK'
  <2>1. listed' \in BOOLEAN /\ starts' \in 0 .. MaxStarts
    BY ExclusionAssumption DEF Reconfigure, ExclusionInv, TypeOK
  <2> QED
    BY <2>1 DEF Reconfigure, ExclusionInv, TypeOK
<1>2. Truthful(row)' /\ ChecksInHand' /\ WritersInHand'
  BY CopiesKept DEF Reconfigure, Truthful, Outlived, ChecksInHand, WritersInHand, ExclusionInv
<1>3. Current'
  BY DEF Reconfigure, Current, AppliesNothing
<1> QED
  BY <1>1, <1>2, <1>3 DEF ExclusionInv

LEMMA ApplyKeeps ==
  ASSUME ExclusionInv, Apply
  PROVE  ExclusionInv'
<1>1. TypeOK'
  BY DEF Apply, ExclusionInv, TypeOK, Actors
<1>2. Truthful(row)' /\ ChecksInHand'
  BY CopiesKept DEF Apply, Truthful, ChecksInHand, ExclusionInv
<1>3. WritersInHand'
  BY DEF Apply, ExclusionInv, WritersInHand, Truthful, Outlived
<1>4. Current'
  BY DEF Apply, ExclusionInv, Current, AppliesNothing, ReasonCurrent
<1> QED
  BY <1>1, <1>2, <1>3, <1>4 DEF ExclusionInv

LEMMA setReasonKeeps ==
  ASSUME ExclusionInv, setReason
  PROVE  ExclusionInv'
<1> DEFINE user   == apply.subject
           reason == Decide(apply.inList, user)
           new    == [row EXCEPT !.reason = reason]
<1>1. /\ apply \in Actors /\ apply.busy /\ apply.inList = listed /\ Truthful(user) /\ Outlived(user)
      /\ row \in Rows /\ listed \in BOOLEAN /\ bot \in BOOLEAN /\ Truthful(row)
  BY DEF setReason, ExclusionInv, TypeOK, WritersInHand
<1>2. /\ apply' = Free /\ serving' = TRUE /\ counted' = FALSE
      /\ UNCHANGED <<bot, listed, starts, check, optIn, optOuts>>
  BY DEF setReason
<1>3. user \in Rows /\ reason \in Reasons /\ (reason = "bot" => user.isBot) /\ (user.isBot => row.isBot)
  BY <1>1, DecideType DEF Actors, Truthful, Outlived
<1>4. CASE user.exists /\ user.reason # reason
  <2>1. row' = new /\ Decided(listed, user)
    BY <1>1, <1>4 DEF setReason
  <2>2. /\ new \in Rows /\ new.exists = row.exists /\ new.optedOut = row.optedOut /\ new.reason = reason
        /\ new.isBot = row.isBot /\ new.checked = row.checked
    BY <1>1, <1>3 DEF Rows
  <2> HIDE DEF new
  <2>3. TypeOK'
    BY <1>1, <1>2, <1>4, <2>1, <2>2, BlankType DEF ExclusionInv, TypeOK, Decided, Outlived
  <2>4. Truthful(row)' /\ ChecksInHand'
    BY <1>1, <1>2, <1>3, <2>1, <2>2, CopiesKept DEF Truthful, ChecksInHand, ExclusionInv
  <2>5. WritersInHand'
    BY <1>2, <2>1, <2>2 DEF ExclusionInv, WritersInHand, Truthful, Outlived, Free, NoRow
  <2>6. Current'
    BY <1>1, <1>2, <1>3, <2>1, <2>2, DecideDepends
       DEF Current, ReasonCurrent, Decided, Informed, Rows
  <2> QED
    BY <2>3, <2>4, <2>5, <2>6 DEF ExclusionInv
<1>5. CASE ~(user.exists /\ user.reason # reason)
  <2>1. UNCHANGED <<row, stale>>
    BY <1>5 DEF setReason
  <2>2. TypeOK'
    BY <1>2, <2>1, BlankType DEF ExclusionInv, TypeOK
  <2>3. Truthful(row)' /\ ChecksInHand'
    BY <1>1, <1>2, <2>1, CopiesKept DEF Truthful, ChecksInHand, ExclusionInv
  <2>4. WritersInHand'
    BY <1>2, <2>1 DEF ExclusionInv, WritersInHand, Truthful, Outlived, Free, NoRow
  <2>5. Current'
    BY <1>1, <1>2, <1>5, <2>1 DEF ExclusionInv, Current, AppliesNothing, ReasonCurrent
  <2> QED
    BY <2>2, <2>3, <2>4, <2>5 DEF ExclusionInv
<1> QED
  BY <1>4, <1>5

-----------------------------------------------------------------------------
(* The theorems. *)

LEMMA NextKeeps == ExclusionInv /\ [Next]_vars => ExclusionInv'
<1> SUFFICES ASSUME ExclusionInv, [Next]_vars PROVE ExclusionInv'
  OBVIOUS
<1>1. CASE \E c \in Checkers : Load(c) \/ Checking(c)
  BY <1>1, LoadKeeps, DecideAndAskKeeps, CreateKeeps, UpdateKeeps, ReturnKeeps DEF Checking
<1>2. CASE OptOut \/ OptIn \/ OptInWrite
  BY <1>2, OptOutKeeps, OptInKeeps, OptInWriteKeeps
<1>3. CASE Reconfigure \/ Apply \/ setReason
  BY <1>3, ReconfigureKeeps, ApplyKeeps, setReasonKeeps
<1>4. CASE UNCHANGED vars
  <2> USE <1>4 DEF vars, ExclusionInv
  <2>1. TypeOK'
    BY DEF TypeOK
  <2>2. Truthful(row)' /\ ChecksInHand' /\ WritersInHand'
    BY CopiesKept DEF Truthful, ChecksInHand
  <2>3. Current'
    BY DEF Current, AppliesNothing, ReasonCurrent
  <2> QED
    BY <2>1, <2>2, <2>3
<1> QED
  BY <1>1, <1>2, <1>3, <1>4 DEF Next

\* The invariant holds throughout.
THEOREM ExclusionInvariant == Spec => []ExclusionInv
BY InitCorrect, NextKeeps, PTL DEF Spec

\* Every variable keeps its type, and a user without a row is one nothing is
\* known of (models.User).
THEOREM ExclusionTypeCorrect == Spec => []TypeOK
<1>1. ExclusionInv => TypeOK
  BY DEF ExclusionInv
<1> QED
  BY <1>1, ExclusionInvariant, PTL

\* The recorded reason is what the policy in force decides about the row,
\* unless a decision was written that the row had outrun (record, setOptOut,
\* Apply).
THEOREM ReasonIsCurrent == Spec => []ReasonKeptCurrent
<1>1. ExclusionInv => ReasonKeptCurrent
  BY DEF ExclusionInv, Current, ReasonKeptCurrent
<1> QED
  BY <1>1, ExclusionInvariant, PTL

\* No step counts an activity of somebody the policy in force leaves out,
\* short of such a write or of a start that has yet to apply a new list
\* (Check, then claimParticipant).
THEOREM OnlyParticipantsCounted == Spec => NothingCountedForExcluded
<1>1. ExclusionInv /\ [Next]_vars =>
        [counted' /\ serving /\ ~stale' => Decide(listed, row) = ""]_vars
  <2> SUFFICES ASSUME ExclusionInv, Next, counted', serving, ~stale'
               PROVE  Decide(listed, row) = ""
    OBVIOUS
  <2>1. PICK c \in Checkers : Return(c)
    BY DEF Next, Load, Checking, DecideAndAsk, Create, Update, OptOut, OptIn, OptInWrite,
           Reconfigure, Apply, setReason
  <2> QED
    BY <2>1, ReturnKeeps
<1> QED
  BY <1>1, ExclusionInvariant, PTL DEF Spec, NothingCountedForExcluded

=============================================================================
