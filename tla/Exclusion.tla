------------------------------ MODULE Exclusion ------------------------------
(***************************************************************************)
(* Who takes part (internal/exclusion): the row of one GitLab user, decided  *)
(* about by every activity of theirs (Filter.Check, then the engine's        *)
(* claim), by their own requests (OptOut, OptIn), and at every start and     *)
(* one-off job (Filter.Apply). None of these holds a lock from the read it   *)
(* decides on to the write of its decision, and Check may ask GitLab in      *)
(* between.                                                                  *)
(*                                                                          *)
(* The operator's list and pattern are reduced to whether the policy lists   *)
(* this user, whose username otherwise tells nothing. Bots are excluded and  *)
(* GitLab can be asked about them (EXCLUDE_BOTS, the default); opting out is *)
(* allowed.                                                                  *)
(***************************************************************************)
EXTENDS Naturals, FiniteSets

CONSTANTS
  Checkers,  \* concurrent callers of Check: engines, and the bot sweep
  MaxStarts, \* bound: starts with another list of users
  MaxOptOuts \* bound

ASSUME ExclusionAssumption ==
  IsFiniteSet(Checkers) /\ MaxStarts \in Nat /\ MaxOptOuts \in Nat

VARIABLES
  bot,      \* whether GitLab flags the account as a bot
  row,      \* the user's row
  listed,   \* whether the policy of the latest start lists the user
  starts,   \* how many starts changed that
  serving,  \* the latest start's Apply is done
  check,    \* each caller of Check
  apply,    \* the Apply in progress
  optIn,    \* the opt-in in progress
  optOuts,  \* how many opt-outs there were
  counted,  \* whether the last step counted an activity
  stale     \* history: a decision was written that the row had outrun

vars == <<bot, row, listed, starts, serving, check, apply, optIn, optOuts, counted, stale>>

Reasons == {"", "bot", "configured", "opted_out"}
Rows    == [exists : BOOLEAN, optedOut : BOOLEAN, isBot : BOOLEAN, checked : BOOLEAN,
            reason : Reasons]
NoRow   == [exists |-> FALSE, optedOut |-> FALSE, isBot |-> FALSE, checked |-> FALSE,
            reason |-> ""]
FirstRow == [NoRow EXCEPT !.exists = TRUE]

\* Policy.Decide: the user's own request, the operator's list, the bots.
Decide(inList, user) ==
  CASE user.optedOut -> "opted_out"
    [] inList /\ ~user.optedOut -> "configured"
    [] user.isBot /\ ~inList /\ ~user.optedOut -> "bot"
    [] OTHER -> ""

\* Whether a decision under policy inList about `subject` still follows from
\* the policy in force and the row as it is now.
Informed(inList, subject) ==
  /\ inList = listed
  /\ row.optedOut = subject.optedOut
  /\ row.isBot => subject.isBot

Decided(inList, subject) == stale' = (stale \/ ~Informed(inList, subject))

-----------------------------------------------------------------------------
(* Filter.Check, and the engine's claim. `user` is the row it acts on,       *)
(* `subject` what it decides about.                                          *)

Idle == [at |-> "idle", inList |-> FALSE, user |-> NoRow, subject |-> NoRow, reason |-> ""]

\* load. A process on its way out keeps the policy it started with.
Load(c) ==
  /\ check[c].at = "idle"
  /\ serving
  /\ check' = [check EXCEPT ![c] = [Idle EXCEPT !.at = "decide", !.inList = listed,
                                                !.user = row, !.subject = row]]
  /\ counted' = FALSE
  /\ UNCHANGED <<bot, row, listed, starts, serving, apply, optIn, optOuts, stale>>

\* An account is asked about once, and not while the answer could not matter.
needsLookup(k) ==
  ~k.user.checked /\ Decide(k.inList, k.subject) \notin {"opted_out", "configured"}

\* What Check goes on to do about its decision: nothing, if the row says so
\* already and GitLab's answer is not news.
Remaining(k, reason, answered) ==
  IF reason = k.user.reason /\ ~answered THEN "return"
  ELSE IF k.user.exists THEN "update" ELSE "create"

\* Faulty variant: an account GitLab was asked about is not judged again.
DecideOnce(c) ==
  LET k == check[c] IN
  /\ k.at = "decide"
  /\ \E answered \in IF needsLookup(k) THEN BOOLEAN ELSE {FALSE} :
       LET subject == IF answered THEN [k.subject EXCEPT !.isBot = bot, !.checked = TRUE]
                                  ELSE k.subject
           reason  == IF k.user.checked THEN k.user.reason ELSE Decide(k.inList, subject)
       IN  check' = [check EXCEPT ![c] = [k EXCEPT !.at = Remaining(k, reason, answered),
                                                   !.subject = subject, !.reason = reason]]
  /\ counted' = FALSE
  /\ UNCHANGED <<bot, row, listed, starts, serving, apply, optIn, optOuts, stale>>

\* GitLab's answer, or its failure to give one, and the decision.
DecideAndAsk(c) ==
  LET k == check[c] IN
  /\ k.at = "decide"
  /\ \E answered \in IF needsLookup(k) THEN BOOLEAN ELSE {FALSE} :
       LET subject == IF answered THEN [k.subject EXCEPT !.isBot = bot, !.checked = TRUE]
                                  ELSE k.subject
           reason  == Decide(k.inList, subject)
       IN  check' = [check EXCEPT ![c] = [k EXCEPT !.at = Remaining(k, reason, answered),
                                                   !.subject = subject, !.reason = reason]]
  /\ counted' = FALSE
  /\ UNCHANGED <<bot, row, listed, starts, serving, apply, optIn, optOuts, stale>>

\* record's FirstOrCreate: a row that is there after all is what the decision
\* is then written to.
Create(c) ==
  LET k == check[c] IN
  /\ k.at = "create"
  /\ IF row.exists
     THEN check' = [check EXCEPT ![c].at = "update", ![c].user = row] /\ UNCHANGED <<row, stale>>
     ELSE /\ row' = [k.subject EXCEPT !.exists = TRUE, !.reason = k.reason]
          /\ check' = [check EXCEPT ![c].at = "return"]
          /\ Decided(k.inList, k.subject)
  /\ counted' = FALSE
  /\ UNCHANGED <<bot, listed, starts, serving, apply, optIn, optOuts>>

\* Faulty variant: the verdict of GitLab is kept, what follows from it is not.
pendingVerdict(k) ==
  IF k.subject.checked /\ ~k.user.checked
  THEN [row EXCEPT !.isBot = k.subject.isBot, !.checked = TRUE]
  ELSE [row EXCEPT !.reason = k.reason]

\* The row after the columns the decision changes in the row it acts on.
pendingUpdates(k) ==
  LET news == k.subject.checked /\ (~k.user.checked \/ k.user.isBot # k.subject.isBot) IN
  [row EXCEPT !.reason  = IF k.user.reason # k.reason THEN k.reason ELSE @,
              !.isBot   = IF news THEN k.subject.isBot ELSE @,
              !.checked = news \/ @]

\* record's UPDATE, whatever the row has become since.
Update(c) ==
  LET k == check[c] IN
  /\ k.at = "update"
  /\ row' = pendingUpdates(k)
  /\ check' = [check EXCEPT ![c].at = "return"]
  /\ Decided(k.inList, k.subject)
  /\ counted' = FALSE
  /\ UNCHANGED <<bot, listed, starts, serving, apply, optIn, optOuts>>

\* Faulty variant: the claim does not look at the row.
ReturnUnclaimed(c) ==
  LET k == check[c] IN
  /\ k.at = "return"
  /\ check' = [check EXCEPT ![c] = Idle]
  /\ counted' = (k.reason = "")
  /\ IF counted' /\ ~row.exists THEN row' = FirstRow /\ Decided(k.inList, k.subject)
                                ELSE UNCHANGED <<row, stale>>
  /\ UNCHANGED <<bot, listed, starts, serving, apply, optIn, optOuts>>

\* Check returns, and the activity of a user it lets take part is counted,
\* unless their row says otherwise by then (upsertUser, claimParticipant), or
\* the caller is the bot sweep, or the evaluation fails.
Return(c) ==
  LET k == check[c] IN
  /\ k.at = "return"
  /\ check' = [check EXCEPT ![c] = Idle]
  /\ counted' \in {FALSE, k.reason = "" /\ row.reason = ""}
  /\ IF counted' /\ ~row.exists THEN row' = FirstRow /\ Decided(k.inList, k.subject)
                                ELSE UNCHANGED <<row, stale>>
  /\ UNCHANGED <<bot, listed, starts, serving, apply, optIn, optOuts>>

-----------------------------------------------------------------------------
(* The user's own requests. *)

\* setOptOut finds or makes the row; an opt-out decides by itself.
OptOut ==
  /\ optOuts < MaxOptOuts /\ optOuts' = optOuts + 1
  /\ row' = [row EXCEPT !.exists = TRUE, !.optedOut = TRUE, !.reason = "opted_out"]
  /\ counted' = FALSE
  /\ UNCHANGED <<bot, listed, starts, serving, check, apply, optIn, stale>>

Free == [busy |-> FALSE, inList |-> FALSE, subject |-> NoRow]

\* An opt-in decides by the row its transaction read, and creates none.
OptIn ==
  /\ ~optIn.busy /\ serving /\ row.optedOut
  /\ optIn' = [busy |-> TRUE, inList |-> listed, subject |-> [row EXCEPT !.optedOut = FALSE]]
  /\ counted' = FALSE
  /\ UNCHANGED <<bot, row, listed, starts, serving, check, apply, optOuts, stale>>

OptInWrite ==
  /\ optIn.busy
  /\ row' = [row EXCEPT !.optedOut = FALSE, !.reason = Decide(optIn.inList, optIn.subject)]
  /\ stale' = (stale \/ ~Informed(optIn.inList, [optIn.subject EXCEPT !.optedOut = row.optedOut]))
  /\ optIn' = Free
  /\ counted' = FALSE
  /\ UNCHANGED <<bot, listed, starts, serving, check, apply, optOuts>>

-----------------------------------------------------------------------------
(* Starts and one-off jobs. *)

\* A start under another list. It serves nothing until it applied it, while
\* the old process may be finishing what it began.
Reconfigure ==
  /\ serving /\ ~apply.busy
  /\ starts < MaxStarts /\ starts' = starts + 1
  /\ listed' = ~listed /\ serving' = FALSE
  /\ counted' = FALSE
  /\ UNCHANGED <<bot, row, check, apply, optIn, optOuts, stale>>

\* Apply reads a batch of users, and then writes the decisions that changed.
Apply ==
  /\ ~apply.busy
  /\ apply' = [busy |-> TRUE, inList |-> listed, subject |-> row]
  /\ counted' = FALSE
  /\ UNCHANGED <<bot, row, listed, starts, serving, check, optIn, optOuts, stale>>

setReason ==
  /\ apply.busy
  /\ LET user   == apply.subject
         reason == Decide(apply.inList, user)
     IN  IF user.exists /\ user.reason # reason
         THEN row' = [row EXCEPT !.reason = reason] /\ Decided(apply.inList, user)
         ELSE UNCHANGED <<row, stale>>
  /\ apply' = Free
  /\ serving' = TRUE
  /\ counted' = FALSE
  /\ UNCHANGED <<bot, listed, starts, check, optIn, optOuts>>

-----------------------------------------------------------------------------

Init ==
  /\ bot \in BOOLEAN
  /\ row \in {NoRow, FirstRow}
  /\ listed \in BOOLEAN /\ starts = 0 /\ serving = FALSE
  /\ check = [c \in Checkers |-> Idle]
  /\ apply = Free /\ optIn = Free /\ optOuts = 0
  /\ counted = FALSE /\ stale = FALSE

Checking(c) == DecideAndAsk(c) \/ Create(c) \/ Update(c) \/ Return(c)

Next ==
  \/ \E c \in Checkers : Load(c) \/ Checking(c)
  \/ OptOut \/ OptIn \/ OptInWrite
  \/ Reconfigure \/ Apply \/ setReason

\* What was begun is finished; a start applies its policy.
Fairness ==
  /\ \A c \in Checkers : WF_vars(Checking(c))
  /\ WF_vars(OptInWrite) /\ WF_vars(setReason) /\ WF_vars(~serving /\ Apply)

Spec == Init /\ [][Next]_vars /\ Fairness

-----------------------------------------------------------------------------
(* What must hold. *)

Checks == [at : {"idle", "decide", "create", "update", "return"}, inList : BOOLEAN,
           user : Rows, subject : Rows, reason : Reasons]
Actors == [busy : BOOLEAN, inList : BOOLEAN, subject : Rows]

TypeOK ==
  /\ bot \in BOOLEAN /\ listed \in BOOLEAN /\ serving \in BOOLEAN
  /\ counted \in BOOLEAN /\ stale \in BOOLEAN
  /\ row \in Rows
  /\ ~row.exists => row = NoRow
  /\ starts \in 0 .. MaxStarts /\ optOuts \in 0 .. MaxOptOuts
  /\ check \in [Checkers -> Checks]
  /\ apply \in Actors /\ optIn \in Actors

ReasonCurrent == row.exists => row.reason = Decide(listed, row)

\* The recorded reason is what the policy in force decides about the row,
\* unless a decision was written that the row had outrun: every path that
\* changes what is known of a user settles the reason with it (record,
\* setOptOut, Apply).
ReasonKeptCurrent == serving /\ ~stale => ReasonCurrent

\* Nothing is counted for somebody the policy in force leaves out, short of
\* such a write or of a start that has yet to apply a new list (Check, then
\* claimParticipant).
NothingCountedForExcluded ==
  [][counted' /\ serving /\ ~stale' => Decide(listed, row) = ""]_vars

\* As long as the user stays active, a reason that fell behind catches up for
\* good, once requests and starts cease (Check decides afresh every time).
Active == \A c \in Checkers : WF_vars(Load(c))
ReasonConverges == Active => <>[]ReasonCurrent

\* An excluded user "has no activity counted from the moment they are
\* excluded" (docs/content/docs/participation.md).
NothingCountedAfterOptOut == [][counted' => ~row.optedOut]_vars

=============================================================================
