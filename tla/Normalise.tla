------------------------------ MODULE Normalise ------------------------------
(***************************************************************************)
(* What is counted of an occurrence on GitLab, and under which key: the      *)
(* webhook normaliser (internal/webhook/normalize.go) and the one of the     *)
(* REST APIs (internal/eventsapi), which describe the same occurrences in     *)
(* payloads of different shapes and must agree.                              *)
(*                                                                          *)
(* A key is the tuple of the parts its spelling joins; an activity is its     *)
(* kind, key, actor and weight. Names, avatars and dates are left out, dates *)
(* but for the fast merge's. User 0 is nobody.                               *)
(***************************************************************************)
EXTENDS Integers, Sequences

CONSTANTS
  Ids,   \* identifiers of projects, merge requests, issues, notes, pipelines, ...
  Users,
  Names, \* of refs, tags, slugs, paths and discussions
  Qualified \* the names that themselves begin with "refs/"

ASSUME NormaliseAssumption ==
  /\ Ids \subseteq Nat \ {0} /\ Users \subseteq Nat \ {0}
  /\ Qualified \subseteq Names

When(c, S) == IF c THEN S ELSE {}
Actors == Users \cup {0}
Activity(kind, key, actor, count) == [kind |-> kind, key |-> key, actor |-> actor, count |-> count]

\* One of several activities of a record.
activityFrom(key, kind, actor, count) == Activity(kind, Append(key, kind), actor, count)

nullSHA == "null"
Shas == {"sha", "other"}
Ref(prefix, name) == [prefix |-> prefix, name |-> name]
HasPrefix(ref) == ref.prefix # "" \/ ref.name \in Qualified

-----------------------------------------------------------------------------
(* What happens on GitLab. A push creates, moves or deletes a branch or tag.  *)

Pushes ==
  {x \in [what : {"push"}, tag : BOOLEAN, project : Ids, name : Names,
          before : Shas \cup {nullSHA}, after : Shas \cup {nullSHA}, commits : {0, 2}, by : Actors] :
     x.before # x.after /\ (x.commits > 0 => x.after # nullSHA)}

\* Minutes from opening to merging; -1 if the payload's times are not legible.
MergeRequestActions ==
  [what : {"merge request"}, id : Ids, by : Actors, author : Actors, took : {-1, 30, 90},
   action : {"open", "merge", "close", "approve", "update", "reopen"}]

IssueActions == [what : {"issue"}, id : Ids, by : Actors, action : {"open", "close", "reopen"}]

Comments ==
  {x \in [what : {"comment"}, id : Ids, by : Actors, on : {"Commit", "Issue", "MergeRequest", "Snippet"},
          type : {"Note", "DiscussionNote", "DiffNote"}, system : BOOLEAN] :
     x.type = "DiffNote" => x.on \in {"Commit", "MergeRequest"}}

\* A pipeline's statuses, the one it is left in, and how the one before ended.
Pipelines ==
  {x \in [what : {"pipeline"}, id : Ids, by : Actors, previous : {"", "success", "failed"},
          statuses : SUBSET {"running", "success", "failed"}, status : {"success", "failed", "canceled"}] :
     x.status \in x.statuses \/ x.status = "canceled"}

WikiPages == [what : {"wiki page"}, path : Names, slug : Names, by : Actors, action : {"create", "update"}]
Releases == [what : {"release"}, project : Ids, tag : Names, by : Actors]

\* Jobs, deployments and reactions are in no API that is read.
Jobs == [what : {"job"}, id : Ids, by : Actors]
Deployments == [what : {"deployment"}, id : Ids, by : Actors, status : {"running", "success", "failed"}]
Reactions == [what : {"reaction"}, id : Ids, by : Actors, action : {"award", "revoke"}]

\* A thread of two notes, and who resolved each, the second one last; 0 did not.
Threads == [what : {"thread"}, id : Names, first : Actors, by : Actors]

-----------------------------------------------------------------------------
(* The webhook normaliser. GitLab's payloads carry what the occurrence is.    *)

normalizePush(x) ==
  LET ref == Ref("refs/heads/", x.name)
      key == <<"push", x.project, ref, x.after>> IN
  {activityFrom(key, "push", x.by, 1)}
    \cup When(x.before = nullSHA /\ x.after # nullSHA, {activityFrom(key, "branch_created", x.by, 1)})
    \cup When(x.commits > 0, {activityFrom(key, "commit", x.by, x.commits)})

\* The commits of a tag were counted with the branch they came on.
normalizeTagPush(x) ==
  LET key == <<"tag_push", x.project, Ref("refs/tags/", x.name), x.after>> IN
  {activityFrom(key, "push", x.by, 1)}
    \cup When(x.before = nullSHA /\ x.after # nullSHA, {activityFrom(key, "tag_created", x.by, 1)})

fastMergeWindow == 60
mergedFast(x) == x.took \in 0 .. fastMergeWindow

mergeFollowUps(x) ==
  When(mergedFast(x), {Activity("merge_request_merged_fast", <<"merge_request", x.id, "merged_fast">>, x.by, 1)})
    \cup When(x.author # 0, {Activity("merge_request_landed", <<"merge_request", x.id, "landed">>, x.author, 1)})

\* One per approver. The approval that satisfies the last rule is delivered
\* twice, as "approval" and as "approved", under this one key.
approval(x) ==
  {Activity("merge_request_approved", <<"merge_request", x.id, "approved", x.by>>, x.by, 1)}

normalizeMergeRequest(x) ==
  CASE x.action = "open" ->
         {Activity("merge_request_opened", <<"merge_request", x.id, "opened">>, x.by, 1)}
    [] x.action = "merge" ->
         {Activity("merge_request_merged", <<"merge_request", x.id, "merged">>, x.by, 1)} \cup mergeFollowUps(x)
    [] x.action = "close" ->
         {Activity("merge_request_closed", <<"merge_request", x.id, "closed">>, x.by, 1)}
    [] x.action = "approve" -> approval(x)
    [] OTHER -> {}

normalizeIssue(x) ==
  CASE x.action = "open" -> {Activity("issue_opened", <<"issue", x.id, "opened">>, x.by, 1)}
    [] x.action = "close" -> {Activity("issue_closed", <<"issue", x.id, "closed">>, x.by, 1)}
    [] OTHER -> {}

\* normalizeComment and normalizeNote: a comment, on whatever; and a review
\* comment, if it is on the diff of a merge request.
normalizeComment(x) ==
  When(~x.system,
    {Activity("comment", <<"note", x.id>>, x.by, 1)}
      \cup When(x.on = "MergeRequest" /\ x.type = "DiffNote",
                {activityFrom(<<"note", x.id>>, "review_comment", x.by, 1)}))

\* Delivered on every change of status.
pipelineHook(x, status) ==
  LET key == <<"pipeline", x.id>> IN
  {activityFrom(key, "pipeline_run", x.by, 1)}
    \cup When(status = "success", {activityFrom(key, "pipeline_succeeded", x.by, 1)})
    \cup When(status = "failed", {activityFrom(key, "pipeline_failed", x.by, 1)})
    \cup When(status = "success" /\ x.previous = "failed", {activityFrom(key, "pipeline_fixed", x.by, 1)})
normalizePipeline(x) == UNION {pipelineHook(x, status) : status \in x.statuses \cup {x.status}}

normalizeJob(x) == {Activity("job_run", <<"job", x.id>>, x.by, 1)}

normalizeDeployment(x) ==
  LET key == <<"deployment", x.id>> IN
  {activityFrom(key, "deployment", x.by, 1)}
    \cup When(x.status = "success", {activityFrom(key, "deployment_succeeded", x.by, 1)})

normalizeEmoji(x) == When(x.action = "award", {Activity("emoji_awarded", <<"emoji", x.id>>, x.by, 1)})

normalizeWikiPage(x) ==
  When(x.action = "create", {Activity("wiki_page_created", <<"wiki_page", x.path, x.slug>>, x.by, 1)})

\* The hook names nobody: the author is looked up.
normalizeRelease(x) == {Activity("release_published", <<"release", x.project, x.tag>>, x.by, 1)}

discussionResolvedKey(id) == <<"discussion", id, "resolved">>
Resolved(x, by) == Activity("discussion_resolved", discussionResolvedKey(x.id), by, 1)

\* normalizeResolution: the hook of a note that is resolved.
normalizeResolution(x) == {Resolved(x, u) : u \in {x.first, x.by} \ {0}}

\* normalizeDiscussion: the thread as the discussions API lists it, when all
\* of it is resolved, credited to who resolved the last of it.
normalizeDiscussion(x) == When(0 \notin {x.first, x.by}, {Resolved(x, x.by)})

\* normalize. All but a thread's, whose actor is its resolver, want a user.
FromHooks(x) ==
  IF x.what = "thread" THEN normalizeResolution(x) \cup normalizeDiscussion(x)
  ELSE IF x.by = 0 THEN {}
  ELSE CASE x.what = "push" -> IF x.tag THEN normalizeTagPush(x) ELSE normalizePush(x)
         [] x.what = "merge request" -> normalizeMergeRequest(x)
         [] x.what = "issue" -> normalizeIssue(x)
         [] x.what = "comment" -> normalizeComment(x)
         [] x.what = "pipeline" -> normalizePipeline(x)
         [] x.what = "job" -> normalizeJob(x)
         [] x.what = "deployment" -> normalizeDeployment(x)
         [] x.what = "reaction" -> normalizeEmoji(x)
         [] x.what = "wiki page" -> normalizeWikiPage(x)
         [] x.what = "release" -> normalizeRelease(x)

-----------------------------------------------------------------------------
(* How the APIs report the same: a project's event feed, its pipelines, its   *)
(* merged merge requests and its releases.                                   *)

\* push_data: a short ref or a qualified one, an empty commit_to for a deletion.
PushData(x) ==
  [ref_type : {IF x.tag THEN "tag" ELSE "branch"},
   action : {IF x.before = nullSHA THEN "created" ELSE IF x.after = nullSHA THEN "removed" ELSE "pushed"},
   ref : {Ref("", x.name), Ref(IF x.tag THEN "refs/tags/" ELSE "refs/heads/", x.name)},
   commit_to : {IF x.after = nullSHA THEN "" ELSE x.after}, commit_count : {x.commits}]

\* Past tenses, in two dialects, and types that were renamed.
ActionNames(x) ==
  CASE x.what = "comment" -> {"commented on"}
    [] x.what = "wiki page" -> {IF x.action = "create" THEN "created" ELSE "updated"}
    [] x.action = "open" -> {"opened"}
    [] x.action = "close" -> {"closed"}
    [] x.action = "merge" -> {"accepted", "merged"}
    [] x.action = "approve" -> {"approved"}
    [] OTHER -> {"updated"}

TargetTypes(x) ==
  CASE x.what = "merge request" -> {"mergerequest"}
    [] x.what = "issue" -> {"issue", "workitem"}
    [] x.what = "comment" -> {IF x.type = "Note" THEN "note"
                              ELSE IF x.type = "DiffNote" THEN "diffnote" ELSE "discussionnote"}
    [] x.what = "wiki page" -> {"wikipage", "wikipage::meta"}

-----------------------------------------------------------------------------
(* The normaliser of the APIs.                                               *)

\* Faulty variant: the ref as it is reported.
pushDedupKeyAsIs(x, d) ==
  <<IF d.ref_type = "tag" THEN "tag_push" ELSE "push", x.project, d.ref,
    IF d.commit_to = "" THEN nullSHA ELSE d.commit_to>>

\* The hook's spelling, from the pieces of push_data: what begins with "refs/"
\* is taken for a qualified ref, a short name that does so included.
pushDedupKey(x, d) ==
  LET prefix == IF d.ref_type = "tag" THEN "refs/tags/" ELSE "refs/heads/"
      after  == IF d.commit_to = "" THEN nullSHA ELSE d.commit_to IN
  <<IF d.ref_type = "tag" THEN "tag_push" ELSE "push", x.project,
    IF HasPrefix(d.ref) THEN d.ref ELSE [d.ref EXCEPT !.prefix = prefix], after>>

pushActivities(x, d) ==
  LET key == pushDedupKey(x, d) created == d.action = "created" IN
  {activityFrom(key, "push", x.by, 1)}
    \cup IF d.ref_type = "tag"
         THEN When(created, {activityFrom(key, "tag_created", x.by, 1)})
         ELSE When(created, {activityFrom(key, "branch_created", x.by, 1)})
              \cup When(d.commit_count > 0, {activityFrom(key, "commit", x.by, d.commit_count)})

mergeRequestKind(x, action) ==
  CASE action = "opened" ->
         {Activity("merge_request_opened", <<"merge_request", x.id, "opened">>, x.by, 1)}
    [] action \in {"accepted", "merged"} ->
         {Activity("merge_request_merged", <<"merge_request", x.id, "merged">>, x.by, 1)}
    [] action = "approved" ->
         {Activity("merge_request_approved", <<"merge_request", x.id, "approved", x.by>>, x.by, 1)}
    [] action = "closed" ->
         {Activity("merge_request_closed", <<"merge_request", x.id, "closed">>, x.by, 1)}
    [] OTHER -> {}

issueKind(x, action) ==
  CASE action = "opened" -> {Activity("issue_opened", <<"issue", x.id, "opened">>, x.by, 1)}
    [] action = "closed" -> {Activity("issue_closed", <<"issue", x.id, "closed">>, x.by, 1)}
    [] OTHER -> {}

reviewNote(x, type) == type = "diffnote" /\ x.on = "MergeRequest"

noteActivities(x, type) ==
  When(~x.system,
    {Activity("comment", <<"note", x.id>>, x.by, 1)}
      \cup When(reviewNote(x, type), {activityFrom(<<"note", x.id>>, "review_comment", x.by, 1)}))

NormalizeWikiPageEvent(x, action) ==
  When(action = "created", {Activity("wiki_page_created", <<"wiki_page", x.path, x.slug>>, x.by, 1)})

targetActivities(x, type, action) ==
  CASE type = "mergerequest" -> mergeRequestKind(x, action)
    [] type \in {"issue", "workitem"} -> issueKind(x, action)
    [] type \in {"note", "discussionnote", "diffnote"} -> noteActivities(x, type)
    [] OTHER -> NormalizeWikiPageEvent(x, action)

\* As it ended.
NormalizePipeline(x) ==
  LET key == <<"pipeline", x.id>> IN
  {activityFrom(key, "pipeline_run", x.by, 1)}
    \cup When(x.status = "success", {activityFrom(key, "pipeline_succeeded", x.by, 1)})
    \cup When(x.status = "failed", {activityFrom(key, "pipeline_failed", x.by, 1)})
NormalizePipelineFix(x) ==
  When(x.previous = "failed" /\ x.status = "success", {activityFrom(<<"pipeline", x.id>>, "pipeline_fixed", x.by, 1)})

NormalizeMergedMergeRequest(x) ==
  When(x.action = "merge" /\ x.author # 0,
       {Activity("merge_request_landed", <<"merge_request", x.id, "landed">>, x.author, 1)})

NormalizeRelease(x) == {Activity("release_published", <<"release", x.project, x.tag>>, x.by, 1)}

\* NormalizeProjectEvent and the others: what may be made of x, by how it may
\* be reported. A merged merge request is listed whoever merged it.
FromAPIs(x) ==
  LET authored(S) == When(x.by # 0, S) IN
  CASE x.what = "push" -> {authored(pushActivities(x, d)) : d \in PushData(x)}
    [] x.what = "pipeline" -> {authored(NormalizePipeline(x) \cup NormalizePipelineFix(x))}
    [] x.what = "release" -> {authored(NormalizeRelease(x))}
    [] x.what = "merge request" ->
         {authored(mergeRequestKind(x, action)) \cup NormalizeMergedMergeRequest(x) :
            action \in ActionNames(x)}
    [] x.what \in {"issue", "comment", "wiki page"} ->
         {authored(targetActivities(x, type, action)) : type \in TargetTypes(x), action \in ActionNames(x)}
    [] OTHER -> {{}}

-----------------------------------------------------------------------------
(* What must hold. *)

Occurrences ==
  Pushes \cup MergeRequestActions \cup IssueActions \cup Comments \cup Pipelines \cup WikiPages
    \cup Releases \cup Jobs \cup Deployments \cup Reactions \cup Threads

\* "What the Events API cannot report", and the outcomes a pipeline had before
\* it was retried.
HooksOnly(x, a) ==
  \/ a.kind \in {"merge_request_merged_fast", "job_run", "deployment", "deployment_succeeded",
                 "emoji_awarded", "discussion_resolved"}
  \/ a.kind = "pipeline_failed" /\ x.status # "failed"
  \/ a.kind \in {"pipeline_succeeded", "pipeline_fixed"} /\ x.status # "success"

\* A branch or tag called refs/...: its short name passes for a qualified ref,
\* and the key made of it is not the hook's.
Misread(x) == x.what = "push" /\ x.name \in Qualified

\* Whichever way an occurrence is reported, both paths make the same of it:
\* kinds, keys, credit and weight ("match, byte for byte"), unless it is a
\* push to a ref that is misread.
PathsAgree ==
  \A x \in Occurrences : ~Misread(x) => \A reported \in FromAPIs(x) :
    /\ {a \in FromHooks(x) : ~HooksOnly(x, a)} \subseteq reported
    /\ x.by # 0 => reported \subseteq FromHooks(x)

\* What an activity is about, in its kind.
Subject(x, a) ==
  CASE x.what = "push" -> <<x.tag, x.project, x.name, x.after>>
    [] a.kind = "merge_request_approved" -> <<x.id, a.actor>>
    [] x.what = "release" -> <<x.project, x.tag>>
    [] x.what = "wiki page" -> <<x.path, x.slug>>
    [] OTHER -> x.id

\* What either path makes, but for what the APIs tell of a ref that is misread.
Facts ==
  UNION {{<<a.key, <<a.kind, Subject(x, a)>>>> :
            a \in FromHooks(x) \cup When(~Misread(x), UNION FromAPIs(x))} : x \in Occurrences}

\* One key stands for one thing done, whichever path reports it, so that
\* counting a key once counts everything once: redeliveries, changes of
\* status, and what both paths saw. Not so for what the APIs tell of a ref
\* that is misread: it is counted beside what the hook told.
KeyIsIdentity ==
  /\ PathsAgree
  /\ \A f, g \in Facts : f[1] = g[1] <=> f[2] = g[2]

=============================================================================
