------------------------------ MODULE PullCheck ------------------------------
(***************************************************************************)
(* The costroid check of one pull request from a branch of its repository, *)
(* as two jobs of the recipes keep it: report posts a check and a comment  *)
(* for a run's rows (cmd/costroid/report.go), and approve posts the newest *)
(* check again when a review changes what it concludes (approve.go). Each  *)
(* recipe has its own concurrency group, so one job of each kind runs at a *)
(* time, one more waits, and a report and an approve overlap. Each request *)
(* to the host is a step, and may fail. Rows cost one unit, and the policy *)
(* enforces pr_budget_usd alone.                                           *)
(***************************************************************************)
EXTENDS Naturals, FiniteSets, Sequences, SequencesExt

CONSTANTS
  Author,       \* the pull request's author
  Writers,      \* accounts whose permission reads write or admin
  AllowAuthor,  \* approval.allow_author
  Row,          \* rows files of agent runs
  NoRow,        \* a report without figures
  PullBudget,   \* pr_budget_usd
  Bounds        \* the bounds of one behaviour: its reviewers, and how many
                \* commits, reviews, report runs and failed requests it has

ASSUME PullCheckAssumption ==
  /\ IsFiniteSet(Row) /\ NoRow \notin Row /\ AllowAuthor \in BOOLEAN /\ PullBudget \in Nat
  /\ \A b \in Bounds : {b.commits, b.reviews, b.reports, b.failures} \subseteq Nat /\ b.commits > 0

VARIABLES
  bound,          \* the bounds of this behaviour
  \* the host
  head,           \* the newest of the pull request's commits, 1..head
  reviews,        \* those that are not comments, in the order they were submitted
  expired,        \* how many of them are older than an approval lasts
  checks,         \* the costroid check runs, numbered as they are created
  comments,       \* how many comments start with the marker
  \* the workflows
  queued,         \* the commit of the waiting report run, or 0
  started,        \* report runs started
  rowsAt,         \* the commit each agent run was of, or 0
  event,          \* a review event waits
  report, approve,\* the running jobs
  \* history
  failures,       \* jobs that ended early and requests that failed
  overtaken       \* a job posted over what the other had read

hostVars == <<bound, head, reviews, expired, checks, comments>>
jobVars == <<queued, started, rowsAt, event, report, approve>>
vars == <<bound, head, reviews, expired, checks, comments, queued, started, rowsAt,
          event, report, approve, failures, overtaken>>

(* A check run: what it concludes, and of its result object the head, the  *)
(* policy's verdict (neutral when no policy ran), the rows and whether it  *)
(* states their digest. again says that approve posted it.                 *)
Check(commit, conclusion, verdict, rows, again) ==
  [commit |-> commit, conclusion |-> conclusion, verdict |-> verdict, rows |-> rows,
   digest |-> rows # NoRow, again |-> again]

NoReport ==
  [pc |-> "idle", commit |-> 0, rows |-> NoRow, refused |-> FALSE, todo |-> {}, read |-> {},
   known |-> FALSE, verdict |-> "neutral", approval |-> FALSE]
NoApprove == [pc |-> "idle", head |-> 0, approval |-> FALSE, newest |-> 0]

(* The first commit may have a report, by this release or by one before    *)
(* result/v0.6, which stated no digest.                                    *)
Init ==
  /\ bound \in Bounds
  /\ head = 1 /\ reviews = <<>> /\ expired = 0 /\ comments = 0
  /\ queued = 1 /\ started = 0 /\ event = FALSE
  /\ \E old \in {NoRow} \cup Row, digest \in BOOLEAN :
       /\ rowsAt = [r \in Row |-> IF r = old THEN 1 ELSE 0]
       /\ checks = IF old = NoRow THEN <<>>
                   ELSE <<[Check(1, "neutral", "neutral", old, FALSE) EXCEPT !.digest = digest]>>
  /\ report = NoReport /\ approve = NoApprove
  /\ failures = 0 /\ overtaken = FALSE

-----------------------------------------------------------------------------
(* The pull request and its workflows.                                     *)

(* The waiting run of the group is replaced.                               *)
Push ==
  /\ head < bound.commits
  /\ head' = head + 1 /\ queued' = head + 1
  /\ UNCHANGED <<bound, reviews, expired, checks, comments, started, rowsAt, event, report, approve, failures, overtaken>>

(* A label or a re-run starts the workflow again.                          *)
ReRun(c) ==
  /\ queued = 0 /\ report.pc = "idle" /\ started > 0
  /\ queued' = c
  /\ UNCHANGED <<hostVars, started, rowsAt, event, report, approve, failures, overtaken>>

(* A review names the commit its reviewer looked at.                       *)
Submit(who, state, c) ==
  /\ Len(reviews) < bound.reviews
  /\ reviews' = Append(reviews, [by |-> who, state |-> state, commit |-> c])
  /\ event' = TRUE
  /\ UNCHANGED <<bound, head, expired, checks, comments, queued, started, rowsAt, report, approve, failures, overtaken>>

Dismiss(i) ==
  /\ reviews[i].state \in {"APPROVED", "CHANGES_REQUESTED"}
  /\ reviews' = [reviews EXCEPT ![i].state = "DISMISSED"]
  /\ event' = TRUE
  /\ UNCHANGED <<bound, head, expired, checks, comments, queued, started, rowsAt, report, approve, failures, overtaken>>

(* ApprovalOf skips a comment, and its event is a review's like any other. *)
Comment ==
  /\ ~event /\ event' = TRUE
  /\ UNCHANGED <<hostVars, queued, started, rowsAt, report, approve, failures, overtaken>>

(* approval.expires_days pass over the reviews. No event says so.          *)
Expire ==
  /\ expired < Len(reviews)
  /\ expired' = Len(reviews)
  /\ UNCHANGED <<bound, head, reviews, checks, comments, jobVars, failures, overtaken>>

-----------------------------------------------------------------------------
(* Approvals.                                                              *)

(* Mutant: a review of any commit of the pull request counts.              *)
CountAnyCommit(i, pullHead) ==
  LET r == reviews[i] IN
  /\ r.state = "APPROVED"
  /\ AllowAuthor \/ r.by # Author
  /\ i > expired
  /\ r.by \in Writers

CountReview(i, pullHead) ==
  LET r == reviews[i] IN
  /\ r.state = "APPROVED"
  /\ AllowAuthor \/ r.by # Author
  /\ r.commit = pullHead
  /\ i > expired
  /\ r.by \in Writers

(* Mutant: every approval stands, whatever its reviewer said later.        *)
EveryReview == DOMAIN reviews

(* Each reviewer's latest review.                                          *)
Standing ==
  {i \in DOMAIN reviews : \A j \in DOMAIN reviews : reviews[j].by = reviews[i].by => j <= i}

(* Whether a standing review counts. The newest one is named.              *)
ApprovalOf(pullHead) == \E i \in Standing : CountReview(i, pullHead)

ApprovedConclusion(verdict, approval) == IF verdict = "failure" /\ approval THEN "neutral" ELSE verdict

Fails == failures < bound.failures /\ failures' = failures + 1

-----------------------------------------------------------------------------
(* The report.                                                             *)

(* Rows of a run of this commit, again or for the first time; no rows; or  *)
(* an artifact the action refused. PullCommits lists the commits.          *)
StartReport ==
  /\ queued # 0 /\ report.pc = "idle" /\ started < bound.reports
  /\ \E rows \in {r \in Row : rowsAt[r] \in {0, queued}} \cup {NoRow}, refused \in BOOLEAN :
       /\ refused => rows = NoRow
       /\ rowsAt' = [r \in Row |-> IF r = rows THEN queued ELSE rowsAt[r]]
       /\ report' = [NoReport EXCEPT !.pc = "history", !.commit = queued, !.rows = rows,
                                         !.refused = refused, !.todo = 1..head]
  /\ queued' = 0 /\ started' = started + 1
  /\ UNCHANGED <<hostVars, event, approve, failures, overtaken>>

Reporting(pc) == report.pc = pc /\ UNCHANGED <<queued, started, rowsAt, event, approve>>

Verdicts(r) == [r EXCEPT !.pc = IF r.refused THEN "post" ELSE "verdict"]

(* The commits are read in parallel, in any order.                         *)
ReadCommit ==
  /\ Reporting("history")
  /\ \E c \in report.todo :
       LET read == [report EXCEPT !.todo = @ \ {c},
                                  !.read = @ \cup {k \in DOMAIN checks : checks[k].commit = c}]
       IN report' = IF read.todo = {} THEN Verdicts([read EXCEPT !.known = TRUE]) ELSE read
  /\ UNCHANGED <<hostVars, failures, overtaken>>

(* One commit that cannot be read fails the whole.                         *)
HistoryFails ==
  /\ Reporting("history") /\ Fails
  /\ report' = Verdicts([report EXCEPT !.todo = {}, !.read = {}])
  /\ UNCHANGED <<hostVars, overtaken>>

(* The check runs of a set that count, those of a repeated digest once.    *)
Digests(read) == {checks[k].rows : k \in {k \in read : checks[k].digest}}
Undigested(read) == {k \in read : ~checks[k].digest /\ checks[k].rows # NoRow}

(* Mutant: a run reported before counts beside itself.                     *)
EarlierWithOwn(read, own) ==
  [usd |-> Cardinality(Digests(read)) + Cardinality(Undigested(read)),
   mayRepeat |-> Undigested(read) # {} \/ (own = NoRow /\ Digests(read) # {})]

Earlier(read, own) ==
  [usd |-> Cardinality(Digests(read) \ {own}) + Cardinality(Undigested(read)),
   mayRepeat |-> Undigested(read) # {} \/ (own = NoRow /\ Digests(read) # {})]

(* What the comment states: every report, this run's included.             *)
Total(read, own) ==
  LET usd == Cardinality((Digests(read) \cup {own}) \ {NoRow}) + Cardinality(Undigested(read)) IN
  [usd |-> usd, mayRepeat |-> Undigested(read) # {} /\ usd > 1]

(* No policy runs, or its settings have a problem: the check is neutral.   *)
decideVerdict ==
  /\ Reporting("verdict")
  /\ LET earlier == Earlier(report.read, report.rows)
         own == IF report.rows = NoRow THEN 0 ELSE 1
         over == report.known /\ ~earlier.mayRepeat /\ earlier.usd + own > PullBudget
     IN \E verdict \in {"neutral", IF over THEN "failure" ELSE "neutral"} :
          report' = [report EXCEPT !.verdict = verdict, !.pc = IF verdict = "failure" THEN "pull" ELSE "post"]
  /\ UNCHANGED <<hostVars, failures, overtaken>>

(* PullRequest: an approval of a head that moved never counts.             *)
ReportReadsPull ==
  /\ Reporting("pull")
  /\ report' = [report EXCEPT !.pc = IF head = report.commit THEN "reviews" ELSE "post"]
  /\ UNCHANGED <<hostVars, failures, overtaken>>

ReportReadsReviews ==
  /\ Reporting("reviews")
  /\ report' = [report EXCEPT !.pc = "post", !.approval = ApprovalOf(report.commit)]
  /\ UNCHANGED <<hostVars, failures, overtaken>>

ReportApprovalFails ==
  /\ \E pc \in {"pull", "reviews"} : Reporting(pc)
  /\ report' = [report EXCEPT !.pc = "post"]
  /\ Fails
  /\ UNCHANGED <<hostVars, overtaken>>

Conclusion(r) == IF r.refused THEN "failure" ELSE ApprovedConclusion(r.verdict, r.approval)

(* The answer of a created check may be lost. nameCheck only writes the    *)
(* check run's own id into its object.                                     *)
ReportPosts ==
  /\ Reporting("post")
  /\ checks' = Append(checks, Check(report.commit, Conclusion(report), report.verdict, report.rows, FALSE))
  /\ report' = [report EXCEPT !.pc = "comment"]
  /\ overtaken' = (overtaken \/ (approve.pc = "post" /\ approve.head = report.commit))
  /\ UNCHANGED <<bound, head, reviews, expired, comments, failures>>

ReportPostFails ==
  /\ Reporting("post")
  /\ report' = [report EXCEPT !.pc = "comment"]
  /\ Fails
  /\ UNCHANGED <<hostVars, overtaken>>

(* The comments the search finds.                                          *)
findComment == comments

(* The found comment is rewritten. No other report of the pull request     *)
(* runs between the search and the write.                                  *)
UpsertComment ==
  /\ Reporting("comment")
  /\ comments' = IF findComment = 0 THEN comments + 1 ELSE comments
  /\ report' = NoReport
  /\ UNCHANGED <<bound, head, reviews, expired, checks, failures, overtaken>>

(* The comment is not posted, or the job is cancelled or out of time.      *)
ReportEnds ==
  /\ report.pc # "idle" /\ Reporting(report.pc)
  /\ report' = NoReport
  /\ Fails
  /\ UNCHANGED <<hostVars, overtaken>>

Report ==
  \/ StartReport \/ ReadCommit \/ HistoryFails \/ decideVerdict
  \/ ReportReadsPull \/ ReportReadsReviews \/ ReportApprovalFails
  \/ ReportPosts \/ ReportPostFails \/ UpsertComment \/ ReportEnds

-----------------------------------------------------------------------------
(* The approval.                                                           *)

(* PullRequest gives the head.                                             *)
StartApprove ==
  /\ event /\ approve.pc = "idle"
  /\ event' = FALSE
  /\ approve' = [NoApprove EXCEPT !.pc = "reviews", !.head = head]
  /\ UNCHANGED <<hostVars, queued, started, rowsAt, report, failures, overtaken>>

Approving(pc) == approve.pc = pc /\ UNCHANGED <<queued, started, rowsAt, event, report>>

ApproveReadsReviews ==
  /\ Approving("reviews")
  /\ approve' = [approve EXCEPT !.pc = "check", !.approval = ApprovalOf(approve.head)]
  /\ UNCHANGED <<hostVars, failures, overtaken>>

(* Settings, reviews or a role that cannot be read: no approval counts.    *)
ApprovalUnread ==
  /\ Approving("reviews")
  /\ approve' = [approve EXCEPT !.pc = "check"]
  /\ Fails
  /\ UNCHANGED <<hostVars, overtaken>>

On(c) == {k \in DOMAIN checks : checks[k].commit = c}

(* Mutant: the first check of the commit is posted again.                  *)
FirstCheck(c) == IF On(c) = {} THEN 0 ELSE Min(On(c))

newestCheck(c) == Max({0} \cup On(c))

(* reconclude up to its post. An object of an earlier release is refused,  *)
(* and a check that concludes what the reviews give is left alone. A       *)
(* report that has read the reviews and not posted is overtaken.           *)
Reconclude ==
  /\ Approving("check")
  /\ LET k == newestCheck(approve.head)
         leaves == \/ k = 0
                   \/ checks[k].rows # NoRow /\ ~checks[k].digest
                   \/ checks[k].conclusion = ApprovedConclusion(checks[k].verdict, approve.approval)
     IN approve' = IF leaves THEN NoApprove ELSE [approve EXCEPT !.pc = "post", !.newest = k]
  /\ overtaken' = (overtaken \/ (report.pc = "post" /\ report.commit = approve.head))
  /\ UNCHANGED <<hostVars, failures>>

(* The object is repeated with the conclusion. UpdateCheck only writes the *)
(* new check run's id into it.                                             *)
ApprovePosts ==
  /\ Approving("post")
  /\ LET k == approve.newest IN
     checks' = Append(checks, Check(approve.head, ApprovedConclusion(checks[k].verdict, approve.approval),
                                    checks[k].verdict, checks[k].rows, TRUE))
  /\ approve' = NoApprove
  /\ UNCHANGED <<bound, head, reviews, expired, comments, failures, overtaken>>

(* A request fails, or the job is cancelled or out of time.                *)
ApproveEnds ==
  /\ approve.pc # "idle" /\ Approving(approve.pc)
  /\ approve' = NoApprove
  /\ Fails
  /\ UNCHANGED <<hostVars, overtaken>>

Approve ==
  \/ StartApprove \/ ApproveReadsReviews \/ ApprovalUnread
  \/ Reconclude \/ ApprovePosts \/ ApproveEnds

Next ==
  \/ Push \/ Comment \/ Expire
  \/ \E c \in 1..head : ReRun(c)
  \/ \E who \in bound.people, state \in {"APPROVED", "CHANGES_REQUESTED"}, c \in 1..head : Submit(who, state, c)
  \/ \E i \in DOMAIN reviews : Dismiss(i)
  \/ Report \/ Approve

Spec == Init /\ [][Next]_vars

-----------------------------------------------------------------------------
(* Properties.                                                             *)

(* The state has its type: the jobs hold check runs and commits that       *)
(* exist, and a pull request has one comment.                              *)
TypeOK ==
  /\ head \in 1..bound.commits /\ comments \in 0..1
  /\ expired \in 0..Len(reviews) /\ queued \in 0..head /\ started \in 0..bound.reports
  /\ rowsAt \in [Row -> 0..head] /\ event \in BOOLEAN
  /\ \A k \in DOMAIN checks :
       /\ checks[k].commit \in 1..head /\ checks[k].rows \in Row \cup {NoRow}
       /\ {checks[k].conclusion, checks[k].verdict} \subseteq {"neutral", "failure"}
  /\ report.commit \in 0..head /\ report.read \subseteq DOMAIN checks
  /\ approve.newest \in 0..Len(checks)

(* A failed verdict concludes neutral only on a check whose own commit a   *)
(* writer other than the author approved, whatever was pushed, submitted   *)
(* or dismissed while a job read (CountReview, reportApproval, binds).     *)
ApprovalBindsHead ==
  \A k \in DOMAIN checks :
    checks[k].verdict = "failure" /\ checks[k].conclusion = "neutral" =>
      \E i \in DOMAIN reviews :
        /\ reviews[i].commit = checks[k].commit
        /\ reviews[i].by \in Writers /\ (AllowAuthor \/ reviews[i].by # Author)
        /\ reviews[i].state \in {"APPROVED", "DISMISSED"}

Quiet == report.pc = "idle" /\ approve.pc = "idle" /\ queued = 0 /\ ~event

(* What the reviews say of the head now: someone who may approve it did,   *)
(* lately, and has not taken it back.                                      *)
HeadIsApproved ==
  \E who \in Writers \ (IF AllowAuthor THEN {} ELSE {Author}) :
    LET own == {i \in DOMAIN reviews : reviews[i].by = who} IN
    /\ own # {} /\ Max(own) > expired
    /\ reviews[Max(own)].state = "APPROVED" /\ reviews[Max(own)].commit = head

NewestAgrees ==
  LET k == newestCheck(head) IN
  k # 0 /\ checks[k].verdict = "failure" =>
    \/ checks[k].conclusion = IF HeadIsApproved THEN "neutral" ELSE "failure"
    \/ checks[k].conclusion = "neutral" /\ expired > 0

(* Once both jobs are done, a failed verdict on the head concludes what    *)
(* the reviews give now, or what one gave that has since expired. Only a   *)
(* failed request or a job that posted over what the other had read may    *)
(* leave it otherwise (report and reconclude each read the reviews).       *)
ConclusionFollowsReviews == Quiet /\ failures = 0 /\ ~overtaken => NewestAgrees

(* The newest check of a commit carries the newest report's rows and       *)
(* verdict, however often it was posted again, unless a job posted over    *)
(* what the other had read (newestCheck, Reconclude).                      *)
NewestReportStands ==
  ~overtaken => \A c \in 1..head :
    LET all == On(c)
        of == {k \in all : ~checks[k].again}
    IN all # {} => /\ checks[Max(all)].rows = checks[Max(of)].rows
                   /\ checks[Max(all)].verdict = checks[Max(of)].verdict

Reported == {checks[k].rows : k \in DOMAIN checks} \ {NoRow}

(* The policy fails a pull request only when the different runs reported   *)
(* on it passed the budget, although a re-run and an approval post the     *)
(* same rows again (Earlier, pull_request in default.rego).                *)
FailureIsOver ==
  (\E k \in DOMAIN checks : checks[k].verdict = "failure") => Cardinality(Reported) > PullBudget

(* The total a report's comment states is at most one unit for each agent  *)
(* run of the pull request, or the comment says that it may count one      *)
(* twice (Total, BlockLifetime).                                           *)
TotalNotOver ==
  LET total == Total(report.read, report.rows) IN
  report.pc = "comment" /\ report.known /\ ~total.mayRepeat =>
    total.usd <= Cardinality({r \in Row : rowsAt[r] # 0})

(* The figures and the comment of a pull request stand although its rows   *)
(* are posted several times and requests fail: it fails and is totalled on *)
(* distinct runs, and has one comment (Earlier, Total, postComment).       *)
FiguresHold == FailureIsOver /\ TotalNotOver /\ comments <= 1
=============================================================================
