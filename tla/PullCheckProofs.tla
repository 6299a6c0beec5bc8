-------------------------- MODULE PullCheckProofs ---------------------------
(***************************************************************************)
(* Theorems about module PullCheck, for any accounts, writers, rows,       *)
(* budget and bounds, and about module ForkCheck, for any commits,         *)
(* branches, forks and jobs.                                               *)
(***************************************************************************)
EXTENDS PullCheck, ForkCheck, TLAPS, FiniteSetTheorems, WellFoundedInduction

Verdict == {"neutral", "failure"}
ReviewType ==
  [by : UNION {b.people : b \in Bounds}, state : {"APPROVED", "CHANGES_REQUESTED", "DISMISSED"}, commit : Nat]
CheckType ==
  [commit : Nat, conclusion : Verdict, verdict : Verdict, rows : Row \cup {NoRow}, digest : BOOLEAN, again : BOOLEAN]
ReportType ==
  [pc : {"idle", "history", "verdict", "pull", "reviews", "post", "comment"}, commit : Nat,
   rows : Row \cup {NoRow}, refused : BOOLEAN, todo : SUBSET Nat, read : SUBSET Nat, known : BOOLEAN,
   verdict : Verdict, approval : BOOLEAN]
ApproveType ==
  [pc : {"idle", "reviews", "check", "post"}, head : Nat, approval : BOOLEAN, newest : Nat]

Host ==
  /\ bound \in Bounds /\ head \in Nat \ {0} /\ head <= bound.commits
  /\ reviews \in Seq(ReviewType) /\ expired \in Nat /\ expired <= Len(reviews)
  /\ comments \in 0..1 /\ queued \in Nat /\ queued <= head
  /\ started \in Nat /\ started <= bound.reports
  /\ rowsAt \in [Row -> Nat] /\ (\A r \in Row : rowsAt[r] <= head)
  /\ event \in BOOLEAN /\ failures \in Nat /\ overtaken \in BOOLEAN

(* The newest check, and the newest report, of a check's commit. *)
IsLast(k) == \A j \in DOMAIN checks : checks[j].commit = checks[k].commit => j <= k
IsLastReport(m) ==
  /\ ~checks[m].again
  /\ \A j \in DOMAIN checks : checks[j].commit = checks[m].commit /\ ~checks[j].again => j <= m

(* Each check is of a commit, its rows are of a run, and only an old one   *)
(* states no digest of rows it has.                                        *)
ChecksAreSound ==
  \A k \in DOMAIN checks :
    /\ checks[k].commit \in 1..head
    /\ checks[k].rows # NoRow => rowsAt[checks[k].rows] # 0
    /\ checks[k].digest => checks[k].rows # NoRow
    /\ ~checks[k].digest /\ checks[k].rows # NoRow => checks[k].verdict = "neutral"
    /\ \E m \in DOMAIN checks : checks[m].commit = checks[k].commit /\ ~checks[m].again

(* The newest check of a commit repeats its newest report. *)
Repeats ==
  ~overtaken =>
    \A k, m \in DOMAIN checks :
      checks[k].commit = checks[m].commit /\ IsLast(k) /\ IsLastReport(m) =>
        checks[k].rows = checks[m].rows /\ checks[k].verdict = checks[m].verdict

ChecksAreRight ==
  checks \in Seq(CheckType) /\ ChecksAreSound /\ Repeats /\ ApprovalBindsHead /\ FailureIsOver

(* Someone who may approve a commit did, although it may be dismissed since. *)
Approved(c) ==
  \E i \in DOMAIN reviews :
    /\ reviews[i].commit = c
    /\ reviews[i].by \in Writers /\ (AllowAuthor \/ reviews[i].by # Author)
    /\ reviews[i].state \in {"APPROVED", "DISMISSED"}

(* A report decides before it looks for an approval, finds one only where  *)
(* there is one, and fails only on rows that pass the budget.              *)
ReportIsRight(r) ==
  /\ r \in ReportType
  /\ r.commit <= head /\ (r.pc # "idle" => r.commit # 0) /\ r.read \subseteq DOMAIN checks
  /\ r.pc \in {"idle", "history", "verdict"} \/ r.refused => r.verdict = "neutral"
  /\ r.pc \in {"idle", "history", "verdict", "pull", "reviews"} => ~r.approval
  /\ r.pc \in {"verdict", "pull", "reviews"} => ~r.refused
  /\ r.approval => Approved(r.commit)
  /\ r.rows # NoRow => rowsAt[r.rows] # 0
  /\ r.verdict = "failure" => Cardinality((Reported \cup {r.rows}) \ {NoRow}) > PullBudget

(* What approve posts again is the newest check of its commit. *)
ApproveIsRight(a) ==
  /\ a \in ApproveType
  /\ a.head <= head /\ (a.pc # "idle" => a.head # 0) /\ a.newest <= Len(checks)
  /\ a.approval => Approved(a.head)
  /\ a.pc = "post" =>
       /\ a.newest \in DOMAIN checks /\ checks[a.newest].commit = a.head
       /\ ~overtaken => IsLast(a.newest)

(* An answer about the head's approval that holds now, or held before it   *)
(* expired.                                                                *)
Agrees(approval) == (approval <=> ApprovalOf(head)) \/ (approval /\ expired > 0)

(* A conclusion on the head that the reviews do not give has a job coming  *)
(* for it, and a job holds an answer that agrees or has another job        *)
(* coming.                                                                 *)
ChecksFollow ==
  \A k \in DOMAIN checks :
    checks[k].commit = head /\ IsLast(k) /\ checks[k].verdict = "failure" =>
      \/ event
      \/ approve.pc # "idle" /\ approve.head = head
      \/ Agrees(checks[k].conclusion = "neutral")
ApproveFollows ==
  approve.pc \in {"check", "post"} /\ approve.head = head => event \/ Agrees(approve.approval)
ReportFollows(r) ==
  r.pc = "post" /\ r.commit = head /\ r.verdict = "failure" =>
    \/ event
    \/ approve.pc \in {"reviews", "check"} /\ approve.head = head
    \/ Agrees(r.approval)

(* So it is until a request fails or a job is overtaken. *)
Follows == failures = 0 /\ ~overtaken => ChecksFollow /\ ApproveFollows /\ ReportFollows(report)

Inv == Host /\ ChecksAreRight /\ ReportIsRight(report) /\ ApproveIsRight(approve) /\ Follows

-----------------------------------------------------------------------------
(* Facts about the operators.                                              *)

(* A nonempty set of numbers has a least one. *)
LEMMA LeastNumber ==
  ASSUME NEW T, T \subseteq Nat, T # {}
  PROVE  \E x \in T : \A y \in T : x <= y
<1> DEFINE R == OpToRel(<, Nat)
<1>1. IsWellFoundedOn(R, Nat)
  BY NatLessThanWellFounded
<1>2. \A a, b \in Nat : a < b => <<a, b>> \in R
  BY DEF OpToRel
<1> HIDE DEF R
<1>3. PICK x \in T : \A y \in T : ~ (<<y, x>> \in R)
  BY <1>1, WFMin
<1>4. \A y \in T : ~(y < x)
  BY <1>2, <1>3
<1> QED  BY <1>3, <1>4

(* A set of numbers that are at most n has a greatest one, and Max is it. *)
LEMMA MaxOf ==
  ASSUME NEW S \in SUBSET Nat, NEW n \in Nat, S # {}, \A x \in S : x <= n
  PROVE  Max(S) \in S /\ Max(S) \in Nat /\ \A x \in S : x <= Max(S)
<1> DEFINE Above == {m \in Nat : \A x \in S : x <= m}
<1>1. n \in Above
  OBVIOUS
<1>2. PICK m \in Above : \A y \in Above : m <= y
  <2>1. Above \subseteq Nat /\ Above # {}
    BY <1>1
  <2> QED
    BY <2>1, LeastNumber
<1>3. \A y \in Above : m <= y
  BY <1>2
<1>4. m \in S
  <2>1. PICK x \in S : TRUE
    OBVIOUS
  <2>2. SUFFICES ASSUME m \notin S PROVE FALSE
    OBVIOUS
  <2>3. m # 0 /\ m - 1 \in Nat
    BY <2>1, <2>2
  <2>4. \A y \in S : y <= m - 1
    BY <2>2
  <2> QED
    BY <1>3, <2>3, <2>4
<1>5. \E x \in S : \A y \in S : x >= y
  BY <1>4
<1> HIDE DEF Above
<1>6. Max(S) \in S /\ \A y \in S : Max(S) >= y
  BY <1>5 DEF Max
<1> QED
  BY <1>6

(* The check newestCheck answers: the last one of the commit, or none. *)
LEMMA NewestCheck ==
  ASSUME checks \in Seq(CheckType), NEW c \in Nat
  PROVE  \/ newestCheck(c) = 0 /\ \A k \in DOMAIN checks : checks[k].commit # c
         \/ /\ newestCheck(c) \in DOMAIN checks
            /\ checks[newestCheck(c)].commit = c
            /\ \A j \in DOMAIN checks : checks[j].commit = c => j <= newestCheck(c)
<1>1. DOMAIN checks = 1..Len(checks) /\ Len(checks) \in Nat
  OBVIOUS
<1> DEFINE S == {0} \cup On(c)
<1>2. S \in SUBSET Nat /\ S # {} /\ \A x \in S : x <= Len(checks)
  BY <1>1 DEF On
<1>3. Max(S) \in S /\ Max(S) \in Nat /\ \A x \in S : x <= Max(S)
  BY <1>1, <1>2, MaxOf
<1> HIDE DEF S
<1>4. newestCheck(c) = Max(S)
  BY DEF newestCheck, S
<1>5. \A x : x \in S <=> x = 0 \/ (x \in DOMAIN checks /\ checks[x].commit = c)
  BY DEF S, On
<1>6. newestCheck(c) \in S /\ newestCheck(c) \in Nat /\ \A x \in S : x <= newestCheck(c)
  BY <1>3, <1>4
<1>7. CASE newestCheck(c) = 0
  <2>1. \A k \in DOMAIN checks : k # 0
    BY <1>1
  <2> QED
    BY <1>1, <1>5, <1>6, <1>7, <2>1
<1>8. CASE newestCheck(c) # 0
  BY <1>5, <1>6, <1>8
<1> QED
  BY <1>7, <1>8

(* A check that is posted comes last. *)
LEMMA Posted ==
  ASSUME checks \in Seq(CheckType), NEW new \in CheckType, checks' = Append(checks, new)
  PROVE  /\ checks' \in Seq(CheckType) /\ Len(checks) \in Nat
         /\ DOMAIN checks = 1..Len(checks) /\ DOMAIN checks' = 1..(Len(checks) + 1)
         /\ DOMAIN checks' = DOMAIN checks \cup {Len(checks) + 1}
         /\ Len(checks') = Len(checks) + 1
         /\ \A k \in DOMAIN checks : checks'[k] = checks[k] /\ k # Len(checks) + 1 /\ k < Len(checks) + 1
         /\ checks'[Len(checks) + 1] = new
  OBVIOUS

(* The head is approved exactly when a standing review of it counts. *)
LEMMA HeadApproved ==
  ASSUME reviews \in Seq(ReviewType), expired \in Nat
  PROVE  HeadIsApproved <=> ApprovalOf(head)
<1>1. DOMAIN reviews = 1..Len(reviews) /\ Len(reviews) \in Nat
  OBVIOUS
<1> DEFINE Own(who) == {i \in DOMAIN reviews : reviews[i].by = who}
<1>2. \A who : Own(who) # {} => Max(Own(who)) \in Own(who) /\ \A j \in Own(who) : j <= Max(Own(who))
  <2> SUFFICES ASSUME NEW who, Own(who) # {}
               PROVE  Max(Own(who)) \in Own(who) /\ \A j \in Own(who) : j <= Max(Own(who))
    OBVIOUS
  <2>1. Own(who) \in SUBSET Nat /\ \A x \in Own(who) : x <= Len(reviews)
    BY <1>1
  <2> HIDE DEF Own
  <2> QED
    BY <1>1, <2>1, MaxOf
<1>3. ASSUME HeadIsApproved PROVE ApprovalOf(head)
  <2>1. PICK who \in Writers \ (IF AllowAuthor THEN {} ELSE {Author}) :
          /\ Own(who) # {} /\ Max(Own(who)) > expired
          /\ reviews[Max(Own(who))].state = "APPROVED" /\ reviews[Max(Own(who))].commit = head
    BY <1>3 DEF HeadIsApproved
  <2> DEFINE i == Max(Own(who))
  <2>2. i \in DOMAIN reviews /\ reviews[i].by = who /\ \A j \in DOMAIN reviews : reviews[j].by = who => j <= i
    BY <1>2, <2>1
  <2> HIDE DEF i
  <2>3. i \in Standing
    BY <2>2 DEF Standing
  <2>4. CountReview(i, head)
    BY <2>1, <2>2 DEF CountReview, i
  <2> QED
    BY <2>3, <2>4 DEF ApprovalOf
<1>4. ASSUME ApprovalOf(head) PROVE HeadIsApproved
  <2>1. PICK i \in Standing : CountReview(i, head)
    BY <1>4 DEF ApprovalOf
  <2> DEFINE who == reviews[i].by
  <2>2. i \in Own(who) /\ (\A j \in Own(who) : j <= i) /\ i \in Nat
    BY <1>1, <2>1 DEF Standing
  <2>3. Max(Own(who)) \in Own(who) /\ i <= Max(Own(who)) /\ Max(Own(who)) <= i /\ Max(Own(who)) \in Nat
    <3>1. \A j \in Own(who) : j \in Nat
      BY <1>1
    <3> HIDE DEF Own
    <3> QED
      BY <1>2, <2>2, <3>1
  <2>4. Max(Own(who)) = i
    BY <2>2, <2>3
  <2>5. who \in Writers \ (IF AllowAuthor THEN {} ELSE {Author}) /\ i > expired
        /\ reviews[i].state = "APPROVED" /\ reviews[i].commit = head
    BY <2>1 DEF CountReview
  <2> QED
    BY <2>2, <2>4, <2>5 DEF HeadIsApproved
<1> QED
  BY <1>3, <1>4

-----------------------------------------------------------------------------
(* What steps share.                                                       *)

(* While the reviews stay, so does what they say. *)
LEMMA SameReviews ==
  ASSUME UNCHANGED <<head, reviews, expired>>
  PROVE  /\ \A c : Approved(c)' <=> Approved(c)
         /\ ApprovalOf(head)' <=> ApprovalOf(head)
         /\ \A a \in BOOLEAN : Agrees(a)' <=> Agrees(a)
<1>1. \A c : Approved(c)' <=> Approved(c)
  BY DEF Approved
<1>2. ApprovalOf(head)' <=> ApprovalOf(head)
  BY DEF ApprovalOf, Standing, CountReview
<1> QED
  BY <1>1, <1>2 DEF Agrees

(* A step of the report that leaves the host alone. *)
LEMMA ReportMoves ==
  ASSUME Inv, UNCHANGED <<bound, head, reviews, expired, checks, queued, started, rowsAt, event, approve, overtaken>>,
         comments' \in 0..1, failures' \in Nat, failures' >= failures, ReportIsRight(report'),
         failures' = 0 /\ ~overtaken => ReportFollows(report')
  PROVE  Inv'
<1>1. Host'
  BY DEF Inv, Host
<1>2. ChecksAreRight'
  BY DEF Inv, ChecksAreRight, ChecksAreSound, Repeats, IsLast, IsLastReport, ApprovalBindsHead, FailureIsOver, Reported
<1>3. ReportIsRight(report)'
  BY DEF ReportIsRight, Approved, Reported
<1>4. ApproveIsRight(approve)'
  BY DEF Inv, ApproveIsRight, Approved, IsLast
<1>5. Follows'
  <2> SUFFICES ASSUME failures' = 0, ~overtaken' PROVE ChecksFollow' /\ ApproveFollows' /\ ReportFollows(report)'
    BY DEF Follows
  <2>1. failures = 0 /\ ~overtaken
    BY DEF Inv, Host
  <2>2. ChecksFollow /\ ApproveFollows /\ ReportFollows(report')
    BY <2>1 DEF Inv, Follows
  <2>3. report' \in ReportType /\ approve \in ApproveType
    BY DEF Inv, ReportIsRight, ApproveIsRight
  <2>4. ChecksFollow'
    BY <2>2, SameReviews DEF ChecksFollow, IsLast
  <2>5. ApproveFollows'
    BY <2>2, <2>3, SameReviews DEF ApproveFollows, ApproveType
  <2>6. ReportFollows(report)'
    BY <2>2, <2>3, SameReviews DEF ReportFollows, ReportType
  <2> QED
    BY <2>4, <2>5, <2>6
<1> QED
  BY <1>1, <1>2, <1>3, <1>4, <1>5 DEF Inv

-----------------------------------------------------------------------------
(* The report's steps.                                                     *)

(* No report is running: nothing to be wrong about. *)
LEMMA NoReportIsRight ==
  ASSUME head \in Nat
  PROVE  ReportIsRight(NoReport) /\ ReportFollows(NoReport)
<1>1. NoReport \in ReportType
  BY DEF NoReport, ReportType, Verdict
<1>2. /\ NoReport.pc = "idle" /\ NoReport.commit = 0 /\ NoReport.rows = NoRow /\ NoReport.read = {}
      /\ NoReport.verdict = "neutral" /\ NoReport.approval = FALSE
  BY DEF NoReport
<1>3. ReportIsRight(NoReport)
  BY <1>1, <1>2 DEF ReportIsRight
<1> QED
  BY <1>2, <1>3 DEF ReportFollows

(* A step that leaves what the report found: the rows, the verdict and the *)
(* approval. It posts a failure only for a head that has moved.            *)
LEMMA ReportGoesOn ==
  ASSUME Inv, UNCHANGED <<bound, head, reviews, expired, checks, comments, queued, started, rowsAt, event, approve, overtaken>>,
         report.pc # "idle", report' \in ReportType, report'.pc # "idle",
         report'.commit = report.commit, report'.rows = report.rows, report'.refused = report.refused,
         report'.verdict = report.verdict, report'.approval = report.approval,
         report'.read \subseteq DOMAIN checks,
         report'.pc \in {"history", "verdict"} => report.pc = "history",
         report'.pc \in {"pull", "reviews"} => report.pc \in {"pull", "history", "verdict"},
         report'.pc \in {"verdict", "pull", "reviews"} => ~report.refused,
         failures' \in Nat, failures' >= failures,
         failures' = 0 => report'.pc # "post" \/ report.verdict = "neutral" \/ report.commit # head
  PROVE  Inv'
<1>1. ReportIsRight(report')
  BY DEF Inv, ReportIsRight
<1>2. failures' = 0 /\ ~overtaken => ReportFollows(report')
  BY DEF ReportFollows
<1>3. comments' \in 0..1
  BY DEF Inv, Host
<1> QED
  BY <1>1, <1>2, <1>3, ReportMoves

LEMMA ReadCommitInv == Inv /\ ReadCommit => Inv'
<1> SUFFICES ASSUME Inv, ReadCommit PROVE Inv'
  OBVIOUS
<1>1. report \in ReportType /\ report.read \subseteq DOMAIN checks /\ checks \in Seq(CheckType) /\ failures \in Nat
      /\ (report.pc = "history" => report.verdict = "neutral")
  BY DEF Inv, ReportIsRight, ChecksAreRight, Host
<1>2. PICK c \in report.todo :
        LET read == [report EXCEPT !.todo = @ \ {c}, !.read = @ \cup {k \in DOMAIN checks : checks[k].commit = c}]
        IN report' = IF read.todo = {} THEN Verdicts([read EXCEPT !.known = TRUE]) ELSE read
  BY DEF ReadCommit
<1> DEFINE read == [report EXCEPT !.todo = @ \ {c}, !.read = @ \cup {k \in DOMAIN checks : checks[k].commit = c}]
<1>3. DOMAIN checks \subseteq Nat
  BY <1>1
<1>4. /\ read \in ReportType /\ read.pc = report.pc /\ read.commit = report.commit /\ read.rows = report.rows
      /\ read.refused = report.refused /\ read.verdict = report.verdict /\ read.approval = report.approval
      /\ read.read \subseteq DOMAIN checks
  BY <1>1, <1>3 DEF ReportType
<1>5. report' = IF read.todo = {} THEN Verdicts([read EXCEPT !.known = TRUE]) ELSE read
  BY <1>2
<1> HIDE DEF read
<1> DEFINE known == [read EXCEPT !.known = TRUE]
<1>6. /\ known \in ReportType /\ known.pc = report.pc /\ known.commit = report.commit /\ known.rows = report.rows
      /\ known.refused = report.refused /\ known.verdict = report.verdict /\ known.approval = report.approval
      /\ known.read \subseteq DOMAIN checks
  BY <1>4 DEF ReportType
<1>7. report' = IF read.todo = {} THEN Verdicts(known) ELSE read
  BY <1>5
<1> HIDE DEF known
<1>8. /\ Verdicts(known) \in ReportType /\ Verdicts(known).pc = IF report.refused THEN "post" ELSE "verdict"
      /\ Verdicts(known).commit = report.commit /\ Verdicts(known).rows = report.rows
      /\ Verdicts(known).refused = report.refused /\ Verdicts(known).verdict = report.verdict
      /\ Verdicts(known).approval = report.approval /\ Verdicts(known).read \subseteq DOMAIN checks
  BY <1>6 DEF ReportType, Verdicts
<1>9. /\ report' \in ReportType /\ report'.pc \in {"history", "post", "verdict"} /\ report'.commit = report.commit
      /\ (report'.pc = "verdict" => ~report.refused)
      /\ report'.rows = report.rows /\ report'.refused = report.refused /\ report'.verdict = report.verdict
      /\ report'.approval = report.approval /\ report'.read \subseteq DOMAIN checks
  BY <1>4, <1>7, <1>8 DEF ReadCommit, Reporting
<1>10. /\ UNCHANGED <<bound, head, reviews, expired, checks, comments, queued, started, rowsAt, event, approve, overtaken>>
       /\ failures' = failures /\ report.pc = "history"
  BY DEF ReadCommit, Reporting, hostVars
<1> QED
  BY <1>1, <1>9, <1>10, ReportGoesOn

LEMMA HistoryFailsInv == Inv /\ HistoryFails => Inv'
<1> SUFFICES ASSUME Inv, HistoryFails PROVE Inv'
  OBVIOUS
<1>1. report \in ReportType /\ failures \in Nat /\ (report.pc = "history" => report.verdict = "neutral")
  BY DEF Inv, ReportIsRight, Host
<1> DEFINE none == [report EXCEPT !.todo = {}, !.read = {}]
<1>2. /\ none \in ReportType /\ none.commit = report.commit /\ none.rows = report.rows
      /\ none.refused = report.refused /\ none.verdict = report.verdict /\ none.approval = report.approval
      /\ none.read = {}
  BY <1>1 DEF ReportType
<1>3. report' = Verdicts(none)
  BY DEF HistoryFails
<1> HIDE DEF none
<1>4. /\ report' \in ReportType /\ report'.pc = IF report.refused THEN "post" ELSE "verdict"
      /\ report'.commit = report.commit
      /\ report'.rows = report.rows /\ report'.refused = report.refused /\ report'.verdict = report.verdict
      /\ report'.approval = report.approval /\ report'.read \subseteq DOMAIN checks
  BY <1>2, <1>3 DEF ReportType, Verdicts
<1>5. /\ UNCHANGED <<bound, head, reviews, expired, checks, comments, queued, started, rowsAt, event, approve, overtaken>>
      /\ failures' = failures + 1 /\ report.pc = "history"
  BY DEF HistoryFails, Reporting, hostVars, Fails
<1> QED
  BY <1>1, <1>4, <1>5, ReportGoesOn

LEMMA ReportReadsPullInv == Inv /\ ReportReadsPull => Inv'
<1> SUFFICES ASSUME Inv, ReportReadsPull PROVE Inv'
  OBVIOUS
<1>1. /\ report \in ReportType /\ failures \in Nat /\ report.read \subseteq DOMAIN checks
      /\ (report.pc \in {"verdict", "pull", "reviews"} => ~report.refused)
  BY DEF Inv, ReportIsRight, Host
<1>2. /\ report' \in ReportType /\ report'.commit = report.commit
      /\ report'.rows = report.rows /\ report'.refused = report.refused /\ report'.verdict = report.verdict
      /\ report'.approval = report.approval /\ report'.read = report.read
      /\ report'.pc = IF head = report.commit THEN "reviews" ELSE "post"
  BY <1>1 DEF ReportReadsPull, ReportType
<1>3. /\ UNCHANGED <<bound, head, reviews, expired, checks, comments, queued, started, rowsAt, event, approve, overtaken>>
      /\ failures' = failures /\ report.pc = "pull"
  BY DEF ReportReadsPull, Reporting, hostVars
<1> QED
  BY <1>1, <1>2, <1>3, ReportGoesOn

LEMMA ReportApprovalFailsInv == Inv /\ ReportApprovalFails => Inv'
<1> SUFFICES ASSUME Inv, ReportApprovalFails PROVE Inv'
  OBVIOUS
<1>1. /\ report \in ReportType /\ failures \in Nat /\ report.read \subseteq DOMAIN checks
      /\ (report.pc \in {"verdict", "pull", "reviews"} => ~report.refused)
  BY DEF Inv, ReportIsRight, Host
<1>2. /\ report' \in ReportType /\ report'.commit = report.commit
      /\ report'.rows = report.rows /\ report'.refused = report.refused /\ report'.verdict = report.verdict
      /\ report'.approval = report.approval /\ report'.read = report.read /\ report'.pc = "post"
  BY <1>1 DEF ReportApprovalFails, ReportType
<1>3. /\ UNCHANGED <<bound, head, reviews, expired, checks, comments, queued, started, rowsAt, event, approve, overtaken>>
      /\ failures' = failures + 1 /\ report.pc \in {"pull", "reviews"}
  BY DEF ReportApprovalFails, Reporting, hostVars, Fails
<1> QED
  BY <1>1, <1>2, <1>3, ReportGoesOn

LEMMA ReportPostFailsInv == Inv /\ ReportPostFails => Inv'
<1> SUFFICES ASSUME Inv, ReportPostFails PROVE Inv'
  OBVIOUS
<1>1. /\ report \in ReportType /\ failures \in Nat /\ report.read \subseteq DOMAIN checks
      /\ (report.pc \in {"verdict", "pull", "reviews"} => ~report.refused)
  BY DEF Inv, ReportIsRight, Host
<1>2. /\ report' \in ReportType /\ report'.commit = report.commit
      /\ report'.rows = report.rows /\ report'.refused = report.refused /\ report'.verdict = report.verdict
      /\ report'.approval = report.approval /\ report'.read = report.read /\ report'.pc = "comment"
  BY <1>1 DEF ReportPostFails, ReportType
<1>3. /\ UNCHANGED <<bound, head, reviews, expired, checks, comments, queued, started, rowsAt, event, approve, overtaken>>
      /\ failures' = failures + 1 /\ report.pc = "post"
  BY DEF ReportPostFails, Reporting, hostVars, Fails
<1> QED
  BY <1>1, <1>2, <1>3, ReportGoesOn

LEMMA ReportReadsReviewsInv == Inv /\ ReportReadsReviews => Inv'
<1> SUFFICES ASSUME Inv, ReportReadsReviews PROVE Inv'
  OBVIOUS
<1> DEFINE found == ApprovalOf(report.commit)
<1>1. found \in BOOLEAN /\ (found => Approved(report.commit))
  BY DEF ApprovalOf, CountReview, Standing, Approved
<1>2. ReportIsRight(report) /\ report \in ReportType /\ failures \in Nat /\ comments \in 0..1
  BY DEF Inv, ReportIsRight, Host
<1>3. report' = [report EXCEPT !.pc = "post", !.approval = found]
  BY DEF ReportReadsReviews
<1>4. report.commit = head => (found <=> ApprovalOf(head))
  OBVIOUS
<1> HIDE DEF found
<1>5. /\ report' \in ReportType /\ report'.commit = report.commit
      /\ report'.rows = report.rows /\ report'.refused = report.refused /\ report'.verdict = report.verdict
      /\ report'.read = report.read /\ report'.pc = "post" /\ report'.approval = found
  BY <1>1, <1>2, <1>3 DEF ReportType
<1>6. /\ UNCHANGED <<bound, head, reviews, expired, checks, comments, queued, started, rowsAt, event, approve, overtaken>>
      /\ failures' = failures /\ report.pc = "reviews"
  BY DEF ReportReadsReviews, Reporting, hostVars
<1>7. ReportIsRight(report')
  BY <1>1, <1>2, <1>5, <1>6 DEF ReportIsRight
<1>8. ReportFollows(report')
  BY <1>1, <1>4, <1>5 DEF ReportFollows, Agrees
<1> QED
  BY <1>2, <1>6, <1>7, <1>8, ReportMoves

(* The comment, or the end of the job, leaves no report. *)
LEMMA ReportGoesInv == Inv /\ (UpsertComment \/ ReportEnds) => Inv'
<1> SUFFICES ASSUME Inv, UpsertComment \/ ReportEnds PROVE Inv'
  OBVIOUS
<1>1. failures \in Nat /\ comments \in 0..1 /\ head \in Nat
  BY DEF Inv, Host
<1>2. /\ UNCHANGED <<bound, head, reviews, expired, checks, queued, started, rowsAt, event, approve, overtaken>>
      /\ failures' \in Nat /\ failures' >= failures /\ comments' \in 0..1 /\ report' = NoReport
  BY <1>1 DEF UpsertComment, ReportEnds, Reporting, hostVars, Fails, findComment
<1>3. ReportIsRight(report') /\ ReportFollows(report')
  BY <1>1, <1>2, NoReportIsRight
<1> QED
  BY <1>2, <1>3, ReportMoves

(* What is reported is finite, and grows with the checks. *)
LEMMA ReportedRows ==
  ASSUME checks \in Seq(CheckType), NEW own \in Row \cup {NoRow}
  PROVE  /\ (Reported \cup {own}) \ {NoRow} \subseteq Row
         /\ IsFiniteSet(Row) /\ NoRow \notin Row /\ PullBudget \in Nat
         /\ IsFiniteSet((Reported \cup {own}) \ {NoRow})
<1>1. \A k \in DOMAIN checks : checks[k].rows \in Row \cup {NoRow}
  <2>1. \A k \in DOMAIN checks : checks[k] \in CheckType
    OBVIOUS
  <2> QED
    BY <2>1 DEF CheckType
<1>2. (Reported \cup {own}) \ {NoRow} \subseteq Row
  BY <1>1 DEF Reported
<1>3. IsFiniteSet(Row) /\ NoRow \notin Row /\ PullBudget \in Nat
  BY PullCheckAssumption
<1> QED
  BY <1>2, <1>3, FS_Subset

(* A report that finds the budget passed by rows it tells apart is right:  *)
(* they and its own are as many different runs.                            *)
LEMMA OverIsOver ==
  ASSUME checks \in Seq(CheckType), ChecksAreSound, NEW own \in Row \cup {NoRow}, NEW read \in SUBSET (DOMAIN checks),
         ~Earlier(read, own).mayRepeat,
         Earlier(read, own).usd + (IF own = NoRow THEN 0 ELSE 1) > PullBudget
  PROVE  Cardinality((Reported \cup {own}) \ {NoRow}) > PullBudget
<1> DEFINE D == Digests(read) \ {own}
           All == (Reported \cup {own}) \ {NoRow}
<1>1. /\ Earlier(read, own).usd = Cardinality(D) + Cardinality(Undigested(read))
      /\ Undigested(read) = {} /\ (own = NoRow => Digests(read) = {})
  BY DEF Earlier
<1>2. \A x \in Digests(read) : x \in Reported
  <2> SUFFICES ASSUME NEW k \in read, checks[k].digest PROVE checks[k].rows \in Reported
    BY DEF Digests
  <2>1. k \in DOMAIN checks /\ checks[k].rows # NoRow
    BY DEF ChecksAreSound
  <2> QED
    BY <2>1 DEF Reported
<1>3. Cardinality(Undigested(read)) = 0
  BY <1>1, FS_EmptySet
<1>4. IsFiniteSet(All) /\ PullBudget \in Nat /\ Cardinality(All) \in Nat
  BY ReportedRows, FS_CardinalityType
<1>5. own # NoRow
  <2> SUFFICES ASSUME own = NoRow PROVE FALSE
    OBVIOUS
  <2>1. D = {}
    BY <1>1
  <2>2. Cardinality(D) = 0
    BY <2>1, FS_EmptySet
  <2> QED
    BY <1>1, <1>3, <1>4, <2>2
<1>6. D \cup {own} \subseteq All
  BY <1>2, <1>5 DEF Reported
<1>7. IsFiniteSet(D \cup {own}) /\ Cardinality(D \cup {own}) <= Cardinality(All)
  BY <1>4, <1>6, FS_Subset
<1>8. IsFiniteSet(D)
  BY <1>7, FS_Subset
<1>9. Cardinality(D \cup {own}) = Cardinality(D) + 1 /\ Cardinality(D) \in Nat
  <2>1. own \notin D
    OBVIOUS
  <2> HIDE DEF D
  <2> QED
    BY <1>8, <2>1, FS_AddElement, FS_CardinalityType
<1> HIDE DEF D, All
<1>10. Cardinality(All) > PullBudget
  BY <1>1, <1>3, <1>4, <1>5, <1>7, <1>9
<1> QED
  BY <1>10 DEF All

LEMMA decideVerdictInv == Inv /\ decideVerdict => Inv'
<1> SUFFICES ASSUME Inv, decideVerdict PROVE Inv'
  OBVIOUS
<1> DEFINE earlier == Earlier(report.read, report.rows)
           own == IF report.rows = NoRow THEN 0 ELSE 1
           over == report.known /\ ~earlier.mayRepeat /\ earlier.usd + own > PullBudget
<1>1. PICK verdict \in {"neutral", IF over THEN "failure" ELSE "neutral"} :
        report' = [report EXCEPT !.verdict = verdict, !.pc = IF verdict = "failure" THEN "pull" ELSE "post"]
  BY DEF decideVerdict
<1>2. /\ ReportIsRight(report) /\ report \in ReportType /\ failures \in Nat /\ comments \in 0..1
      /\ checks \in Seq(CheckType) /\ ChecksAreSound /\ report.read \subseteq DOMAIN checks
  BY DEF Inv, ReportIsRight, Host, ChecksAreRight
<1>3. report.rows \in Row \cup {NoRow}
  BY <1>2 DEF ReportType
<1>4. verdict = "failure" => Cardinality((Reported \cup {report.rows}) \ {NoRow}) > PullBudget
  BY <1>1, <1>2, <1>3, OverIsOver
<1> HIDE DEF earlier, own, over
<1>5. verdict \in {"neutral", "failure"}
  BY <1>1
<1>6. /\ report' \in ReportType /\ report'.commit = report.commit
      /\ report'.rows = report.rows /\ report'.refused = report.refused /\ report'.verdict = verdict
      /\ report'.approval = report.approval /\ report'.read = report.read
      /\ report'.pc = IF verdict = "failure" THEN "pull" ELSE "post"
  BY <1>1, <1>2, <1>5 DEF ReportType, Verdict
<1>7. /\ UNCHANGED <<bound, head, reviews, expired, checks, comments, queued, started, rowsAt, event, approve, overtaken>>
      /\ failures' = failures /\ report.pc = "verdict"
  BY DEF decideVerdict, Reporting, hostVars
<1>8. ReportIsRight(report')
  BY <1>2, <1>4, <1>5, <1>6, <1>7 DEF ReportIsRight
<1>9. ReportFollows(report')
  BY <1>5, <1>6 DEF ReportFollows
<1> QED
  BY <1>2, <1>7, <1>8, <1>9, ReportMoves

LEMMA StartReportInv == Inv /\ StartReport => Inv'
<1> SUFFICES ASSUME Inv, StartReport PROVE Inv'
  OBVIOUS
<1>1. PICK rows \in {r \in Row : rowsAt[r] \in {0, queued}} \cup {NoRow}, refused \in BOOLEAN :
        /\ rowsAt' = [r \in Row |-> IF r = rows THEN queued ELSE rowsAt[r]]
        /\ report' = [NoReport EXCEPT !.pc = "history", !.commit = queued, !.rows = rows,
                                      !.refused = refused, !.todo = 1..head]
  BY DEF StartReport
<1>2. /\ UNCHANGED <<bound, head, reviews, expired, checks, comments, event, approve, failures, overtaken>>
      /\ queued # 0 /\ queued' = 0 /\ started' = started + 1 /\ started < bound.reports
  BY DEF StartReport, hostVars
<1>3. Host
  BY DEF Inv
<1>4. queued \in Nat /\ queued <= head /\ head \in Nat /\ rows \in Row \cup {NoRow} /\ bound.reports \in Nat
  BY <1>1, <1>3, PullCheckAssumption DEF Host
<1>5. /\ report' \in ReportType /\ report'.pc = "history" /\ report'.commit = queued /\ report'.rows = rows
      /\ report'.read = {} /\ report'.verdict = "neutral" /\ report'.approval = FALSE
  <2>1. report' = [pc |-> "history", commit |-> queued, rows |-> rows, refused |-> refused, todo |-> 1..head,
                   read |-> {}, known |-> FALSE, verdict |-> "neutral", approval |-> FALSE]
    BY <1>1 DEF NoReport
  <2> DEFINE todo == 1..head
  <2>2. todo \in SUBSET Nat /\ {} \in SUBSET Nat
    BY <1>4
  <2>3. report' = [pc |-> "history", commit |-> queued, rows |-> rows, refused |-> refused, todo |-> todo,
                   read |-> {}, known |-> FALSE, verdict |-> "neutral", approval |-> FALSE]
    BY <2>1
  <2> HIDE DEF todo
  <2>4. queued \in Nat /\ rows \in Row \cup {NoRow} /\ refused \in BOOLEAN
    BY <1>1, <1>4
  <2> QED
    BY <2>2, <2>3, <2>4 DEF ReportType, Verdict
<1>6. /\ rowsAt' \in [Row -> Nat] /\ \A r \in Row : rowsAt'[r] <= head /\ (rowsAt[r] # 0 => rowsAt'[r] # 0)
      /\ (rows # NoRow => rowsAt'[rows] # 0)
  BY <1>1, <1>2, <1>3, <1>4 DEF Host
<1>7. Host'
  BY <1>2, <1>3, <1>4, <1>6 DEF Host
<1>8. ChecksAreRight'
  <2>1. ChecksAreRight
    BY DEF Inv
  <2>2. \A k \in DOMAIN checks : checks[k].rows \in Row \cup {NoRow}
    <3>1. \A k \in DOMAIN checks : checks[k] \in CheckType
      BY <2>1 DEF ChecksAreRight
    <3> QED
      BY <3>1 DEF CheckType
  <2>3. ChecksAreSound'
    BY <1>2, <1>6, <2>1, <2>2 DEF ChecksAreRight, ChecksAreSound
  <2> QED
    BY <1>2, <2>1, <2>3 DEF ChecksAreRight, Repeats, IsLast, IsLastReport, ApprovalBindsHead, FailureIsOver, Reported
<1>9. ReportIsRight(report)'
  BY <1>2, <1>4, <1>5, <1>6 DEF ReportIsRight
<1>10. ApproveIsRight(approve)'
  BY <1>2 DEF Inv, ApproveIsRight, Approved, IsLast
<1>11. Follows'
  <2>1. ReportFollows(report)'
    BY <1>5 DEF ReportFollows
  <2>2. approve \in ApproveType
    BY DEF Inv, ApproveIsRight
  <2>3. ChecksFollow => ChecksFollow'
    BY <1>2, SameReviews DEF ChecksFollow, IsLast
  <2>4. ApproveFollows => ApproveFollows'
    BY <1>2, <2>2, SameReviews DEF ApproveFollows, ApproveType
  <2> QED
    BY <1>2, <2>1, <2>3, <2>4 DEF Inv, Follows
<1> QED
  BY <1>7, <1>8, <1>9, <1>10, <1>11 DEF Inv

-----------------------------------------------------------------------------
(* The pull request's steps.                                               *)

(* A step of the pull request takes nothing from a check or a job. *)
LEMMA PullMoves ==
  ASSUME Inv, UNCHANGED <<bound, checks, rowsAt, report, approve, failures, overtaken>>,
         Host', head' >= head, \A c : Approved(c) => Approved(c)', Follows'
  PROVE  Inv'
<1>1. ChecksAreRight'
  <2>1. ChecksAreRight /\ head \in Nat /\ head' \in Nat
    BY DEF Inv, Host
  <2>2. ApprovalBindsHead'
    <3> SUFFICES ASSUME NEW k \in DOMAIN checks, checks[k].verdict = "failure", checks[k].conclusion = "neutral"
                 PROVE  Approved(checks[k].commit)'
      BY DEF ApprovalBindsHead, Approved
    <3>1. Approved(checks[k].commit)
      BY <2>1 DEF ChecksAreRight, ApprovalBindsHead, Approved
    <3> QED
      BY <3>1
  <2>3. ChecksAreSound'
    <3>1. 1..head \subseteq 1..head'
      BY <2>1
    <3> QED
      BY <2>1, <3>1 DEF ChecksAreRight, ChecksAreSound
  <2> QED
    BY <2>1, <2>2, <2>3 DEF ChecksAreRight, Repeats, IsLast, IsLastReport, FailureIsOver, Reported
<1>2. report \in ReportType /\ approve \in ApproveType /\ head \in Nat /\ head' \in Nat
  BY DEF Inv, Host, ReportIsRight, ApproveIsRight
<1>3. ReportIsRight(report)'
  <2>1. ReportIsRight(report)
    BY DEF Inv
  <2>2. report.commit \in Nat
    BY <1>2 DEF ReportType
  <2> QED
    BY <1>2, <2>1, <2>2 DEF ReportIsRight, Reported
<1>4. ApproveIsRight(approve)'
  <2>1. ApproveIsRight(approve)
    BY DEF Inv
  <2>2. approve.head \in Nat
    BY <1>2 DEF ApproveType
  <2> QED
    BY <1>2, <2>1, <2>2 DEF ApproveIsRight, IsLast
<1> QED
  BY <1>1, <1>3, <1>4 DEF Inv

(* A new head has no checks, and no job is about it. *)
LEMMA PushInv == Inv /\ Push => Inv'
<1> SUFFICES ASSUME Inv, Push PROVE Inv'
  OBVIOUS
<1>1. /\ UNCHANGED <<bound, reviews, expired, checks, comments, started, rowsAt, event, report, approve, failures, overtaken>>
      /\ head' = head + 1 /\ queued' = head + 1 /\ head < bound.commits
  BY DEF Push
<1>2. Host
  BY DEF Inv
<1>3. head \in Nat /\ bound.commits \in Nat
  BY <1>2, PullCheckAssumption DEF Host
<1>4. \A r \in Row : rowsAt[r] \in Nat /\ rowsAt[r] <= head
  BY <1>2 DEF Host
<1>5. Host'
  BY <1>1, <1>2, <1>3, <1>4 DEF Host
<1>6. \A c : Approved(c) => Approved(c)'
  BY <1>1 DEF Approved
<1>7. Follows'
  <2>1. \A k \in DOMAIN checks : checks[k].commit # head'
    BY <1>1, <1>3 DEF Inv, ChecksAreRight, ChecksAreSound
  <2>2. report.commit \in Nat /\ report.commit <= head /\ approve.head \in Nat /\ approve.head <= head
    BY DEF Inv, ReportIsRight, ApproveIsRight, ReportType, ApproveType
  <2>3. report.commit # head' /\ approve.head # head'
    BY <1>1, <1>3, <2>2
  <2>4. ChecksFollow' /\ ApproveFollows' /\ ReportFollows(report)'
    BY <1>1, <2>1, <2>3 DEF ChecksFollow, ApproveFollows, ReportFollows
  <2> QED
    BY <2>4 DEF Follows
<1> QED
  BY <1>1, <1>3, <1>5, <1>6, <1>7, PullMoves

(* A run that starts again, or a comment, says nothing new of the reviews. *)
LEMMA ReRunInv == Inv /\ (Comment \/ \E c \in 1..head : ReRun(c)) => Inv'
<1> SUFFICES ASSUME Inv, Comment \/ \E c \in 1..head : ReRun(c) PROVE Inv'
  OBVIOUS
<1>1. Host /\ approve \in ApproveType /\ report \in ReportType /\ checks \in Seq(CheckType)
  BY DEF Inv, ApproveIsRight, ReportIsRight, ChecksAreRight
<1>2. head \in Nat /\ queued \in Nat /\ queued <= head
  BY <1>1 DEF Host
<1>3. /\ UNCHANGED <<bound, head, reviews, expired, checks, comments, started, rowsAt, report, approve, failures, overtaken>>
      /\ queued' \in Nat /\ queued' <= head /\ event' \in BOOLEAN /\ (event => event')
  <2>1. event \in BOOLEAN
    BY <1>1 DEF Host
  <2>2. CASE Comment
    BY <1>2, <2>2 DEF Comment, hostVars
  <2>3. CASE \E c \in 1..head : ReRun(c)
    BY <1>2, <2>1, <2>3 DEF ReRun, hostVars
  <2> QED
    BY <2>2, <2>3
<1>4. Host'
  BY <1>1, <1>3 DEF Host
<1>5. \A c : Approved(c) => Approved(c)'
  BY <1>3 DEF Approved
<1>6. Follows'
  <2>1. ChecksFollow => ChecksFollow'
    BY <1>3, SameReviews DEF ChecksFollow, IsLast
  <2>2. ApproveFollows => ApproveFollows'
    BY <1>1, <1>3, SameReviews DEF ApproveFollows, ApproveType
  <2>3. ReportFollows(report) => ReportFollows(report)'
    BY <1>1, <1>3, SameReviews DEF ReportFollows, ReportType
  <2> QED
    BY <1>3, <2>1, <2>2, <2>3 DEF Inv, Follows
<1> QED
  BY <1>2, <1>3, <1>4, <1>5, <1>6, PullMoves

(* A review that comes, or is dismissed, has an event coming. *)
LEMMA ReviewsMove ==
  ASSUME Inv,
         UNCHANGED <<bound, head, expired, checks, comments, queued, started, rowsAt, report, approve, failures, overtaken>>,
         event' = TRUE, reviews' \in Seq(ReviewType), Len(reviews') >= Len(reviews), DOMAIN reviews \subseteq DOMAIN reviews',
         \A j \in DOMAIN reviews :
           /\ reviews'[j].by = reviews[j].by /\ reviews'[j].commit = reviews[j].commit
           /\ reviews'[j].state \in {reviews[j].state, "DISMISSED"}
  PROVE  Inv'
<1>1. Host /\ head \in Nat
  BY DEF Inv, Host
<1>2. expired' <= Len(reviews')
  <2>1. expired \in Nat /\ expired <= Len(reviews) /\ Len(reviews) \in Nat /\ Len(reviews') \in Nat
    BY <1>1 DEF Host
  <2> QED
    BY <2>1
<1>3. Host'
  BY <1>1, <1>2 DEF Host
<1>4. \A c : Approved(c) => Approved(c)'
  BY DEF Approved
<1>5. Follows'
  BY DEF Follows, ChecksFollow, ApproveFollows, ReportFollows
<1> QED
  BY <1>1, <1>3, <1>4, <1>5, PullMoves

LEMMA SubmitInv ==
  ASSUME Inv, NEW who \in bound.people, NEW state \in {"APPROVED", "CHANGES_REQUESTED"}, NEW c \in 1..head,
         Submit(who, state, c)
  PROVE  Inv'
<1>1. /\ UNCHANGED <<bound, head, expired, checks, comments, queued, started, rowsAt, report, approve, failures, overtaken>>
      /\ event' = TRUE
  BY DEF Submit
<1>2. /\ reviews \in Seq(ReviewType) /\ bound \in Bounds /\ head \in Nat
      /\ Len(reviews) \in Nat /\ DOMAIN reviews = 1..Len(reviews)
  BY DEF Inv, Host
<1> DEFINE new == [by |-> who, state |-> state, commit |-> c]
<1>3. who \in UNION {b.people : b \in Bounds} /\ c \in Nat
  BY <1>2
<1>4. new \in ReviewType
  BY <1>3 DEF ReviewType
<1>5. reviews' = Append(reviews, new)
  BY DEF Submit
<1> HIDE DEF new
<1>6. /\ reviews' \in Seq(ReviewType) /\ Len(reviews') >= Len(reviews) /\ DOMAIN reviews \subseteq DOMAIN reviews'
      /\ \A j \in DOMAIN reviews : reviews'[j] = reviews[j]
  BY <1>2, <1>4, <1>5
<1> QED
  BY <1>1, <1>6, ReviewsMove

LEMMA DismissInv ==
  ASSUME Inv, NEW i \in DOMAIN reviews, Dismiss(i)
  PROVE  Inv'
<1>1. /\ UNCHANGED <<bound, head, expired, checks, comments, queued, started, rowsAt, report, approve, failures, overtaken>>
      /\ event' = TRUE
  BY DEF Dismiss
<1>2. reviews \in Seq(ReviewType) /\ Len(reviews) \in Nat /\ DOMAIN reviews = 1..Len(reviews)
  BY DEF Inv, Host
<1>3. reviews[i] \in ReviewType
  BY <1>2
<1> DEFINE new == [reviews[i] EXCEPT !.state = "DISMISSED"]
<1>4. new \in ReviewType /\ new.by = reviews[i].by /\ new.commit = reviews[i].commit /\ new.state = "DISMISSED"
  BY <1>3 DEF ReviewType
<1>5. reviews' = [reviews EXCEPT ![i] = new]
  BY DEF Dismiss
<1> HIDE DEF new
<1>6. /\ reviews' \in Seq(ReviewType) /\ Len(reviews') = Len(reviews) /\ DOMAIN reviews' = DOMAIN reviews
      /\ reviews'[i] = new /\ \A j \in DOMAIN reviews : j # i => reviews'[j] = reviews[j]
  BY <1>2, <1>4, <1>5
<1>7. \A j \in DOMAIN reviews :
        /\ reviews'[j].by = reviews[j].by /\ reviews'[j].commit = reviews[j].commit
        /\ reviews'[j].state \in {reviews[j].state, "DISMISSED"}
  BY <1>4, <1>6
<1> QED
  BY <1>1, <1>2, <1>6, <1>7, ReviewsMove

(* Once every review is expired, any answer agrees. *)
LEMMA ExpireInv == Inv /\ Expire => Inv'
<1> SUFFICES ASSUME Inv, Expire PROVE Inv'
  OBVIOUS
<1>1. /\ UNCHANGED <<bound, head, reviews, checks, comments, queued, started, rowsAt, event, report, approve, failures, overtaken>>
      /\ expired < Len(reviews) /\ expired' = Len(reviews)
  BY DEF Expire, jobVars
<1>2. Host /\ head \in Nat /\ expired \in Nat /\ reviews \in Seq(ReviewType)
  BY DEF Inv, Host
<1>3. DOMAIN reviews = 1..Len(reviews) /\ Len(reviews) \in Nat
  BY <1>2
<1>4. Host'
  BY <1>1, <1>2, <1>3 DEF Host
<1>5. \A c : Approved(c) => Approved(c)'
  BY <1>1 DEF Approved
<1>6. \A a \in BOOLEAN : Agrees(a)'
  <2>1. \A i \in DOMAIN reviews' : ~(i > expired')
    BY <1>1, <1>3
  <2>2. ~ApprovalOf(head)'
    BY <2>1 DEF ApprovalOf, Standing, CountReview
  <2>3. expired' > 0
    BY <1>1, <1>2, <1>3
  <2> QED
    BY <2>2, <2>3 DEF Agrees
<1>7. Follows'
  <2>1. report.approval \in BOOLEAN /\ approve.approval \in BOOLEAN
    BY DEF Inv, ReportIsRight, ApproveIsRight, ReportType, ApproveType
  <2> QED
    BY <1>1, <1>6, <2>1 DEF Follows, ChecksFollow, ApproveFollows, ReportFollows
<1> QED
  BY <1>1, <1>2, <1>4, <1>5, <1>7, PullMoves

-----------------------------------------------------------------------------
(* The approval's steps.                                                   *)

(* A step of approve that leaves the host alone. *)
LEMMA ApproveMoves ==
  ASSUME Inv, UNCHANGED <<bound, head, reviews, expired, checks, comments, queued, started, rowsAt, report>>,
         event' \in BOOLEAN, overtaken' \in BOOLEAN, overtaken => overtaken', failures' \in Nat,
         ApproveIsRight(approve'), Follows'
  PROVE  Inv'
<1>1. Host'
  BY DEF Inv, Host
<1>2. ChecksAreRight'
  BY DEF Inv, ChecksAreRight, ChecksAreSound, Repeats, IsLast, IsLastReport, ApprovalBindsHead, FailureIsOver, Reported
<1>3. ReportIsRight(report)'
  BY DEF Inv, ReportIsRight, Approved, Reported
<1>4. ApproveIsRight(approve)'
  BY DEF ApproveIsRight, Approved, IsLast
<1> QED
  BY <1>1, <1>2, <1>3, <1>4 DEF Inv

LEMMA NoApproveFields ==
  /\ NoApprove \in ApproveType /\ NoApprove.pc = "idle" /\ NoApprove.head = 0 /\ NoApprove.newest = 0
  /\ NoApprove.approval = FALSE
  BY DEF NoApprove, ApproveType

LEMMA NoApproveIsRight ==
  ASSUME head \in Nat, checks \in Seq(CheckType)
  PROVE  ApproveIsRight(NoApprove)
<1>1. Len(checks) \in Nat
  OBVIOUS
<1> QED
  BY <1>1, NoApproveFields DEF ApproveIsRight

LEMMA StartApproveInv == Inv /\ StartApprove => Inv'
<1> SUFFICES ASSUME Inv, StartApprove PROVE Inv'
  OBVIOUS
<1>1. /\ UNCHANGED <<bound, head, reviews, expired, checks, comments, queued, started, rowsAt, report, failures, overtaken>>
      /\ event' = FALSE /\ approve' = [NoApprove EXCEPT !.pc = "reviews", !.head = head]
  BY DEF StartApprove, hostVars
<1>2. /\ head \in Nat /\ head # 0 /\ failures \in Nat /\ overtaken \in BOOLEAN /\ checks \in Seq(CheckType)
      /\ Len(checks) \in Nat
  BY DEF Inv, Host, ChecksAreRight
<1>3. /\ approve' \in ApproveType /\ approve'.pc = "reviews" /\ approve'.head = head
      /\ approve'.approval = FALSE /\ approve'.newest = 0
  BY <1>1, <1>2 DEF NoApprove, ApproveType
<1>4. ApproveIsRight(approve')
  BY <1>2, <1>3 DEF ApproveIsRight
<1>5. Follows'
  BY <1>1, <1>2, <1>3 DEF Follows, ChecksFollow, ApproveFollows, ReportFollows
<1> QED
  BY <1>1, <1>2, <1>4, <1>5, ApproveMoves

LEMMA ApproveReadsReviewsInv == Inv /\ ApproveReadsReviews => Inv'
<1> SUFFICES ASSUME Inv, ApproveReadsReviews PROVE Inv'
  OBVIOUS
<1> DEFINE found == ApprovalOf(approve.head)
<1>1. found \in BOOLEAN /\ (found => Approved(approve.head)) /\ (approve.head = head => (found <=> ApprovalOf(head)))
  BY DEF ApprovalOf, CountReview, Standing, Approved
<1>2. /\ UNCHANGED <<bound, head, reviews, expired, checks, comments, queued, started, rowsAt, event, report, failures, overtaken>>
      /\ approve' = [approve EXCEPT !.pc = "check", !.approval = found] /\ approve.pc = "reviews"
  BY DEF ApproveReadsReviews, Approving, hostVars
<1> HIDE DEF found
<1>3. /\ ApproveIsRight(approve) /\ approve \in ApproveType /\ report \in ReportType
      /\ event \in BOOLEAN /\ failures \in Nat /\ overtaken \in BOOLEAN
  BY DEF Inv, ApproveIsRight, Host, ReportIsRight
<1>4. /\ approve' \in ApproveType /\ approve'.pc = "check" /\ approve'.head = approve.head
      /\ approve'.approval = found /\ approve'.newest = approve.newest
  BY <1>1, <1>2, <1>3 DEF ApproveType
<1>5. ApproveIsRight(approve')
  BY <1>1, <1>2, <1>3, <1>4 DEF ApproveIsRight
<1>6. Follows'
  <2>1. ChecksFollow => ChecksFollow'
    BY <1>2, <1>4, SameReviews DEF ChecksFollow, IsLast
  <2>2. ApproveFollows'
    BY <1>1, <1>2, <1>4, SameReviews DEF ApproveFollows, Agrees
  <2>3. ReportFollows(report) => ReportFollows(report)'
    BY <1>2, <1>3, <1>4, SameReviews DEF ReportFollows, ReportType
  <2> QED
    BY <1>2, <2>1, <2>2, <2>3 DEF Inv, Follows
<1> QED
  BY <1>2, <1>3, <1>5, <1>6, ApproveMoves

(* A failed request, and a job that ends, leave the conclusion to the next. *)
LEMMA ApproveFailsInv == Inv /\ (ApprovalUnread \/ ApproveEnds) => Inv'
<1> SUFFICES ASSUME Inv, ApprovalUnread \/ ApproveEnds PROVE Inv'
  OBVIOUS
<1>1. /\ ApproveIsRight(approve) /\ approve \in ApproveType /\ event \in BOOLEAN /\ failures \in Nat /\ overtaken \in BOOLEAN
      /\ head \in Nat /\ checks \in Seq(CheckType)
  BY DEF Inv, ApproveIsRight, Host, ChecksAreRight
<1>2. /\ UNCHANGED <<bound, head, reviews, expired, checks, comments, queued, started, rowsAt, event, report, overtaken>>
      /\ failures' = failures + 1
  BY DEF ApprovalUnread, ApproveEnds, Approving, hostVars, Fails
<1>3. ApproveIsRight(approve')
  <2>1. CASE ApprovalUnread
    <3>1. approve.pc = "reviews" /\ approve' = [approve EXCEPT !.pc = "check"]
      BY <2>1 DEF ApprovalUnread, Approving
    <3>2. /\ approve' \in ApproveType /\ approve'.pc = "check" /\ approve'.head = approve.head
          /\ approve'.approval = approve.approval /\ approve'.newest = approve.newest
      BY <1>1, <3>1 DEF ApproveType
    <3> QED
      BY <1>1, <3>1, <3>2 DEF ApproveIsRight
  <2>2. CASE ApproveEnds
    BY <1>1, <2>2, NoApproveIsRight DEF ApproveEnds
  <2> QED
    BY <2>1, <2>2
<1>4. Follows'
  BY <1>1, <1>2 DEF Follows
<1> QED
  BY <1>1, <1>2, <1>3, <1>4, ApproveMoves

(* A conclusion that is left alone is the one the reviews give. *)
LEMMA ReconcludeInv == Inv /\ Reconclude => Inv'
<1> SUFFICES ASSUME Inv, Reconclude PROVE Inv'
  OBVIOUS
<1> DEFINE k == newestCheck(approve.head)
           leaves == \/ k = 0
                     \/ checks[k].rows # NoRow /\ ~checks[k].digest
                     \/ checks[k].conclusion = ApprovedConclusion(checks[k].verdict, approve.approval)
<1>1. /\ UNCHANGED <<bound, head, reviews, expired, checks, comments, queued, started, rowsAt, event, report, failures>>
      /\ approve.pc = "check" /\ overtaken' = (overtaken \/ (report.pc = "post" /\ report.commit = approve.head))
      /\ approve' = IF leaves THEN NoApprove ELSE [approve EXCEPT !.pc = "post", !.newest = k]
  BY DEF Reconclude, Approving, hostVars
<1>2. /\ ApproveIsRight(approve) /\ approve \in ApproveType /\ report \in ReportType
      /\ event \in BOOLEAN /\ failures \in Nat /\ overtaken \in BOOLEAN
      /\ head \in Nat /\ checks \in Seq(CheckType) /\ ChecksAreSound
  BY DEF Inv, ApproveIsRight, Host, ReportIsRight, ChecksAreRight
<1>3. approve.head \in Nat /\ approve.approval \in BOOLEAN
  BY <1>2 DEF ApproveType
<1>4. \/ k = 0 /\ \A j \in DOMAIN checks : checks[j].commit # approve.head
      \/ /\ k \in DOMAIN checks /\ checks[k].commit = approve.head
         /\ \A j \in DOMAIN checks : checks[j].commit = approve.head => j <= k
  BY <1>2, <1>3, NewestCheck
<1>5. overtaken' \in BOOLEAN /\ (overtaken => overtaken')
      /\ (~overtaken' => ~overtaken /\ ~(report.pc = "post" /\ report.commit = approve.head))
  BY <1>1, <1>2
<1>6. DOMAIN checks = 1..Len(checks) /\ Len(checks) \in Nat /\ (k \in DOMAIN checks => checks[k] \in CheckType)
  BY <1>2
<1>7. leaves \in BOOLEAN
  OBVIOUS
<1>8. k # 0 /\ leaves /\ checks[k].verdict = "failure" =>
        ((checks[k].conclusion = "neutral") <=> approve.approval)
  <2> SUFFICES ASSUME k # 0, leaves, checks[k].verdict = "failure"
               PROVE (checks[k].conclusion = "neutral") <=> approve.approval
    OBVIOUS
  <2>1. k \in DOMAIN checks
    BY <1>4
  <2>2. ~(checks[k].rows # NoRow /\ ~checks[k].digest)
    BY <1>2, <2>1 DEF ChecksAreSound
  <2>3. checks[k].conclusion = ApprovedConclusion("failure", approve.approval)
    BY <2>2
  <2> QED
    BY <1>3, <2>3 DEF ApprovedConclusion
<1> HIDE DEF k, leaves
<1>9. CASE leaves
  <2>1. approve' = NoApprove
    BY <1>1, <1>9
  <2>2. ApproveIsRight(approve')
    BY <1>2, <2>1, NoApproveIsRight
  <2>3. Follows'
    <3> SUFFICES ASSUME failures' = 0, ~overtaken' PROVE ChecksFollow' /\ ApproveFollows' /\ ReportFollows(report)'
      BY DEF Follows
    <3>1. /\ ChecksFollow /\ ApproveFollows /\ ReportFollows(report)
          /\ ~(report.pc = "post" /\ report.commit = approve.head)
      BY <1>1, <1>5 DEF Inv, Follows
    <3>2. ChecksFollow'
      <4> SUFFICES ASSUME NEW j \in DOMAIN checks, checks[j].commit = head, IsLast(j), checks[j].verdict = "failure", ~event
                   PROVE  Agrees(checks[j].conclusion = "neutral")
        BY <1>1, SameReviews DEF ChecksFollow, IsLast
      <4>1. CASE approve.head = head
        <5>1. k \in DOMAIN checks /\ checks[k].commit = head /\ j <= k /\ k <= j
          BY <1>4, <4>1 DEF IsLast
        <5>2. j = k /\ k # 0
          BY <1>6, <5>1
        <5>3. (checks[j].conclusion = "neutral") <=> approve.approval
          BY <1>8, <1>9, <5>2
        <5>4. Agrees(approve.approval)
          BY <1>1, <3>1, <4>1 DEF ApproveFollows
        <5> QED
          BY <5>3, <5>4 DEF Agrees
      <4>2. CASE approve.head # head
        BY <3>1, <4>2 DEF ChecksFollow
      <4> QED
        BY <4>1, <4>2
    <3>3. ApproveFollows'
      BY <2>1, NoApproveFields DEF ApproveFollows
    <3>4. ReportFollows(report)'
      BY <1>1, <1>2, <3>1, SameReviews DEF ReportFollows, ReportType
    <3> QED
      BY <3>2, <3>3, <3>4
  <2> QED
    BY <1>1, <1>2, <1>5, <2>2, <2>3, ApproveMoves
<1>10. CASE ~leaves
  <2>1. approve' = [approve EXCEPT !.pc = "post", !.newest = k]
    BY <1>1, <1>7, <1>10
  <2>2. k # 0 /\ k \in DOMAIN checks /\ checks[k].commit = approve.head
        /\ \A j \in DOMAIN checks : checks[j].commit = approve.head => j <= k
    BY <1>4, <1>10 DEF leaves
  <2>3. k \in Nat /\ k <= Len(checks)
    BY <1>6, <2>2
  <2>4. /\ approve' \in ApproveType /\ approve'.pc = "post" /\ approve'.newest = k /\ approve'.head = approve.head
        /\ approve'.approval = approve.approval
    BY <1>2, <2>1, <2>3 DEF ApproveType
  <2>5. ApproveIsRight(approve')
    BY <1>1, <1>2, <2>2, <2>3, <2>4 DEF ApproveIsRight, IsLast
  <2>6. Follows'
    <3> SUFFICES ASSUME failures' = 0, ~overtaken' PROVE ChecksFollow' /\ ApproveFollows' /\ ReportFollows(report)'
      BY DEF Follows
    <3>1. /\ ChecksFollow /\ ApproveFollows /\ ReportFollows(report)
          /\ ~(report.pc = "post" /\ report.commit = approve.head)
      BY <1>1, <1>5 DEF Inv, Follows
    <3>2. ChecksFollow'
      BY <1>1, <2>4, <3>1, SameReviews DEF ChecksFollow, IsLast
    <3>3. ApproveFollows'
      BY <1>1, <1>3, <2>4, <3>1, SameReviews DEF ApproveFollows
    <3>4. ReportFollows(report)'
      BY <1>1, <1>2, <3>1, SameReviews DEF ReportFollows, ReportType
    <3> QED
      BY <3>2, <3>3, <3>4
  <2> QED
    BY <1>1, <1>2, <1>5, <2>5, <2>6, ApproveMoves
<1> QED
  BY <1>7, <1>9, <1>10

-----------------------------------------------------------------------------
(* The two posts.                                                          *)

(* A check whose commit, rows and conclusion are right keeps all of them   *)
(* right.                                                                  *)
LEMMA PostIsSound ==
  ASSUME Inv, NEW new \in CheckType, checks' = Append(checks, new), UNCHANGED <<head, rowsAt, reviews>>,
         new.commit \in 1..head, new.rows # NoRow => rowsAt[new.rows] # 0, new.digest = (new.rows # NoRow),
         new.again => \E m \in DOMAIN checks : checks[m].commit = new.commit,
         new.verdict = "failure" /\ new.conclusion = "neutral" => Approved(new.commit),
         new.verdict = "failure" => Cardinality((Reported \cup {new.rows}) \ {NoRow}) > PullBudget
  PROVE  /\ checks' \in Seq(CheckType) /\ ChecksAreSound' /\ ApprovalBindsHead' /\ FailureIsOver'
         /\ Reported' = (Reported \cup {new.rows}) \ {NoRow}
<1> DEFINE n == Len(checks) + 1
<1>1. checks \in Seq(CheckType) /\ ChecksAreSound /\ ApprovalBindsHead /\ FailureIsOver
  BY DEF Inv, ChecksAreRight
<1>2. /\ checks' \in Seq(CheckType) /\ DOMAIN checks' = DOMAIN checks \cup {n} /\ checks'[n] = new
      /\ \A k \in DOMAIN checks : checks'[k] = checks[k]
  BY <1>1, Posted
<1> HIDE DEF n
<1>3. Reported' = (Reported \cup {new.rows}) \ {NoRow}
  BY <1>2 DEF Reported
<1>4. ChecksAreSound'
  <2> SUFFICES ASSUME NEW k \in DOMAIN checks'
               PROVE /\ checks'[k].commit \in 1..head
                     /\ (checks'[k].rows # NoRow => rowsAt[checks'[k].rows] # 0)
                     /\ (checks'[k].digest => checks'[k].rows # NoRow)
                     /\ (~checks'[k].digest /\ checks'[k].rows # NoRow => checks'[k].verdict = "neutral")
                     /\ \E m \in DOMAIN checks' : checks'[m].commit = checks'[k].commit /\ ~checks'[m].again
    BY DEF ChecksAreSound
  <2>1. CASE k \in DOMAIN checks
    <3>1. checks'[k] = checks[k]
      BY <1>2, <2>1
    <3>2. PICK m \in DOMAIN checks : checks[m].commit = checks[k].commit /\ ~checks[m].again
      BY <1>1, <2>1 DEF ChecksAreSound
    <3>3. m \in DOMAIN checks' /\ checks'[m] = checks[m]
      BY <1>2
    <3>4. /\ checks[k].commit \in 1..head
          /\ (checks[k].rows # NoRow => rowsAt[checks[k].rows] # 0)
          /\ (checks[k].digest => checks[k].rows # NoRow)
          /\ (~checks[k].digest /\ checks[k].rows # NoRow => checks[k].verdict = "neutral")
      BY <1>1, <2>1 DEF ChecksAreSound
    <3>5. \E l \in DOMAIN checks' : checks'[l].commit = checks'[k].commit /\ ~checks'[l].again
      BY <3>1, <3>2, <3>3
    <3> QED
      BY <3>1, <3>4, <3>5
  <2>2. CASE k = n
    <3>1. \E m \in DOMAIN checks' : checks'[m].commit = new.commit /\ ~checks'[m].again
      <4>1. CASE new.again
        <5>1. PICK l \in DOMAIN checks : checks[l].commit = new.commit
          BY <4>1
        <5>2. PICK m \in DOMAIN checks : checks[m].commit = checks[l].commit /\ ~checks[m].again
          BY <1>1, <5>1 DEF ChecksAreSound
        <5> QED
          BY <1>2, <5>1, <5>2
      <4>2. CASE ~new.again
        BY <1>2, <4>2
      <4> QED
        BY <4>1, <4>2
    <3> QED
      BY <1>2, <2>2, <3>1
  <2> QED
    BY <1>2, <2>1, <2>2
<1>5. ApprovalBindsHead'
  <2> SUFFICES ASSUME NEW k \in DOMAIN checks', checks'[k].verdict = "failure", checks'[k].conclusion = "neutral"
               PROVE  Approved(checks'[k].commit)
    BY DEF ApprovalBindsHead, Approved
  <2>1. CASE k \in DOMAIN checks
    BY <1>1, <1>2, <2>1 DEF ApprovalBindsHead, Approved
  <2>2. CASE k = n
    BY <1>2, <2>2
  <2> QED
    BY <1>2, <2>1, <2>2
<1>6. FailureIsOver'
  <2> SUFFICES ASSUME NEW k \in DOMAIN checks', checks'[k].verdict = "failure"
               PROVE  Cardinality(Reported') > PullBudget
    BY DEF FailureIsOver
  <2>1. CASE k \in DOMAIN checks
    <3>1. Cardinality(Reported) > PullBudget
      BY <1>1, <1>2, <2>1 DEF FailureIsOver
    <3>2. new.rows \in Row \cup {NoRow}
      BY DEF CheckType
    <3>3. IsFiniteSet(Reported') /\ PullBudget \in Nat
      BY <1>1, <1>3, <3>2, ReportedRows
    <3>4. Reported \subseteq Reported'
      BY <1>3 DEF Reported
    <3>5. Cardinality(Reported) <= Cardinality(Reported') /\ Cardinality(Reported) \in Nat /\ Cardinality(Reported') \in Nat
      BY <3>3, <3>4, FS_Subset, FS_CardinalityType
    <3> QED
      BY <3>1, <3>3, <3>5
  <2>2. CASE k = n
    BY <1>2, <1>3, <2>2
  <2> QED
    BY <1>2, <2>1, <2>2
<1> QED
  BY <1>2, <1>3, <1>4, <1>5, <1>6

LEMMA ReportPostsInv == Inv /\ ReportPosts => Inv'
<1> SUFFICES ASSUME Inv, ReportPosts PROVE Inv'
  OBVIOUS
<1> DEFINE new == Check(report.commit, Conclusion(report), report.verdict, report.rows, FALSE)
           n == Len(checks) + 1
<1>1. /\ UNCHANGED <<bound, head, reviews, expired, comments, queued, started, rowsAt, event, approve, failures>>
      /\ checks' = Append(checks, new) /\ report' = [report EXCEPT !.pc = "comment"] /\ report.pc = "post"
      /\ overtaken' = (overtaken \/ (approve.pc = "post" /\ approve.head = report.commit))
  BY DEF ReportPosts, Reporting
<1>2. /\ ReportIsRight(report) /\ report \in ReportType /\ ApproveIsRight(approve) /\ approve \in ApproveType /\ Host
      /\ overtaken \in BOOLEAN /\ checks \in Seq(CheckType) /\ head \in Nat
  BY DEF Inv, ReportIsRight, ApproveIsRight, Host, ChecksAreRight
<1>3. /\ report.commit \in Nat /\ report.rows \in Row \cup {NoRow} /\ report.refused \in BOOLEAN
      /\ report.verdict \in {"neutral", "failure"} /\ report.approval \in BOOLEAN
  BY <1>2 DEF ReportType, Verdict
<1>4. Conclusion(report) \in {"neutral", "failure"} /\
      (report.verdict = "failure" => ~report.refused /\ ((Conclusion(report) = "neutral") <=> report.approval))
  BY <1>2, <1>3 DEF Conclusion, ApprovedConclusion, ReportIsRight
<1>5. /\ new \in CheckType /\ new.commit = report.commit /\ new.conclusion = Conclusion(report)
      /\ new.verdict = report.verdict /\ new.rows = report.rows /\ new.digest = (report.rows # NoRow) /\ new.again = FALSE
  BY <1>3, <1>4 DEF Check, CheckType, Verdict
<1> HIDE DEF new
<1>6. overtaken' \in BOOLEAN /\ (overtaken => overtaken')
      /\ (~overtaken' => ~overtaken /\ ~(approve.pc = "post" /\ approve.head = report.commit))
  BY <1>1, <1>2
<1>7. /\ report' \in ReportType /\ report'.pc = "comment" /\ report'.commit = report.commit /\ report'.rows = report.rows
      /\ report'.refused = report.refused /\ report'.read = report.read /\ report'.verdict = report.verdict
      /\ report'.approval = report.approval
  BY <1>1, <1>2 DEF ReportType
<1>8. new.commit \in 1..head
  BY <1>1, <1>2, <1>3, <1>5 DEF ReportIsRight
<1>9. /\ checks' \in Seq(CheckType) /\ ChecksAreSound' /\ ApprovalBindsHead' /\ FailureIsOver'
      /\ Reported' = (Reported \cup {new.rows}) \ {NoRow}
  <2>1. /\ (new.rows # NoRow => rowsAt[new.rows] # 0) /\ ~new.again
        /\ (new.verdict = "failure" /\ new.conclusion = "neutral" => Approved(new.commit))
        /\ (new.verdict = "failure" => Cardinality((Reported \cup {new.rows}) \ {NoRow}) > PullBudget)
    BY <1>2, <1>4, <1>5 DEF ReportIsRight
  <2> QED
    BY <1>1, <1>5, <1>8, <2>1, PostIsSound
<1>10. /\ DOMAIN checks' = DOMAIN checks \cup {n} /\ checks'[n] = new /\ Len(checks) \in Nat /\ Len(checks') = n
       /\ DOMAIN checks = 1..Len(checks) /\ \A k \in DOMAIN checks : checks'[k] = checks[k] /\ k < n
  BY <1>1, <1>2, <1>5, Posted
<1>11. n \in Nat /\ Len(checks) <= n
  BY <1>10
<1> HIDE DEF n
<1>12. \A k \in DOMAIN checks : IsLast(k)' => IsLast(k)
  BY <1>10 DEF IsLast
<1>13. \A k \in DOMAIN checks : IsLast(k)' => checks[k].commit # new.commit
  <2> SUFFICES ASSUME NEW k \in DOMAIN checks, IsLast(k)', checks[k].commit = new.commit PROVE FALSE
    OBVIOUS
  <2>1. n <= k
    BY <1>10 DEF IsLast
  <2> QED
    BY <1>10, <1>11, <2>1
<1>14. Repeats'
  <2> SUFFICES ASSUME ~overtaken', NEW k \in DOMAIN checks', NEW m \in DOMAIN checks',
                      checks'[k].commit = checks'[m].commit, IsLast(k)', IsLastReport(m)'
               PROVE  checks'[k].rows = checks'[m].rows /\ checks'[k].verdict = checks'[m].verdict
    BY DEF Repeats
  <2>1. CASE k = n /\ m = n
    BY <2>1
  <2>2. CASE k = n /\ m \in DOMAIN checks
    <3>1. n <= m
      BY <1>5, <1>10, <2>2 DEF IsLastReport
    <3> QED
      BY <1>10, <1>11, <2>2, <3>1
  <2>3. CASE k \in DOMAIN checks /\ m = n
    BY <1>10, <1>13, <2>3
  <2>4. CASE k \in DOMAIN checks /\ m \in DOMAIN checks
    <3>1. IsLast(k) /\ checks[k].commit = checks[m].commit
      BY <1>10, <1>12, <2>4
    <3>2. IsLastReport(m)
      BY <1>10, <2>4 DEF IsLastReport
    <3>3. Repeats
      BY DEF Inv, ChecksAreRight
    <3> QED
      BY <1>6, <1>10, <2>4, <3>1, <3>2, <3>3 DEF Repeats
  <2> QED
    BY <1>10, <2>1, <2>2, <2>3, <2>4
<1>15. ReportIsRight(report)'
  <2>1. (Reported' \cup {report'.rows}) \ {NoRow} = (Reported \cup {report.rows}) \ {NoRow}
    BY <1>5, <1>7, <1>9 DEF Reported
  <2>2. \A c : Approved(c)' <=> Approved(c)
    BY <1>1 DEF Approved
  <2>3. report.read \subseteq DOMAIN checks'
    BY <1>2, <1>10 DEF ReportIsRight
  <2> QED
    BY <1>1, <1>2, <1>7, <2>1, <2>2, <2>3 DEF ReportIsRight
<1>16. ApproveIsRight(approve)'
  <2>1. \A c : Approved(c)' <=> Approved(c)
    BY <1>1 DEF Approved
  <2>2. approve.newest <= Len(checks')
    <3>1. approve.newest \in Nat /\ approve.newest <= Len(checks)
      BY <1>2 DEF ApproveIsRight, ApproveType
    <3> QED
      BY <1>10, <1>11, <3>1
  <2>3. ASSUME approve.pc = "post"
        PROVE  /\ approve.newest \in DOMAIN checks' /\ checks'[approve.newest].commit = approve.head
               /\ ~overtaken' => \A j \in DOMAIN checks' : checks'[j].commit = approve.head => j <= approve.newest
    <3>1. /\ approve.newest \in DOMAIN checks /\ checks[approve.newest].commit = approve.head
          /\ ~overtaken => IsLast(approve.newest)
      BY <1>2, <2>3 DEF ApproveIsRight
    <3> QED
      BY <1>5, <1>6, <1>10, <2>3, <3>1 DEF IsLast
  <2> QED
    BY <1>1, <1>2, <2>1, <2>2, <2>3 DEF ApproveIsRight, IsLast
<1>17. Follows'
  <2> SUFFICES ASSUME failures' = 0, ~overtaken' PROVE ChecksFollow' /\ ApproveFollows' /\ ReportFollows(report)'
    BY DEF Follows
  <2>1. ChecksFollow /\ ApproveFollows /\ ReportFollows(report)
    BY <1>1, <1>6 DEF Inv, Follows
  <2>2. ChecksFollow'
    <3> SUFFICES ASSUME NEW k \in DOMAIN checks', checks'[k].commit = head, IsLast(k)', checks'[k].verdict = "failure"
                 PROVE  event \/ (approve.pc # "idle" /\ approve.head = head) \/ Agrees(checks'[k].conclusion = "neutral")
      BY <1>1, SameReviews DEF ChecksFollow
    <3>1. CASE k \in DOMAIN checks
      BY <1>10, <1>12, <2>1, <3>1 DEF ChecksFollow
    <3>2. CASE k = n
      <4>1. \/ event
            \/ approve.pc \in {"reviews", "check"} /\ approve.head = head
            \/ Agrees(report.approval)
        BY <1>1, <1>5, <1>10, <2>1, <3>2 DEF ReportFollows
      <4>2. (checks'[k].conclusion = "neutral") <=> report.approval
        BY <1>4, <1>5, <1>10, <3>2
      <4> QED
        BY <4>1, <4>2 DEF Agrees
    <3> QED
      BY <1>10, <3>1, <3>2
  <2>3. ApproveFollows'
    BY <1>1, <1>2, <2>1, SameReviews DEF ApproveFollows, ApproveType
  <2>4. ReportFollows(report)'
    BY <1>7 DEF ReportFollows
  <2> QED
    BY <2>2, <2>3, <2>4
<1>18. Host'
  BY <1>1, <1>2, <1>6 DEF Host
<1> QED
  BY <1>9, <1>14, <1>15, <1>16, <1>17, <1>18 DEF Inv, ChecksAreRight

LEMMA ApprovePostsInv == Inv /\ ApprovePosts => Inv'
<1> SUFFICES ASSUME Inv, ApprovePosts PROVE Inv'
  OBVIOUS
<1> DEFINE old == checks[approve.newest]
           new == Check(approve.head, ApprovedConclusion(old.verdict, approve.approval), old.verdict, old.rows, TRUE)
           n == Len(checks) + 1
<1>1. /\ UNCHANGED <<bound, head, reviews, expired, comments, queued, started, rowsAt, event, report, failures, overtaken>>
      /\ checks' = Append(checks, new) /\ approve' = NoApprove /\ approve.pc = "post"
  BY DEF ApprovePosts, Approving
<1>2. /\ ReportIsRight(report) /\ report \in ReportType /\ ApproveIsRight(approve) /\ approve \in ApproveType /\ Host
      /\ overtaken \in BOOLEAN /\ checks \in Seq(CheckType) /\ head \in Nat /\ ChecksAreSound /\ FailureIsOver /\ Repeats
  BY DEF Inv, ReportIsRight, ApproveIsRight, Host, ChecksAreRight
<1>3. /\ approve.newest \in DOMAIN checks /\ old.commit = approve.head
      /\ (~overtaken => IsLast(approve.newest)) /\ (approve.approval => Approved(approve.head))
  BY <1>1, <1>2 DEF ApproveIsRight
<1>4. old \in CheckType /\ approve.head \in Nat /\ approve.approval \in BOOLEAN
  BY <1>2, <1>3 DEF ApproveType
<1>5. /\ old.commit \in 1..head /\ (old.rows # NoRow => rowsAt[old.rows] # 0)
      /\ (old.verdict = "failure" => Cardinality(Reported) > PullBudget)
  BY <1>2, <1>3 DEF ChecksAreSound, FailureIsOver
<1>6. (Reported \cup {old.rows}) \ {NoRow} = Reported
  BY <1>3 DEF Reported
<1> HIDE DEF old
<1>7. /\ old.verdict \in {"neutral", "failure"} /\ old.rows \in Row \cup {NoRow}
  BY <1>4 DEF CheckType, Verdict
<1> DEFINE concluded == ApprovedConclusion(old.verdict, approve.approval)
<1>8. concluded \in {"neutral", "failure"} /\ (old.verdict = "failure" => ((concluded = "neutral") <=> approve.approval))
  BY <1>4, <1>7 DEF ApprovedConclusion
<1>9. new = Check(approve.head, concluded, old.verdict, old.rows, TRUE)
  OBVIOUS
<1> HIDE DEF concluded, new
<1>10. /\ new \in CheckType /\ new.commit = approve.head /\ new.conclusion = concluded
       /\ new.verdict = old.verdict /\ new.rows = old.rows /\ new.digest = (old.rows # NoRow) /\ new.again = TRUE
  BY <1>4, <1>7, <1>8, <1>9 DEF Check, CheckType, Verdict
<1>11. /\ checks' \in Seq(CheckType) /\ ChecksAreSound' /\ ApprovalBindsHead' /\ FailureIsOver'
       /\ Reported' = (Reported \cup {new.rows}) \ {NoRow}
  <2>1. /\ new.commit \in 1..head /\ (new.rows # NoRow => rowsAt[new.rows] # 0)
        /\ (new.verdict = "failure" /\ new.conclusion = "neutral" => Approved(new.commit))
        /\ (new.verdict = "failure" => Cardinality((Reported \cup {new.rows}) \ {NoRow}) > PullBudget)
    BY <1>3, <1>5, <1>6, <1>8, <1>10
  <2>2. \E m \in DOMAIN checks : checks[m].commit = new.commit
    BY <1>3, <1>10 DEF old
  <2> QED
    BY <1>1, <1>10, <2>1, <2>2, PostIsSound
<1>12. /\ DOMAIN checks' = DOMAIN checks \cup {n} /\ checks'[n] = new /\ Len(checks) \in Nat /\ Len(checks') = n
       /\ DOMAIN checks = 1..Len(checks) /\ \A k \in DOMAIN checks : checks'[k] = checks[k] /\ k < n
  BY <1>1, <1>2, <1>10, Posted
<1>13. n \in Nat /\ Len(checks) <= n
  BY <1>12
<1> HIDE DEF n
<1>14. \A k \in DOMAIN checks : IsLast(k)' => IsLast(k) /\ checks[k].commit # new.commit
  <2> SUFFICES ASSUME NEW k \in DOMAIN checks, IsLast(k)' PROVE IsLast(k) /\ checks[k].commit # new.commit
    OBVIOUS
  <2>1. IsLast(k)
    BY <1>12 DEF IsLast
  <2>2. checks[k].commit = new.commit => n <= k
    BY <1>12 DEF IsLast
  <2> QED
    BY <1>12, <1>13, <2>1, <2>2
<1>15. Repeats'
  <2> SUFFICES ASSUME ~overtaken, NEW k \in DOMAIN checks', NEW m \in DOMAIN checks',
                      checks'[k].commit = checks'[m].commit, IsLast(k)', IsLastReport(m)'
               PROVE  checks'[k].rows = checks'[m].rows /\ checks'[k].verdict = checks'[m].verdict
    BY <1>1 DEF Repeats
  <2>1. m \in DOMAIN checks /\ IsLastReport(m)
    BY <1>10, <1>12 DEF IsLastReport
  <2>2. CASE k = n
    <3>1. checks[approve.newest].rows = checks[m].rows /\ checks[approve.newest].verdict = checks[m].verdict
      BY <1>2, <1>3, <1>10, <1>12, <2>1, <2>2 DEF Repeats, old
    <3> QED
      BY <1>10, <1>12, <2>1, <2>2, <3>1 DEF old
  <2>3. CASE k \in DOMAIN checks
    BY <1>2, <1>12, <1>14, <2>1, <2>3 DEF Repeats
  <2> QED
    BY <1>12, <2>2, <2>3
<1>16. ReportIsRight(report)'
  <2>1. Reported' = Reported
    BY <1>6, <1>10, <1>11
  <2>2. \A c : Approved(c)' <=> Approved(c)
    BY <1>1 DEF Approved
  <2>3. report.read \subseteq DOMAIN checks'
    BY <1>2, <1>12 DEF ReportIsRight
  <2> QED
    BY <1>1, <1>2, <2>1, <2>2, <2>3 DEF ReportIsRight
<1>17. ApproveIsRight(approve)'
  <2>1. head' \in Nat /\ 0 <= Len(checks')
    BY <1>1, <1>2, <1>12, <1>13
  <2> QED
    BY <1>1, <2>1, NoApproveFields DEF ApproveIsRight
<1>18. Follows'
  <2> SUFFICES ASSUME failures' = 0, ~overtaken' PROVE ChecksFollow' /\ ApproveFollows' /\ ReportFollows(report)'
    BY DEF Follows
  <2>1. ChecksFollow /\ ApproveFollows /\ ReportFollows(report)
    BY <1>1 DEF Inv, Follows
  <2>2. ChecksFollow'
    <3> SUFFICES ASSUME NEW k \in DOMAIN checks', checks'[k].commit = head, IsLast(k)', checks'[k].verdict = "failure"
                 PROVE  event \/ Agrees(checks'[k].conclusion = "neutral")
      BY <1>1, SameReviews DEF ChecksFollow
    <3>1. CASE k \in DOMAIN checks
      <4>1. checks[k].commit = head /\ IsLast(k) /\ checks[k].verdict = "failure" /\ approve.head # head
        BY <1>10, <1>12, <1>14, <3>1
      <4> QED
        BY <1>12, <2>1, <3>1, <4>1 DEF ChecksFollow
    <3>2. CASE k = n
      <4>1. event \/ Agrees(approve.approval)
        BY <1>1, <1>10, <1>12, <2>1, <3>2 DEF ApproveFollows
      <4>2. (checks'[k].conclusion = "neutral") <=> approve.approval
        BY <1>8, <1>10, <1>12, <3>2
      <4> QED
        BY <4>1, <4>2 DEF Agrees
    <3> QED
      BY <1>12, <3>1, <3>2
  <2>3. ApproveFollows'
    BY <1>1, NoApproveFields DEF ApproveFollows
  <2>4. ReportFollows(report)'
    BY <1>1, <1>2, <2>1, SameReviews DEF ReportFollows, ReportType
  <2> QED
    BY <2>2, <2>3, <2>4
<1>19. Host'
  BY <1>1, <1>2 DEF Host
<1> QED
  BY <1>11, <1>15, <1>16, <1>17, <1>18, <1>19 DEF Inv, ChecksAreRight

-----------------------------------------------------------------------------
(* The invariant.                                                          *)

LEMMA InitInv == Init => Inv
<1> SUFFICES ASSUME Init PROVE Inv
  OBVIOUS
<1>1. PICK old \in {NoRow} \cup Row, digest \in BOOLEAN :
        /\ rowsAt = [r \in Row |-> IF r = old THEN 1 ELSE 0]
        /\ checks = IF old = NoRow THEN <<>>
                    ELSE <<[Check(1, "neutral", "neutral", old, FALSE) EXCEPT !.digest = digest]>>
  BY DEF Init
<1>2. /\ bound \in Bounds /\ head = 1 /\ reviews = <<>> /\ expired = 0 /\ comments = 0 /\ queued = 1 /\ started = 0
      /\ event = FALSE /\ report = NoReport /\ approve = NoApprove /\ failures = 0 /\ overtaken = FALSE
  BY DEF Init
<1>3. Host
  <2>1. bound.commits \in Nat /\ bound.commits > 0 /\ bound.reports \in Nat
    BY <1>2, PullCheckAssumption
  <2>2. rowsAt \in [Row -> Nat] /\ \A r \in Row : rowsAt[r] <= head
    BY <1>1, <1>2
  <2>3. reviews \in Seq(ReviewType) /\ Len(reviews) = 0 /\ 0 <= bound.reports /\ 1 <= bound.commits
    BY <1>2, <2>1
  <2>4. /\ head \in Nat \ {0} /\ head <= bound.commits /\ expired \in Nat /\ expired <= Len(reviews)
        /\ comments \in 0..1 /\ queued \in Nat /\ queued <= head /\ started \in Nat /\ started <= bound.reports
    BY <1>2, <2>1, <2>3
  <2> QED
    BY <1>2, <2>2, <2>3, <2>4 DEF Host
<1>4. /\ checks \in Seq(CheckType)
      /\ \A k \in DOMAIN checks :
           /\ checks[k].commit = 1 /\ checks[k].rows = old /\ old # NoRow /\ checks[k].verdict = "neutral"
           /\ ~checks[k].again /\ k = 1
  <2>1. CASE old = NoRow
    <3>1. checks = <<>>
      BY <1>1, <2>1
    <3> QED
      BY <3>1
  <2>2. CASE old # NoRow
    <3> DEFINE c == Check(1, "neutral", "neutral", old, FALSE)
               e == [c EXCEPT !.digest = digest]
    <3>1. c \in CheckType /\ c.commit = 1 /\ c.rows = old /\ c.verdict = "neutral" /\ ~c.again
      BY <1>1 DEF Check, CheckType, Verdict
    <3>2. checks = <<e>>
      BY <1>1, <2>2
    <3> HIDE DEF c
    <3>3. e \in CheckType /\ e.commit = 1 /\ e.rows = old /\ e.verdict = "neutral" /\ ~e.again
      BY <1>1, <3>1 DEF CheckType
    <3> HIDE DEF e
    <3>4. checks \in Seq(CheckType) /\ \A k \in DOMAIN checks : k = 1 /\ checks[k] = e
      BY <3>2, <3>3
    <3> QED
      BY <2>2, <3>3, <3>4
  <2> QED
    BY <2>1, <2>2
<1>5. ChecksAreRight
  <2>1. old # NoRow => rowsAt[old] # 0
    BY <1>1
  <2>2. ChecksAreSound
    BY <1>2, <1>4, <2>1 DEF ChecksAreSound
  <2>3. Repeats
    BY <1>4 DEF Repeats
  <2> QED
    BY <1>4, <2>2, <2>3 DEF ChecksAreRight, ApprovalBindsHead, FailureIsOver
<1>6. ReportIsRight(report) /\ ReportFollows(report)
  BY <1>2, NoReportIsRight
<1>7. ApproveIsRight(approve)
  BY <1>2, <1>4, NoApproveIsRight
<1>8. ChecksFollow /\ ApproveFollows
  BY <1>2, <1>4, NoApproveFields DEF ChecksFollow, ApproveFollows
<1> QED
  BY <1>3, <1>5, <1>6, <1>7, <1>8 DEF Inv, Follows

LEMMA StutterInv == Inv /\ UNCHANGED vars => Inv'
<1> SUFFICES ASSUME Inv, UNCHANGED vars PROVE Inv'
  OBVIOUS
<1>1. UNCHANGED <<bound, head, reviews, expired, checks, comments, queued, started, rowsAt, event, report, approve, failures, overtaken>>
  BY DEF vars
<1>2. comments' \in 0..1 /\ failures' \in Nat /\ failures' >= failures
  BY <1>1 DEF Inv, Host
<1>3. ReportIsRight(report')
  BY <1>1 DEF Inv
<1>4. failures' = 0 /\ ~overtaken => ReportFollows(report')
  BY <1>1 DEF Inv, Follows
<1> QED
  BY <1>1, <1>2, <1>3, <1>4, ReportMoves

LEMMA NextInv == Inv /\ [Next]_vars => Inv'
<1> SUFFICES ASSUME Inv, [Next]_vars PROVE Inv'
  OBVIOUS
<1>1. CASE Push
  BY <1>1, PushInv
<1>2. CASE Comment \/ \E c \in 1..head : ReRun(c)
  BY <1>2, ReRunInv
<1>3. CASE Expire
  BY <1>3, ExpireInv
<1>4. CASE \E who \in bound.people, state \in {"APPROVED", "CHANGES_REQUESTED"}, c \in 1..head : Submit(who, state, c)
  BY <1>4, SubmitInv
<1>5. CASE \E i \in DOMAIN reviews : Dismiss(i)
  BY <1>5, DismissInv
<1>6. CASE Report
  BY <1>6, StartReportInv, ReadCommitInv, HistoryFailsInv, decideVerdictInv, ReportReadsPullInv, ReportReadsReviewsInv,
     ReportApprovalFailsInv, ReportPostsInv, ReportPostFailsInv, ReportGoesInv DEF Report
<1>7. CASE Approve
  BY <1>7, StartApproveInv, ApproveReadsReviewsInv, ApproveFailsInv, ReconcludeInv, ApprovePostsInv DEF Approve
<1>8. CASE UNCHANGED vars
  BY <1>8, StutterInv
<1> QED
  BY <1>1, <1>2, <1>3, <1>4, <1>5, <1>6, <1>7, <1>8 DEF Next

(* The invariant holds in every reachable state. *)
THEOREM SpecInv == Spec => []Inv
  BY InitInv, NextInv, PTL DEF Spec

-----------------------------------------------------------------------------
(* The properties.                                                         *)

(* Every variable has its type: the jobs hold commits and check runs that  *)
(* exist, and there is at most one comment.                                *)
THEOREM SpecTypeOK == Spec => []TypeOK
<1>1. Inv => TypeOK
  <2> SUFFICES ASSUME Inv PROVE TypeOK
    OBVIOUS
  <2>1. Host /\ ChecksAreRight /\ ReportIsRight(report) /\ ApproveIsRight(approve)
    BY DEF Inv
  <2>2. bound.commits \in Nat /\ bound.reports \in Nat
    BY <2>1, PullCheckAssumption DEF Host
  <2>3. Len(reviews) \in Nat /\ Len(checks) \in Nat
    BY <2>1 DEF Host, ChecksAreRight
  <2>4. /\ head \in 1..bound.commits /\ comments \in 0..1 /\ expired \in 0..Len(reviews)
        /\ queued \in 0..head /\ started \in 0..bound.reports
    BY <2>1, <2>2, <2>3 DEF Host
  <2>5. rowsAt \in [Row -> 0..head] /\ event \in BOOLEAN
    BY <2>1 DEF Host
  <2>6. \A k \in DOMAIN checks :
          /\ checks[k].commit \in 1..head /\ checks[k].rows \in Row \cup {NoRow}
          /\ {checks[k].conclusion, checks[k].verdict} \subseteq {"neutral", "failure"}
    <3>1. \A k \in DOMAIN checks : checks[k] \in CheckType
      BY <2>1 DEF ChecksAreRight
    <3> QED
      BY <2>1, <3>1 DEF ChecksAreRight, ChecksAreSound, CheckType, Verdict
  <2>7. report.commit \in 0..head /\ report.read \subseteq DOMAIN checks
    BY <2>1, <2>4 DEF ReportIsRight, ReportType, Host
  <2>8. approve.newest \in 0..Len(checks)
    BY <2>1, <2>3 DEF ApproveIsRight, ApproveType
  <2> QED
    BY <2>4, <2>5, <2>6, <2>7, <2>8 DEF TypeOK
<1> QED
  BY <1>1, SpecInv, PTL

(* A failed verdict concludes neutral only on a check of a commit that     *)
(* someone who may approve it approved (CountReview, reportApproval).      *)
THEOREM SpecApprovalBindsHead == Spec => []ApprovalBindsHead
<1>1. Inv => ApprovalBindsHead
  BY DEF Inv, ChecksAreRight
<1> QED
  BY <1>1, SpecInv, PTL

(* Once both jobs are done, with no request failed and no job overtaken, a *)
(* failed verdict on the head concludes what the reviews give, or gave     *)
(* before they expired (report and reconclude each read the reviews).      *)
THEOREM SpecConclusionFollowsReviews == Spec => []ConclusionFollowsReviews
<1>1. Inv => ConclusionFollowsReviews
  <2> SUFFICES ASSUME Inv, Quiet, failures = 0, ~overtaken PROVE NewestAgrees
    BY DEF ConclusionFollowsReviews
  <2> DEFINE k == newestCheck(head)
  <2>1. checks \in Seq(CheckType) /\ head \in Nat /\ reviews \in Seq(ReviewType) /\ expired \in Nat
    BY DEF Inv, ChecksAreRight, Host
  <2>2. \/ k = 0
        \/ /\ k \in DOMAIN checks /\ checks[k].commit = head
           /\ \A j \in DOMAIN checks : checks[j].commit = head => j <= k
    BY <2>1, NewestCheck
  <2> HIDE DEF k
  <2>3. SUFFICES ASSUME k # 0, checks[k].verdict = "failure"
                 PROVE  \/ checks[k].conclusion = IF HeadIsApproved THEN "neutral" ELSE "failure"
                        \/ checks[k].conclusion = "neutral" /\ expired > 0
    BY DEF NewestAgrees, k
  <2>4. k \in DOMAIN checks /\ checks[k].commit = head /\ IsLast(k)
    BY <2>2, <2>3 DEF IsLast
  <2>5. Agrees(checks[k].conclusion = "neutral")
    BY <2>3, <2>4 DEF Inv, Follows, ChecksFollow, Quiet
  <2>6. checks[k].conclusion \in {"neutral", "failure"}
    <3>1. checks[k] \in CheckType
      BY <2>1, <2>4
    <3> QED
      BY <3>1 DEF CheckType, Verdict
  <2>7. HeadIsApproved <=> ApprovalOf(head)
    BY <2>1, HeadApproved
  <2> QED
    BY <2>5, <2>6, <2>7 DEF Agrees
<1> QED
  BY <1>1, SpecInv, PTL

(* The newest check of a commit carries its newest report's rows and       *)
(* verdict, unless a job posted over what the other had read (newestCheck, *)
(* Reconclude).                                                            *)
THEOREM SpecNewestReportStands == Spec => []NewestReportStands
<1>1. Inv => NewestReportStands
  <2> SUFFICES ASSUME Inv, ~overtaken, NEW c \in 1..head, On(c) # {}
               PROVE  LET of == {k \in On(c) : ~checks[k].again}
                      IN /\ checks[Max(On(c))].rows = checks[Max(of)].rows
                         /\ checks[Max(On(c))].verdict = checks[Max(of)].verdict
    BY DEF NewestReportStands
  <2> DEFINE all == On(c)
             of == {k \in all : ~checks[k].again}
  <2>1. checks \in Seq(CheckType) /\ ChecksAreSound /\ Repeats
    BY DEF Inv, ChecksAreRight
  <2>2. DOMAIN checks = 1..Len(checks) /\ Len(checks) \in Nat
    BY <2>1
  <2>3. of # {}
    <3>1. PICK k \in DOMAIN checks : checks[k].commit = c
      BY DEF On
    <3>2. PICK m \in DOMAIN checks : checks[m].commit = checks[k].commit /\ ~checks[m].again
      BY <2>1 DEF ChecksAreSound
    <3> QED
      BY <3>1, <3>2 DEF On
  <2>4. all \in SUBSET Nat /\ of \in SUBSET Nat /\ (\A x \in all : x <= Len(checks)) /\ (\A x \in of : x <= Len(checks))
    BY <2>2 DEF On
  <2>5. /\ \A x : x \in all <=> x \in DOMAIN checks /\ checks[x].commit = c
        /\ \A x : x \in of <=> x \in DOMAIN checks /\ checks[x].commit = c /\ ~checks[x].again
    BY DEF On
  <2> HIDE DEF all, of
  <2>6. Max(all) \in all /\ \A x \in all : x <= Max(all)
    BY <2>2, <2>4, MaxOf DEF all
  <2>7. Max(of) \in of /\ \A x \in of : x <= Max(of)
    BY <2>2, <2>3, <2>4, MaxOf
  <2>8. IsLast(Max(all)) /\ IsLastReport(Max(of))
    BY <2>5, <2>6, <2>7 DEF IsLast, IsLastReport
  <2>9. checks[Max(all)].rows = checks[Max(of)].rows /\ checks[Max(all)].verdict = checks[Max(of)].verdict
    BY <2>1, <2>5, <2>6, <2>7, <2>8 DEF Repeats
  <2> QED
    BY <2>9 DEF all, of
<1> QED
  BY <1>1, SpecInv, PTL

(* The total of a comment counts no run twice without saying so. *)
LEMMA TotalCounts == Inv => TotalNotOver
<1> DEFINE D == (Digests(report.read) \cup {report.rows}) \ {NoRow}
           U == Undigested(report.read)
           runs == {r \in Row : rowsAt[r] # 0}
<1> SUFFICES ASSUME Inv, ~(U # {} /\ Cardinality(D) + Cardinality(U) > 1)
             PROVE  Cardinality(D) + Cardinality(U) <= Cardinality(runs)
  BY DEF TotalNotOver, Total
<1>1. checks \in Seq(CheckType) /\ ChecksAreSound /\ ReportIsRight(report) /\ report \in ReportType
  BY DEF Inv, ChecksAreRight, ReportIsRight
<1>2. /\ report.read \subseteq DOMAIN checks /\ report.rows \in Row \cup {NoRow}
      /\ (report.rows # NoRow => rowsAt[report.rows] # 0)
  BY <1>1 DEF ReportIsRight, ReportType
<1>3. \A k \in DOMAIN checks : checks[k].rows # NoRow => checks[k].rows \in runs
  <2>1. \A k \in DOMAIN checks : checks[k] \in CheckType
    BY <1>1
  <2> QED
    BY <1>1, <2>1 DEF ChecksAreSound, CheckType
<1>4. D \subseteq runs
  <2> SUFFICES ASSUME NEW x \in Digests(report.read), x # NoRow PROVE x \in runs
    BY <1>2
  <2>1. PICK k \in report.read : x = checks[k].rows
    BY DEF Digests
  <2> QED
    BY <1>2, <1>3, <2>1
<1>5. IsFiniteSet(runs) /\ Cardinality(runs) \in Nat
  BY PullCheckAssumption, FS_Subset, FS_CardinalityType
<1>6. IsFiniteSet(D) /\ Cardinality(D) \in Nat /\ Cardinality(D) <= Cardinality(runs)
  BY <1>4, <1>5, FS_Subset, FS_CardinalityType
<1>7. CASE U = {}
  <2>1. Cardinality(U) = 0
    BY <1>7, FS_EmptySet
  <2> HIDE DEF D, U, runs
  <2> QED
    BY <1>5, <1>6, <2>1
<1>8. CASE U # {}
  <2>1. PICK k \in report.read : checks[k].rows # NoRow
    BY <1>8 DEF Undigested
  <2>2. runs # {}
    BY <1>2, <1>3, <2>1
  <2>3. Cardinality(runs) # 0
    BY <1>5, <2>2, FS_EmptySet
  <2>4. IsFiniteSet(U)
    <3>1. U \subseteq 1..Len(checks) /\ Len(checks) \in Nat
      BY <1>1, <1>2 DEF Undigested
    <3>2. IsFiniteSet(1..Len(checks))
      BY <3>1, FS_Interval
    <3> QED
      BY <3>1, <3>2, FS_Subset
  <2>5. Cardinality(U) \in Nat
    BY <2>4, FS_CardinalityType
  <2> HIDE DEF D, U, runs
  <2> QED
    BY <1>5, <1>6, <1>8, <2>3, <2>5
<1> QED
  BY <1>7, <1>8

(* The policy fails a pull request only when the different runs reported   *)
(* on it pass the budget; the total of its comment is at most one unit for *)
(* each run, or says that it may repeat; and it has one comment (Earlier,  *)
(* Total, postComment).                                                    *)
THEOREM SpecFiguresHold == Spec => []FiguresHold
<1>1. Inv => FiguresHold
  <2> SUFFICES ASSUME Inv PROVE FiguresHold
    OBVIOUS
  <2>1. comments <= 1 /\ FailureIsOver
    BY DEF Inv, Host, ChecksAreRight
  <2> QED
    BY <2>1, TotalCounts DEF FiguresHold
<1> QED
  BY <1>1, SpecInv, PTL

-----------------------------------------------------------------------------
(* The follow-up of a fork's pull request.                                 *)

Runs == [event : {"pull_request", "push"}, repository : Forks \cup {"base"}, sha : Commits]
Jobs == {Waiting, Ended} \cup [step : {"begun", "pulled", "confirmed"}, run : Runs]

ForkTypes ==
  /\ branch \in [Branches -> Commits \cup {""}] /\ finished \subseteq Runs
  /\ judged \subseteq Branches /\ followUp \in [FollowUps -> Jobs]
  /\ shown \in [Commits -> [by : {"none", "own", "fork"}, conclusion : Conclusions \cup {"none"}]]

(* A branch at a commit that a job is about to post on came there after    *)
(* the job looked.                                                         *)
LateBranches ==
  \A j \in FollowUps, b \in Branches :
    followUp[j].step = "confirmed" /\ branch[b] = followUp[j].run.sha => b \in raced

ForkInv ==
  /\ ForkTypes /\ LateBranches
  /\ \A b \in judged : branch[b] # ""
  /\ ForkSettlesNothing

LEMMA JobSteps ==
  /\ Waiting \in Jobs /\ Waiting.step = "waiting" /\ Ended \in Jobs /\ Ended.step = "ended"
  /\ \A job \in Jobs : job.step \in {"begun", "pulled", "confirmed"} => job.run \in Runs /\ job.run.sha \in Commits
  BY DEF Waiting, Ended, Jobs, Runs

LEMMA ForkInitInv == ForkInit => ForkInv
<1> SUFFICES ASSUME ForkInit PROVE ForkInv
  OBVIOUS
<1>1. ForkTypes
  BY JobSteps DEF ForkInit, ForkTypes, NoCheck, Conclusions
<1>2. LateBranches
  BY JobSteps DEF ForkInit, LateBranches
<1>3. (\A b \in judged : branch[b] # "") /\ ForkSettlesNothing
  BY DEF ForkInit, ForkSettlesNothing, NoCheck
<1> QED
  BY <1>1, <1>2, <1>3 DEF ForkInv

LEMMA PushBranchInv ==
  ASSUME ForkInv, NEW b \in Branches, NEW c \in Commits, PushBranch(b, c)
  PROVE  ForkInv'
<1>1. /\ branch' = [branch EXCEPT ![b] = c] /\ judged' = judged \ {b} /\ shown' = shown /\ followUp' = followUp
      /\ finished' = finished \cup {[event |-> "pull_request", repository |-> "base", sha |-> c]}
      /\ raced' = IF \E j \in FollowUps : followUp[j].step = "confirmed" /\ followUp[j].run.sha = c
                    THEN raced \cup {b} ELSE raced \ {b}
  BY DEF PushBranch
<1>2. ForkTypes /\ LateBranches /\ (\A d \in judged : branch[d] # "") /\ ForkSettlesNothing
  BY DEF ForkInv
<1>3. branch'[b] = c /\ \A d \in Branches : d # b => branch'[d] = branch[d] /\ (d \in raced' <=> d \in raced)
  BY <1>1, <1>2 DEF ForkTypes
<1>4. ForkTypes'
  <2>1. [event |-> "pull_request", repository |-> "base", sha |-> c] \in Runs
    BY DEF Runs
  <2>2. finished' \subseteq Runs
    BY <1>1, <1>2, <2>1 DEF ForkTypes
  <2>3. branch' \in [Branches -> Commits \cup {""}] /\ judged' \subseteq Branches
    BY <1>1, <1>2 DEF ForkTypes
  <2> QED
    BY <1>1, <1>2, <2>2, <2>3 DEF ForkTypes
<1>5. LateBranches'
  BY <1>1, <1>2, <1>3 DEF LateBranches
<1>6. \A d \in judged' : d \in judged /\ d # b /\ d \in Branches
  BY <1>1, <1>2 DEF ForkTypes
<1>7. (\A d \in judged' : branch'[d] # "") /\ ForkSettlesNothing'
  BY <1>1, <1>2, <1>3, <1>6 DEF ForkSettlesNothing
<1> QED
  BY <1>4, <1>5, <1>7 DEF ForkInv

LEMMA JudgeInv ==
  ASSUME ForkInv, NEW b \in Branches, NEW conclusion \in Conclusions, Judge(b, conclusion)
  PROVE  ForkInv'
<1> DEFINE own == [by |-> "own", conclusion |-> conclusion]
<1>1. /\ branch[b] # "" /\ judged' = judged \cup {b} /\ shown' = [shown EXCEPT ![branch[b]] = own]
      /\ UNCHANGED <<branch, finished, followUp, raced>>
  BY DEF Judge
<1>2. ForkTypes /\ LateBranches /\ (\A d \in judged : branch[d] # "") /\ ForkSettlesNothing
  BY DEF ForkInv
<1>3. own \in [by : {"none", "own", "fork"}, conclusion : Conclusions \cup {"none"}] /\ own.by = "own"
  OBVIOUS
<1> HIDE DEF own
<1>4. branch[b] \in Commits
  BY <1>1, <1>2 DEF ForkTypes
<1>5. shown'[branch[b]] = own /\ \A c \in Commits : c # branch[b] => shown'[c] = shown[c]
  BY <1>1, <1>2, <1>4 DEF ForkTypes
<1>6. ForkTypes'
  BY <1>1, <1>2, <1>3, <1>4 DEF ForkTypes
<1>7. LateBranches'
  BY <1>1, <1>2 DEF LateBranches
<1>8. \A d \in judged' : branch[d] \in Commits /\ branch[d] # ""
  BY <1>1, <1>2, <1>4 DEF ForkTypes
<1>9. \A d \in judged' \ raced' : shown'[branch'[d]].by = "own"
  <2> SUFFICES ASSUME NEW d \in judged', d \notin raced PROVE shown'[branch[d]].by = "own"
    BY <1>1
  <2>1. CASE branch[d] = branch[b]
    BY <1>3, <1>5, <2>1
  <2>2. CASE branch[d] # branch[b]
    BY <1>1, <1>2, <1>5, <1>8, <2>2 DEF ForkSettlesNothing
  <2> QED
    BY <2>1, <2>2
<1>10. \A c \in Commits : shown'[c].by = "fork" => shown'[c].conclusion = "neutral"
  BY <1>2, <1>3, <1>5 DEF ForkSettlesNothing
<1> QED
  BY <1>1, <1>6, <1>7, <1>8, <1>9, <1>10 DEF ForkInv, ForkSettlesNothing

(* A job that goes on is about a fork's run, and is confirmed only when no *)
(* branch is at its commit.                                                *)
LEMMA StepInv ==
  ASSUME ForkInv, NEW j \in FollowUps, NEW job \in Jobs, Step(j, job), shown' = shown,
         job.step = "confirmed" => \A b \in Branches : branch[b] # job.run.sha
  PROVE  ForkInv'
<1>1. followUp' = [followUp EXCEPT ![j] = job] /\ UNCHANGED <<branch, finished, judged, raced>>
  BY DEF Step
<1>2. ForkTypes /\ LateBranches /\ (\A d \in judged : branch[d] # "") /\ ForkSettlesNothing
  BY DEF ForkInv
<1>3. followUp'[j] = job /\ \A i \in FollowUps : i # j => followUp'[i] = followUp[i]
  BY <1>1, <1>2 DEF ForkTypes
<1>4. ForkTypes'
  BY <1>1, <1>2 DEF ForkTypes
<1>5. LateBranches'
  BY <1>1, <1>2, <1>3 DEF LateBranches
<1> QED
  BY <1>1, <1>2, <1>4, <1>5 DEF ForkInv, ForkSettlesNothing

LEMMA FollowUpInv ==
  ASSUME ForkInv, NEW j \in FollowUps,
         (\E run \in finished : Begin(j, run)) \/ FindPull(j) \/ FindBranches(j) \/ RequestFails(j)
  PROVE  ForkInv'
<1>1. finished \subseteq Runs /\ followUp[j] \in Jobs
  BY DEF ForkInv, ForkTypes
<1>2. CASE \E run \in finished : Begin(j, run)
  <2>1. PICK run \in finished : Begin(j, run)
    BY <1>2
  <2>2. [step |-> "begun", run |-> run] \in Jobs
    BY <1>1 DEF Jobs
  <2> DEFINE job == IF isForkRun(run) THEN [step |-> "begun", run |-> run] ELSE Ended
  <2>3. job \in Jobs /\ job.step # "confirmed" /\ Step(j, job) /\ shown' = shown
    BY <2>1, <2>2, JobSteps DEF Begin
  <2> HIDE DEF job
  <2> QED
    BY <2>3, StepInv
<1>3. CASE FindPull(j)
  <2> DEFINE run == followUp[j].run
             job == IF matchedPulls(run) = 1 THEN [step |-> "pulled", run |-> run] ELSE Ended
  <2>1. run \in Runs /\ Step(j, job) /\ shown' = shown
    BY <1>1, <1>3, JobSteps DEF FindPull
  <2>2. [step |-> "pulled", run |-> run] \in Jobs
    BY <2>1 DEF Jobs
  <2>3. job \in Jobs /\ job.step # "confirmed"
    BY <2>2, JobSteps
  <2> HIDE DEF job, run
  <2> QED
    BY <2>1, <2>3, StepInv
<1>4. CASE FindBranches(j)
  <2> DEFINE run == followUp[j].run
             job == IF BranchesAt(run) = {} THEN [step |-> "confirmed", run |-> run] ELSE Ended
  <2>1. run \in Runs /\ Step(j, job) /\ shown' = shown
    BY <1>1, <1>4, JobSteps DEF FindBranches
  <2>2. [step |-> "confirmed", run |-> run] \in Jobs
    BY <2>1 DEF Jobs
  <2>3. job \in Jobs
    BY <2>2, JobSteps
  <2>4. job.step = "confirmed" => job.run = run /\ BranchesAt(run) = {}
    BY JobSteps
  <2>5. job.step = "confirmed" => \A b \in Branches : branch[b] # job.run.sha
    BY <2>4 DEF BranchesAt
  <2> HIDE DEF job, run
  <2> QED
    BY <2>1, <2>3, <2>5, StepInv
<1>5. CASE RequestFails(j)
  BY <1>5, JobSteps, StepInv DEF RequestFails
<1> QED
  BY <1>2, <1>3, <1>4, <1>5

LEMMA postFollowUpInv ==
  ASSUME ForkInv, NEW j \in FollowUps, NEW verdict \in Conclusions \cup {"none"}, postFollowUp(j, verdict)
  PROVE  ForkInv'
<1> DEFINE c == followUp[j].run.sha
           posted == [by |-> "fork", conclusion |-> ForkConclusion(capAtNeutral(verdict))]
<1>1. /\ followUp[j].step = "confirmed" /\ followUp' = [followUp EXCEPT ![j] = Ended]
      /\ shown' = [shown EXCEPT ![c] = posted] /\ UNCHANGED <<branch, finished, judged, raced>>
  BY DEF postFollowUp, Step
<1>2. ForkTypes /\ LateBranches /\ (\A d \in judged : branch[d] # "") /\ ForkSettlesNothing
  BY DEF ForkInv
<1>3. posted = [by |-> "fork", conclusion |-> "neutral"]
  BY DEF ForkConclusion, capAtNeutral
<1>4. /\ posted \in [by : {"none", "own", "fork"}, conclusion : Conclusions \cup {"none"}]
      /\ posted.conclusion = "neutral"
  BY <1>3 DEF Conclusions
<1> HIDE DEF posted
<1>5. c \in Commits
  BY <1>1, <1>2, JobSteps DEF ForkTypes
<1>6. \A b \in Branches : branch[b] = c => b \in raced
  BY <1>1, <1>2 DEF LateBranches
<1> HIDE DEF c
<1>7. shown'[c] = posted /\ \A d \in Commits : d # c => shown'[d] = shown[d]
  BY <1>1, <1>2, <1>5 DEF ForkTypes
<1>8. followUp'[j] = Ended /\ \A i \in FollowUps : i # j => followUp'[i] = followUp[i]
  BY <1>1, <1>2 DEF ForkTypes
<1>9. ForkTypes'
  BY <1>1, <1>2, <1>4, JobSteps DEF ForkTypes
<1>10. LateBranches'
  BY <1>1, <1>2, <1>8, JobSteps DEF LateBranches
<1>11. \A b \in judged' \ raced' : shown'[branch'[b]].by = "own"
  <2> SUFFICES ASSUME NEW b \in judged, b \notin raced PROVE shown'[branch[b]].by = "own"
    BY <1>1
  <2>1. b \in Branches /\ branch[b] # c /\ branch[b] \in Commits
    BY <1>2, <1>6 DEF ForkTypes
  <2> QED
    BY <1>2, <1>7, <2>1 DEF ForkSettlesNothing
<1>12. \A d \in Commits : shown'[d].by = "fork" => shown'[d].conclusion = "neutral"
  BY <1>2, <1>4, <1>7 DEF ForkSettlesNothing
<1> QED
  BY <1>1, <1>2, <1>9, <1>10, <1>11, <1>12 DEF ForkInv, ForkSettlesNothing

LEMMA PushForkInv ==
  ASSUME ForkInv, NEW f \in Forks, NEW c \in Commits, NEW open \in 0..2, PushFork(f, c, open)
  PROVE  ForkInv'
<1>1. UNCHANGED <<branch, judged, shown, followUp, raced>>
  BY DEF PushFork
<1>2. finished' \subseteq Runs
  <2>1. finished' \subseteq finished \cup {[event |-> "pull_request", repository |-> f, sha |-> c],
                                           [event |-> "push", repository |-> f, sha |-> c]}
    BY DEF PushFork
  <2>2. /\ [event |-> "pull_request", repository |-> f, sha |-> c] \in Runs
        /\ [event |-> "push", repository |-> f, sha |-> c] \in Runs
    BY DEF Runs
  <2> QED
    BY <2>1, <2>2 DEF ForkInv, ForkTypes
<1> QED
  BY <1>1, <1>2 DEF ForkInv, ForkTypes, LateBranches, ForkSettlesNothing

LEMMA ForkNextInv == ForkInv /\ [ForkNext]_forkVars => ForkInv'
<1> SUFFICES ASSUME ForkInv, [ForkNext]_forkVars PROVE ForkInv'
  OBVIOUS
<1>1. CASE \E b \in Branches, c \in Commits : PushBranch(b, c)
  BY <1>1, PushBranchInv
<1>2. CASE \E f \in Forks, c \in Commits, open \in 0..2 : PushFork(f, c, open)
  BY <1>2, PushForkInv
<1>3. CASE \E b \in Branches, conclusion \in Conclusions : Judge(b, conclusion)
  BY <1>3, JudgeInv
<1>4. CASE \E j \in FollowUps : (\E run \in finished : Begin(j, run)) \/ FindPull(j) \/ FindBranches(j) \/ RequestFails(j)
  BY <1>4, FollowUpInv
<1>5. CASE \E j \in FollowUps : \E verdict \in Conclusions \cup {"none"} : postFollowUp(j, verdict)
  BY <1>5, postFollowUpInv
<1>6. CASE UNCHANGED forkVars
  BY <1>6 DEF forkVars, ForkInv, ForkTypes, LateBranches, ForkSettlesNothing
<1> QED
  BY <1>1, <1>2, <1>3, <1>4, <1>5, <1>6 DEF ForkNext

(* A fork never settles a branch of this repository: the check of a        *)
(* branch's own report stays the one shown on its head, unless the branch  *)
(* came to a commit that a job had just confirmed, and a follow-up neither *)
(* passes nor fails anything (confirmForkPull, capAtNeutral).              *)
THEOREM SpecForkSettlesNothing == ForkSpec => []ForkSettlesNothing
<1>1. ForkInv => ForkSettlesNothing
  BY DEF ForkInv
<1> QED
  BY <1>1, ForkInitInv, ForkNextInv, PTL DEF ForkSpec
=============================================================================
