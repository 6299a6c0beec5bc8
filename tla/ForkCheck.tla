----------------------------- MODULE ForkCheck ------------------------------
(***************************************************************************)
(* costroid follow-up: the check of a fork's pull request, posted by a     *)
(* workflow_run job in the base repository. A check run belongs to a       *)
(* commit, and a fork can push any commit it can read, so the job asks the *)
(* host twice before it posts, while forks and maintainers go on pushing.  *)
(* On each commit GitHub shows the newest check of a name.                 *)
(***************************************************************************)
EXTENDS Integers, FiniteSets

CONSTANTS
  Commits,    \* commits
  Branches,   \* branches of the base repository
  Forks,      \* forks, each with one branch
  FollowUps,  \* follow-up jobs
  MaxMoves    \* bound on pushes

VARIABLES
  branch,     \* the commit at the head of each branch, "" when there is none
  fork,       \* each fork's branch head, and how many open pull requests it has
  finished,   \* runs whose workflow_run event waits for a follow-up
  judged,     \* branches whose own report has posted on their head
  shown,      \* the newest check of each commit
  followUp,   \* the follow-up jobs
  raced,      \* ghost: branches that came to a commit after a job looked for them
  moves

forkVars == <<branch, fork, finished, judged, shown, followUp, raced, moves>>

Waiting == [step |-> "waiting"]
Ended == [step |-> "ended"]
NoCheck == [by |-> "none", conclusion |-> "none"]
Conclusions == {"success", "failure", "neutral"}

ForkInit ==
  /\ branch \in [Branches -> {""}]
  /\ fork = [f \in Forks |-> [head |-> "", open |-> 0]]
  /\ finished = {} /\ judged = {}
  /\ shown = [c \in Commits |-> NoCheck]
  /\ followUp = [j \in FollowUps |-> Waiting]
  /\ raced = {} /\ moves = 0

-----------------------------------------------------------------------------
(* The host and its users.                                                 *)

(* A maintainer pushes a branch, and its own workflow runs again. Its run  *)
(* finishes as a workflow_run event too.                                   *)
PushBranch(b, c) ==
  /\ moves < MaxMoves /\ moves' = moves + 1
  /\ branch[b] # c /\ branch' = [branch EXCEPT ![b] = c]
  /\ judged' = judged \ {b}
  /\ raced' = IF \E j \in FollowUps : followUp[j].step = "confirmed" /\ followUp[j].run.sha = c
                THEN raced \cup {b} ELSE raced \ {b}
  /\ finished' = finished \cup {[event |-> "pull_request", repository |-> "base", sha |-> c]}
  /\ UNCHANGED <<fork, shown, followUp>>

(* A fork pushes any commit it can read, with up to two pull requests open *)
(* from its branch.                                                        *)
PushFork(f, c, open) ==
  /\ moves < MaxMoves /\ moves' = moves + 1
  /\ fork[f].head # c \/ fork[f].open # open
  /\ fork' = [fork EXCEPT ![f] = [head |-> c, open |-> open]]
  /\ finished' = finished \cup {[event |-> event, repository |-> f, sha |-> c] :
                                  event \in IF open > 0 THEN {"pull_request"} ELSE {"push"}}
  /\ UNCHANGED <<branch, judged, shown, followUp, raced>>

(* The branch's own report posts its verdict.                              *)
Judge(b, conclusion) ==
  /\ branch[b] # "" /\ b \notin judged
  /\ judged' = judged \cup {b}
  /\ shown' = [shown EXCEPT ![branch[b]] = [by |-> "own", conclusion |-> conclusion]]
  /\ UNCHANGED <<branch, fork, finished, followUp, raced, moves>>

-----------------------------------------------------------------------------
(* The follow-up.                                                          *)

Step(j, state) ==
  /\ followUp' = [followUp EXCEPT ![j] = state]
  /\ UNCHANGED <<branch, fork, finished, judged, raced, moves>>

(* forkRun: a fork's pull request run, and no other, gets a follow-up.     *)
isForkRun(run) == run.event = "pull_request" /\ run.repository # "base"

Begin(j, run) ==
  /\ followUp[j] = Waiting
  /\ Step(j, IF isForkRun(run) THEN [step |-> "begun", run |-> run] ELSE Ended)
  /\ UNCHANGED shown

(* OpenPullsFrom, then the pulls at the run's commit: exactly one.         *)
matchedPulls(run) == IF fork[run.repository].head = run.sha THEN fork[run.repository].open ELSE 0

FindPull(j) ==
  /\ followUp[j].step = "begun"
  /\ LET run == followUp[j].run IN
     Step(j, IF matchedPulls(run) = 1 THEN [step |-> "pulled", run |-> run] ELSE Ended)
  /\ UNCHANGED shown

(* Mutant: a pull request at the commit is enough.                         *)
AnyCommit(run) == {}

(* BranchesAt: a commit that heads a branch here gets nothing.             *)
BranchesAt(run) == {b \in Branches : branch[b] = run.sha}

FindBranches(j) ==
  /\ followUp[j].step = "pulled"
  /\ LET run == followUp[j].run IN
     Step(j, IF BranchesAt(run) = {} THEN [step |-> "confirmed", run |-> run] ELSE Ended)
  /\ UNCHANGED shown

(* A request that fails ends the job with nothing posted.                  *)
RequestFails(j) ==
  /\ followUp[j].step \in {"begun", "pulled", "confirmed"}
  /\ Step(j, Ended) /\ UNCHANGED shown

(* capAtNeutral: the fork's rows are its own statement. With no verdict    *)
(* there is nothing to cap.                                                *)
capAtNeutral(verdict) == IF verdict = "none" THEN "none" ELSE "neutral"

ForkConclusion(verdict) == IF verdict = "none" THEN "neutral" ELSE verdict

(* followUpVerdict concludes anything over the fork's rows, or nothing when*)
(* the policy cannot run.                                                  *)
postFollowUp(j, verdict) ==
  /\ followUp[j].step = "confirmed"
  /\ Step(j, Ended)
  /\ shown' = [shown EXCEPT ![followUp[j].run.sha] = [by |-> "fork", conclusion |-> ForkConclusion(capAtNeutral(verdict))]]

ForkNext ==
  \/ \E b \in Branches, c \in Commits : PushBranch(b, c)
  \/ \E f \in Forks, c \in Commits, open \in 0 .. 2 : PushFork(f, c, open)
  \/ \E b \in Branches, conclusion \in Conclusions : Judge(b, conclusion)
  \/ \E j \in FollowUps :
       \/ \E run \in finished : Begin(j, run)
       \/ FindPull(j) \/ FindBranches(j) \/ RequestFails(j)
       \/ \E verdict \in Conclusions \cup {"none"} : postFollowUp(j, verdict)

ForkSpec == ForkInit /\ [][ForkNext]_forkVars

-----------------------------------------------------------------------------
(* Properties.                                                             *)

(* A fork never settles a branch of this repository: once a branch's own   *)
(* report has posted on its head, that check stays the one GitHub shows    *)
(* there, whatever commit a fork opens a pull request with, and what the   *)
(* follow-up posts neither passes nor fails. Left out is a branch pushed   *)
(* to a commit between a job's last look and its post (confirmForkPull,    *)
(* capAtNeutral).                                                          *)
ForkSettlesNothing ==
  /\ \A b \in judged \ raced : shown[branch[b]].by = "own"
  /\ \A c \in Commits : shown[c].by = "fork" => shown[c].conclusion = "neutral"
=============================================================================
