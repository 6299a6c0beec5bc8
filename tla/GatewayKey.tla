----------------------------- MODULE GatewayKey -----------------------------
(***************************************************************************)
(* One CI run's key on a LiteLLM gateway (internal/gateway, cmd/costroid/  *)
(* gateway.go, internal/run/gateway.go). The agent's job draws the key and *)
(* runs on it, the minting job registers and attests it, and the closing   *)
(* job reads its count, deletes it and attests the count. The gateway is   *)
(* modelled from how these jobs use it. Every request costs the largest    *)
(* size the key states, a tick is one poll, and a call over the network    *)
(* can fail before or after it took effect.                                *)
(***************************************************************************)
EXTENDS Naturals

CONSTANTS
  RunBudget,    \* the run's budget
  Cost,         \* the largest request's price
  MaxParallel,  \* the key's parallel-request limit
  Setups,       \* the workflows and gateways: see SetupType
  Batch,        \* the most ticks between two writes of spend to the gateway's store
  Stable,       \* gatewaySpendStable, in ticks
  Settle,       \* gatewaySpendSettle, in ticks
  MaxRequests,  \* bound: the requests the agent makes
  None

(* Whether close runs beside the other jobs, --retry-after outlasts mint   *)
(* and a ledger is named; the budget mint is told; and how many requests   *)
(* the gateway may have answered and not counted when it admits one.       *)
SetupType == [beside : BOOLEAN, patient : BOOLEAN, ledger : BOOLEAN, budget : Nat \ {0}, late : Nat]

ASSUME GatewayKeyAssumption ==
  /\ RunBudget \in Nat \ {0} /\ Cost \in Nat \ {0}
  /\ MaxParallel \in Nat \ {0} /\ MaxRequests \in Nat
  /\ Batch \in Nat \ {0} /\ Stable \in Nat /\ Settle \in Nat
  /\ Setups \subseteq SetupType
  /\ Batch < Stable /\ Batch + Stable < Settle
  /\ None \notin Nat

VARIABLES
  setup,        \* the workflow
  gw,           \* the gateway: the key, and the requests on it
  run,          \* the agent's job
  mint,         \* the minting job's step
  close,        \* the closing job
  ledger,       \* what the ledger took: the key, and its spend
  outage        \* history: the gateway's store was down while the agent ran

vars == <<setup, gw, run, mint, close, ledger, outage>>

Ended == {"done", "failed"}

(* What Session.Spend and Counter.Settled keep between two polls. *)
NewRead(last) == [due |-> TRUE, last |-> last, age |-> 0, waited |-> 0]

(* What a call that the caller sees fail may have left. *)
Failed(before, after) == {before, after}

Init ==
  /\ setup \in Setups
  /\ gw = [key |-> "absent", up |-> TRUE, inFlight |-> 0, ended |-> 0, counted |-> 0, stored |-> 0, since |-> 0]
  /\ run = [step |-> "request", artifact |-> "none", answered |-> 0, cancelled |-> FALSE,
            failed |-> FALSE, grade |-> "none", gap |-> FALSE, read |-> NewRead(0)]
  /\ mint = "wait"
  /\ close = [step |-> "blocked", again |-> FALSE, count |-> None, unread |-> FALSE, read |-> NewRead(None)]
  /\ ledger = [minted |-> FALSE, spend |-> None]
  /\ outage = FALSE

-----------------------------------------------------------------------------
(* The gateway.                                                            *)

(* Without its store it serves and checks no budget. *)
Admit ==
  /\ run.step = "running" /\ gw.key = "live"
  /\ gw.inFlight < MaxParallel /\ gw.ended + gw.inFlight < MaxRequests
  /\ gw.up => gw.counted * Cost < setup.budget /\ gw.ended - gw.counted <= setup.late
  /\ gw' = [gw EXCEPT !.inFlight = @ + 1]
  /\ UNCHANGED <<setup, run, mint, close, ledger, outage>>

(* A request whose client has gone runs to its end as well. *)
EndRequest ==
  /\ gw.inFlight > 0
  /\ gw' = [gw EXCEPT !.inFlight = @ - 1, !.ended = @ + 1]
  /\ run' = IF run.step = "running" THEN [run EXCEPT !.answered = @ + 1] ELSE run
  /\ UNCHANGED <<setup, mint, close, ledger, outage>>

CountRequest ==
  /\ gw.counted < gw.ended
  /\ gw' = [gw EXCEPT !.counted = @ + 1]
  /\ UNCHANGED <<setup, run, mint, close, ledger, outage>>

WriteStore ==
  /\ gw.up /\ (gw.stored < gw.counted \/ gw.since > 0)
  /\ gw' = [gw EXCEPT !.stored = gw.counted, !.since = 0]
  /\ UNCHANGED <<setup, run, mint, close, ledger, outage>>

StoreFails ==
  /\ gw.up /\ ~outage /\ run.step = "running"
  /\ gw' = [gw EXCEPT !.up = FALSE] /\ outage' = TRUE
  /\ UNCHANGED <<setup, run, mint, close, ledger>>

StoreReturns ==
  /\ ~gw.up
  /\ gw' = [gw EXCEPT !.up = TRUE]
  /\ UNCHANGED <<setup, run, mint, close, ledger, outage>>

(* A poll interval passes. It is long enough to count what has ended, and  *)
(* the store is written at least every Batch of them.                      *)
Later(read) == [read EXCEPT !.due = TRUE, !.age = @ + 1, !.waited = @ + 1]

Tick ==
  /\ run.step = "spend" \/ close.step = "read"
  /\ run.step = "spend" => ~run.read.due
  /\ close.step = "read" => ~close.read.due
  /\ gw.counted = gw.ended /\ (gw.up => gw.since < Batch)
  /\ gw' = IF gw.up THEN [gw EXCEPT !.since = @ + 1] ELSE gw
  /\ run' = IF run.step = "spend" THEN [run EXCEPT !.read = Later(@)] ELSE run
  /\ close' = IF close.step = "read" THEN [close EXCEPT !.read = Later(@)] ELSE close
  /\ UNCHANGED <<setup, mint, ledger, outage>>

Gateway == Admit \/ EndRequest \/ CountRequest \/ WriteStore \/ StoreFails \/ StoreReturns

-----------------------------------------------------------------------------
(* The agent's job.                                                        *)

RunStep(from, to) == run.step = from /\ run' = [run EXCEPT !.step = to]

(* gateway request, and the upload of what it sealed. What the job uploads *)
(* may be another run's request, or one sealed to another key.             *)
Request ==
  /\ run.step = "request"
  /\ \E sealed \in {"none", "ours", "other"} :
       run' = [run EXCEPT !.artifact = sealed, !.step = IF sealed = "none" THEN "failed" ELSE "await"]
  /\ UNCHANGED <<setup, gw, mint, close, ledger, outage>>

(* Await, then Inspect of the key the gateway returned. *)
Await ==
  /\ gw.key = "live" /\ RunStep("await", "watch")
  /\ UNCHANGED <<setup, gw, mint, close, ledger, outage>>

AwaitEnds ==
  /\ RunStep("await", "failed")
  /\ UNCHANGED <<setup, gw, mint, close, ledger, outage>>

(* The watcher keeps the first failure, and drops the answer of a probe    *)
(* whose context ended.                                                    *)
Probe(from, to) ==
  /\ run.step = from
  /\ \E bad \in {~gw.up, TRUE} :
       run' = [run EXCEPT !.step = to,
                          !.failed = @ \/ (bad /\ ~run.cancelled)]
  /\ UNCHANGED <<setup, gw, mint, close, ledger, outage>>

Watch == Probe("watch", "running") \/ Probe("running", "running")

(* The agent exits, or is stopped: a request it had in flight stays so.    *)
AgentEnds ==
  /\ RunStep("running", "ended")
  /\ UNCHANGED <<setup, gw, mint, close, ledger, outage>>

stopWatch == Probe("ended", "finish")

(* The job is cancelled: SIGTERM ends the run's context. After the last    *)
(* probe that only fails the read of the spend, which may fail anyway.     *)
Cancel ==
  /\ run.step \in {"running", "ended"} /\ ~run.cancelled
  /\ run' = [run EXCEPT !.cancelled = TRUE]
  /\ UNCHANGED <<setup, gw, mint, close, ledger, outage>>

Inspect == setup.budget <= RunBudget

(* Mutant: the bound leaves out the request that is not counted yet.       *)
BoundInFlight == MaxParallel * Cost

overshootBound == (MaxParallel + 1) * Cost

checkOvershoot == run.answered * Cost > setup.budget + overshootBound

(* The rows, at the grade that the key, the probes and the total leave, or *)
(* none at all when Finish refuses the session.                            *)
Finish ==
  /\ \/ RunStep("finish", "failed")
     \/ /\ run.step = "finish"
        /\ run' = [run EXCEPT !.step = "spend",
                     !.grade = IF Inspect /\ ~run.failed /\ ~checkOvershoot THEN "gateway-precheck" ELSE "none"]
  /\ UNCHANGED <<setup, gw, mint, close, ledger, outage>>

(* An unchanged figure, or the whole wait, has lasted long enough. *)
Settled(read, figure, limit) ==
  \/ figure = read.last /\ read.age >= Stable
  \/ read.waited > limit

Unsettled(read, figure) ==
  [read EXCEPT !.due = FALSE, !.age = IF figure = read.last THEN @ ELSE 0, !.last = figure]

(* compareSpend: one poll of Session.Spend. *)
Spend ==
  /\ run.step = "spend" /\ run.read.due
  /\ \/ run' = [run EXCEPT !.step = "done", !.read = NewRead(0)]
     \/ /\ gw.up /\ gw.key = "live" /\ ~run.cancelled
        /\ run' = CASE gw.stored = run.answered -> [run EXCEPT !.step = "done", !.read = NewRead(0)]
                    [] gw.stored # run.answered /\ Settled(run.read, gw.stored, Settle) ->
                         [run EXCEPT !.step = "done", !.read = NewRead(0), !.gap = TRUE]
                    [] OTHER -> [run EXCEPT !.read = Unsettled(@, gw.stored)]
  /\ UNCHANGED <<setup, gw, mint, close, ledger, outage>>

AgentJob == Request \/ Await \/ AwaitEnds \/ Watch \/ AgentEnds \/ stopWatch \/ Finish \/ Spend

-----------------------------------------------------------------------------
(* The minting job.                                                        *)

(* A request must name this run and be sealed to this sealing key. *)
Open(sealed) == sealed = "ours"

(* readMintRequest: the artifact must arrive in time, and open. *)
MintWaits ==
  /\ mint = "wait"
  /\ \/ mint' = "failed"
     \/ Open(run.artifact) /\ mint' = "register"
  /\ UNCHANGED <<setup, gw, run, close, ledger, outage>>

Generate == [gw EXCEPT !.key = "live"]

(* EnsureDailyBudget for the team and the user, then Generate. *)
Register ==
  /\ mint = "register"
  /\ \/ mint' = "failed" /\ gw' \in Failed(gw, Generate)
     \/ mint' = "attest" /\ gw' = Generate
  /\ UNCHANGED <<setup, run, close, ledger, outage>>

(* What the ledger may hold after a post that did not succeed: the job's   *)
(* token was not issued, the ledger refused, or its answer was lost.       *)
post(taken) == {ledger, taken}

attestKey ==
  /\ mint = "attest"
  /\ IF setup.ledger
       THEN \/ mint' = "failed" /\ ledger' \in post([ledger EXCEPT !.minted = TRUE])
            \/ mint' = "done" /\ ledger' = [ledger EXCEPT !.minted = TRUE]
       ELSE mint' = "done" /\ UNCHANGED ledger
  /\ UNCHANGED <<setup, gw, run, close, outage>>

MintJob == MintWaits \/ Register \/ attestKey

-----------------------------------------------------------------------------
(* The closing job.                                                        *)

CloseStep(to) == close' = [close EXCEPT !.step = to]
Reading == IF setup.ledger THEN "read" ELSE "delete"

(* The recipe runs the closing job after the other two, however they end.  *)
StartClose ==
  /\ close.step = "blocked"
  /\ setup.beside \/ (run.step \in Ended /\ mint \in Ended)
  /\ CloseStep(Reading)
  /\ UNCHANGED <<setup, gw, run, mint, ledger, outage>>

(* Client.Count: what the admin reads of the key with the run's alias.     *)
Count == IF gw.key = "live" THEN gw.stored ELSE None

(* Mutant: the count is read once.                                         *)
ReadOnce ==
  /\ close.step = "read" /\ close.read.due
  /\ \/ close' = [close EXCEPT !.step = "delete", !.read = NewRead(None), !.unread = TRUE, !.count = None]
     \/ /\ gw.up
        /\ close' = [close EXCEPT !.step = "delete", !.unread = FALSE, !.count = Count]
  /\ UNCHANGED <<setup, gw, run, mint, ledger, outage>>

(* readCount: one poll of Counter.Settled. *)
readCount ==
  /\ close.step = "read" /\ close.read.due
  /\ \/ close' = [close EXCEPT !.step = "delete", !.read = NewRead(None), !.unread = TRUE, !.count = None]
     \/ /\ gw.up
        /\ close' = IF Count = None \/ Settled(close.read, Count, Settle - 1)
                      THEN [close EXCEPT !.step = "delete", !.read = NewRead(None), !.unread = FALSE, !.count = Count]
                      ELSE [close EXCEPT !.read = Unsettled(@, Count)]
  /\ UNCHANGED <<setup, gw, run, mint, ledger, outage>>

(* The end of closeKey: a count that was not read fails the step.          *)
Told == IF close.unread THEN "failed" ELSE IF close.count = None THEN "done" ELSE "attest"

(* By the run's alias: a key already gone is no error. *)
Deleted == IF gw.key = "live" THEN [gw EXCEPT !.key = "deleted"] ELSE gw

closeKey ==
  /\ close.step = "delete"
  /\ \/ CloseStep("failed") /\ gw' \in Failed(gw, Deleted)
     \/ gw.key = "live" /\ gw' = Deleted /\ CloseStep(Told)
     \/ gw.key # "live" /\ UNCHANGED gw /\ CloseStep(IF close.again THEN Told ELSE "pause")
  /\ UNCHANGED <<setup, run, mint, ledger, outage>>

(* Mutant: the second try comes at once.                                   *)
AgainAtOnce ==
  /\ close.step = "pause"
  /\ close' = [close EXCEPT !.step = Reading, !.again = TRUE]
  /\ UNCHANGED <<setup, gw, run, mint, ledger, outage>>

(* The wait for a late mint, and the second try. *)
Again ==
  /\ close.step = "pause"
  /\ setup.patient => mint \in Ended
  /\ close' = [close EXCEPT !.step = Reading, !.again = TRUE]
  /\ UNCHANGED <<setup, gw, run, mint, ledger, outage>>

(* The ledger takes a spend only for a key that was attested. *)
attestSpend ==
  /\ close.step = "attest"
  /\ LET taken == IF ledger.minted THEN [ledger EXCEPT !.spend = close.count] ELSE ledger IN
     \/ CloseStep("failed") /\ ledger' \in post(taken)
     \/ ledger.minted /\ CloseStep("done") /\ ledger' = taken
  /\ UNCHANGED <<setup, gw, run, mint, outage>>

CloseJob == StartClose \/ readCount \/ closeKey \/ Again \/ attestSpend

-----------------------------------------------------------------------------
(* Every job has ended. *)
Finished ==
  /\ run.step \in Ended /\ mint \in Ended /\ close.step \in Ended
  /\ UNCHANGED vars

Next == Gateway \/ Tick \/ AgentJob \/ Cancel \/ MintJob \/ CloseJob \/ Finished

Spec == Init /\ [][Next]_vars

-----------------------------------------------------------------------------
(* Properties.                                                             *)

(* The state has its type: the store never runs ahead of the count, nor    *)
(* the count of the requests, no more than the key's parallel limit is in  *)
(* flight, and neither wait for the spend outlasts gatewaySpendSettle.     *)
TypeOK ==
  /\ gw.stored \in 0..gw.counted /\ gw.counted \in 0..gw.ended /\ run.answered \in 0..gw.ended
  /\ gw.inFlight \in 0..MaxParallel /\ gw.since \in 0..Batch
  /\ gw.key \in {"absent", "live", "deleted"}
  /\ run.step \in {"request", "await", "watch", "running", "ended", "finish", "spend"} \cup Ended
  /\ mint \in {"wait", "register", "attest"} \cup Ended
  /\ close.step \in {"blocked", "read", "delete", "pause", "attest"} \cup Ended
  /\ run.read.waited \in 0..Settle + 1 /\ close.read.waited \in 0..Settle
  /\ ledger.spend \in Nat \cup {None}

(* A closing job that succeeds leaves no key behind, whatever part of the  *)
(* minting failed and although its call may have registered the key and    *)
(* lost the answer: it runs after mint, or waits for it (closeKey).        *)
ClosedIsGone ==
  close.step = "done" /\ mint \in Ended /\ (setup.beside => setup.patient) => gw.key # "live"

(* A closing job that deleted the key and succeeds has told the ledger a   *)
(* count, and the count covers every request the agent was answered,       *)
(* although the gateway writes it late and in batches: the figure is read  *)
(* until it has stood still for longer than a batch (closeKey, Settled).   *)
AttestedCovers ==
  /\ ~setup.beside
  /\ ledger.spend # None \/ (close.step = "done" /\ setup.ledger /\ gw.key = "deleted")
  => ledger.spend # None /\ ledger.spend >= run.answered

(* A run that reads gateway-precheck stayed within its key's budget and    *)
(* the bound its rows state, although the gateway may serve without its    *)
(* store between two probes, and may count later than it was seen to       *)
(* (enforcement, checkOvershoot).                                          *)
PrecheckHolds ==
  run.grade = "gateway-precheck" =>
    run.answered * Cost <= setup.budget + overshootBound /\ setup.budget <= RunBudget

(* The bound is enough for the gateway as observed: with its store up, and *)
(* at most one request answered and not counted when it admits the next,   *)
(* no run passes its key's budget by more (overshootBound).                *)
BoundSuffices ==
  setup.late <= 1 /\ ~outage =>
    (gw.ended + gw.inFlight) * Cost <= setup.budget + overshootBound

(* The run warns of a gap between the gateway's count and its rows only if *)
(* there is one: some request was cut while in flight (Session.Spend).     *)
GapIsReal == run.gap => gw.ended > run.answered

(* What close and run make of the gateway's late count is right: close     *)
(* attests no less than was answered, and run warns of no gap that is not  *)
(* there (readCount, Settled, Session.Spend).                              *)
CountIsSettled == AttestedCovers /\ GapIsReal

(* The bound a run's rows state holds, for a run that reads                *)
(* gateway-precheck and for a gateway that counts as observed              *)
(* (overshootBound, checkOvershoot, enforcement).                          *)
OvershootIsBounded == PrecheckHolds /\ BoundSuffices
=============================================================================
