------------------------------ MODULE MCLedger ------------------------------
(* Constants of the TLC runs of module Ledger. *)
EXTENDS Ledger, TLC

CONSTANTS t1, t2, repo, pr, run1, run2, try, tip, merge, k1, k2, shared,
          i1, i2, q1, q2

MCName == {repo, pr, run1, run2, try, tip, merge, shared}

(* The agent's job and the minting job of a run, on the pull request's     *)
(* merge ref.                                                              *)
Job(run, gateway) ==
  [tenant |-> t1, repo |-> repo, run |-> run, attempt |-> try, pr |-> pr,
   commit |-> merge, commitIsHead |-> FALSE, gateway |-> gateway]

Push == [Job(run2, TRUE) EXCEPT !.pr = None, !.commit = tip, !.commitIsHead = TRUE]
Elsewhere == [Job(run2, TRUE) EXCEPT !.tenant = t2]

Row0(i) ==
  [row |-> i, repo |-> None, run |-> None, pr |-> pr, sha |-> tip,
   credential |-> k1, sessionKey |-> FALSE, weakJoin |-> FALSE,
   source |-> "agent_stream", start |-> 2, end |-> 4, tokens |-> 1, rate |-> 2,
   measured |-> TRUE, priced |-> TRUE, parses |-> TRUE]

(* The row that a batch of the other run states. *)
Row2(i) == [Row0(i) EXCEPT !.credential = k2, !.run = run2]

Figures == {1, 2}
Pulls == {[repo |-> repo, pr |-> pr]}
KeyTenants == [k \in IngestKey |-> t1]

(* Two runs of one pull request, with one row each and the same row twice. *)
RaceIdentities == {Job(run1, TRUE), Job(run2, TRUE)}
RaceBatches == {<<Row0(i1)>>, <<Row0(i2)>>, <<Row2(i2)>>}

(* Every way a body can state a row, with half-second instants: within one *)
(* second, on one whole second, before they start and without a start.     *)
JoinIdentities == {Job(run1, FALSE), Job(run1, TRUE), Push, Elsewhere,
                   [Job(run1, FALSE) EXCEPT !.attempt = None],
                   [Job(run1, FALSE) EXCEPT !.tenant = None]}
JoinBatches ==
  {<<Row0(i1), [Row0(i1) EXCEPT !.credential = shared]>>,
   <<[Row0(i1) EXCEPT !.sessionKey = TRUE, !.pr = None, !.start = 3]>>,
   <<[Row0(i1) EXCEPT !.weakJoin = TRUE, !.source = "provider_report", !.measured = FALSE]>>,
   <<[Row0(i1) EXCEPT !.sha = merge, !.end = 2]>>,
   <<[Row0(i1) EXCEPT !.sha = Malformed, !.credential = None, !.run = run1, !.end = 3]>>,
   <<[Row0(i1) EXCEPT !.parses = FALSE], [Row0(i1) EXCEPT !.sha = None, !.start = 0]>>,
   <<[Row0(i1) EXCEPT !.tokens = -1], [Row0(i1) EXCEPT !.rate = 0, !.start = 3, !.end = 1]>>,
   <<[Row0(i1) EXCEPT !.priced = FALSE]>>}

Slots == Permutations(Request)
=============================================================================
