------------------------------ MODULE MCWebhook -----------------------------
(* Constants of the TLC run of module Webhook: a pull_request that states  *)
(* instant 1, a click on the check, and one delivery for each reason for   *)
(* which a request ends before its claim.                                  *)
EXTENDS Webhook

CONSTANTS pull, check, h1, h2, forged, issue, bare, undated, created, nameless

Pull ==
  [signed |-> TRUE, name |-> "pull_request", common |-> TRUE, subject |-> TRUE,
   updatedAt |-> 1, requested |-> FALSE, button |-> FALSE]
Click == [Pull EXCEPT !.name = "check_run", !.updatedAt = None, !.requested = TRUE, !.button = TRUE]

Payloads ==
  [d \in Delivery |->
     CASE d = pull -> Pull
       [] d = check -> Click
       [] d = forged -> [Pull EXCEPT !.signed = FALSE]
       [] d = issue -> [Pull EXCEPT !.name = "issues"]
       [] d = bare -> [Click EXCEPT !.common = FALSE]
       [] d = undated -> [Pull EXCEPT !.updatedAt = None]
       [] d = created -> [Click EXCEPT !.requested = FALSE]
       [] d = nameless -> [Click EXCEPT !.button = FALSE]]
=============================================================================
