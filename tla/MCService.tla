----------------------------- MODULE MCService ------------------------------
(***************************************************************************)
(* The TLC instance of the four modules about the service's own life and   *)
(* its calls out: ServiceStart, TokenKeys, EgressCounters and              *)
(* Installation. They share no state, so a behaviour is about one of them, *)
(* its subject, and the others stay as they began.                         *)
(***************************************************************************)
EXTENDS ServiceStart, TokenKeys, EgressCounters, Installation

VARIABLE subject

-----------------------------------------------------------------------------
(* ServiceStart: a release, the next one, and two instances without the    *)
(* owner's connection: a build whose first migration was edited, and one   *)
(* that is given the owner's role for its own. Their owners overlap.       *)

MCMigrations ==
  [i \in Instances |-> CASE i = "old" -> <<"a">> [] i = "new" -> <<"a", "b">> [] i = "edited" -> <<"x", "b">>
                             [] i = "owner" -> <<"a">>]

MCBinds ==
  [i \in Instances |-> CASE i = "old" -> {"o1", "o2"} [] i = "new" -> {"o2"} [] i = "owner" -> {"o1"} [] OTHER -> {}]

MCRole == [i \in Instances |-> IF i = "owner" THEN "owner" ELSE "app"]

(* TokenKeys: a token that is in order, one that is valid for a short      *)
(* time, and one for each thing that may be wrong with a token.            *)

Good ==
  [kid |-> "k1", signer |-> "k1", audience |-> TRUE, exp |-> 9, nbf |-> 0, alg |-> TRUE, claims |-> TRUE, bound |-> TRUE]

MCTokens ==
  {Good, [Good EXCEPT !.kid = "k2", !.signer = "k2", !.exp = 3, !.nbf = 2],
   [Good EXCEPT !.signer = "x"], [Good EXCEPT !.kid = "k2", !.signer = "k2", !.audience = FALSE],
   [Good EXCEPT !.alg = FALSE], [Good EXCEPT !.claims = FALSE], [Good EXCEPT !.bound = FALSE]}

-----------------------------------------------------------------------------
Init ==
  /\ subject \in {"start", "token", "egress", "installation"}
  /\ StartInit /\ TokenInit /\ EgressInit /\ InstallationInit
  /\ subject # "token" => allowed /\ published = Kids

Next ==
  \/ subject = "start" /\ StartNext /\ UNCHANGED <<subject, tokenVars, egressVars, installationVars>>
  \/ subject = "token" /\ TokenNext /\ UNCHANGED <<subject, startVars, egressVars, installationVars>>
  \/ subject = "egress" /\ EgressNext /\ UNCHANGED <<subject, startVars, tokenVars, installationVars>>
  \/ subject = "installation" /\ InstallationNext /\ UNCHANGED <<subject, startVars, tokenVars, egressVars>>

Spec == Init /\ [][Next]_<<subject, startVars, tokenVars, egressVars, installationVars>>
=============================================================================
