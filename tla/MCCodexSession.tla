--------------------------- MODULE MCCodexSession ---------------------------
(* Constants of the TLC run of module CodexSession: a subagent of the      *)
(* run's thread, a subagent of that one, and a subagent of another run. A  *)
(* behaviour has the thread and its subagent with a request each, or a     *)
(* subagent's subagent with two and the other run's with one.              *)
EXTENDS CodexSession

CONSTANTS s1, s2, other, elsewhere

OneEach == [subs |-> {s1}, requests |-> [t \in Thread |-> 1]]
Nested ==
  [subs |-> Sub, requests |-> [t \in Thread |-> CASE t = s2 -> 2 [] t = other -> 1 [] OTHER -> 0]]
TwoTrees == {OneEach, Nested}
Starters == [s \in Sub |-> CASE s = s1 -> Main [] s = s2 -> s1 [] OTHER -> elsewhere]
=============================================================================
