---------------------------- MODULE MCPullCheck -----------------------------
(* Constants of the TLC run of module PullCheck. The bounds: two reports  *)
(* and two reviews of one commit, one report and the author's and the      *)
(* writer's reviews over a push, and two reports over a push of which a    *)
(* request fails.                                                          *)
EXTENDS PullCheck, TLC

CONSTANTS author, writer, r1, r2

Rows == {r1, r2}
RowSymmetry == Permutations(Rows)

Bound(people, commits, nreviews, reports, nfailures) ==
  [people |-> people, commits |-> commits, reviews |-> nreviews, reports |-> reports, failures |-> nfailures]

AllBounds ==
  {Bound({writer}, 1, 2, 2, 0), Bound({author, writer}, 2, 2, 1, 0), Bound({writer}, 2, 1, 2, 1)}
=============================================================================
