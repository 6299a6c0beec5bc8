----------------------------- MODULE MCIngestTx -----------------------------
(* Constants of the TLC run of module IngestTx: two batches with the same  *)
(* ids in opposite orders and one that repeats an id.                      *)
EXTENDS IngestTx, TLC

CONSTANTS s1, s2, s3, a, b

Batches == s1 :> <<a, b>> @@ s2 :> <<b, a>> @@ s3 :> <<a, a>>
Dropped == s1 :> {1, 2} @@ s2 :> {1, 2} @@ s3 :> {}
Counters == {1, 2}
=============================================================================
