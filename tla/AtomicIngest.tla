---------------------------- MODULE AtomicIngest ----------------------------
(***************************************************************************)
(* What Store.Ingest promises: "Ingest writes a batch whole or not at all. *)
(* A row id already stored for this tenant is a duplicate and changes      *)
(* nothing." One step stores the batch, adds its drop counts and fixes the *)
(* receipt. An answer can be lost after that step, and the sender sends    *)
(* the batch again.                                                        *)
(***************************************************************************)
EXTENDS Naturals, Sequences, FiniteSets

CONSTANTS
  Sender,   \* the requests that ingest into one tenant
  RowId,    \* row ids
  Field,    \* names of the drop counters of a day
  BatchOf,  \* the row ids of each sender's batch, in the batch's order
  DropsOf,  \* the fields each sender's batch dropped
  None      \* no row

VARIABLES
  rows,     \* the sender whose batch stored each row
  drops,    \* the drop counters
  answer    \* what each sender was told

vars == <<rows, drops, answer>>

Ids(s) == {BatchOf[s][n] : n \in DOMAIN BatchOf[s]}

Fresh(s) == {i \in Ids(s) : rows[i] = None}

(* Receipt of a batch of s that stored inserted rows. *)
Receipt(s, inserted) ==
  [status |-> "stored", inserted |-> inserted, duplicates |-> Len(BatchOf[s]) - inserted]

(* An error comes with an empty receipt. *)
NoReceipt(status) == [status |-> status, inserted |-> 0, duplicates |-> 0]

Init ==
  /\ rows = [i \in RowId |-> None]
  /\ drops = [f \in Field |-> 0]
  /\ answer = [s \in Sender |-> NoReceipt("waiting")]

Ingest(s) ==
  /\ answer[s].status = "waiting"
  /\ rows' = [i \in RowId |-> IF i \in Fresh(s) THEN s ELSE rows[i]]
  /\ drops' = [f \in Field |-> IF f \in DropsOf[s] THEN drops[f] + 1 ELSE drops[f]]
  /\ answer' \in {[answer EXCEPT ![s] = Receipt(s, Cardinality(Fresh(s)))],
                  [answer EXCEPT ![s] = NoReceipt("failed")]}

Refuse(s) ==
  /\ answer[s].status = "waiting"
  /\ answer' = [answer EXCEPT ![s] = NoReceipt("failed")]
  /\ UNCHANGED <<rows, drops>>

Retry(s) ==
  /\ answer[s].status = "failed"
  /\ answer' = [answer EXCEPT ![s] = NoReceipt("waiting")]
  /\ UNCHANGED <<rows, drops>>

Next == \E s \in Sender : Ingest(s) \/ Refuse(s) \/ Retry(s)

Spec == Init /\ [][Next]_vars
=============================================================================
