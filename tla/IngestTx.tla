------------------------------ MODULE IngestTx ------------------------------
(***************************************************************************)
(* Store.Ingest inside Postgres: the two attempts of a batch, as           *)
(* transactions that insert row by row against the unique index of         *)
(* focus_rows and then add the drop counters under row locks.              *)
(*                                                                         *)
(* The first attempt filters the batch with the statement's snapshot and   *)
(* fails on the index; the second takes ON CONFLICT DO NOTHING. Postgres   *)
(* is modelled by what the code relies on: an uncommitted row makes a      *)
(* second inserter of the same id wait, an abort releases it, a commit     *)
(* turns the wait into a conflict, and a cycle of waits ends with one of   *)
(* its transactions aborted. AtomicIngest says what the code promises.     *)
(***************************************************************************)
EXTENDS Naturals, Sequences, FiniteSets

CONSTANTS
  Sender, RowId, Field, BatchOf, DropsOf, None,
  MaxSends     \* bound: how often a sender sends its batch

ASSUME IngestAssumption ==
  /\ BatchOf \in [Sender -> Seq(RowId)]
  /\ DropsOf \in [Sender -> SUBSET Field]
  /\ Field \subseteq Nat
  /\ IsFiniteSet(Sender)
  /\ None \notin Sender
  /\ MaxSends \in Nat \ {0}

VARIABLES
  rows,     \* the committed rows
  drops,    \* the committed drop counters
  answer,   \* what each sender was told
  sends,    \* how often each sender has sent its batch
  tx        \* the transaction of each sender

vars == <<rows, drops, answer, sends, tx>>

(* pc is where writeBatch is; attempt the statement; snapshot the ids the  *)
(* first statement sees; at the next row; ins the ids inserted and held    *)
(* the counters updated, both uncommitted.                                 *)
NoTx == [pc |-> "begin", attempt |-> 1, snapshot |-> {}, at |-> 1, ins |-> {}, held |-> {}]

ReceiptBySnapshot(s, inserted) ==
  LET new == {BatchOf[s][n] : n \in DOMAIN BatchOf[s]} \ tx[s].snapshot
  IN [status |-> "stored", inserted |-> Cardinality(new),
      duplicates |-> Len(BatchOf[s]) - Cardinality(new)]

Receipt(s, inserted) ==
  [status |-> "stored", inserted |-> inserted, duplicates |-> Len(BatchOf[s]) - inserted]

(* An error comes with an empty receipt. *)
NoReceipt(status) == [status |-> status, inserted |-> 0, duplicates |-> 0]

Init ==
  /\ rows = [i \in RowId |-> None]
  /\ drops = [f \in Field |-> 0]
  /\ answer = [s \in Sender |-> NoReceipt("waiting")]
  /\ sends = [s \in Sender |-> 1]
  /\ tx = [s \in Sender |-> NoTx]

-----------------------------------------------------------------------------
(* The row the statement is at, and the drop counter after it: writeDrops  *)
(* sorts the fields, so every transaction locks them in one order.         *)
RowAt(s) == BatchOf[s][tx[s].at]

FieldByAttempt(s) ==
  LET left == DropsOf[s] \ tx[s].held
  IN CHOOSE f \in left : \A g \in left : IF tx[s].attempt = 1 THEN f <= g ELSE f >= g

FieldAt(s) ==
  LET left == DropsOf[s] \ tx[s].held IN CHOOSE f \in left : \A g \in left : f <= g

(* The attempt skips the row at hand: the snapshot holds it, or ON         *)
(* CONFLICT finds it stored or already inserted by this statement.         *)
Skips(s) ==
  IF tx[s].attempt = 1
    THEN RowAt(s) \in tx[s].snapshot
    ELSE rows[RowAt(s)] # None \/ RowAt(s) \in tx[s].ins

(* The unique index refuses the row at hand: error 23505. *)
Conflicts(s) ==
  /\ tx[s].attempt = 1 /\ RowAt(s) \notin tx[s].snapshot
  /\ rows[RowAt(s)] # None \/ RowAt(s) \in tx[s].ins

(* Who s waits for: the transaction with the uncommitted row or counter. *)
WaitsFor(s, u) ==
  /\ u # s
  /\ \/ /\ tx[s].pc = "rows" /\ tx[s].at <= Len(BatchOf[s])
        /\ ~Skips(s) /\ ~Conflicts(s)
        /\ RowAt(s) \in tx[u].ins
     \/ /\ tx[s].pc = "drops" /\ tx[s].held # DropsOf[s]
        /\ FieldAt(s) \in tx[u].held

Waits(s) == \E u \in Sender : WaitsFor(s, u)

(* s is on a cycle of waits. *)
Deadlocked(s) ==
  \E C \in SUBSET Sender :
    /\ s \in C
    /\ \A u \in C : (\E v \in C : WaitsFor(u, v)) /\ (\E v \in C : WaitsFor(v, u))

-----------------------------------------------------------------------------
(* writeBatch begins its transaction and runs the statement. *)
Begin(s) ==
  /\ tx[s].pc = "begin"
  /\ tx' = [tx EXCEPT ![s] = [tx[s] EXCEPT !.pc = "rows", !.at = 1,
                                           !.snapshot = {i \in RowId : rows[i] # None}]]
  /\ UNCHANGED <<rows, drops, answer, sends>>

AtRow(s) == tx[s].pc = "rows" /\ tx[s].at <= Len(BatchOf[s]) /\ ~Waits(s)

SkipRow(s) ==
  /\ AtRow(s) /\ Skips(s)
  /\ tx' = [tx EXCEPT ![s].at = @ + 1]
  /\ UNCHANGED <<rows, drops, answer, sends>>

InsertRow(s) ==
  /\ AtRow(s) /\ ~Skips(s) /\ ~Conflicts(s)
  /\ tx' = [tx EXCEPT ![s] = [tx[s] EXCEPT !.at = @ + 1, !.ins = @ \cup {RowAt(s)}]]
  /\ UNCHANGED <<rows, drops, answer, sends>>

SecondAttemptSame(s) ==
  /\ AtRow(s) /\ Conflicts(s)
  /\ tx' = [tx EXCEPT ![s] = NoTx]
  /\ UNCHANGED <<rows, drops, answer, sends>>

(* Ingest's second attempt, in a transaction of its own. *)
SecondAttempt(s) ==
  /\ AtRow(s) /\ Conflicts(s)
  /\ tx' = [tx EXCEPT ![s] = [NoTx EXCEPT !.attempt = 2]]
  /\ UNCHANGED <<rows, drops, answer, sends>>

RowsDone(s) ==
  /\ tx[s].pc = "rows" /\ tx[s].at > Len(BatchOf[s])
  /\ tx' = [tx EXCEPT ![s].pc = "drops"]
  /\ UNCHANGED <<rows, drops, answer, sends>>

AddDrop(s) ==
  /\ tx[s].pc = "drops" /\ tx[s].held # DropsOf[s] /\ ~Waits(s)
  /\ tx' = [tx EXCEPT ![s].held = @ \cup {FieldAt(s)}]
  /\ UNCHANGED <<rows, drops, answer, sends>>

(* The commit. Its answer may not arrive. *)
Commit(s) ==
  /\ tx[s].pc = "drops" /\ tx[s].held = DropsOf[s]
  /\ rows' = [i \in RowId |-> IF i \in tx[s].ins THEN s ELSE rows[i]]
  /\ drops' = [f \in Field |-> IF f \in tx[s].held THEN drops[f] + 1 ELSE drops[f]]
  /\ answer' \in {[answer EXCEPT ![s] = Receipt(s, Cardinality(tx[s].ins))],
                  [answer EXCEPT ![s] = NoReceipt("failed")]}
  /\ tx' = [tx EXCEPT ![s] = [NoTx EXCEPT !.pc = "done"]]
  /\ UNCHANGED sends

(* Any other error of either attempt rolls back and is returned. *)
Fail(s) ==
  /\ tx[s].pc # "done"
  /\ tx' = [tx EXCEPT ![s] = [NoTx EXCEPT !.pc = "done"]]
  /\ answer' = [answer EXCEPT ![s] = NoReceipt("failed")]
  /\ UNCHANGED <<rows, drops, sends>>

(* Postgres aborts one transaction of a cycle of waits. *)
Victim(s) == Deadlocked(s) /\ Fail(s)

(* The sender of a failed batch sends it again, whole. *)
Retry(s) ==
  /\ tx[s].pc = "done" /\ answer[s].status = "failed" /\ sends[s] < MaxSends
  /\ answer' = [answer EXCEPT ![s] = NoReceipt("waiting")]
  /\ sends' = [sends EXCEPT ![s] = @ + 1]
  /\ tx' = [tx EXCEPT ![s] = NoTx]
  /\ UNCHANGED <<rows, drops>>

Step(s) ==
  \/ Begin(s) \/ SkipRow(s) \/ InsertRow(s) \/ SecondAttempt(s) \/ RowsDone(s)
  \/ AddDrop(s) \/ Commit(s)

Next == \E s \in Sender : Step(s) \/ Fail(s) \/ Victim(s) \/ Retry(s)

(* A connection keeps running its statements, and Postgres looks for       *)
(* deadlocks. Nothing makes a sender retry.                                *)
Fairness == \A s \in Sender : WF_vars(Step(s)) /\ WF_vars(Victim(s))

Spec == Init /\ [][Next]_vars /\ Fairness

-----------------------------------------------------------------------------
(* A transaction in flight, and what a sender is told. *)
Tx == [pc : {"begin", "rows", "drops", "done"}, attempt : {1, 2},
       snapshot : SUBSET RowId, at : Nat \ {0}, ins : SUBSET RowId, held : SUBSET Field]

Answer == [status : {"waiting", "stored", "failed"}, inserted : Nat, duplicates : Nat]

(* The state is well formed, and the unique index and the row locks hold:  *)
(* no two transactions hold one id or one counter, and none holds an id    *)
(* that is stored (insertNewRows, insertRows, addDrops).                   *)
TypeOK ==
  /\ rows \in [RowId -> Sender \cup {None}]
  /\ drops \in [Field -> Nat]
  /\ answer \in [Sender -> Answer]
  /\ sends \in [Sender -> 1 .. MaxSends]
  /\ tx \in [Sender -> Tx]
  /\ \A s \in Sender :
       /\ tx[s].at <= Len(BatchOf[s]) + 1
       /\ \A i \in tx[s].ins : rows[i] = None
       /\ \A u \in Sender \ {s} : tx[s].ins \cap tx[u].ins = {} /\ tx[s].held \cap tx[u].held = {}

(* Only rows can deadlock: two batches with the same ids in opposite       *)
(* orders. The drop counters are locked in one order, after the rows, so   *)
(* no cycle of waits passes through them (writeDrops sorts the fields).    *)
DropsNeverDeadlock == \A s \in Sender : Deadlocked(s) => tx[s].pc = "rows"

(* Both attempts together store a batch whole or not at all, keep the      *)
(* first row under an id, add the drop counters with it and report exactly *)
(* what they stored (Store.Ingest, writeBatch).                            *)
Atomic == INSTANCE AtomicIngest WITH rows <- rows, drops <- drops, answer <- answer
IngestIsAtomic == Atomic!Spec

(* Every request ends: the second attempt needs no third, and waits end    *)
(* with their holder or with a deadlock's victim (Ingest).                 *)
Answered == \A s \in Sender : tx[s].pc # "done" ~> tx[s].pc = "done"
=============================================================================
