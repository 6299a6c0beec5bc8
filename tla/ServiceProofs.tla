---------------------------- MODULE ServiceProofs ----------------------------
(***************************************************************************)
(* Theorems about the service's writes, its own life and its calls out:    *)
(* module IngestTx, for any number of senders, row ids and drop counters,  *)
(* any batches and any number of sends, and modules ServiceStart,          *)
(* EgressCounters, TokenKeys and Installation.                             *)
(***************************************************************************)
EXTENDS IngestTx, ServiceStart, EgressCounters, TokenKeys, Installation,
        TLAPS, FiniteSetTheorems, WellFoundedInduction

(* A nonempty set of numbers has a least one. *)
LEMMA LeastNumber ==
  ASSUME NEW T, T \subseteq Nat, T # {}
  PROVE  \E x \in T : \A y \in T : x <= y
<1> DEFINE R == OpToRel(<, Nat)
<1>1. IsWellFoundedOn(R, Nat)
  BY NatLessThanWellFounded
<1>2. \A a, b \in Nat : a < b => <<a, b>> \in R
  BY DEF OpToRel
<1> HIDE DEF R
<1>3. PICK x \in T : \A y \in T : ~ (<<y, x>> \in R)
  BY <1>1, WFMin
<1>4. \A y \in T : ~(y < x)
  BY <1>2, <1>3
<1> QED BY <1>3, <1>4

-----------------------------------------------------------------------------
(* IngestTx.                                                               *)

(* A nonempty finite set of numbers has a greatest one: the smallest set   *)
(* without one would keep having none when it loses an element.            *)
LEMMA GreatestNumber ==
  ASSUME NEW T, T \subseteq Nat, T # {}, IsFiniteSet(T)
  PROVE  \E x \in T : \A y \in T : y <= x
<1> DEFINE Topped(U) == \E x \in U : \A y \in U : y <= x
           Bad == {U \in SUBSET Nat : IsFiniteSet(U) /\ U # {} /\ ~Topped(U)}
           Sizes == {Cardinality(U) : U \in Bad}
<1> SUFFICES ASSUME T \in Bad PROVE FALSE
  OBVIOUS
<1>1. Sizes \subseteq Nat
  BY FS_CardinalityType
<1>2. Sizes # {}
  OBVIOUS
<1>3. PICK n \in Sizes : \A m \in Sizes : n <= m
  <2> HIDE DEF Sizes
  <2> QED BY <1>1, <1>2, LeastNumber
<1>4. PICK U \in Bad : n = Cardinality(U)
  BY <1>3
<1>5. PICK x \in U : TRUE
  BY <1>4
<1> DEFINE W == U \ {x}
<1>6. IsFiniteSet(W) /\ Cardinality(W) = n - 1 /\ n \in Nat /\ W \in SUBSET Nat
  BY <1>1, <1>3, <1>4, <1>5, FS_RemoveElement
<1>7. W \notin Bad
  <2>1. Cardinality(W) \notin Sizes
    <3> HIDE DEF Sizes, Bad, W
    <3> QED BY <1>3, <1>6
  <2> QED BY <2>1
<1>8. CASE W = {}
  <2>1. Topped(U)
    BY <1>4, <1>5, <1>8
  <2> QED BY <1>4, <2>1
<1>9. CASE W # {}
  <2>1. PICK m \in W : \A y \in W : y <= m
    BY <1>6, <1>7, <1>9
  <2>2. x \in Nat /\ m \in Nat /\ m \in U
    BY <1>4, <1>5, <1>6, <2>1
  <2>3. CASE x <= m
    <3>1. \A y \in U : y <= m
      BY <1>5, <2>1, <2>3
    <3> QED BY <1>4, <2>2, <3>1
  <2>4. CASE m <= x
    <3>1. \A y \in U : y <= x
      BY <1>4, <1>5, <1>6, <2>1, <2>2, <2>4
    <3> QED BY <1>4, <1>5, <3>1
  <2> QED BY <2>2, <2>3, <2>4
<1> QED BY <1>8, <1>9

(* The ids of a batch are finitely many, and at most as many as its rows. *)
LEMMA BatchIds ==
  ASSUME NEW s \in Sender
  PROVE  /\ IsFiniteSet(Atomic!Ids(s))
         /\ Cardinality(Atomic!Ids(s)) <= Len(BatchOf[s])
         /\ Len(BatchOf[s]) \in Nat
         /\ Atomic!Ids(s) \subseteq RowId
<1> DEFINE b == BatchOf[s]
           I == Atomic!Ids(s)
<1>1. b \in Seq(RowId) /\ Len(b) \in Nat /\ DOMAIN b = 1 .. Len(b)
  BY IngestAssumption
<1>2. b \in Surjection(1 .. Len(b), I)
  BY <1>1 DEF Surjection, Atomic!Ids
<1>3. IsFiniteSet(1 .. Len(b)) /\ Cardinality(1 .. Len(b)) = Len(b)
  BY <1>1, FS_Interval
<1>4. IsFiniteSet(I) /\ Cardinality(I) <= Cardinality(1 .. Len(b))
  BY <1>2, <1>3, FS_Surjection
<1>5. I \subseteq RowId
  BY <1>1 DEF Atomic!Ids
<1> QED BY <1>1, <1>3, <1>4, <1>5

(* The counter a transaction locks next is the least of those it has left. *)
LEMMA FieldAtIsLeast ==
  ASSUME NEW s \in Sender, tx \in [Sender -> Tx], ~(DropsOf[s] \subseteq tx[s].held)
  PROVE  /\ FieldAt(s) \in DropsOf[s] \ tx[s].held
         /\ \A g \in DropsOf[s] \ tx[s].held : FieldAt(s) <= g
<1> DEFINE left == DropsOf[s] \ tx[s].held
<1>1. left # {} /\ left \subseteq Nat
  BY IngestAssumption
<1>2. \E f \in left : \A g \in left : f <= g
  BY <1>1, LeastNumber
<1> QED BY <1>2 DEF FieldAt

-----------------------------------------------------------------------------
(* A request is answered exactly when its transaction is over. *)
AnsweredWhenDone == \A s \in Sender : tx[s].pc = "done" <=> answer[s].status # "waiting"

(* What a transaction may hold at each place of writeBatch: rows before    *)
(* counters, nothing before the statement runs or after it is over.        *)
HeldInPlace ==
  \A s \in Sender :
    /\ tx[s].pc \in {"begin", "done"} => tx[s].ins = {}
    /\ tx[s].pc # "drops" => tx[s].held = {}
    /\ tx[s].pc = "drops" => tx[s].at > Len(BatchOf[s])

(* The rows behind the statement are stored or inserted by it, it inserts  *)
(* ids of its batch only, and what its snapshot saw is still stored.       *)
RowsCovered ==
  \A s \in Sender :
    /\ tx[s].ins \subseteq Atomic!Ids(s)
    /\ \A i \in tx[s].snapshot : rows[i] # None
    /\ tx[s].pc \in {"rows", "drops"} =>
         \A n \in DOMAIN BatchOf[s] :
           n < tx[s].at => rows[BatchOf[s][n]] # None \/ BatchOf[s][n] \in tx[s].ins

(* Counters are locked in one order: those held are below those left. *)
HeldFromBelow ==
  \A s \in Sender :
    /\ tx[s].held \subseteq DropsOf[s]
    /\ \A f \in tx[s].held, g \in DropsOf[s] \ tx[s].held : f < g

IngestInv == TypeOK /\ AnsweredWhenDone /\ HeldInPlace /\ RowsCovered /\ HeldFromBelow

LEMMA IngestInitInv == Init => IngestInv
<1> SUFFICES ASSUME Init PROVE IngestInv
  OBVIOUS
<1>1. NoTx \in Tx
  BY DEF NoTx, Tx
<1>2. tx \in [Sender -> Tx] /\ \A s \in Sender : tx[s] = NoTx
  BY <1>1 DEF Init
<1>3. \A s \in Sender : Len(BatchOf[s]) \in Nat
  BY IngestAssumption
<1>4. TypeOK
  BY <1>2, <1>3, IngestAssumption DEF Init, TypeOK, NoTx, NoReceipt, Answer
<1>5. AnsweredWhenDone
  BY <1>2 DEF AnsweredWhenDone, Init, NoTx, NoReceipt
<1>6. HeldInPlace /\ RowsCovered /\ HeldFromBelow
  BY <1>2 DEF HeldInPlace, RowsCovered, HeldFromBelow, NoTx
<1> QED BY <1>4, <1>5, <1>6 DEF IngestInv

(* What the invariant asks of a transaction t of s. *)
Legal(s, t) ==
  /\ t \in Tx /\ t.at <= Len(BatchOf[s]) + 1
  /\ \A i \in t.ins : rows[i] = None /\ i \in Atomic!Ids(s)
  /\ \A u \in Sender \ {s} : t.ins \cap tx[u].ins = {} /\ t.held \cap tx[u].held = {}
  /\ t.pc \in {"begin", "done"} => t.ins = {}
  /\ t.pc # "drops" => t.held = {}
  /\ t.pc = "drops" => t.at > Len(BatchOf[s])
  /\ \A i \in t.snapshot : rows[i] # None
  /\ t.pc \in {"rows", "drops"} =>
       \A n \in DOMAIN BatchOf[s] :
         n < t.at => rows[BatchOf[s][n]] # None \/ BatchOf[s][n] \in t.ins
  /\ t.held \subseteq DropsOf[s]
  /\ \A f \in t.held, g \in DropsOf[s] \ t.held : f < g

LEMMA TxLegal ==
  ASSUME IngestInv, NEW s \in Sender
  PROVE  Legal(s, tx[s])
  BY DEF IngestInv, TypeOK, HeldInPlace, RowsCovered, HeldFromBelow, Legal

(* A step that changes the transaction of s alone keeps the invariant when *)
(* the new transaction fits and is over only if the old one was.           *)
LEMMA TxStep ==
  ASSUME IngestInv, NEW s \in Sender, NEW t, Legal(s, t), tx' = [tx EXCEPT ![s] = t],
         rows' = rows, drops' = drops, answer' = answer, sends' = sends,
         t.pc # "done", tx[s].pc # "done"
  PROVE  IngestInv'
<1>1. tx' \in [Sender -> Tx] /\ tx'[s] = t /\ \A u \in Sender \ {s} : tx'[u] = tx[u]
  BY DEF IngestInv, TypeOK, Legal
<1>2. TypeOK'
  <2>1. \A v \in Sender :
          /\ tx'[v].at <= Len(BatchOf[v]) + 1
          /\ \A i \in tx'[v].ins : rows[i] = None
    BY <1>1 DEF IngestInv, TypeOK, Legal
  <2>2. \A v \in Sender : \A u \in Sender \ {v} :
           tx'[v].ins \cap tx'[u].ins = {} /\ tx'[v].held \cap tx'[u].held = {}
    BY <1>1 DEF IngestInv, TypeOK, Legal
  <2> QED BY <1>1, <2>1, <2>2 DEF IngestInv, TypeOK
<1>3. AnsweredWhenDone'
  BY <1>1 DEF IngestInv, AnsweredWhenDone
<1>4. HeldInPlace'
  BY <1>1 DEF IngestInv, HeldInPlace, Legal
<1>5. RowsCovered'
  BY <1>1 DEF IngestInv, RowsCovered, Atomic!Ids, Legal
<1>6. HeldFromBelow'
  BY <1>1 DEF IngestInv, HeldFromBelow, Legal
<1> QED BY <1>2, <1>3, <1>4, <1>5, <1>6 DEF IngestInv

LEMMA BeginInv ==
  ASSUME IngestInv, NEW s \in Sender, Begin(s)
  PROVE  IngestInv'
<1> DEFINE p == [tx[s] EXCEPT !.pc = "rows"]
           q == [p EXCEPT !.at = 1]
           t == [q EXCEPT !.snapshot = {i \in RowId : rows[i] # None}]
<1>1. tx[s] \in Tx /\ tx' = [tx EXCEPT ![s] = t]
  BY DEF Begin, IngestInv, TypeOK
<1>2. /\ t \in Tx /\ t.pc = "rows" /\ t.at = 1 /\ t.snapshot = {i \in RowId : rows[i] # None}
      /\ t.ins = tx[s].ins /\ t.held = tx[s].held
  <2>1. /\ p \in Tx /\ p.pc = "rows" /\ p.ins = tx[s].ins /\ p.held = tx[s].held
    BY <1>1 DEF Tx
  <2> HIDE DEF p
  <2>2. /\ q \in Tx /\ q.pc = "rows" /\ q.at = 1 /\ q.ins = tx[s].ins /\ q.held = tx[s].held
    BY <2>1 DEF Tx
  <2> HIDE DEF q
  <2> QED BY <2>2 DEF Tx
<1>3. t.ins = {} /\ t.held = {}
  BY <1>2 DEF Begin, IngestInv, HeldInPlace
<1>4. Len(BatchOf[s]) \in Nat /\ DOMAIN BatchOf[s] = 1 .. Len(BatchOf[s])
  BY IngestAssumption
<1> HIDE DEF t
<1>5. Legal(s, t)
  BY <1>2, <1>3, <1>4 DEF Legal
<1> QED BY <1>1, <1>2, <1>5, TxStep DEF Begin

LEMMA SkipRowInv ==
  ASSUME IngestInv, NEW s \in Sender, SkipRow(s)
  PROVE  IngestInv'
<1> DEFINE t == [tx[s] EXCEPT !.at = @ + 1]
<1>1. tx[s] \in Tx /\ tx' = [tx EXCEPT ![s] = t]
  BY DEF SkipRow, IngestInv, TypeOK
<1>2. /\ t \in Tx /\ t.pc = tx[s].pc /\ t.at = tx[s].at + 1 /\ t.snapshot = tx[s].snapshot
      /\ t.ins = tx[s].ins /\ t.held = tx[s].held /\ tx[s].at \in Nat \ {0}
  BY <1>1 DEF Tx
<1>3. Len(BatchOf[s]) \in Nat /\ DOMAIN BatchOf[s] = 1 .. Len(BatchOf[s])
  BY IngestAssumption
<1>4. rows[RowAt(s)] # None \/ RowAt(s) \in tx[s].ins
  BY DEF SkipRow, Skips, IngestInv, RowsCovered
<1>5. \A n \in DOMAIN BatchOf[s] :
        n < t.at => rows[BatchOf[s][n]] # None \/ BatchOf[s][n] \in t.ins
  <2> SUFFICES ASSUME NEW n \in DOMAIN BatchOf[s], n < t.at
               PROVE  rows[BatchOf[s][n]] # None \/ BatchOf[s][n] \in tx[s].ins
    BY <1>2
  <2>1. n < tx[s].at \/ n = tx[s].at
    BY <1>2, <1>3
  <2> QED BY <1>4, <2>1 DEF RowAt, SkipRow, AtRow, IngestInv, RowsCovered
<1> HIDE DEF t
<1>6. tx[s].pc = "rows" /\ tx[s].at <= Len(BatchOf[s])
  BY DEF SkipRow, AtRow
<1>7. Legal(s, t)
  BY <1>2, <1>3, <1>5, <1>6, TxLegal DEF Legal
<1> QED BY <1>1, <1>2, <1>6, <1>7, TxStep DEF SkipRow

LEMMA InsertRowInv ==
  ASSUME IngestInv, NEW s \in Sender, InsertRow(s)
  PROVE  IngestInv'
<1> DEFINE p == [tx[s] EXCEPT !.at = @ + 1]
           t == [p EXCEPT !.ins = @ \cup {RowAt(s)}]
<1>1. tx[s] \in Tx /\ tx' = [tx EXCEPT ![s] = t]
  <2>1. tx[s] \in Tx
    BY DEF IngestInv, TypeOK
  <2>2. tx' = [tx EXCEPT ![s] = t]
    BY DEF InsertRow
  <2> QED BY <2>1, <2>2
<1>2. tx[s].pc = "rows" /\ tx[s].at <= Len(BatchOf[s])
  BY DEF InsertRow, AtRow
<1>3. /\ Len(BatchOf[s]) \in Nat /\ DOMAIN BatchOf[s] = 1 .. Len(BatchOf[s])
      /\ tx[s].at \in Nat \ {0} /\ tx[s].at \in DOMAIN BatchOf[s]
  BY <1>1, <1>2, IngestAssumption DEF Tx
<1>4. RowAt(s) \in Atomic!Ids(s) /\ RowAt(s) \in RowId
  BY <1>3, BatchIds DEF RowAt, Atomic!Ids
<1>5. /\ t \in Tx /\ t.pc = tx[s].pc /\ t.at = tx[s].at + 1 /\ t.snapshot = tx[s].snapshot
      /\ t.ins = tx[s].ins \cup {RowAt(s)} /\ t.held = tx[s].held
  <2>1. /\ p \in Tx /\ p.pc = tx[s].pc /\ p.at = tx[s].at + 1 /\ p.snapshot = tx[s].snapshot
        /\ p.ins = tx[s].ins /\ p.held = tx[s].held
    BY <1>1 DEF Tx
  <2> HIDE DEF p
  <2> QED BY <1>4, <2>1 DEF Tx
<1>6. rows[RowAt(s)] = None
  <2>1. tx[s].attempt \in {1, 2}
    BY <1>1 DEF Tx
  <2> QED BY <2>1 DEF InsertRow, Skips, Conflicts
<1>7. \A u \in Sender \ {s} : RowAt(s) \notin tx[u].ins
  BY <1>2 DEF InsertRow, AtRow, Waits, WaitsFor
<1>8. \A n \in DOMAIN BatchOf[s] :
        n < t.at => rows[BatchOf[s][n]] # None \/ BatchOf[s][n] \in t.ins
  <2> SUFFICES ASSUME NEW n \in DOMAIN BatchOf[s], n < t.at
               PROVE  rows[BatchOf[s][n]] # None \/ BatchOf[s][n] \in tx[s].ins \cup {RowAt(s)}
    BY <1>5
  <2>1. n < tx[s].at \/ n = tx[s].at
    BY <1>3, <1>5
  <2> QED BY <1>2, <2>1 DEF RowAt, IngestInv, RowsCovered
<1> HIDE DEF t
<1>9. Legal(s, t)
  BY <1>2, <1>3, <1>4, <1>5, <1>6, <1>7, <1>8, TxLegal DEF Legal
<1> QED BY <1>1, <1>2, <1>5, <1>9, TxStep DEF InsertRow

LEMMA SecondAttemptInv ==
  ASSUME IngestInv, NEW s \in Sender, SecondAttempt(s)
  PROVE  IngestInv'
<1> DEFINE t == [NoTx EXCEPT !.attempt = 2]
<1>1. /\ t \in Tx /\ t.pc = "begin" /\ t.at = 1 /\ t.snapshot = {} /\ t.ins = {} /\ t.held = {}
  BY DEF NoTx, Tx
<1>2. tx' = [tx EXCEPT ![s] = t] /\ tx[s].pc = "rows"
  BY DEF SecondAttempt, AtRow
<1>3. Len(BatchOf[s]) \in Nat
  BY IngestAssumption
<1> HIDE DEF t
<1>4. Legal(s, t)
  BY <1>1, <1>3 DEF Legal
<1> QED BY <1>1, <1>2, <1>4, TxStep DEF SecondAttempt

LEMMA RowsDoneInv ==
  ASSUME IngestInv, NEW s \in Sender, RowsDone(s)
  PROVE  IngestInv'
<1> DEFINE t == [tx[s] EXCEPT !.pc = "drops"]
<1>1. tx[s] \in Tx /\ tx' = [tx EXCEPT ![s] = t]
  BY DEF RowsDone, IngestInv, TypeOK
<1>2. /\ t \in Tx /\ t.pc = "drops" /\ t.at = tx[s].at /\ t.snapshot = tx[s].snapshot
      /\ t.ins = tx[s].ins /\ t.held = tx[s].held
  BY <1>1 DEF Tx
<1>3. tx[s].pc = "rows" /\ tx[s].at > Len(BatchOf[s]) /\ tx[s].held = {}
  BY DEF RowsDone, IngestInv, HeldInPlace
<1> HIDE DEF t
<1>4. Legal(s, t)
  BY <1>2, <1>3, TxLegal DEF Legal
<1> QED BY <1>1, <1>2, <1>3, <1>4, TxStep DEF RowsDone

LEMMA AddDropInv ==
  ASSUME IngestInv, NEW s \in Sender, AddDrop(s)
  PROVE  IngestInv'
<1> DEFINE t == [tx[s] EXCEPT !.held = @ \cup {FieldAt(s)}]
<1>1. tx[s] \in Tx /\ tx' = [tx EXCEPT ![s] = t]
  BY DEF AddDrop, IngestInv, TypeOK
<1>2. tx[s].pc = "drops" /\ ~(DropsOf[s] \subseteq tx[s].held)
  BY DEF AddDrop, IngestInv, HeldFromBelow
<1>3. /\ FieldAt(s) \in DropsOf[s] \ tx[s].held
      /\ \A g \in DropsOf[s] \ tx[s].held : FieldAt(s) <= g
  BY <1>2, FieldAtIsLeast DEF IngestInv, TypeOK
<1>4. DropsOf[s] \subseteq Field /\ Field \subseteq Nat
  BY IngestAssumption
<1>5. /\ t \in Tx /\ t.pc = "drops" /\ t.at = tx[s].at /\ t.snapshot = tx[s].snapshot
      /\ t.ins = tx[s].ins /\ t.held = tx[s].held \cup {FieldAt(s)}
  BY <1>1, <1>2, <1>3, <1>4 DEF Tx
<1>6. \A u \in Sender \ {s} : FieldAt(s) \notin tx[u].held
  BY <1>2 DEF AddDrop, Waits, WaitsFor
<1>7. \A f \in t.held, g \in DropsOf[s] \ t.held : f < g
  <2>1. \A g \in DropsOf[s] \ t.held : FieldAt(s) < g
    BY <1>3, <1>4, <1>5
  <2> QED BY <1>5, <2>1 DEF IngestInv, HeldFromBelow
<1> HIDE DEF t
<1>8. Legal(s, t)
  BY <1>2, <1>3, <1>5, <1>6, <1>7, TxLegal DEF Legal
<1> QED BY <1>1, <1>2, <1>5, <1>8, TxStep DEF AddDrop

(* At the commit the rows of the transaction are exactly those of its      *)
(* batch that nobody has stored yet.                                       *)
LEMMA InsIsFresh ==
  ASSUME IngestInv, NEW s \in Sender, tx[s].pc = "drops"
  PROVE  /\ tx[s].ins = Atomic!Fresh(s)
         /\ Cardinality(tx[s].ins) \in 0 .. Len(BatchOf[s])
<1>1. /\ Len(BatchOf[s]) \in Nat /\ DOMAIN BatchOf[s] = 1 .. Len(BatchOf[s])
      /\ tx[s].at > Len(BatchOf[s]) /\ tx[s].at \in Nat
  BY IngestAssumption DEF IngestInv, TypeOK, Tx, HeldInPlace
<1>2. \A n \in DOMAIN BatchOf[s] : rows[BatchOf[s][n]] # None \/ BatchOf[s][n] \in tx[s].ins
  BY <1>1 DEF IngestInv, RowsCovered
<1>3. Atomic!Fresh(s) \subseteq tx[s].ins
  BY <1>2 DEF Atomic!Fresh, Atomic!Ids
<1>4. tx[s].ins \subseteq Atomic!Fresh(s)
  BY DEF Atomic!Fresh, IngestInv, TypeOK, RowsCovered
<1>5. Cardinality(tx[s].ins) \in Nat /\ Cardinality(tx[s].ins) <= Len(BatchOf[s])
  <2>1. tx[s].ins \in SUBSET Atomic!Ids(s)
    BY DEF IngestInv, RowsCovered
  <2>2. Cardinality(Atomic!Ids(s)) \in Nat
    BY BatchIds, FS_CardinalityType
  <2>3. IsFiniteSet(tx[s].ins) /\ Cardinality(tx[s].ins) <= Cardinality(Atomic!Ids(s))
    BY <2>1, BatchIds, FS_Subset
  <2>4. Cardinality(tx[s].ins) \in Nat
    BY <2>3, FS_CardinalityType
  <2> QED BY <2>2, <2>3, <2>4, BatchIds
<1>6. Cardinality(tx[s].ins) \in 0 .. Len(BatchOf[s])
  BY <1>1, <1>5
<1> QED BY <1>3, <1>4, <1>6

(* A row once stored is never taken back. *)
LEMMA CommitInv ==
  ASSUME IngestInv, NEW s \in Sender, Commit(s)
  PROVE  IngestInv'
<1> DEFINE t == [NoTx EXCEPT !.pc = "done"]
<1>1. /\ t \in Tx /\ t.pc = "done" /\ t.at = 1 /\ t.snapshot = {} /\ t.ins = {} /\ t.held = {}
  BY DEF NoTx, Tx
<1>2. tx' = [tx EXCEPT ![s] = t] /\ sends' = sends /\ tx[s].pc = "drops"
  BY DEF Commit
<1> HIDE DEF t
<1>3. tx' \in [Sender -> Tx] /\ tx'[s] = t /\ \A u \in Sender \ {s} : tx'[u] = tx[u]
  BY <1>1, <1>2 DEF IngestInv, TypeOK
<1>4. /\ rows' \in [RowId -> Sender \cup {None}]
      /\ \A i \in RowId : rows'[i] = IF i \in tx[s].ins THEN s ELSE rows[i]
  BY DEF Commit, IngestInv, TypeOK
<1>5. drops' \in [Field -> Nat]
  BY DEF Commit, IngestInv, TypeOK
<1>6. Len(BatchOf[s]) \in Nat /\ Cardinality(tx[s].ins) \in 0 .. Len(BatchOf[s])
  BY <1>2, InsIsFresh, BatchIds
<1>7. PICK a : a \in Answer /\ a.status # "waiting" /\ answer' = [answer EXCEPT ![s] = a]
  <2>1. /\ Receipt(s, Cardinality(tx[s].ins)) \in Answer
        /\ Receipt(s, Cardinality(tx[s].ins)).status = "stored"
    BY <1>6 DEF Receipt, Answer
  <2>2. NoReceipt("failed") \in Answer /\ NoReceipt("failed").status = "failed"
    BY DEF NoReceipt, Answer
  <2> QED BY <2>1, <2>2 DEF Commit
<1>8. answer' \in [Sender -> Answer] /\ answer'[s] = a /\ \A u \in Sender \ {s} : answer'[u] = answer[u]
  BY <1>7 DEF IngestInv, TypeOK
<1>9. \A u \in Sender \ {s} : \A i \in tx[u].ins : i \in RowId /\ rows'[i] = None
  BY <1>4 DEF IngestInv, TypeOK, Tx
<1>10. \A i \in RowId : rows[i] # None => rows'[i] # None
  BY <1>4, IngestAssumption
<1>11. TypeOK'
  <2>1. \A v \in Sender :
          /\ tx'[v].at <= Len(BatchOf[v]) + 1
          /\ \A i \in tx'[v].ins : rows'[i] = None
    BY <1>1, <1>3, <1>6, <1>9 DEF IngestInv, TypeOK
  <2>2. \A v \in Sender : \A u \in Sender \ {v} :
           tx'[v].ins \cap tx'[u].ins = {} /\ tx'[v].held \cap tx'[u].held = {}
    BY <1>1, <1>3 DEF IngestInv, TypeOK
  <2> QED BY <1>2, <1>3, <1>4, <1>5, <1>8, <2>1, <2>2 DEF IngestInv, TypeOK
<1>12. AnsweredWhenDone'
  BY <1>1, <1>3, <1>7, <1>8 DEF IngestInv, AnsweredWhenDone
<1>13. HeldInPlace'
  BY <1>1, <1>3 DEF IngestInv, HeldInPlace
<1>14. RowsCovered'
  <2>1. \A u \in Sender : \A n \in DOMAIN BatchOf[u] : BatchOf[u][n] \in RowId
    BY IngestAssumption
  <2>2. \A u \in Sender : tx[u].snapshot \subseteq RowId
    BY DEF IngestInv, TypeOK, Tx
  <2> QED BY <1>1, <1>3, <1>10, <2>1, <2>2 DEF IngestInv, RowsCovered, Atomic!Ids
<1>15. HeldFromBelow'
  BY <1>1, <1>3 DEF IngestInv, HeldFromBelow
<1> QED BY <1>11, <1>12, <1>13, <1>14, <1>15 DEF IngestInv

(* A failed attempt and a batch sent again both end with an empty          *)
(* transaction and an empty receipt.                                       *)
LEMMA ResetInv ==
  ASSUME IngestInv, NEW s \in Sender, NEW t \in Tx, NEW status \in {"waiting", "failed"},
         tx' = [tx EXCEPT ![s] = t], answer' = [answer EXCEPT ![s] = NoReceipt(status)],
         t.at = 1, t.snapshot = {}, t.ins = {}, t.held = {},
         t.pc = IF status = "waiting" THEN "begin" ELSE "done",
         rows' = rows, drops' = drops, sends' \in [Sender -> 1 .. MaxSends]
  PROVE  IngestInv'
<1>1. tx' \in [Sender -> Tx] /\ tx'[s] = t /\ \A u \in Sender \ {s} : tx'[u] = tx[u]
  BY DEF IngestInv, TypeOK
<1>2. NoReceipt(status) \in Answer /\ NoReceipt(status).status = status
  BY DEF NoReceipt, Answer
<1>3. /\ answer' \in [Sender -> Answer] /\ answer'[s] = NoReceipt(status)
      /\ \A u \in Sender \ {s} : answer'[u] = answer[u]
  BY <1>2 DEF IngestInv, TypeOK
<1>4. TypeOK'
  <2>1. Len(BatchOf[s]) \in Nat
    BY BatchIds
  <2>2. \A v \in Sender :
          /\ tx'[v].at <= Len(BatchOf[v]) + 1
          /\ \A i \in tx'[v].ins : rows[i] = None
    BY <1>1, <2>1 DEF IngestInv, TypeOK
  <2>3. \A v \in Sender : \A u \in Sender \ {v} :
           tx'[v].ins \cap tx'[u].ins = {} /\ tx'[v].held \cap tx'[u].held = {}
    BY <1>1 DEF IngestInv, TypeOK
  <2> QED BY <1>1, <1>3, <2>2, <2>3 DEF IngestInv, TypeOK
<1>5. AnsweredWhenDone'
  BY <1>1, <1>2, <1>3 DEF IngestInv, AnsweredWhenDone
<1>6. HeldInPlace'
  BY <1>1 DEF IngestInv, HeldInPlace
<1>7. RowsCovered'
  BY <1>1 DEF IngestInv, RowsCovered, Atomic!Ids
<1>8. HeldFromBelow'
  BY <1>1 DEF IngestInv, HeldFromBelow
<1> QED BY <1>4, <1>5, <1>6, <1>7, <1>8 DEF IngestInv

LEMMA FailInv ==
  ASSUME IngestInv, NEW s \in Sender, Fail(s)
  PROVE  IngestInv'
<1> DEFINE t == [NoTx EXCEPT !.pc = "done"]
<1>1. /\ t \in Tx /\ t.pc = "done" /\ t.at = 1 /\ t.snapshot = {} /\ t.ins = {} /\ t.held = {}
  BY DEF NoTx, Tx
<1>2. tx' = [tx EXCEPT ![s] = t]
  BY DEF Fail
<1> HIDE DEF t
<1> QED BY <1>1, <1>2, ResetInv DEF Fail, IngestInv, TypeOK

LEMMA RetryInv ==
  ASSUME IngestInv, NEW s \in Sender, Retry(s)
  PROVE  IngestInv'
<1>1. /\ NoTx \in Tx /\ NoTx.pc = "begin" /\ NoTx.at = 1 /\ NoTx.snapshot = {}
      /\ NoTx.ins = {} /\ NoTx.held = {}
  BY DEF NoTx, Tx
<1>2. sends' \in [Sender -> 1 .. MaxSends]
  BY IngestAssumption DEF Retry, IngestInv, TypeOK
<1> QED BY <1>1, <1>2, ResetInv DEF Retry

LEMMA IngestNextInv == IngestInv /\ [Next]_vars => IngestInv'
<1> SUFFICES ASSUME IngestInv, [Next]_vars PROVE IngestInv'
  OBVIOUS
<1>1. ASSUME NEW s \in Sender, Step(s) PROVE IngestInv'
  BY <1>1, BeginInv, SkipRowInv, InsertRowInv, SecondAttemptInv, RowsDoneInv, AddDropInv,
     CommitInv DEF Step
<1>2. ASSUME NEW s \in Sender, Fail(s) \/ Victim(s) \/ Retry(s) PROVE IngestInv'
  BY <1>2, FailInv, RetryInv DEF Victim
<1>3. CASE UNCHANGED vars
  BY <1>3 DEF vars, IngestInv, TypeOK, AnsweredWhenDone, HeldInPlace, RowsCovered, HeldFromBelow, Atomic!Ids
<1> QED BY <1>1, <1>2, <1>3 DEF Next

(* The invariant the other theorems rest on. *)
THEOREM SpecInv == Spec => []IngestInv
  BY IngestInitInv, IngestNextInv, PTL DEF Spec

(* The state of the transactions is well formed at every step: what the    *)
(* unique index of focus_rows and the counters' row locks promise holds,   *)
(* and a receipt never counts more rows than its batch has (Store.Ingest). *)
THEOREM SpecTypeOK == Spec => []TypeOK
<1>1. IngestInv => TypeOK
  BY DEF IngestInv
<1> QED BY <1>1, SpecInv, PTL

-----------------------------------------------------------------------------
(* In a cycle of waits, whoever waits for a counter waits for a            *)
(* transaction that waits for a greater one, and among finitely many       *)
(* transactions one waits for the greatest.                                *)
LEMMA CyclesAreOfRows == IngestInv => DropsNeverDeadlock
<1> SUFFICES ASSUME IngestInv, NEW s \in Sender, Deadlocked(s), tx[s].pc # "rows"
             PROVE  FALSE
  BY DEF DropsNeverDeadlock
<1>1. PICK C \in SUBSET Sender :
        s \in C /\ \A u \in C : (\E v \in C : WaitsFor(u, v)) /\ (\E v \in C : WaitsFor(v, u))
  BY DEF Deadlocked
<1> DEFINE D == {u \in C : tx[u].pc = "drops"}
           F == {FieldAt(u) : u \in D}
<1>2. s \in D
  BY <1>1 DEF WaitsFor
<1>3. \A u \in D : FieldAt(u) \in Nat
  <2> SUFFICES ASSUME NEW u \in D PROVE FieldAt(u) \in Nat
    OBVIOUS
  <2>1. tx[u].held # DropsOf[u] /\ tx[u].held \subseteq DropsOf[u]
    BY <1>1 DEF WaitsFor, IngestInv, HeldFromBelow
  <2>2. u \in Sender /\ tx \in [Sender -> Tx]
    BY DEF IngestInv, TypeOK
  <2>3. FieldAt(u) \in DropsOf[u]
    BY <2>1, <2>2, FieldAtIsLeast
  <2> QED BY <2>2, <2>3, IngestAssumption
<1>4. \A u \in D : \E v \in D : FieldAt(u) < FieldAt(v)
  <2> SUFFICES ASSUME NEW u \in D PROVE \E v \in D : FieldAt(u) < FieldAt(v)
    OBVIOUS
  <2>1. PICK v \in C : WaitsFor(u, v)
    BY <1>1
  <2>2. FieldAt(u) \in tx[v].held
    BY <2>1 DEF WaitsFor
  <2>3. v \in D
    BY <2>2 DEF IngestInv, HeldInPlace
  <2>4. tx[v].held # DropsOf[v] /\ tx[v].held \subseteq DropsOf[v]
    BY <1>1, <2>3 DEF WaitsFor, IngestInv, HeldFromBelow
  <2>5. v \in Sender /\ tx \in [Sender -> Tx]
    BY DEF IngestInv, TypeOK
  <2>6. FieldAt(v) \in DropsOf[v] \ tx[v].held
    BY <2>4, <2>5, FieldAtIsLeast
  <2> QED BY <2>2, <2>3, <2>5, <2>6 DEF IngestInv, HeldFromBelow
<1>5. IsFiniteSet(F)
  <2>1. IsFiniteSet(D)
    BY IngestAssumption, FS_Subset
  <2> DEFINE h == [u \in D |-> FieldAt(u)]
  <2>2. h \in Surjection(D, F)
    BY DEF Surjection
  <2> QED BY <2>1, <2>2, FS_Surjection
<1>6. PICK x \in F : \A y \in F : y <= x
  <2>1. F \subseteq Nat /\ F # {}
    BY <1>2, <1>3
  <2> QED BY <1>5, <2>1, GreatestNumber
<1>7. PICK u \in D : x = FieldAt(u)
  BY <1>6
<1>8. PICK v \in D : FieldAt(u) < FieldAt(v)
  BY <1>4
<1> QED BY <1>3, <1>6, <1>7, <1>8

(* No deadlock of Postgres passes through the drop counters, whatever the  *)
(* batches: only their rows can be in a cycle (writeDrops sorts the fields *)
(* and runs after the rows).                                               *)
THEOREM SpecDropsNeverDeadlock == Spec => []DropsNeverDeadlock
  BY SpecInv, CyclesAreOfRows, PTL

-----------------------------------------------------------------------------
LEMMA IngestInitRefines == Init => Atomic!Init
  BY DEF Init, Atomic!Init, NoReceipt, Atomic!NoReceipt

(* The two modules count the rows of a receipt alike. *)
LEMMA SameCardinality == ASSUME NEW S PROVE Atomic!Cardinality(S) = Cardinality(S)
  BY DEF Atomic!Cardinality, Cardinality

(* A commit is the whole Ingest of the abstract specification. *)
LEMMA CommitRefines ==
  ASSUME IngestInv, NEW s \in Sender, Commit(s)
  PROVE  Atomic!Ingest(s)
<1>1. tx[s].pc = "drops" /\ tx[s].held = DropsOf[s] /\ tx[s].ins = Atomic!Fresh(s)
  BY InsIsFresh DEF Commit
<1>2. answer[s].status = "waiting"
  BY <1>1 DEF IngestInv, AnsweredWhenDone
<1>3. \A n : Receipt(s, n) = Atomic!Receipt(s, n)
  BY DEF Receipt, Atomic!Receipt
<1>4. NoReceipt("failed") = Atomic!NoReceipt("failed")
  BY DEF NoReceipt, Atomic!NoReceipt
<1>5. rows' = [i \in RowId |-> IF i \in Atomic!Fresh(s) THEN s ELSE rows[i]]
  BY <1>1 DEF Commit
<1>6. drops' = [f \in Field |-> IF f \in DropsOf[s] THEN drops[f] + 1 ELSE drops[f]]
  BY <1>1 DEF Commit
<1>7. answer' \in {[answer EXCEPT ![s] = Atomic!Receipt(s, Atomic!Cardinality(Atomic!Fresh(s)))],
                   [answer EXCEPT ![s] = Atomic!NoReceipt("failed")]}
  <2>1. Receipt(s, Cardinality(tx[s].ins)) = Atomic!Receipt(s, Atomic!Cardinality(Atomic!Fresh(s)))
    BY <1>1, <1>3, SameCardinality
  <2> QED BY <1>4, <2>1 DEF Commit
<1> QED BY <1>2, <1>5, <1>6, <1>7 DEF Atomic!Ingest

LEMMA IngestNextRefines == IngestInv /\ [Next]_vars => [Atomic!Next]_Atomic!vars
<1> SUFFICES ASSUME IngestInv, [Next]_vars PROVE [Atomic!Next]_Atomic!vars
  OBVIOUS
<1>1. ASSUME NEW s \in Sender, Step(s) PROVE Atomic!Next \/ UNCHANGED Atomic!vars
  <2>1. CASE Commit(s)
    BY <2>1, CommitRefines DEF Atomic!Next
  <2>2. CASE ~Commit(s)
    BY <1>1, <2>2 DEF Step, Begin, SkipRow, InsertRow, SecondAttempt, RowsDone, AddDrop, Atomic!vars
  <2> QED BY <2>1, <2>2
<1>2. ASSUME NEW s \in Sender, Fail(s) \/ Victim(s) PROVE Atomic!Next
  <2>1. Fail(s) /\ answer[s].status = "waiting"
    BY <1>2 DEF Victim, Fail, IngestInv, AnsweredWhenDone
  <2>2. Atomic!Refuse(s)
    BY <2>1 DEF Fail, Atomic!Refuse, NoReceipt, Atomic!NoReceipt
  <2> QED BY <2>2 DEF Atomic!Next
<1>3. ASSUME NEW s \in Sender, Retry(s) PROVE Atomic!Next
  <2>1. Atomic!Retry(s)
    BY <1>3 DEF Retry, Atomic!Retry, NoReceipt, Atomic!NoReceipt
  <2> QED BY <2>1 DEF Atomic!Next
<1>4. CASE UNCHANGED vars
  BY <1>4 DEF vars, Atomic!vars
<1> QED BY <1>1, <1>2, <1>3, <1>4 DEF Next

(* Store.Ingest keeps its promise, "a batch whole or not at all", for any  *)
(* interleaving of the transactions: with its two attempts, waits, rolled  *)
(* back statements and lost answers, it implements AtomicIngest.           *)
THEOREM SpecIngestIsAtomic == Spec => IngestIsAtomic
  BY SpecInv, IngestInitRefines, IngestNextRefines, PTL DEF Spec, IngestIsAtomic, Atomic!Spec

-----------------------------------------------------------------------------
(* ServiceStart.                                                           *)

(* An instance's progress, by step. *)
Stage ==
  [step : {"down"}]
    \cup [step : {"lock", "check", "open"}, tenant : Nat \ {0}]
    \cup [step : {"apply"}, tenant : Nat \ {0}, todo : SUBSET Nat]
    \cup [step : {"bind"}, tenant : Nat \ {0}, left : SUBSET Owners, missing : SUBSET Owners]
    \cup [step : {"serving"}, tenant : Nat \ {0}, missing : SUBSET Owners]
    \cup [step : {"failed"}, reason : {"history", "role", "lookup", "bind"}]

StartTypes ==
  /\ created \in BOOLEAN
  /\ instance \in [Instances -> Stage] /\ tenantOf \in [Owners -> Nat] /\ starts \in Nat

(* The migrations ran from the first on, each once, and each is recorded.  *)
InOrder ==
  /\ executed \in Seq(Nat) /\ DOMAIN applied = 1 .. Len(executed)
  /\ \A n \in 1 .. Len(executed) : executed[n] = n

Has(i) == \A v \in DOMAIN Migrations[i] : v \in DOMAIN applied /\ applied[v] = Migrations[i][v]

(* Only the lock's holder is between its check and its last migration, so  *)
(* what it found there stands; and an instance with the owner's connection *)
(* leaves with its whole schema recorded and its owner known to own it.    *)
Locked ==
  \A i \in Instances :
    /\ instance[i].step \in {"check", "apply"} => lockHolder = i
    /\ instance[i].step = "apply" => knows(i) /\ instance[i].todo = DOMAIN Migrations[i] \ DOMAIN applied
    /\ instance[i].step = "apply" => created
    /\ instance[i].step \in {"open", "bind", "serving"} /\ i \in Migrates => Has(i) /\ created

(* Whether a role may serve, where the instance may have migrated. *)
Allowed(i) == Role[i] # "unsafe" /\ (i \in Migrates => Role[i] = "app")

(* An owner looked up has a tenant or is known to miss one. *)
Bound ==
  \A i \in Instances :
    /\ instance[i].step = "bind" =>
         \A o \in Binds[i] : o \in instance[i].left \/ o \in instance[i].missing \/ tenantOf[o] # 0
    /\ instance[i].step = "serving" => OwnersBound(i)

Opened == \A i \in Instances : instance[i].step \in {"bind", "serving"} => Allowed(i)

StartInv == StartTypes /\ InOrder /\ Locked /\ Opened /\ Bound

LEMMA StartInitInv == StartInit => StartInv
<1>. SUFFICES ASSUME StartInit PROVE StartInv
  OBVIOUS
<1>1. instance = [i \in Instances |-> Down] /\ \A i \in Instances : instance[i] = Down
  BY DEF StartInit
<1>2. Down \in Stage /\ Down.step = "down"
  BY DEF Down, Stage
<1>3. StartTypes
  BY <1>1, <1>2 DEF StartInit, StartTypes
<1>4. InOrder
  <2>1. DOMAIN applied = {} /\ executed = <<>>
    BY DEF StartInit
  <2>2. executed \in Seq(Nat) /\ Len(executed) = 0 /\ 1 .. 0 = {}
    BY <2>1
  <2>. QED  BY <2>1, <2>2 DEF InOrder
<1>5. Locked /\ Opened /\ Bound
  BY <1>1, <1>2 DEF Locked, Opened, Bound
<1>. QED  BY <1>3, <1>4, <1>5 DEF StartInv

(* The fields that each step of a start has. *)
LEMMA StageFields ==
  ASSUME NEW s \in Stage
  PROVE  /\ s.step \in {"down", "serving", "lock", "check", "open", "apply", "bind", "failed"}
         /\ s.step \in {"lock", "check", "open"} => s \in [step : {"lock", "check", "open"}, tenant : Nat \ {0}]
         /\ s.step = "apply" => s \in [step : {"apply"}, tenant : Nat \ {0}, todo : SUBSET Nat]
         /\ s.step = "bind" =>
              s \in [step : {"bind"}, tenant : Nat \ {0}, left : SUBSET Owners, missing : SUBSET Owners]
         /\ s.step = "serving" => s \in [step : {"serving"}, tenant : Nat \ {0}, missing : SUBSET Owners]
         /\ s.step = "failed" => s.reason \in {"history", "role", "lookup", "bind"}
  BY DEF Stage

(* What a step has to show of the instance that takes it, when the         *)
(* migrations recorded and the tenants bound stay.                         *)
Fits(i, state, holder, named) ==
  /\ state \in Stage
  /\ state.step \in {"check", "apply"} => holder = i
  /\ state.step = "apply" => knows(i) /\ state.todo = DOMAIN Migrations[i] \ DOMAIN applied
  /\ state.step = "apply" => named
  /\ state.step \in {"open", "bind", "serving"} /\ i \in Migrates => Has(i) /\ named
  /\ state.step \in {"bind", "serving"} => Allowed(i)
  /\ state.step = "bind" => \A o \in Binds[i] : o \in state.left \/ o \in state.missing \/ tenantOf[o] # 0
  /\ state.step # "serving"

LEMMA MoveInv ==
  ASSUME StartInv, NEW i \in Instances, NEW state, Move(i, state), Fits(i, state, lockHolder', created'),
         applied' = applied, executed' = executed, tenantOf' = tenantOf, starts' \in Nat,
         created' \in BOOLEAN, created => created',
         lockHolder' # lockHolder => lockHolder \in {i, ""}
  PROVE  StartInv'
<1>1. /\ instance \in [Instances -> Stage] /\ instance' = [instance EXCEPT ![i] = state] /\ state \in Stage
  BY DEF Move, StartInv, StartTypes, Fits
<1>2. instance' \in [Instances -> Stage] /\ instance'[i] = state
      /\ \A j \in Instances : j # i => instance'[j] = instance[j]
  BY <1>1
<1>3. StartTypes' /\ InOrder'
  BY <1>2 DEF StartInv, StartTypes, InOrder
<1>4. Locked'
  <2>. SUFFICES ASSUME NEW j \in Instances
                PROVE /\ instance'[j].step \in {"check", "apply"} => lockHolder' = j
                      /\ instance'[j].step = "apply" =>
                           knows(j) /\ instance'[j].todo = DOMAIN Migrations[j] \ DOMAIN applied
                      /\ instance'[j].step = "apply" => created'
                      /\ instance'[j].step \in {"open", "bind", "serving"} /\ j \in Migrates =>
                           Has(j) /\ created'
    BY DEF Locked, knows, Has
  <2>1. CASE j = i
    BY <1>2, <2>1 DEF Fits
  <2>2. CASE j # i
    <3>1. instance'[j] = instance[j]
      BY <1>2, <2>2
    <3>2. instance[j].step \in {"check", "apply"} => lockHolder = j /\ lockHolder' = lockHolder
      <4>1. instance[j].step \in {"check", "apply"} => lockHolder = j
        BY DEF StartInv, Locked
      <4>2. j # ""
        BY StartAssumption
      <4>. QED  BY <2>2, <4>1, <4>2
    <3>. QED  BY <3>1, <3>2 DEF StartInv, Locked
  <2>. QED  BY <2>1, <2>2
<1>5. Opened'
  BY <1>2 DEF StartInv, Opened, Allowed, Fits
<1>6. Bound'
  BY <1>2 DEF StartInv, Bound, OwnersBound, Fits
<1>. QED  BY <1>3, <1>4, <1>5, <1>6 DEF StartInv

LEMMA EndInv ==
  ASSUME StartInv, NEW i \in Instances, NEW state, End(i, state),
         state.step \notin {"check", "apply"}, Fits(i, state, "", created)
  PROVE  StartInv'
<1>1. /\ Move(i, state) /\ applied' = applied /\ executed' = executed /\ tenantOf' = tenantOf
      /\ starts' = starts /\ lockHolder' = (IF lockHolder = i THEN "" ELSE lockHolder)
      /\ created' = created
  BY DEF End
<1>2. starts' \in Nat /\ created \in BOOLEAN
  BY <1>1 DEF StartInv, StartTypes
<1>3. Fits(i, state, lockHolder', created')
  BY <1>1 DEF Fits
<1>. QED  BY <1>1, <1>2, <1>3, MoveInv

LEMMA StartStepInv ==
  ASSUME StartInv, NEW i \in Instances, Start(i)
  PROVE  StartInv'
<1>. DEFINE state == [step |-> IF i \in Migrates THEN "lock" ELSE "open", tenant |-> starts + 1]
<1>1. starts \in Nat /\ created \in BOOLEAN
  BY DEF StartInv, StartTypes
<1>2. /\ Move(i, state) /\ applied' = applied /\ executed' = executed /\ tenantOf' = tenantOf
      /\ starts' = starts + 1 /\ lockHolder' = lockHolder /\ created' = created
  BY DEF Start
<1>3. state.step = (IF i \in Migrates THEN "lock" ELSE "open") /\ state.tenant = starts + 1
  OBVIOUS
<1>4. state \in Stage
  BY <1>1 DEF Stage
<1>. HIDE DEF state
<1>5. Fits(i, state, lockHolder', created')
  BY <1>3, <1>4 DEF Fits
<1>. QED  BY <1>1, <1>2, <1>5, MoveInv

LEMMA TakeLockInv ==
  ASSUME StartInv, NEW i \in Instances, TakeLock(i)
  PROVE  StartInv'
<1>. DEFINE state == [instance[i] EXCEPT !.step = "check"]
<1>1. /\ instance[i].step = "lock" /\ instance[i] \in Stage /\ starts \in Nat /\ created \in BOOLEAN
  BY DEF StartInv, StartTypes, TakeLock
<1>2. /\ Move(i, state) /\ applied' = applied /\ executed' = executed /\ tenantOf' = tenantOf
      /\ starts' = starts /\ lockHolder' = i /\ lockHolder = "" /\ created' = created
  BY DEF TakeLock
<1>3. state \in [step : {"lock", "check", "open"}, tenant : Nat \ {0}] /\ state.step = "check"
  BY <1>1, StageFields
<1>. HIDE DEF state
<1>4. Fits(i, state, lockHolder', created')
  BY <1>2, <1>3 DEF Fits, Stage
<1>. QED  BY <1>1, <1>2, <1>4, MoveInv

LEMMA CheckHistoryInv ==
  ASSUME StartInv, NEW i \in Instances, CheckHistory(i)
  PROVE  StartInv'
<1>1. /\ instance[i].step = "check" /\ instance[i] \in Stage /\ starts \in Nat /\ lockHolder = i
  BY DEF StartInv, StartTypes, CheckHistory, Locked
<1>2. CASE knows(i)
  <2>. DEFINE state == [step |-> "apply", tenant |-> instance[i].tenant,
                        todo |-> DOMAIN Migrations[i] \ DOMAIN applied]
  <2>1. /\ Move(i, state) /\ applied' = applied /\ executed' = executed /\ tenantOf' = tenantOf
        /\ starts' = starts /\ lockHolder' = lockHolder /\ created' = TRUE
    BY <1>2 DEF CheckHistory
  <2>2. /\ state.step = "apply" /\ state.tenant = instance[i].tenant
        /\ state.todo = DOMAIN Migrations[i] \ DOMAIN applied
    OBVIOUS
  <2>3. instance[i].tenant \in Nat \ {0}
    BY <1>1, StageFields
  <2>4. DOMAIN Migrations[i] \ DOMAIN applied \in SUBSET Nat
    <3>1. PICK n \in Nat : DOMAIN Migrations[i] = 1 .. n
      BY StartAssumption
    <3>2. \A v \in 1 .. n : v \in Nat
      OBVIOUS
    <3>. QED  BY <3>1, <3>2
  <2>5. state \in [step : {"apply"}, tenant : Nat \ {0}, todo : SUBSET Nat]
    BY <2>3, <2>4
  <2>. HIDE DEF state
  <2>6. Fits(i, state, lockHolder', created')
    BY <1>1, <1>2, <2>1, <2>2, <2>5 DEF Fits, Stage
  <2>. QED  BY <1>1, <2>1, <2>6, MoveInv
<1>3. CASE ~knows(i)
  <2>. DEFINE state == [step |-> "failed", reason |-> "history"]
  <2>1. /\ Move(i, state) /\ applied' = applied /\ executed' = executed /\ tenantOf' = tenantOf
        /\ starts' = starts /\ lockHolder' = "" /\ created' = TRUE
    BY <1>3 DEF CheckHistory
  <2>2. state.step = "failed" /\ state \in Stage
    BY DEF Stage
  <2>. HIDE DEF state
  <2>3. Fits(i, state, lockHolder', created')
    BY <2>2 DEF Fits
  <2>. QED  BY <1>1, <2>1, <2>3, MoveInv
<1>. QED  BY <1>2, <1>3

(* The smallest migration to do is the one after the last recorded. *)
LEMMA NextMigration ==
  ASSUME NEW k \in Nat, NEW n \in Nat, NEW todo, todo = (1 .. n) \ (1 .. k), todo # {}
  PROVE  Min(todo) = k + 1 /\ k + 1 \in todo
<1>1. k + 1 \in todo /\ \A y \in todo : k + 1 =< y /\ y \in Nat
  OBVIOUS
<1>2. Min(todo) \in todo /\ \A y \in todo : Min(todo) =< y
  BY <1>1 DEF Min
<1>. QED  BY <1>1, <1>2

LEMMA ApplyInv ==
  ASSUME StartInv, NEW i \in Instances, Apply(i)
  PROVE  StartInv'
<1>. DEFINE v == Min(instance[i].todo)
            k == Len(executed)
            state == [instance[i] EXCEPT !.todo = instance[i].todo \ {v}]
<1>1. /\ instance[i].step = "apply" /\ instance[i] \in Stage /\ lockHolder = i /\ knows(i)
      /\ instance[i].todo = DOMAIN Migrations[i] \ DOMAIN applied /\ instance[i].todo # {}
      /\ instance \in [Instances -> Stage] /\ created
  BY DEF StartInv, StartTypes, Apply, Locked
<1>2. executed \in Seq(Nat) /\ DOMAIN applied = 1 .. k /\ k \in Nat /\ \A n \in 1 .. k : executed[n] = n
  BY DEF StartInv, InOrder
<1>3. v = k + 1 /\ v \in instance[i].todo /\ v \notin DOMAIN applied
  <2>1. PICK n \in Nat : DOMAIN Migrations[i] = 1 .. n
    BY StartAssumption
  <2>2. instance[i].todo = (1 .. n) \ (1 .. k)
    BY <1>1, <1>2, <2>1
  <2>3. Min(instance[i].todo) = k + 1 /\ k + 1 \in instance[i].todo
    BY <1>1, <1>2, <2>2, NextMigration
  <2>. QED  BY <1>1, <2>3
<1>4. /\ applied' = [w \in DOMAIN applied \cup {v} |-> IF w = v THEN Migrations[i][v] ELSE applied[w]]
      /\ executed' = Append(executed, v)
      /\ instance' = [instance EXCEPT ![i] = state]
      /\ lockHolder' = lockHolder /\ tenantOf' = tenantOf /\ starts' = starts /\ created' = created
  BY <1>3 DEF Apply, Move
<1>5. state \in [step : {"apply"}, tenant : Nat \ {0}, todo : SUBSET Nat]
      /\ state.step = "apply" /\ state.todo = instance[i].todo \ {v}
  BY <1>1, StageFields
<1>. HIDE DEF state, v
<1>6. /\ instance' \in [Instances -> Stage] /\ instance'[i] = state
      /\ \A j \in Instances : j # i => instance'[j] = instance[j]
  BY <1>1, <1>4, <1>5 DEF Stage
<1>7. /\ DOMAIN applied' = 1 .. (k + 1) /\ applied'[v] = Migrations[i][v]
      /\ \A w \in DOMAIN applied : w \in DOMAIN applied' /\ applied'[w] = applied[w]
  BY <1>2, <1>3, <1>4
<1>8. StartTypes'
  BY <1>4, <1>6 DEF StartInv, StartTypes
<1>9. InOrder'
  <2>1. /\ executed' \in Seq(Nat) /\ Len(executed') = k + 1
        /\ \A n \in 1 .. (k + 1) : executed'[n] = IF n = k + 1 THEN v ELSE executed[n]
    BY <1>2, <1>3, <1>4
  <2>. QED  BY <1>2, <1>3, <1>7, <2>1 DEF InOrder
<1>10. Locked'
  <2>. SUFFICES ASSUME NEW j \in Instances
                PROVE /\ instance'[j].step \in {"check", "apply"} => lockHolder' = j
                      /\ instance'[j].step = "apply" =>
                           knows(j)' /\ instance'[j].todo = DOMAIN Migrations[j] \ DOMAIN applied'
                      /\ instance'[j].step = "apply" => created'
                      /\ instance'[j].step \in {"open", "bind", "serving"} /\ j \in Migrates =>
                           Has(j)' /\ created'
    BY DEF Locked
  <2>1. CASE j = i
    <3>1. knows(i)'
      <4>1. v \in DOMAIN Migrations[i]
        BY <1>1, <1>3
      <4>2. \A w \in DOMAIN applied' : w = v \/ w \in DOMAIN applied
        BY <1>4
      <4>. QED  BY <1>1, <1>7, <4>1, <4>2 DEF knows
    <3>2. state.todo = DOMAIN Migrations[i] \ DOMAIN applied'
      BY <1>1, <1>4, <1>5
    <3>. QED  BY <1>1, <1>4, <1>5, <1>6, <2>1, <3>1, <3>2
  <2>2. CASE j # i
    <3>1. instance'[j] = instance[j] /\ instance[j].step \notin {"check", "apply"}
      BY <1>1, <1>6, <2>2 DEF StartInv, Locked
    <3>2. Has(j) => Has(j)'
      BY <1>7 DEF Has
    <3>. QED  BY <1>1, <1>4, <3>1, <3>2 DEF StartInv, Locked
  <2>. QED  BY <2>1, <2>2
<1>11. Opened' /\ Bound'
  BY <1>1, <1>4, <1>5, <1>6 DEF StartInv, Opened, Allowed, Bound, OwnersBound
<1>. QED  BY <1>8, <1>9, <1>10, <1>11 DEF StartInv

LEMMA MigratedInv ==
  ASSUME StartInv, NEW i \in Instances, Migrated(i)
  PROVE  StartInv'
<1>. DEFINE state == [step |-> "open", tenant |-> instance[i].tenant]
<1>1. /\ instance[i].step = "apply" /\ instance[i] \in Stage /\ knows(i)
      /\ DOMAIN Migrations[i] \ DOMAIN applied = {} /\ created
  BY DEF StartInv, StartTypes, Migrated, Locked
<1>2. End(i, state)
  BY DEF Migrated
<1>3. instance[i].tenant \in Nat \ {0}
  BY <1>1, StageFields
<1>4. state.step = "open" /\ state \in Stage
  BY <1>3 DEF Stage
<1>5. Has(i)
  BY <1>1 DEF Has, knows
<1>. HIDE DEF state
<1>6. Fits(i, state, "", created)
  BY <1>1, <1>4, <1>5 DEF Fits
<1>. QED  BY <1>2, <1>4, <1>6, EndInv

LEMMA OpenInv ==
  ASSUME StartInv, NEW i \in Instances, Open(i)
  PROVE  StartInv'
<1>1. /\ instance[i].step = "open" /\ instance[i] \in Stage /\ Role[i] \in {"app", "owner", "unsafe"}
      /\ i \in Migrates => Has(i) /\ created
  BY StartAssumption DEF StartInv, StartTypes, Open, Locked
<1>2. CASE safe(i)
  <2>. DEFINE state == [step |-> "bind", tenant |-> instance[i].tenant, left |-> Binds[i], missing |-> {}]
  <2>1. End(i, state)
    BY <1>2 DEF Open
  <2>2. instance[i].tenant \in Nat \ {0} /\ Binds[i] \in SUBSET Owners /\ {} \in SUBSET Owners
    BY <1>1, StageFields, StartAssumption
  <2>3. state.step = "bind" /\ state.left = Binds[i] /\ state \in Stage
    BY <2>2 DEF Stage
  <2>. HIDE DEF state
  <2>4. Allowed(i)
    BY <1>1, <1>2 DEF safe, Allowed
  <2>5. Fits(i, state, "", created)
    BY <1>1, <2>3, <2>4 DEF Fits
  <2>. QED  BY <2>1, <2>3, <2>5, EndInv
<1>3. CASE ~safe(i)
  <2>. DEFINE state == [step |-> "failed", reason |-> "role"]
  <2>1. End(i, state)
    BY <1>3 DEF Open
  <2>2. state.step = "failed" /\ state \in Stage
    BY DEF Stage
  <2>. HIDE DEF state
  <2>3. Fits(i, state, "", created)
    BY <2>2 DEF Fits
  <2>. QED  BY <2>1, <2>2, <2>3, EndInv
<1>. QED  BY <1>2, <1>3

LEMMA LookUpInv ==
  ASSUME StartInv, NEW i \in Instances, NEW o \in Owners, LookUp(i, o)
  PROVE  StartInv'
<1>. DEFINE missed == IF tenantOf[o] = 0 THEN instance[i].missing \cup {o} ELSE instance[i].missing
            p == [instance[i] EXCEPT !.left = instance[i].left \ {o}]
            state == [p EXCEPT !.missing = missed]
            Binding == [step : {"bind"}, tenant : Nat \ {0}, left : SUBSET Owners, missing : SUBSET Owners]
<1>1. /\ instance[i].step = "bind" /\ instance[i] \in Binding /\ starts \in Nat /\ created \in BOOLEAN
      /\ i \in Migrates => Has(i) /\ created
      /\ Allowed(i)
      /\ \A b \in Binds[i] : b \in instance[i].left \/ b \in instance[i].missing \/ tenantOf[b] # 0
  BY StageFields DEF StartInv, StartTypes, LookUp, Locked, Opened, Bound
<1>2. CASE 1 \in DOMAIN applied
  <2>1. /\ Move(i, state) /\ applied' = applied /\ executed' = executed /\ tenantOf' = tenantOf
        /\ starts' = starts /\ lockHolder' = lockHolder /\ created' = created
    BY <1>1, <1>2 DEF LookUp
  <2>2. missed \in SUBSET Owners
    BY <1>1
  <2>3. /\ p \in Binding /\ p.step = "bind" /\ p.left = instance[i].left \ {o}
    BY <1>1
  <2>. HIDE DEF p
  <2>4. state \in Binding /\ state.step = "bind" /\ state.left = instance[i].left \ {o} /\ state.missing = missed
    BY <2>2, <2>3
  <2>. HIDE DEF state
  <2>5. \A b \in Binds[i] : b \in state.left \/ b \in state.missing \/ tenantOf[b] # 0
    BY <1>1, <2>4
  <2>6. Fits(i, state, lockHolder', created')
    BY <1>1, <2>1, <2>4, <2>5 DEF Fits, Stage
  <2>. QED  BY <1>1, <2>1, <2>6, MoveInv
<1>3. CASE 1 \notin DOMAIN applied
  <2>. DEFINE failed == [step |-> "failed", reason |-> "lookup"]
  <2>1. End(i, failed)
    BY <1>3 DEF LookUp
  <2>2. failed.step = "failed" /\ failed \in Stage
    BY DEF Stage
  <2>. HIDE DEF failed
  <2>3. Fits(i, failed, "", created)
    BY <2>2 DEF Fits
  <2>. QED  BY <2>1, <2>2, <2>3, EndInv
<1>. QED  BY <1>2, <1>3

LEMMA ProvisionInv ==
  ASSUME StartInv, NEW i \in Instances, Provision(i)
  PROVE  StartInv'
<1>. DEFINE missing == instance[i].missing
            tenant == instance[i].tenant
            Binding == [step : {"bind"}, tenant : Nat \ {0}, left : SUBSET Owners, missing : SUBSET Owners]
<1>1. /\ instance[i].step = "bind" /\ instance[i] \in Binding /\ instance[i].left = {}
      /\ i \in Migrates => Has(i) /\ created
      /\ Allowed(i)
      /\ \A o \in Binds[i] : o \in missing \/ tenantOf[o] # 0
  BY StageFields DEF StartInv, StartTypes, Provision, Locked, Opened, Bound
<1>2. CASE missing # {} /\ (i \notin Migrates \/ \E o \in missing : tenantOf[o] # 0)
  <2>. DEFINE state == [step |-> "failed", reason |-> "bind"]
  <2>1. End(i, state)
    BY <1>2 DEF Provision
  <2>2. state.step = "failed" /\ state \in Stage
    BY DEF Stage
  <2>. HIDE DEF state
  <2>3. Fits(i, state, "", created)
    BY <2>2 DEF Fits
  <2>. QED  BY <2>1, <2>2, <2>3, EndInv
<1>3. CASE ~(missing # {} /\ (i \notin Migrates \/ \E o \in missing : tenantOf[o] # 0))
  <2>. DEFINE state == [step |-> "serving", tenant |-> tenant, missing |-> missing]
  <2>1. /\ tenantOf' = [o \in Owners |-> IF o \in missing THEN tenant ELSE tenantOf[o]]
        /\ instance' = [instance EXCEPT ![i] = state] /\ created' = created
        /\ applied' = applied /\ executed' = executed /\ lockHolder' = lockHolder /\ starts' = starts
    BY <1>3 DEF Provision, Serving, Move
  <2>2. /\ tenantOf \in [Owners -> Nat] /\ tenant \in Nat \ {0} /\ missing \in SUBSET Owners
        /\ \A o \in missing : tenantOf[o] = 0
    <3>1. tenantOf \in [Owners -> Nat] /\ tenant \in Nat \ {0} /\ missing \in SUBSET Owners
      BY <1>1 DEF StartInv, StartTypes
    <3>. QED  BY <1>3, <3>1
  <2>3. state \in Stage /\ state.step = "serving" /\ state.tenant = tenant /\ state.missing = missing
    BY <2>2 DEF Stage
  <2>. HIDE DEF state
  <2>4. /\ instance' \in [Instances -> Stage] /\ instance'[i] = state
        /\ \A j \in Instances : j # i => instance'[j] = instance[j]
    BY <2>1, <2>3 DEF StartInv, StartTypes
  <2>5. /\ tenantOf' \in [Owners -> Nat]
        /\ \A o \in Owners : tenantOf[o] # 0 => tenantOf'[o] = tenantOf[o]
        /\ \A o \in missing : tenantOf'[o] = tenant
    BY <2>1, <2>2
  <2>6. \A j \in Instances : \A o \in Binds[j] : o \in Owners
    BY StartAssumption
  <2>7. StartTypes' /\ InOrder'
    BY <2>1, <2>4, <2>5 DEF StartInv, StartTypes, InOrder
  <2>8. Locked' /\ Opened'
    BY <1>1, <2>1, <2>3, <2>4 DEF StartInv, Locked, Opened, Allowed, knows, Has
  <2>9. Bound'
    <3>. SUFFICES ASSUME NEW j \in Instances
                  PROVE /\ instance'[j].step = "bind" =>
                             \A o \in Binds[j] :
                                o \in instance'[j].left \/ o \in instance'[j].missing \/ tenantOf'[o] # 0
                        /\ instance'[j].step = "serving" => OwnersBound(j)'
      BY DEF Bound
    <3>1. CASE j = i
      <4>1. \A o \in Binds[i] : tenantOf'[o] # 0
        BY <1>1, <2>2, <2>5, <2>6
      <4>. QED  BY <2>3, <2>4, <2>5, <3>1, <4>1 DEF OwnersBound
    <3>2. CASE j # i /\ instance[j].step = "bind"
      BY <2>4, <2>5, <2>6, <3>2 DEF StartInv, Bound
    <3>3. CASE j # i /\ instance[j].step = "serving"
      <4>1. /\ OwnersBound(j) /\ instance'[j] = instance[j] /\ instance[j].tenant \in Nat \ {0}
            /\ instance[j].missing \in SUBSET Owners
        BY <2>4, <3>3, StageFields DEF StartInv, StartTypes, Bound
      <4>. QED  BY <2>5, <2>6, <3>3, <4>1 DEF OwnersBound
    <3>. QED  BY <2>4, <3>1, <3>2, <3>3
  <2>. QED  BY <2>7, <2>8, <2>9 DEF StartInv
<1>. QED  BY <1>2, <1>3

LEMMA CrashInv ==
  ASSUME StartInv, NEW i \in Instances, Crash(i)
  PROVE  StartInv'
<1>1. Down \in Stage /\ Down.step = "down" /\ End(i, Down)
  BY DEF Down, Stage, Crash
<1>2. Fits(i, Down, "", created)
  BY <1>1 DEF Fits
<1>. QED  BY <1>1, <1>2, EndInv

LEMMA StartNextInv == StartInv /\ [StartNext]_startVars => StartInv'
<1>. SUFFICES ASSUME StartInv, [StartNext]_startVars PROVE StartInv'
  OBVIOUS
<1>1. CASE StartNext
  BY <1>1, StartStepInv, TakeLockInv, CheckHistoryInv, ApplyInv, MigratedInv, OpenInv, LookUpInv,
     ProvisionInv, CrashInv DEF StartNext
<1>2. CASE UNCHANGED startVars
  BY <1>2 DEF startVars, StartInv, StartTypes, InOrder, Locked, knows, Has, Opened, Allowed,
     Bound, OwnersBound
<1>. QED  BY <1>1, <1>2

(* However starts of several releases overlap and crash, and for any       *)
(* instances, releases, roles and owners: each migration takes effect once *)
(* and in order; no instance serves on a role that reads past row level    *)
(* security; one with the owner's connection serves on its own migrations, *)
(* and one without it on whatever it finds; and the owners an instance     *)
(* found unbound are in the tenant it made (MigrateFrom, apply, checkRole, *)
(* bindOwners).                                                            *)
THEOREM SpecStartIsSafe == StartSpec => []StartIsSafe
<1>1. StartInv => StartIsSafe
  <2>. SUFFICES ASSUME StartInv PROVE StartIsSafe
    OBVIOUS
  <2>1. \A m, n \in DOMAIN executed : m < n => executed[m] < executed[n]
    BY DEF StartInv, InOrder
  <2>2. \A i \in Instances : instance[i] \in Stage
    BY DEF StartInv, StartTypes
  <2>3. \A i \in Instances : instance[i].step = "failed" => instance[i].reason # "apply"
    BY <2>2, StageFields
  <2>4. ASSUME NEW i \in Instances, instance[i].step = "serving" PROVE SchemaFound(i) /\ OwnersBound(i)
    BY <2>4 DEF StartInv, Locked, Has, Opened, Allowed, Bound, SchemaFound
  <2>. QED  BY <2>1, <2>3, <2>4 DEF StartIsSafe, MigratedOnce
<1>. QED  BY <1>1, StartInitInv, StartNextInv, PTL DEF StartSpec

-----------------------------------------------------------------------------
(* EgressCounters. Every call is in one place, a flush holds counts only   *)
(* while it writes them, and once the last flush has taken its counts what *)
(* is pending came after it.                                               *)

Counts == [Outcomes -> Nat]

EgressTypes ==
  /\ pending \in Counts /\ taken \in Counts /\ written \in Counts
  /\ made \in Counts /\ repeated \in Counts /\ late \in Counts
  /\ flusher \in {"waiting", "writing", "last", "done", "failed"}

Balanced == \A o \in Outcomes : written[o] + taken[o] + pending[o] = made[o] + repeated[o]

Flushed ==
  /\ flusher \in {"waiting", "done", "failed"} => taken = NoCounts
  /\ flusher \in {"waiting", "writing"} => late = NoCounts
  /\ flusher \in {"last", "done"} => pending = late

EgressInv == EgressTypes /\ Balanced /\ Flushed

LEMMA AddCounts ==
  ASSUME NEW a \in Counts, NEW b \in Counts
  PROVE  Add(a, b) \in Counts /\ \A o \in Outcomes : Add(a, b)[o] = a[o] + b[o]
  BY DEF Counts, Add

LEMMA NoCountsCount == NoCounts \in Counts /\ \A o \in Outcomes : NoCounts[o] = 0
  BY DEF Counts, NoCounts

LEMMA EgressInitInv == EgressInit => EgressInv
  BY NoCountsCount DEF EgressInit, EgressInv, EgressTypes, Balanced, Flushed

(* A call is counted once, where it is pending and where it was made. *)
LEMMA RecordInv ==
  ASSUME EgressInv, NEW outcome \in Outcomes, Record(outcome)
  PROVE  EgressInv'
<1>. DEFINE one == [NoCounts EXCEPT ![outcome] = 1]
<1>1. one \in Counts
  BY NoCountsCount DEF Counts
<1>2. /\ pending' = Add(pending, one) /\ made' = Add(made, one)
      /\ late' = (IF flusher \in {"waiting", "writing"} THEN late ELSE Add(late, one))
      /\ taken' = taken /\ written' = written /\ repeated' = repeated /\ flusher' = flusher
  BY DEF Record
<1>. HIDE DEF one
<1>3. /\ pending \in Counts /\ made \in Counts /\ late \in Counts /\ taken \in Counts
      /\ written \in Counts /\ repeated \in Counts
  BY DEF EgressInv, EgressTypes
<1>4. EgressTypes'
  BY <1>1, <1>2, <1>3, AddCounts DEF EgressInv, EgressTypes
<1>5. Balanced'
  <2>. SUFFICES ASSUME NEW o \in Outcomes
                PROVE written[o] + taken[o] + pending'[o] = made'[o] + repeated[o]
    BY <1>2 DEF Balanced
  <2>1. pending'[o] = pending[o] + one[o] /\ made'[o] = made[o] + one[o]
    BY <1>1, <1>2, <1>3, AddCounts
  <2>2. /\ one[o] \in Nat /\ pending[o] \in Nat /\ made[o] \in Nat /\ written[o] \in Nat
        /\ taken[o] \in Nat /\ repeated[o] \in Nat
    BY <1>1, <1>3 DEF Counts
  <2>3. written[o] + taken[o] + pending[o] = made[o] + repeated[o]
    BY DEF EgressInv, Balanced
  <2>. QED  BY <2>1, <2>2, <2>3
<1>6. Flushed'
  BY <1>2 DEF EgressInv, Flushed
<1>. QED  BY <1>4, <1>5, <1>6 DEF EgressInv

LEMMA FlushInv ==
  ASSUME EgressInv, NEW last \in BOOLEAN, Flush(last)
  PROVE  EgressInv'
<1>1. /\ flusher = "waiting" /\ taken' = pending /\ pending' = NoCounts
      /\ flusher' = IF pending = NoCounts THEN (IF last THEN "done" ELSE "waiting")
                    ELSE (IF last THEN "last" ELSE "writing")
      /\ written' = written /\ made' = made /\ repeated' = repeated /\ late' = late
  BY DEF Flush
<1>2. taken = NoCounts /\ late = NoCounts
  BY <1>1 DEF EgressInv, Flushed
<1>3. EgressTypes'
  BY <1>1, NoCountsCount DEF EgressInv, EgressTypes
<1>4. Balanced'
  <2>. SUFFICES ASSUME NEW o \in Outcomes
                PROVE written[o] + pending[o] + NoCounts[o] = made[o] + repeated[o]
    BY <1>1 DEF Balanced
  <2>1. pending[o] \in Nat /\ written[o] \in Nat /\ NoCounts[o] = 0
    BY NoCountsCount DEF EgressInv, EgressTypes, Counts
  <2>2. written[o] + NoCounts[o] + pending[o] = made[o] + repeated[o]
    BY <1>2 DEF EgressInv, Balanced
  <2>. QED  BY <2>1, <2>2
<1>5. Flushed'
  BY <1>1, <1>2 DEF Flushed
<1>. QED  BY <1>3, <1>4, <1>5 DEF EgressInv

(* A write that fails is pending again, one whose answer is lost is in the *)
(* database as well.                                                       *)
LEMMA AddEgressInv ==
  ASSUME EgressInv, NEW result \in {"stored", "failed", "unheard"}, AddEgress(result)
  PROVE  EgressInv'
<1>1. /\ flusher \in {"writing", "last"} /\ taken' = NoCounts
      /\ written' = (IF result = "failed" THEN written ELSE Add(written, taken))
      /\ repeated' = (IF result = "unheard" THEN Add(repeated, taken) ELSE repeated)
      /\ pending' = (IF result = "stored" THEN pending ELSE Add(pending, taken))
      /\ made' = made /\ late' = late
  BY DEF AddEgress, putBack
<1>2. /\ flusher = "writing" => flusher' = "waiting"
      /\ flusher = "last" => flusher' = IF result = "stored" THEN "done" ELSE "failed"
  BY DEF AddEgress
<1>3. /\ pending \in Counts /\ taken \in Counts /\ written \in Counts /\ repeated \in Counts /\ made \in Counts
  BY DEF EgressInv, EgressTypes
<1>4. EgressTypes'
  BY <1>1, <1>2, <1>3, AddCounts, NoCountsCount DEF EgressInv, EgressTypes
<1>5. Balanced'
  <2>. SUFFICES ASSUME NEW o \in Outcomes
                PROVE written'[o] + NoCounts[o] + pending'[o] = made[o] + repeated'[o]
    BY <1>1 DEF Balanced
  <2>1. /\ pending[o] \in Nat /\ taken[o] \in Nat /\ written[o] \in Nat /\ made[o] \in Nat
        /\ repeated[o] \in Nat /\ NoCounts[o] = 0
    BY <1>3, NoCountsCount DEF Counts
  <2>2. /\ written'[o] = (IF result = "failed" THEN written[o] ELSE written[o] + taken[o])
        /\ repeated'[o] = (IF result = "unheard" THEN repeated[o] + taken[o] ELSE repeated[o])
        /\ pending'[o] = (IF result = "stored" THEN pending[o] ELSE pending[o] + taken[o])
    BY <1>1, <1>3, AddCounts
  <2>3. written[o] + taken[o] + pending[o] = made[o] + repeated[o]
    BY DEF EgressInv, Balanced
  <2>. QED  BY <2>1, <2>2, <2>3
<1>6. Flushed'
  BY <1>1, <1>2 DEF EgressInv, Flushed
<1>. QED  BY <1>4, <1>5, <1>6 DEF EgressInv

LEMMA EgressNextInv == EgressInv /\ [EgressNext]_egressVars => EgressInv'
<1>. SUFFICES ASSUME EgressInv, [EgressNext]_egressVars PROVE EgressInv'
  OBVIOUS
<1>1. ASSUME NEW outcome \in Outcomes, Record(outcome) PROVE EgressInv'
  BY <1>1, RecordInv
<1>2. ASSUME UNCHANGED <<pending, taken, written, made, repeated, late, flusher>> PROVE EgressInv'
  BY <1>2 DEF EgressInv, EgressTypes, Balanced, Flushed
<1>3. ASSUME NEW h \in Handlers, NEW allows \in BOOLEAN, RoundTrip(h, allows) PROVE EgressInv'
  BY <1>1, <1>2, <1>3 DEF RoundTrip, Outcomes
<1>4. ASSUME NEW h \in Handlers, NEW outcome \in {"completed", "failed"}, Return(h, outcome) PROVE EgressInv'
  BY <1>1, <1>4 DEF Return, Outcomes
<1>5. CASE Stop \/ Exit \/ UNCHANGED egressVars
  BY <1>2, <1>5 DEF Stop, Exit, egressVars
<1>. QED  BY <1>3, <1>4, <1>5, FlushInv, AddEgressInv DEF EgressNext

(* Every outbound call is counted: through failed writes and lost answers  *)
(* each call is in memory, in a flush or in the database, and after a stop *)
(* whose last write succeeds only the calls that outlived that flush are   *)
(* missing, for any number of handlers and calls (Gate.RoundTrip, Record,  *)
(* putBack, Flush, Run).                                                   *)
THEOREM SpecCallsCounted == EgressSpec => []CallsCounted
<1>1. EgressInv => CallsCounted
  <2>. SUFFICES ASSUME EgressInv PROVE CallsCounted
    OBVIOUS
  <2>1. /\ pending \in Counts /\ taken \in Counts /\ written \in Counts /\ repeated \in Counts /\ made \in Counts
    BY DEF EgressInv, EgressTypes
  <2>2. Add(written, taken) \in Counts /\ \A o \in Outcomes : Add(written, taken)[o] = written[o] + taken[o]
    BY <2>1, AddCounts
  <2>3. \A o \in Outcomes : Add(Add(written, taken), pending)[o] = Add(made, repeated)[o]
    BY <2>1, <2>2, AddCounts DEF EgressInv, Balanced
  <2>4. Add(Add(written, taken), pending) \in Counts /\ Add(made, repeated) \in Counts
    BY <2>1, <2>2, AddCounts
  <2>5. Add(Add(written, taken), pending) = Add(made, repeated)
    BY <2>3, <2>4 DEF Counts
  <2>. QED  BY <2>5 DEF CallsCounted, EgressInv, Flushed
<1>. QED  BY <1>1, EgressInitInv, EgressNextInv, PTL DEF EgressSpec

-----------------------------------------------------------------------------
(* TokenKeys. A key set that was fetched shows what the issuer published   *)
(* when it answered, at most a request's timeout before.                   *)

(* What is known of key ids that were read at an instant: those of them    *)
(* that are no longer as the issuer has them changed since.                *)
ReadAt(keys, at) == \A k \in Kids : (k \in keys) # (k \in published) => since[k] >= at

TokenTypes ==
  /\ clock \in Nat /\ published \subseteq Kids /\ since \in [Kids -> Nat]
  /\ \A k \in Kids : since[k] <= clock
  /\ cache \in [keys : SUBSET Kids, fetched : Nat \cup {-1}] /\ cache.fetched <= clock
  /\ cache.fetched = -1 => cache.keys = {}

Cached == cache.fetched # -1 => ReadAt(cache.keys, cache.fetched - Timeout)

Request ==
  [step : {"idle"}] \cup [step : {"asked"}, token : Tokens, at : Nat]
    \cup [step : {"answered"}, token : Tokens, at : Nat, keys : SUBSET Kids]

Verifying ==
  /\ verifying \in Request
  /\ verifying.step # "idle" => verifying.at <= clock /\ clock <= verifying.at + Timeout
  /\ verifying.step \in {"asked", "answered"} => verifying.token.alg
  /\ verifying.step = "answered" => ReadAt(verifying.keys, verifying.at)

Judged ==
  verdict = Idle \/ (verdict.step = "answered" /\ verdict.at \in Nat /\ verdict.at <= clock /\ verdict.token \in Tokens)

TokenInv == TokenTypes /\ Cached /\ Verifying /\ Judged /\ VerifyIsRight

LEMMA TokenInitInv == TokenInit => TokenInv
<1>. SUFFICES ASSUME TokenInit PROVE TokenInv
  OBVIOUS
<1>1. cache = [keys |-> {}, fetched |-> -1] /\ clock = 0 /\ verifying = Idle /\ verdict = Idle
  BY DEF TokenInit
<1>2. cache \in [keys : SUBSET Kids, fetched : Nat \cup {-1}] /\ cache.fetched = -1 /\ cache.keys = {}
  BY <1>1
<1>3. TokenTypes /\ Cached
  BY <1>1, <1>2 DEF TokenInit, TokenTypes, Cached
<1>4. Verifying
  BY <1>1 DEF Verifying, Request, Idle
<1>. QED  BY <1>1, <1>3, <1>4 DEF TokenInv, Judged, VerifyIsRight, Just

(* The answer a verification gives is right at its instant, once its key   *)
(* is settled as it should be.                                             *)
KeyIsRight(t, key, fetch) ==
  /\ key => t.kid \in published \/ clock - since[t.kid] < Lifetime + Timeout \/ fetch \in {"failed", "refused"}
  /\ ~key => t.kid \notin published \/ clock - since[t.kid] < Interval + Timeout \/ fetch \in {"failed", "refused"}

LEMMA JudgeIsRight ==
  ASSUME TokenTypes, NEW t \in Tokens, NEW key \in BOOLEAN, NEW fetch, t.alg,
         KeyIsRight(t, key, fetch), verdict' = Judge(t, key, fetch),
         clock' = clock, published' = published, since' = since
  PROVE  Judged' /\ VerifyIsRight'
<1>1. /\ verdict'.step = "answered" /\ verdict'.token = t /\ verdict'.at = clock /\ verdict'.fetch = fetch
      /\ verdict'.status = CASE fetch = "refused" /\ ~key -> 503
                            [] ~(fetch = "refused" /\ ~key) /\ ~Verify(t, key) -> 401
                            [] OTHER -> IF t.bound THEN 200 ELSE 403
  BY DEF Judge
<1>2. clock \in Nat
  BY DEF TokenTypes
<1>3. Judged'
  BY <1>1, <1>2 DEF Judged
<1>4. verdict'.status = 200 => Verify(t, key) /\ t.bound
  BY <1>1
<1>5. verdict'.status # 200 /\ t.bound => ~Verify(t, key)
  BY <1>1 DEF Verify
<1>6. Verify(t, key) <=> key /\ t.signer = t.kid /\ t.audience /\ InTime(t) /\ t.claims
  BY DEF Verify, checkSignature, checkRegistered, readIdentity, InTime
<1>7. verdict'.status = 200 => Proper(t) /\ InTime(t) /\ key
  BY <1>4, <1>6 DEF Proper
<1>8. verdict'.status # 200 /\ Proper(t) /\ InTime(t) => ~key
  BY <1>5, <1>6 DEF Proper
<1>9. InTime(t)' <=> InTime(t)
  BY DEF InTime
<1>. QED  BY <1>1, <1>3, <1>7, <1>8, <1>9 DEF VerifyIsRight, KeyIsRight, Proper, InTime

LEMMA MalformedInv ==
  ASSUME TokenInv, NEW t \in Tokens, Malformed(t)
  PROVE  TokenInv'
<1>1. /\ clock' = clock /\ published' = published /\ since' = since /\ cache' = cache
      /\ verifying' = verifying /\ ~t.alg /\ verdict' = [Judge(t, FALSE, "none") EXCEPT !.status = 401]
  BY DEF Malformed
<1>2. verdict'.step = "answered" /\ verdict'.token = t /\ verdict'.at = clock /\ verdict'.status = 401
  BY <1>1 DEF Judge
<1>3. TokenTypes' /\ Cached' /\ Verifying'
  BY <1>1 DEF TokenInv, TokenTypes, Cached, Verifying, ReadAt
<1>4. Judged'
  <2>1. clock \in Nat /\ clock' = clock
    BY <1>1 DEF TokenInv, TokenTypes
  <2>. QED  BY <1>2, <2>1 DEF Judged
<1>5. VerifyIsRight'
  <2>. ~t.alg
    BY <1>1
  <2>1. ~Proper(verdict'.token) /\ verdict'.status # 200
    BY <1>2 DEF Proper
  <2>. QED  BY <2>1 DEF VerifyIsRight, Proper
<1>. QED  BY <1>3, <1>4, <1>5 DEF TokenInv

(* Served from the cache, the key was published until less than a key      *)
(* set's lifetime and a request ago; refused without a fetch, it was not   *)
(* published a refetch interval and a request ago.                         *)
LEMMA FromCacheInv ==
  ASSUME TokenInv, NEW t \in Tokens, FromCache(t)
  PROVE  TokenInv'
<1>1. /\ clock' = clock /\ published' = published /\ since' = since /\ cache' = cache
      /\ verifying' = verifying /\ t.alg /\ verdict' = Judge(t, fresh(t.kid), "none")
      /\ fresh(t.kid) \/ tooSoon
  BY DEF FromCache
<1>2. /\ clock \in Nat /\ cache.fetched \in Nat \cup {-1} /\ cache.keys \subseteq Kids /\ published \subseteq Kids
      /\ since \in [Kids -> Nat]
      /\ cache.fetched = -1 => cache.keys = {}
  BY DEF TokenInv, TokenTypes
<1>3. /\ Lifetime \in Nat /\ Interval \in Nat /\ Timeout \in Nat /\ Interval <= Lifetime
  BY TokenAssumption
<1>4. KeyIsRight(t, fresh(t.kid), "none")
  <2>1. ASSUME fresh(t.kid), t.kid \notin published
        PROVE  clock - since[t.kid] < Lifetime + Timeout
    <3>1. t.kid \in cache.keys /\ t.kid \in Kids /\ cache.fetched \in Nat /\ clock - cache.fetched < Lifetime
      BY <1>2, <2>1 DEF fresh, Age
    <3>2. since[t.kid] >= cache.fetched - Timeout /\ since[t.kid] \in Nat
      BY <1>2, <2>1, <3>1 DEF TokenInv, Cached, ReadAt
    <3>. QED  BY <1>2, <1>3, <3>1, <3>2
  <2>2. ASSUME ~fresh(t.kid), t.kid \in published
        PROVE  clock - since[t.kid] < Interval + Timeout
    <3>1. t.kid \in Kids /\ cache.fetched \in Nat /\ clock - cache.fetched < Interval
      BY <1>1, <1>2, <2>2 DEF tooSoon, Age
    <3>2. t.kid \notin cache.keys
      BY <1>2, <1>3, <2>2, <3>1 DEF fresh, Age
    <3>3. since[t.kid] >= cache.fetched - Timeout /\ since[t.kid] \in Nat
      BY <1>2, <2>2, <3>1, <3>2 DEF TokenInv, Cached, ReadAt
    <3>. QED  BY <1>2, <1>3, <3>1, <3>3
  <2>. QED  BY <2>1, <2>2 DEF KeyIsRight
<1>5. Judged' /\ VerifyIsRight'
  <2>1. fresh(t.kid) \in BOOLEAN
    BY DEF fresh
  <2>. QED  BY <1>1, <1>4, <2>1, JudgeIsRight DEF TokenInv
<1>6. TokenTypes' /\ Cached' /\ Verifying'
  BY <1>1 DEF TokenInv, TokenTypes, Cached, Verifying, ReadAt
<1>. QED  BY <1>5, <1>6 DEF TokenInv

LEMMA AskInv ==
  ASSUME TokenInv, NEW t \in Tokens, Ask(t)
  PROVE  TokenInv'
<1>1. /\ clock' = clock /\ published' = published /\ since' = since /\ cache' = cache /\ t.alg
  BY DEF Ask
<1>2. TokenTypes' /\ Cached'
  BY <1>1 DEF TokenInv, TokenTypes, Cached, ReadAt
<1>3. CASE allowed
  <2>1. verdict' = verdict /\ verifying' = [step |-> "asked", token |-> t, at |-> clock]
    BY <1>3 DEF Ask
  <2>2. Judged' /\ VerifyIsRight'
    BY <1>1, <2>1 DEF TokenInv, Judged, VerifyIsRight, Just, Proper, InTime
  <2>3. /\ verifying' \in [step : {"asked"}, token : Tokens, at : Nat] /\ verifying'.step = "asked"
        /\ verifying'.at = clock /\ verifying'.token = t
    BY <2>1 DEF TokenInv, TokenTypes
  <2>4. Verifying'
    BY <1>1, <2>3, TokenAssumption DEF Verifying, Request, TokenInv, TokenTypes
  <2>. QED  BY <1>2, <2>2, <2>4 DEF TokenInv
<1>4. CASE ~allowed
  <2>. DEFINE key == t.kid \in cache.keys
  <2>1. verdict' = Judge(t, key, "refused") /\ verifying' = verifying /\ key \in BOOLEAN
    BY <1>4 DEF Ask
  <2>2. Verifying'
    BY <1>1, <2>1 DEF TokenInv, Verifying, ReadAt
  <2>. HIDE DEF key
  <2>3. KeyIsRight(t, key, "refused")
    BY DEF KeyIsRight
  <2>4. Judged' /\ VerifyIsRight'
    BY <1>1, <2>1, <2>3, JudgeIsRight DEF TokenInv
  <2>. QED  BY <1>2, <2>2, <2>4 DEF TokenInv
<1>. QED  BY <1>3, <1>4

LEMMA RequestFields ==
  ASSUME NEW v \in Request
  PROVE  /\ v.step \in {"idle", "asked", "answered"}
         /\ v.step = "idle" => v = Idle
         /\ v.step \in {"asked", "answered"} => v.token \in Tokens /\ v.at \in Nat
         /\ v.step = "answered" => v.keys \in SUBSET Kids
  BY DEF Request, Idle

LEMMA IssuerAnswersInv ==
  ASSUME TokenInv, IssuerAnswers
  PROVE  TokenInv'
<1>1. /\ clock' = clock /\ published' = published /\ since' = since /\ cache' = cache /\ verdict' = verdict
      /\ verifying.step = "asked"
      /\ verifying' = [step |-> "answered", token |-> verifying.token, at |-> verifying.at, keys |-> published]
  BY DEF IssuerAnswers
<1>2. verifying.token \in Tokens /\ verifying.at \in Nat /\ published \in SUBSET Kids
  BY <1>1, RequestFields DEF TokenInv, TokenTypes, Verifying
<1>3. /\ verifying' \in [step : {"answered"}, token : Tokens, at : Nat, keys : SUBSET Kids]
      /\ verifying'.step = "answered" /\ verifying'.token = verifying.token
      /\ verifying'.at = verifying.at /\ verifying'.keys = published
  BY <1>1, <1>2
<1>4. TokenTypes' /\ Cached' /\ Judged' /\ VerifyIsRight'
  BY <1>1 DEF TokenInv, TokenTypes, Cached, ReadAt, Judged, VerifyIsRight, Just, Proper, InTime
<1>5. Verifying'
  BY <1>1, <1>3 DEF TokenInv, Verifying, Request, ReadAt
<1>. QED  BY <1>4, <1>5 DEF TokenInv

LEMMA FetchedInv ==
  ASSUME TokenInv, Fetched
  PROVE  TokenInv'
<1>. DEFINE t == verifying.token
            keys == verifying.keys
            key == t.kid \in keys
<1>1. /\ clock' = clock /\ published' = published /\ since' = since /\ verifying' = Idle
      /\ cache' = [keys |-> keys, fetched |-> clock] /\ verdict' = Judge(t, key, "read") /\ key \in BOOLEAN
      /\ verifying.step = "answered"
  BY DEF Fetched
<1>2. /\ t \in Tokens /\ verifying.at \in Nat /\ keys \in SUBSET Kids /\ t.alg
      /\ verifying.at <= clock /\ clock <= verifying.at + Timeout /\ ReadAt(keys, verifying.at)
  BY <1>1, RequestFields DEF TokenInv, Verifying
<1>3. /\ clock \in Nat /\ published \subseteq Kids /\ since \in [Kids -> Nat] /\ Timeout \in Nat
      /\ Lifetime \in Nat \ {0} /\ Interval \in Nat \ {0}
  BY TokenAssumption DEF TokenInv, TokenTypes
<1>. HIDE DEF t, keys
<1>4. cache' \in [keys : SUBSET Kids, fetched : Nat \cup {-1}] /\ cache'.keys = keys /\ cache'.fetched = clock
  BY <1>1, <1>2, <1>3
<1>5. TokenTypes'
  BY <1>1, <1>3, <1>4 DEF TokenInv, TokenTypes
<1>6. Cached'
  BY <1>1, <1>2, <1>3, <1>4 DEF Cached, ReadAt
<1>7. Verifying'
  BY <1>1 DEF Verifying, Request, Idle
<1>8. KeyIsRight(t, key, "read")
  <2>1. ASSUME (t.kid \in keys) # (t.kid \in published)
        PROVE  clock - since[t.kid] <= Timeout
    <3>1. t.kid \in Kids
      BY <1>2, <1>3, <2>1
    <3>2. since[t.kid] >= verifying.at /\ since[t.kid] \in Nat
      BY <1>2, <1>3, <2>1, <3>1 DEF ReadAt
    <3>. QED  BY <1>2, <1>3, <3>2
  <2>2. (t.kid \in keys) # (t.kid \in published) =>
          clock - since[t.kid] < Lifetime + Timeout /\ clock - since[t.kid] < Interval + Timeout
    <3>1. SUFFICES ASSUME (t.kid \in keys) # (t.kid \in published)
                   PROVE  clock - since[t.kid] < Lifetime + Timeout /\ clock - since[t.kid] < Interval + Timeout
      OBVIOUS
    <3>2. t.kid \in Kids /\ since[t.kid] \in Nat
      BY <1>2, <1>3, <3>1
    <3>. QED  BY <1>3, <2>1, <3>1, <3>2
  <2>. QED  BY <2>2 DEF KeyIsRight
<1>. HIDE DEF key
<1>9. Judged' /\ VerifyIsRight'
  BY <1>1, <1>2, <1>8, JudgeIsRight DEF TokenInv
<1>. QED  BY <1>5, <1>6, <1>7, <1>9 DEF TokenInv

LEMMA FetchFailsInv ==
  ASSUME TokenInv, FetchFails
  PROVE  TokenInv'
<1>. DEFINE t == verifying.token
            key == t.kid \in cache.keys
<1>1. /\ clock' = clock /\ published' = published /\ since' = since /\ verifying' = Idle /\ cache' = cache
      /\ verdict' = Judge(t, key, "failed") /\ key \in BOOLEAN /\ verifying.step \in {"asked", "answered"}
  BY DEF FetchFails
<1>2. t \in Tokens /\ t.alg
  BY <1>1, RequestFields DEF TokenInv, Verifying
<1>. HIDE DEF t, key
<1>3. TokenTypes' /\ Cached' /\ Verifying'
  BY <1>1 DEF TokenInv, TokenTypes, Cached, ReadAt, Verifying, Request, Idle
<1>4. KeyIsRight(t, key, "failed")
  BY DEF KeyIsRight
<1>5. Judged' /\ VerifyIsRight'
  BY <1>1, <1>2, <1>4, JudgeIsRight DEF TokenInv
<1>. QED  BY <1>3, <1>5 DEF TokenInv

(* A key that the issuer rotates changed at this instant. *)
LEMMA RotateInv ==
  ASSUME TokenInv, NEW k \in Kids, Rotate(k)
  PROVE  TokenInv'
<1>1. /\ clock' = clock /\ cache' = cache /\ verifying' = verifying /\ verdict' = verdict
      /\ published' = (IF k \in published THEN published \ {k} ELSE published \cup {k})
      /\ since' = [since EXCEPT ![k] = clock]
  BY DEF Rotate
<1>2. /\ clock \in Nat /\ published \subseteq Kids /\ since \in [Kids -> Nat] /\ Timeout \in Nat
      /\ Lifetime \in Nat \ {0} /\ Interval \in Nat \ {0} /\ cache.fetched <= clock
      /\ cache.fetched \in Nat \cup {-1}
  BY TokenAssumption DEF TokenInv, TokenTypes
<1>3. /\ published' \subseteq Kids /\ since' \in [Kids -> Nat] /\ since'[k] = clock
      /\ \A l \in Kids : l # k => since'[l] = since[l] /\ (l \in published' <=> l \in published)
  BY <1>1, <1>2
<1>4. TokenTypes'
  BY <1>1, <1>2, <1>3 DEF TokenInv, TokenTypes
<1>5. ASSUME NEW keys, NEW at \in Int, at <= clock, ReadAt(keys, at)
      PROVE  \A l \in Kids : (l \in keys) # (l \in published') => since'[l] >= at
  BY <1>2, <1>3, <1>5 DEF ReadAt
<1>6. Cached'
  <2>1. cache.fetched # -1 => cache.fetched - Timeout \in Int /\ cache.fetched - Timeout <= clock
    BY <1>2
  <2>2. cache.fetched # -1 =>
          \A l \in Kids : (l \in cache.keys) # (l \in published') => since'[l] >= cache.fetched - Timeout
    BY <1>5, <2>1 DEF TokenInv, Cached
  <2>. QED  BY <1>1, <2>2 DEF Cached, ReadAt
<1>7. Verifying'
  <2>1. verifying.step = "answered" => verifying.at \in Int /\ verifying.at <= clock
    BY RequestFields DEF TokenInv, Verifying
  <2>2. verifying.step = "answered" =>
          \A l \in Kids : (l \in verifying.keys) # (l \in published') => since'[l] >= verifying.at
    BY <1>5, <2>1 DEF TokenInv, Verifying
  <2>. QED  BY <1>1, <2>2 DEF TokenInv, Verifying, ReadAt
<1>8. Judged'
  BY <1>1 DEF TokenInv, Judged
<1>9. VerifyIsRight'
  <2>. DEFINE t == verdict.token
  <2>1. CASE t.kid = k
    <3>1. clock - since'[t.kid] = 0
      BY <1>2, <1>3, <2>1
    <3>2. clock - since'[t.kid] < Lifetime + Timeout /\ clock - since'[t.kid] < Interval + Timeout
      BY <1>2, <3>1
    <3>. QED  BY <1>1, <3>2 DEF TokenInv, VerifyIsRight, Just, Proper, InTime
  <2>2. CASE t.kid # k
    <3>1. t.kid \in published' <=> t.kid \in published
      BY <1>1, <2>2
    <3>2. since'[t.kid] = since[t.kid]
      BY <1>1, <1>2, <2>2
    <3>. QED  BY <1>1, <3>1, <3>2 DEF TokenInv, VerifyIsRight, Just, Proper, InTime
  <2>. QED  BY <2>1, <2>2
<1>. QED  BY <1>4, <1>6, <1>7, <1>8, <1>9 DEF TokenInv

LEMMA TokenTickInv ==
  ASSUME TokenInv, TokenTick
  PROVE  TokenInv'
<1>1. /\ clock' = clock + 1 /\ published' = published /\ since' = since /\ cache' = cache
      /\ verifying' = verifying /\ verdict' = verdict
      /\ verifying # Idle => clock - verifying.at < Timeout
  BY DEF TokenTick
<1>2. clock \in Nat /\ Timeout \in Nat /\ since \in [Kids -> Nat] /\ cache.fetched \in Nat \cup {-1}
  BY TokenAssumption DEF TokenInv, TokenTypes
<1>3. TokenTypes' /\ Cached'
  BY <1>1, <1>2 DEF TokenInv, TokenTypes, Cached, ReadAt
<1>4. Verifying'
  <2>1. verifying.step # "idle" => verifying # Idle /\ verifying.at \in Nat
    BY RequestFields DEF TokenInv, Verifying, Idle
  <2>2. verifying.step # "idle" => verifying.at <= clock + 1 /\ clock + 1 <= verifying.at + Timeout
    BY <1>1, <1>2, <2>1 DEF TokenInv, Verifying
  <2>. QED  BY <1>1, <2>2 DEF TokenInv, Verifying, ReadAt
<1>5. Judged' /\ ~Just'
  BY <1>1, <1>2 DEF TokenInv, Judged, Just
<1>. QED  BY <1>3, <1>4, <1>5 DEF TokenInv, VerifyIsRight

LEMMA TokenNextInv == TokenInv /\ [TokenNext]_tokenVars => TokenInv'
<1>. SUFFICES ASSUME TokenInv, [TokenNext]_tokenVars PROVE TokenInv'
  OBVIOUS
<1>1. CASE TokenNext
  BY <1>1, MalformedInv, FromCacheInv, AskInv, IssuerAnswersInv, FetchedInv, FetchFailsInv, TokenTickInv,
     RotateInv DEF TokenNext
<1>2. CASE UNCHANGED tokenVars
  BY <1>2 DEF tokenVars, TokenInv, TokenTypes, Cached, ReadAt, Verifying, Judged, VerifyIsRight,
              Just, Proper, InTime
<1>. QED  BY <1>1, <1>2

(* A token is accepted only when the issuer signed it for this service     *)
(* with a key that is published, or was until less than a key set's        *)
(* lifetime and a request ago unless the issuer cannot be read, and is     *)
(* refused only with a reason, for any keys, tokens and times with         *)
(* refetchInterval no longer than keySetLifetime (Verify, key, fetch).     *)
THEOREM SpecVerifyIsRight == TokenSpec => []VerifyIsRight
<1>1. TokenInv => VerifyIsRight
  BY DEF TokenInv
<1>. QED  BY <1>1, TokenInitInv, TokenNextInv, PTL DEF TokenSpec

-----------------------------------------------------------------------------
(* Installation. Each bucket's ring holds the instants of the last writes, *)
(* the oldest at its next place, so a write comes a whole period after the *)
(* one a full ring before it; and a request is sent on a token that        *)
(* outlives the client's timeout.                                          *)

(* The write whose instant place j of a ring holds, at most 0 for none. *)
WriteAt(b, limit, w, j) ==
  IF j >= b.next THEN Len(w) - limit + 1 + j - b.next ELSE Len(w) + 1 + j - b.next

Bucket(limit) == [spent : [1 .. limit -> Int], next : 1 .. limit]

Ring(b, limit, w) ==
  /\ b \in Bucket(limit)
  /\ \A j \in 1 .. limit :
       b.spent[j] = IF WriteAt(b, limit, w, j) >= 1 THEN w[WriteAt(b, limit, w, j)] ELSE -1

Spaced(limit, period, w) ==
  \A i \in 1 .. Len(w) : i + limit <= Len(w) => w[i] + period <= w[i + limit]

Ordered(w, now) ==
  /\ w \in Seq(Nat) /\ \A i \in 1 .. Len(w) : w[i] <= now
  /\ \A i, j \in 1 .. Len(w) : i <= j => w[i] <= w[j]

InFlight ==
  [step : {"free", "admitted"}] \cup [step : {"sent"}, at : Nat, expires : Nat]

Live(r, now) ==
  r.step = "sent" => r.at <= now /\ now <= r.at + RequestTimeout /\ r.at + RequestTimeout < r.expires

Lively ==
  /\ tick \in Nat /\ token \in Nat /\ inFlight \in [Places -> InFlight]
  /\ \A n \in Places : Live(inFlight[n], tick)

Limited ==
  /\ Ordered(writes, tick)
  /\ Ring(minute, PerMinute, writes) /\ Spaced(PerMinute, Minute, writes)
  /\ Ring(hour, PerHour, writes) /\ Spaced(PerHour, Hour, writes)

InstallationInv == Lively /\ Limited

(* Writes that are a period apart over every limit of them are at most     *)
(* limit in any window of that period.                                     *)
LEMMA WindowHolds ==
  ASSUME NEW limit \in Nat \ {0}, NEW period \in Nat, NEW t \in Nat, NEW now \in Nat,
         Ordered(writes, now), Spaced(limit, period, writes)
  PROVE  Within(t, period) <= limit
<1>. DEFINE I == {i \in DOMAIN writes : writes[i] \in t - period + 1 .. t}
<1>1. /\ writes \in Seq(Nat) /\ Len(writes) \in Nat /\ DOMAIN writes = 1 .. Len(writes)
      /\ \A i \in 1 .. Len(writes) : writes[i] \in Nat
  BY DEF Ordered
<1>2. CASE I = {}
  BY <1>2, FS_EmptySet DEF Within
<1>3. CASE I # {}
  <2>1. \A i \in I : i \in Nat
    BY <1>1
  <2>2. PICK a \in I : \A i \in I : a <= i
    BY <1>3, <2>1, LeastNumber
  <2>3. \A i \in I : i \in a .. (a + limit - 1)
    <3>. SUFFICES ASSUME NEW i \in I, i >= a + limit PROVE FALSE
      BY <2>1, <2>2
    <3>1. /\ a \in 1 .. Len(writes) /\ i \in 1 .. Len(writes) /\ a + limit \in 1 .. Len(writes)
          /\ writes[a] >= t - period + 1 /\ writes[i] <= t
      BY <1>1
    <3>2. writes[a] + period <= writes[a + limit]
      BY <1>1, <3>1 DEF Spaced
    <3>3. writes[a + limit] <= writes[i]
      BY <3>1 DEF Ordered
    <3>4. writes[a] \in Nat /\ writes[i] \in Nat /\ writes[a + limit] \in Nat
      BY <1>1, <3>1
    <3>. DEFINE x == writes[a]
                y == writes[a + limit]
                z == writes[i]
    <3>5. /\ x \in Nat /\ y \in Nat /\ z \in Nat
          /\ x >= t - period + 1 /\ z <= t /\ x + period <= y /\ y <= z
      BY <3>1, <3>2, <3>3, <3>4
    <3>. HIDE DEF x, y, z, I
    <3>. QED  BY <3>5
  <2>4. a \in Int /\ a + limit - 1 \in Int /\ a <= a + limit - 1 /\ (a + limit - 1) - a + 1 = limit
    BY <2>1
  <2>5. IsFiniteSet(a .. (a + limit - 1)) /\ Cardinality(a .. (a + limit - 1)) = limit
    BY <2>4, FS_Interval
  <2>6. I \in SUBSET (a .. (a + limit - 1))
    BY <2>3
  <2>. HIDE DEF I
  <2>7. Cardinality(I) <= limit
    BY <2>5, <2>6, FS_Subset
  <2>. QED  BY <2>7 DEF I, Within
<1>. QED  BY <1>2, <1>3

LEMMA RingStep ==
  ASSUME NEW limit \in Nat \ {0}, NEW j \in 1 .. limit
  PROVE  (j % limit) + 1 = IF j < limit THEN j + 1 ELSE 1
  OBVIOUS

LEMMA RingLength ==
  ASSUME NEW limit \in Nat, NEW f \in [1 .. limit -> Int]
  PROVE  Len(f) = limit
  OBVIOUS

LEMMA MaxBounds ==
  ASSUME NEW a \in Int, NEW b \in Int
  PROVE  Max({a, b}) \in Int /\ a <= Max({a, b}) /\ b <= Max({a, b})
<1>1. \E x \in {a, b} : \A y \in {a, b} : x >= y
  OBVIOUS
<1>2. Max({a, b}) \in {a, b} /\ \A y \in {a, b} : Max({a, b}) >= y
  BY <1>1 DEF Max
<1>. QED  BY <1>2

LEMMA InstallationInitInv == InstallationInit => InstallationInv
<1>. SUFFICES ASSUME InstallationInit PROVE InstallationInv
  OBVIOUS
<1>1. /\ tick = 0 /\ token = 0 /\ writes = <<>> /\ minute = newBucket(PerMinute) /\ hour = newBucket(PerHour)
      /\ inFlight = [n \in Places |-> [step |-> "free"]]
  BY DEF InstallationInit, Places
<1>2. writes \in Seq(Nat) /\ Len(writes) = 0
  BY <1>1
<1>3. ASSUME NEW limit \in Nat \ {0}
      PROVE  Ring(newBucket(limit), limit, writes)
  <2>1. /\ newBucket(limit) \in Bucket(limit) /\ newBucket(limit).next = 1
        /\ \A j \in 1 .. limit : newBucket(limit).spent[j] = -1
    BY DEF newBucket, Bucket
  <2>2. \A j \in 1 .. limit : WriteAt(newBucket(limit), limit, writes, j) <= 0
    BY <1>2, <2>1 DEF WriteAt
  <2>3. \A j \in 1 .. limit : ~(WriteAt(newBucket(limit), limit, writes, j) >= 1)
    BY <1>2, <2>1, <2>2 DEF WriteAt
  <2>. QED  BY <2>1, <2>3 DEF Ring
<1>4. Limited
  <2>1. Ordered(writes, tick)
    BY <1>1, <1>2 DEF Ordered
  <2>2. Spaced(PerMinute, Minute, writes) /\ Spaced(PerHour, Hour, writes)
    BY <1>2 DEF Spaced
  <2>. QED  BY <1>1, <1>3, <2>1, <2>2, InstallationAssumption DEF Limited
<1>5. Lively
  <2>1. [step |-> "free"] \in InFlight /\ [step |-> "free"].step = "free"
    BY DEF InFlight
  <2>. QED  BY <1>1, <2>1 DEF Lively, Live
<1>. QED  BY <1>4, <1>5 DEF InstallationInv

(* Nothing to wait for: the oldest write in the ring is a period old. *)
LEMMA MaxZero ==
  ASSUME NEW x \in Int
  PROVE  x <= Max({x, 0}) /\ Max({x, 0}) \in Int
<1>1. 0 \in Int
  OBVIOUS
<1>. QED  BY <1>1, MaxBounds

LEMMA WaitIsOver ==
  ASSUME NEW limit \in Nat \ {0}, NEW period \in Nat, NEW b, Ring(b, limit, writes), tick \in Nat,
         wait(b, period) <= 0
  PROVE  b.spent[b.next] = -1 \/ b.spent[b.next] + period <= tick
<1>1. b.next \in 1 .. limit /\ b.spent[b.next] \in Int
  BY DEF Ring, Bucket
<1>. DEFINE x == b.spent[b.next] + period - tick
<1>2. x \in Int /\ (wait(b, period) = IF b.spent[b.next] = -1 THEN 0 ELSE Max({x, 0}))
  BY <1>1 DEF wait
<1>3. x <= 0 => b.spent[b.next] + period <= tick
  BY <1>1
<1>. HIDE DEF x
<1>4. x <= Max({x, 0}) /\ Max({x, 0}) \in Int
  BY <1>2, MaxZero
<1>. QED  BY <1>2, <1>3, <1>4

LEMMA WaitType ==
  ASSUME NEW limit \in Nat \ {0}, NEW period \in Nat, NEW b, Ring(b, limit, writes), tick \in Nat
  PROVE  wait(b, period) \in Int
<1>1. b.next \in 1 .. limit /\ b.spent[b.next] \in Int
  BY DEF Ring, Bucket
<1>. DEFINE x == b.spent[b.next] + period - tick
<1>2. x \in Int /\ (wait(b, period) = IF b.spent[b.next] = -1 THEN 0 ELSE Max({x, 0}))
  BY <1>1 DEF wait
<1>. HIDE DEF x
<1>. QED  BY <1>2, MaxZero

(* A place other than the next keeps the write it stands for. *)
LEMMA PlaceStays ==
  ASSUME NEW n \in Nat, NEW limit \in Nat, NEW at \in 1 .. limit, NEW j \in 1 .. limit, j # at, NEW to,
         to = IF at < limit THEN at + 1 ELSE 1
  PROVE  LET before == IF j >= at THEN n - limit + 1 + j - at ELSE n + 1 + j - at
             after == IF j >= to THEN n + 1 - limit + 1 + j - to ELSE n + 1 + 1 + j - to
         IN  after = before /\ before \in Int /\ before <= n
<1>1. CASE at < limit /\ j > at
  BY <1>1
<1>2. CASE at < limit /\ j < at
  BY <1>2
<1>3. CASE at = limit
  BY <1>3
<1>. QED  BY <1>1, <1>2, <1>3

(* A write takes the ring's oldest place, and the ring moves on. *)
LEMMA TakeKeepsRing ==
  ASSUME NEW limit \in Nat \ {0}, NEW b, NEW w \in Seq(Nat), Ring(b, limit, w), tick \in Nat
  PROVE  Ring(take(b), limit, Append(w, tick))
<1>. DEFINE c == take(b)
            v == Append(w, tick)
            n == Len(w)
<1>1. /\ b.next \in 1 .. limit /\ b.spent \in [1 .. limit -> Int]
      /\ \A j \in 1 .. limit :
           b.spent[j] = IF WriteAt(b, limit, w, j) >= 1 THEN w[WriteAt(b, limit, w, j)] ELSE -1
  BY DEF Ring, Bucket
<1>2. /\ c.spent = [b.spent EXCEPT ![b.next] = tick]
      /\ c.next = IF b.next < limit THEN b.next + 1 ELSE 1
  BY <1>1, RingStep, RingLength DEF take
<1>3. c \in Bucket(limit)
  <2>1. c = [spent |-> c.spent, next |-> c.next]
    BY DEF take
  <2>2. c.spent \in [1 .. limit -> Int] /\ c.next \in 1 .. limit
    BY <1>1, <1>2
  <2>. HIDE DEF c
  <2>. QED  BY <2>1, <2>2 DEF Bucket
<1>4. n \in Nat /\ n = Len(w) /\ Len(v) = n + 1 /\ v[n + 1] = tick /\ \A i \in 1 .. n : v[i] = w[i]
  OBVIOUS
<1>. HIDE DEF c, v, n
<1>5. ASSUME NEW j \in 1 .. limit
      PROVE  c.spent[j] = IF WriteAt(c, limit, v, j) >= 1 THEN v[WriteAt(c, limit, v, j)] ELSE -1
  <2>1. CASE j = b.next
    <3>1. c.spent[j] = tick
      BY <1>1, <1>2, <2>1
    <3>2. WriteAt(c, limit, v, j) = n + 1
      BY <1>1, <1>2, <1>4, <2>1 DEF WriteAt
    <3>. QED  BY <1>4, <3>1, <3>2
  <2>2. CASE j # b.next
    <3>1. c.spent[j] = b.spent[j]
      BY <1>1, <1>2, <2>2
    <3>2. /\ WriteAt(c, limit, v, j) = WriteAt(b, limit, w, j)
          /\ WriteAt(b, limit, w, j) \in Int /\ WriteAt(b, limit, w, j) <= n
      <4>. DEFINE at == b.next
                  to == c.next
      <4>1. /\ WriteAt(c, limit, v, j) = IF j >= to THEN n + 1 - limit + 1 + j - to ELSE n + 1 + 1 + j - to
            /\ WriteAt(b, limit, w, j) = IF j >= at THEN n - limit + 1 + j - at ELSE n + 1 + j - at
        BY <1>4 DEF WriteAt
      <4>2. n \in Nat /\ at \in 1 .. limit /\ j # at /\ (to = IF at < limit THEN at + 1 ELSE 1)
        BY <1>1, <1>2, <1>4, <2>2
      <4>. HIDE DEF at, to
      <4>. QED  BY <4>1, <4>2, PlaceStays
    <3>3. b.spent[j] = IF WriteAt(b, limit, w, j) >= 1 THEN w[WriteAt(b, limit, w, j)] ELSE -1
      BY <1>1
    <3>4. WriteAt(b, limit, w, j) >= 1 => v[WriteAt(b, limit, w, j)] = w[WriteAt(b, limit, w, j)]
      BY <1>4, <3>2
    <3>. QED  BY <3>1, <3>2, <3>3, <3>4
  <2>. QED  BY <2>1, <2>2
<1>6. Ring(c, limit, v)
  BY <1>3, <1>5 DEF Ring
<1>. QED  BY <1>6 DEF c, v

(* The write that took it comes a period after the one it replaces. *)
LEMMA TakeKeepsSpaced ==
  ASSUME NEW limit \in Nat \ {0}, NEW period \in Nat, NEW b, NEW w \in Seq(Nat), Ring(b, limit, w),
         Spaced(limit, period, w), tick \in Nat,
         b.spent[b.next] = -1 \/ b.spent[b.next] + period <= tick
  PROVE  Spaced(limit, period, Append(w, tick))
<1>. DEFINE v == Append(w, tick)
            n == Len(w)
<1>1. /\ n \in Nat /\ Len(v) = n + 1 /\ v[n + 1] = tick /\ \A i \in 1 .. n : v[i] = w[i] /\ w[i] \in Nat
  OBVIOUS
<1>2. n + 1 - limit >= 1 => b.spent[b.next] = w[n + 1 - limit]
  <2>1. b.next \in 1 .. limit
    BY DEF Ring, Bucket
  <2>2. WriteAt(b, limit, w, b.next) = n + 1 - limit
    BY <1>1, <2>1 DEF WriteAt
  <2>. QED  BY <2>1, <2>2 DEF Ring
<1>. HIDE DEF v, n
<1>3. ASSUME NEW i \in 1 .. (n + 1), i + limit <= n + 1
      PROVE  v[i] + period <= v[i + limit]
  <2>1. CASE i + limit = n + 1
    <3>1. i \in 1 .. n /\ i = n + 1 - limit /\ i >= 1
      BY <1>1, <2>1
    <3>2. v[i] = w[i] /\ w[i] \in Nat /\ b.spent[b.next] = w[i]
      BY <1>1, <1>2, <3>1
    <3>. QED  BY <1>1, <2>1, <3>2
  <2>2. CASE i + limit <= n
    <3>1. i \in 1 .. n /\ i + limit \in 1 .. n
      BY <1>1, <2>2
    <3>2. w[i] + period <= w[i + limit]
      BY <2>2, <3>1 DEF Spaced, n
    <3>. QED  BY <1>1, <3>1, <3>2
  <2>. QED  BY <1>1, <1>3, <2>1, <2>2
<1>4. Spaced(limit, period, v)
  BY <1>1, <1>3 DEF Spaced
<1>. QED  BY <1>4 DEF v

LEMMA PlaceLively ==
  ASSUME Lively, NEW n \in Places, NEW r \in InFlight, Live(r, tick),
         inFlight' = [inFlight EXCEPT ![n] = r], tick' = tick, token' \in Nat
  PROVE  Lively'
<1>1. /\ inFlight' \in [Places -> InFlight] /\ inFlight'[n] = r
      /\ \A m \in Places : m # n => inFlight'[m] = inFlight[m]
  BY DEF Lively
<1>2. \A m \in Places : Live(inFlight'[m], tick)
  BY <1>1 DEF Lively
<1>3. \A m \in Places : Live(inFlight'[m], tick')
  BY <1>2
<1>4. Places' = Places
  BY DEF Places
<1>. QED  BY <1>1, <1>3, <1>4 DEF Lively, Live

LEMMA AdmitInv ==
  ASSUME InstallationInv, NEW n \in Places, NEW write \in BOOLEAN, Admit(n, write)
  PROVE  InstallationInv'
<1>. DEFINE r == [step |-> "admitted"]
<1>1. inFlight' = [inFlight EXCEPT ![n] = r] /\ tick' = tick /\ token' = token
  BY DEF Admit
<1>2. r \in InFlight /\ r.step = "admitted"
  BY DEF InFlight
<1>. HIDE DEF r
<1>3. Lively'
  <2>1. token' \in Nat
    BY <1>1 DEF InstallationInv, Lively
  <2>2. Live(r, tick)
    BY <1>2 DEF Live
  <2>. QED  BY <1>1, <1>2, <2>1, <2>2, PlaceLively DEF InstallationInv
<1>4. CASE write
  <2>1. /\ Max({wait(minute, Minute), wait(hour, Hour)}) = 0
        /\ minute' = take(minute) /\ hour' = take(hour) /\ writes' = Append(writes, tick)
    BY <1>4 DEF Admit
  <2>2. /\ tick \in Nat /\ writes \in Seq(Nat) /\ Ordered(writes, tick)
        /\ Ring(minute, PerMinute, writes) /\ Spaced(PerMinute, Minute, writes)
        /\ Ring(hour, PerHour, writes) /\ Spaced(PerHour, Hour, writes)
    BY DEF InstallationInv, Lively, Limited, Ordered
  <2>3. /\ PerMinute \in Nat \ {0} /\ PerHour \in Nat \ {0} /\ Minute \in Nat /\ Hour \in Nat
    BY InstallationAssumption
  <2>4. wait(minute, Minute) \in Int /\ wait(hour, Hour) \in Int
    BY <2>2, <2>3, WaitType
  <2>5. wait(minute, Minute) <= 0 /\ wait(hour, Hour) <= 0
    BY <2>1, <2>4, MaxBounds
  <2>6. /\ minute.spent[minute.next] = -1 \/ minute.spent[minute.next] + Minute <= tick
        /\ hour.spent[hour.next] = -1 \/ hour.spent[hour.next] + Hour <= tick
    BY <2>2, <2>3, <2>5, WaitIsOver
  <2>7. /\ Ring(take(minute), PerMinute, Append(writes, tick))
        /\ Ring(take(hour), PerHour, Append(writes, tick))
    BY <2>2, <2>3, TakeKeepsRing
  <2>8. /\ Spaced(PerMinute, Minute, Append(writes, tick)) /\ Spaced(PerHour, Hour, Append(writes, tick))
    BY <2>2, <2>3, <2>6, TakeKeepsSpaced
  <2>9. Ordered(Append(writes, tick), tick)
    BY <2>2 DEF Ordered
  <2>10. /\ Ordered(writes', tick') /\ Ring(minute', PerMinute, writes') /\ Ring(hour', PerHour, writes')
         /\ Spaced(PerMinute, Minute, writes') /\ Spaced(PerHour, Hour, writes')
    BY <1>1, <2>1, <2>7, <2>8, <2>9
  <2>11. Limited'
    BY <2>10 DEF Limited
  <2>. QED  BY <1>3, <2>11 DEF InstallationInv
<1>5. CASE ~write
  <2>1. minute' = minute /\ hour' = hour /\ writes' = writes
    BY <1>5 DEF Admit
  <2>2. Limited'
    BY <1>1, <2>1 DEF InstallationInv, Limited
  <2>. QED  BY <1>3, <2>2 DEF InstallationInv
<1>. QED  BY <1>4, <1>5

LEMMA TokenStepInv ==
  ASSUME InstallationInv, NEW n \in Places, Token(n)
  PROVE  InstallationInv'
<1>. DEFINE r == [step |-> "sent", at |-> tick, expires |-> token']
<1>1. /\ inFlight' = [inFlight EXCEPT ![n] = r] /\ tick' = tick
      /\ token' = IF held THEN token ELSE tick + TokenLife
      /\ minute' = minute /\ hour' = hour /\ writes' = writes
  BY DEF Token
<1>2. tick \in Nat /\ token \in Nat
  BY DEF InstallationInv, Lively
<1>3. token' \in Nat /\ tick + RequestTimeout < token'
  BY <1>1, <1>2, InstallationAssumption DEF held
<1>4. r \in InFlight /\ r.step = "sent" /\ r.at = tick /\ r.expires = token'
  BY <1>2, <1>3 DEF InFlight
<1>. HIDE DEF r
<1>5. Live(r, tick)
  BY <1>2, <1>3, <1>4, InstallationAssumption DEF Live
<1>6. Lively'
  BY <1>1, <1>3, <1>4, <1>5, PlaceLively DEF InstallationInv
<1>7. Limited'
  BY <1>1 DEF InstallationInv, Limited
<1>. QED  BY <1>6, <1>7 DEF InstallationInv

LEMMA ReleaseInv ==
  ASSUME InstallationInv, NEW n \in Places, Release(n)
  PROVE  InstallationInv'
<1>. DEFINE r == [step |-> "free"]
<1>1. /\ inFlight' = [inFlight EXCEPT ![n] = r] /\ tick' = tick /\ token' = token
      /\ minute' = minute /\ hour' = hour /\ writes' = writes
  BY DEF Release
<1>2. r \in InFlight /\ r.step = "free" /\ token' \in Nat
  BY <1>1 DEF InFlight, InstallationInv, Lively
<1>. HIDE DEF r
<1>3. Live(r, tick)
  BY <1>2 DEF Live
<1>4. Lively'
  BY <1>1, <1>2, <1>3, PlaceLively DEF InstallationInv
<1>5. Limited'
  BY <1>1 DEF InstallationInv, Limited
<1>. QED  BY <1>4, <1>5 DEF InstallationInv

LEMMA SentFields ==
  ASSUME NEW r \in InFlight, r.step = "sent"
  PROVE  r.at \in Nat /\ r.expires \in Nat
  BY DEF InFlight

LEMMA PassInv ==
  ASSUME InstallationInv, Pass
  PROVE  InstallationInv'
<1>1. /\ tick' = tick + 1 /\ inFlight' = inFlight /\ token' = token
      /\ minute' = minute /\ hour' = hour /\ writes' = writes
      /\ \A n \in Places : inFlight[n].step = "sent" => tick - inFlight[n].at < RequestTimeout
  BY DEF Pass
<1>2. tick \in Nat /\ RequestTimeout \in Nat
  BY InstallationAssumption DEF InstallationInv, Lively
<1>3. Lively'
  <2>1. \A n \in Places : inFlight[n].step = "sent" => inFlight[n].at \in Nat /\ inFlight[n].expires \in Nat
    BY SentFields DEF InstallationInv, Lively
  <2>2. \A n \in Places : Live(inFlight[n], tick + 1)
    BY <1>1, <1>2, <2>1 DEF InstallationInv, Lively, Live
  <2>3. \A n \in Places : Live(inFlight'[n], tick')
    BY <1>1, <2>2
  <2>4. Places' = Places
    BY DEF Places
  <2>. QED  BY <1>1, <1>2, <2>3, <2>4 DEF InstallationInv, Lively, Live
<1>4. Limited'
  <2>1. Ordered(writes, tick + 1)
    BY <1>2 DEF InstallationInv, Limited, Ordered
  <2>2. Ordered(writes', tick')
    BY <1>1, <2>1
  <2>. QED  BY <1>1, <2>2 DEF InstallationInv, Limited
<1>. QED  BY <1>3, <1>4 DEF InstallationInv

LEMMA InstallationNextInv == InstallationInv /\ [InstallationNext]_installationVars => InstallationInv'
<1>. SUFFICES ASSUME InstallationInv, [InstallationNext]_installationVars PROVE InstallationInv'
  OBVIOUS
<1>1. CASE InstallationNext
  BY <1>1, AdmitInv, TokenStepInv, ReleaseInv, PassInv DEF InstallationNext
<1>2. CASE UNCHANGED installationVars
  BY <1>2 DEF installationVars, InstallationInv, Lively, Limited, Places, Live
<1>. QED  BY <1>1, <1>2

(* The writes admitted stay inside GitHub's limits over every rolling      *)
(* window, and a request's token is live until the request ends, for any   *)
(* limits, windows and times with requestTimeout no longer than            *)
(* tokenMargin and shorter than a token's life (Limiter.Admit, bucket,     *)
(* AppTokens.Token).                                                       *)
THEOREM SpecInstallationLimits == InstallationSpec => []InstallationLimits
<1>1. InstallationInv => InstallationLimits
  <2>. SUFFICES ASSUME InstallationInv PROVE InstallationLimits
    OBVIOUS
  <2>1. /\ PerMinute \in Nat \ {0} /\ PerHour \in Nat \ {0} /\ Minute \in Nat /\ Hour \in Nat
        /\ RequestTimeout \in Nat
    BY InstallationAssumption
  <2>2. /\ tick \in Nat /\ Ordered(writes, tick)
        /\ Spaced(PerMinute, Minute, writes) /\ Spaced(PerHour, Hour, writes)
    BY DEF InstallationInv, Lively, Limited
  <2>3. \A t \in 0 .. tick : Within(t, Minute) <= PerMinute /\ Within(t, Hour) <= PerHour
    BY <2>1, <2>2, WindowHolds
  <2>4. ASSUME NEW n \in Places, inFlight[n].step = "sent" PROVE tick < inFlight[n].expires
    <3>1. inFlight[n].at \in Nat /\ inFlight[n].expires \in Nat
      BY <2>4, SentFields DEF InstallationInv, Lively
    <3>. QED  BY <2>1, <2>2, <2>4, <3>1 DEF InstallationInv, Lively, Live
  <2>. QED  BY <2>3, <2>4 DEF InstallationLimits
<1>. QED  BY <1>1, InstallationInitInv, InstallationNextInv, PTL DEF InstallationSpec
=============================================================================
