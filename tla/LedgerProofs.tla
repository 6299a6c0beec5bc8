---------------------------- MODULE LedgerProofs ----------------------------
(***************************************************************************)
(* Theorems about module Ledger, for any number of tenants, row ids, keys, *)
(* requests and bodies.                                                    *)
(***************************************************************************)
EXTENDS Ledger, TLAPS, FiniteSetTheorems, WellFoundedInduction

(* A nonempty set of numbers has a least one. *)
LEMMA Least ==
  ASSUME NEW T, T \subseteq Nat, T # {}
  PROVE  \E x \in T : \A y \in T : x <= y
<1> DEFINE R == OpToRel(<, Nat)
<1>1. IsWellFoundedOn(R, Nat)
  BY NatLessThanWellFounded
<1>2. \A a, b \in Nat : a < b => <<a, b>> \in R
  BY DEF OpToRel
<1> HIDE DEF R
<1>3. PICK x \in T : \A y \in T : ~ (<<y, x>> \in R)
  BY <1>1, WFMin
<1>4. \A y \in T : ~(y < x)
  BY <1>2, <1>3
<1>5. \A y \in T : x <= y
  BY <1>4
<1> QED BY <1>5

LEMMA IdleTyped == Idle \in Req
<1>1. <<>> \in Seq(Charge)
  OBVIOUS
<1> QED BY <1>1 DEF Idle, Req, Answers, Steps

(* The requests that answer nothing but a status are well formed. *)
LEMMA EndedTyped ==
  ASSUME NEW a \in Answers
  PROVE  Ended(a) \in Req
  BY IdleTyped DEF Ended, Req, Steps

(* What a path reads has no negative count and does not end before it starts. *)
Readable(c) == c.parses => c.tokens >= 0 /\ c.start <= c.end

(* A charge stays a charge whichever path reads it, and is readable. *)
LEMMA ChargeOfTyped ==
  ASSUME NEW c \in Charge, NEW path, NEW now \in Clock
  PROVE  ChargeOf(path, c, now) \in Charge /\ Readable(ChargeOf(path, c, now))
<1>1. now \in Nat
  BY LedgerAssumption
<1>2. CASE path = "rows"
  <2> DEFINE d == ChargeOf(path, c, now)
  <2>1. d = [c EXCEPT !.source = sourceOf(c.source),
                      !.parses = c.parses /\ readQuantity(c) /\ c.end > c.start]
    BY <1>2 DEF ChargeOf
  <2>2. sourceOf(c.source) \in Sources
    BY DEF sourceOf, Charge, Sources
  <2>3. d \in Charge
    BY <2>1, <2>2 DEF Charge
  <2>4. d.parses => readQuantity(c) /\ c.end > c.start
    BY <2>1 DEF Charge
  <2>5. d.tokens = c.tokens /\ d.start = c.start /\ d.end = c.end
    BY <2>1 DEF Charge
  <2>6. c.start \in Nat /\ c.end \in Nat /\ c.tokens \in Int
    BY DEF Charge
  <2> HIDE DEF d
  <2>7. Readable(d)
    BY <2>4, <2>5, <2>6 DEF Readable, readQuantity
  <2> QED BY <2>3, <2>7 DEF d
<1>3. CASE path # "rows"
  <2> DEFINE d == ChargeOf(path, c, now)
             start == IF c.start = 0 THEN now ELSE c.start
             end == IF c.end < start THEN start ELSE c.end
  <2>1. start \in Nat /\ end \in Nat /\ start <= end
    BY <1>1 DEF Charge
  <2> HIDE DEF start, end
  <2>2. d = [c EXCEPT !.source = "otlp", !.credential = None, !.weakJoin = FALSE,
                      !.start = start, !.end = end, !.parses = c.parses /\ readQuantity(c)]
    BY <1>3 DEF ChargeOf, start, end
  <2>3. d \in Charge
    BY <2>1, <2>2 DEF Charge, Sources
  <2>4. d.parses => readQuantity(c)
    BY <2>2 DEF Charge
  <2>5. d.tokens = c.tokens /\ d.start = start /\ d.end = end
    BY <2>2 DEF Charge
  <2> HIDE DEF d
  <2>6. Readable(d)
    BY <2>1, <2>4, <2>5 DEF Readable, readQuantity
  <2> QED BY <2>3, <2>6 DEF d
<1> QED BY <1>2, <1>3

LEMMA NatTimes ==
  ASSUME NEW a \in Nat, NEW b \in Nat
  PROVE  a * b \in Nat
  OBVIOUS

(* The whole seconds of an instant, and what is left of it. *)
LEMMA WholeSeconds ==
  ASSUME NEW a \in Nat
  PROVE  /\ a \div PerSecond \in Nat
         /\ PerSecond * (a \div PerSecond) <= a
         /\ a < PerSecond * ((a \div PerSecond) + 1)
  BY LedgerAssumption

(* A span that does not end before it starts becomes a period that holds   *)
(* at least one whole second.                                              *)
LEMMA PeriodHolds ==
  ASSUME NEW start \in Nat, NEW end \in Nat, start <= end
  PROVE  ChargePeriod(start, end).to > ChargePeriod(start, end).from
<1> DEFINE first == start \div PerSecond
           last == end \div PerSecond
           p == ChargePeriod(start, end)
<1>1. /\ first \in Nat /\ last \in Nat
      /\ PerSecond * first <= start /\ end < PerSecond * (last + 1)
  BY WholeSeconds
<1>2. PerSecond \in Nat \ {0}
  BY LedgerAssumption
<1>3. /\ p.from = first
      /\ p.to = IF last * PerSecond < end \/ last <= first THEN last + 1 ELSE last
  BY DEF ChargePeriod
<1> HIDE DEF first, last, p
<1>4. last >= first
  <2> SUFFICES ASSUME last + 1 <= first PROVE FALSE
    BY <1>1
  <2>1. PICK d \in Nat : first = (last + 1) + d
    BY <1>1
  <2>2. PerSecond * first = PerSecond * (last + 1) + PerSecond * d
    BY <1>1, <1>2, <2>1
  <2>3. PerSecond * d \in Nat /\ PerSecond * (last + 1) \in Nat
    BY <1>1, <1>2, NatTimes
  <2> QED BY <1>1, <2>2, <2>3
<1> QED BY <1>1, <1>3, <1>4 DEF p

(* What a charge costs, in a row the schema's CHECKs of amounts accept. *)
LEMMA CostTyped ==
  ASSUME NEW c \in Charge
  PROVE  /\ Cost(c) \in [quantity : Int, list : Int, effective : Int]
         /\ c.tokens >= 0 => /\ Cost(c).quantity >= 0 /\ Cost(c).list >= 0
                             /\ Cost(c).effective >= 0
<1> DEFINE list == c.rate * c.tokens
<1>1. c.rate \in Nat /\ c.tokens \in Int
  BY DEF Charge
<1>2. list \in Int /\ (c.tokens >= 0 => list >= 0)
  BY <1>1, NatTimes
<1>3. Cost(c) = [quantity |-> c.tokens, list |-> list,
                 effective |-> IF c.measured THEN list ELSE 0]
  BY DEF Cost
<1> HIDE DEF list
<1> QED BY <1>1, <1>2, <1>3

LEMMA PeriodTyped ==
  ASSUME NEW c \in Charge
  PROVE  ChargePeriod(c.start, c.end) \in [from : Int, to : Int]
<1>1. c.start \in Nat /\ c.end \in Nat
  BY DEF Charge
<1>2. c.start \div PerSecond \in Int /\ c.end \div PerSecond \in Int
  BY <1>1, WholeSeconds
<1> QED BY <1>2 DEF ChargePeriod

(* The join builds a row of the table from every charge it does not refuse, *)
(* for either kind of caller.                                               *)
LEMMA RecordTyped ==
  ASSUME NEW c \in Charge, NEW id \in Identity \cup {None}, NEW proven,
         id # None => ~Disagrees(c, id)
  PROVE  RecordOf(c, id, proven) \in Row
<1>1. /\ ChargePeriod(c.start, c.end) \in [from : Int, to : Int]
      /\ Cost(c) \in [quantity : Int, list : Int, effective : Int]
  BY PeriodTyped, CostTyped
<1>2. basisOf(c, proven) \in {"minted", "stated", None}
  BY DEF basisOf
<1>3. CASE id = None
  <2>1. \A x \in Stated : Keep(x) \in Name \cup {None}
    BY LedgerAssumption DEF Keep, Stated
  <2>2. joinUnverified(c, proven) \in Row
    BY <1>1, <1>2, <2>1, LedgerAssumption DEF joinUnverified, Row, Charge
  <2> QED BY <1>3, <2>2 DEF RecordOf
<1>4. CASE id # None
  <2>1. /\ headOf(c, id).sha \in Name \cup {None}
        /\ headOf(c, id).basis \in {"token", "stated", None}
    BY <1>4, LedgerAssumption DEF headOf, Disagrees, Charge, Stated
  <2>2. id \in Identity
    BY <1>4
  <2>3. joinVerified(c, id, proven) \in Row
    BY <1>1, <1>2, <2>1, <2>2, LedgerAssumption DEF joinVerified, Row, Charge
  <2> QED BY <1>4, <2>3 DEF RecordOf
<1> QED BY <1>3, <1>4

(* Ingest fills a table with rows. *)
LEMMA StoredTyped ==
  ASSUME NEW table \in [RowId -> Row \cup {None}], NEW batch \in Seq(Charge),
         NEW id \in Identity \cup {None}, NEW proven,
         \A n \in DOMAIN batch : ~Refused(batch[n], id)
  PROVE  Stored(table, batch, id, proven) \in [RowId -> Row \cup {None}]
<1> SUFFICES ASSUME NEW i \in RowId
             PROVE  Stored(table, batch, id, proven)[i] \in Row \cup {None}
  BY DEF Stored
<1> DEFINE places == {n \in DOMAIN batch : batch[n].row = i /\ batch[n].parses}
           first == CHOOSE n \in places : \A m \in places : n <= m
<1>1. CASE table[i] # None \/ places = {}
  BY <1>1 DEF Stored
<1>2. CASE table[i] = None /\ places # {}
  <2>1. \E n \in places : \A m \in places : n <= m
    <3>1. places \subseteq Nat /\ places # {}
      BY <1>2
    <3> QED BY <3>1, Least
  <2>2. first \in places
    BY <2>1
  <2>3. batch[first] \in Charge /\ batch[first].parses
    BY <2>2
  <2>4. RecordOf(batch[first], id, proven) \in Row
    BY <2>2, <2>3, RecordTyped DEF Refused
  <2> QED BY <1>2, <2>4 DEF Stored
<1> QED BY <1>1, <1>2

-----------------------------------------------------------------------------
(* What every request record satisfies whatever the tables hold: a handler *)
(* past its authentication has a tenant, one that attests has a token of a *)
(* job that may, one that reads a view has a pull request, and what a body *)
(* was read into is readable.                                              *)
Flying(q) ==
  /\ q.step \notin {"idle", "answered"} => q.tenant \in Tenant
  /\ q.id # None => q.id.tenant = q.tenant
  /\ q.step \in {"attest", "checkMinted", "keepSpend"} \/ q.answer = "stored" =>
       MayAttest(q.id) /\ q.key \in GatewayKey /\ q.tenant \in Tenant
  /\ q.step \in {"checkMinted", "keepSpend"} => q.figure \in Nat
  /\ \/ q.step \in {"readLines", "readSpend"} \/ q.answer = "gateway_measured"
     \/ q.lines # {} \/ q.usd # {}
     => q.pull \in Pull /\ q.tenant \in Tenant
  /\ \A n \in DOMAIN q.batch : Readable(q.batch[n])

InFlight == \A r \in Request : Flying(req[r])

Typed == TypeOK /\ InFlight

LEMMA NothingRead == \A n \in DOMAIN Idle.batch : Readable(Idle.batch[n])
  BY DEF Idle

LEMMA IdleFlying == Flying(Idle)
  BY NothingRead, LedgerAssumption DEF Flying, Idle

LEMMA EndedFlying ==
  ASSUME NEW a \in Answers, a \notin {"stored", "gateway_measured"}
  PROVE  Flying(Ended(a))
  BY LedgerAssumption DEF Flying, Idle, Ended

(* A caller the store resolved is of a tenant, and its token, if it has    *)
(* one, names that tenant.                                                 *)
LEMMA CallerTyped ==
  ASSUME NEW who \in Callers
  PROVE  /\ who.tenant \in Tenant
         /\ who.id \in Identity \cup {None}
         /\ who.id # None => who.id.tenant = who.tenant
  BY LedgerAssumption DEF Callers

(* A step that only rewrites request r keeps Typed when the new record is  *)
(* well formed.                                                            *)
LEMMA ReqStep ==
  ASSUME Typed, NEW r \in Request, req'[r] \in Req, Flying(req'[r]),
         req' = [req EXCEPT ![r] = req'[r]], UNCHANGED <<ingestKeys, tables>>
  PROVE  Typed'
<1>1. TypeOK'
  BY DEF Typed, TypeOK, tables
<1>2. InFlight'
  BY DEF Typed, TypeOK, InFlight, Flying, MayAttest
<1> QED BY <1>1, <1>2 DEF Typed

(* A handler that moves on without an answer. *)
LEMMA MoveTyped ==
  ASSUME Typed, NEW r \in Request, NEW step \in Steps,
         \/ step = "answered"
         \/ req[r].step = "prove" /\ step = "ingest"
         \/ req[r].step = "checkMinted" /\ step = "keepSpend"
         \/ req[r].step = "readLines" /\ step = "readSpend"
  PROVE  LET q == [req[r] EXCEPT !.step = step] IN
           /\ q \in Req /\ Flying(q) /\ q.step = step
           /\ q.tenant = req[r].tenant /\ q.id = req[r].id /\ q.key = req[r].key
           /\ q.pull = req[r].pull /\ q.batch = req[r].batch
<1> DEFINE q == [req[r] EXCEPT !.step = step]
<1>1. req[r] \in Req /\ Flying(req[r])
  BY DEF Typed, TypeOK, InFlight
<1>2. /\ q \in Req /\ q.step = step /\ q.tenant = req[r].tenant /\ q.id = req[r].id
      /\ q.key = req[r].key /\ q.pull = req[r].pull /\ q.figure = req[r].figure
      /\ q.answer = req[r].answer /\ q.lines = req[r].lines /\ q.usd = req[r].usd
      /\ q.batch = req[r].batch
  BY <1>1 DEF Req
<1> HIDE DEF q
<1>3. Flying(q)
  BY <1>1, <1>2 DEF Flying
<1> QED BY <1>2, <1>3 DEF q

LEMMA StartRowsTyped ==
  ASSUME Typed, NEW r \in Request, NEW path, StartRows(r, path)
  PROVE  Typed'
<1>1. PICK who \in Callers, b \in Batch, now \in Clock :
        LET read == [n \in DOMAIN b |-> ChargeOf(path, b[n], now)] IN
          req' = [req EXCEPT ![r] =
            IF path = "rows" /\ \E n \in DOMAIN read : ~read[n].parses
              THEN Ended("refused")
              ELSE [Idle EXCEPT !.step = "prove", !.tenant = who.tenant, !.id = who.id,
                                !.batch = read]]
  BY DEF StartRows
<1> DEFINE batch == [n \in DOMAIN b |-> ChargeOf(path, b[n], now)]
           q == [Idle EXCEPT !.step = "prove", !.tenant = who.tenant, !.id = who.id,
                             !.batch = batch]
<1>2. batch \in Seq(Charge) /\ \A n \in DOMAIN batch : Readable(batch[n])
  <2>1. b \in Seq(Charge)
    BY LedgerAssumption
  <2>2. \A n \in DOMAIN b : batch[n] \in Charge /\ Readable(batch[n])
    BY <2>1, ChargeOfTyped
  <2>3. DOMAIN b = 1..Len(b) /\ Len(b) \in Nat
    BY <2>1
  <2> QED BY <2>2, <2>3
<1> HIDE DEF batch
<1>3. q \in Req /\ Flying(q)
  BY <1>2, IdleTyped, CallerTyped, LedgerAssumption DEF Req, Steps, Flying, Idle
<1>4. Ended("refused") \in Req /\ Flying(Ended("refused"))
  BY EndedTyped, EndedFlying DEF Answers
<1> HIDE DEF q
<1>5. req'[r] \in {q, Ended("refused")} /\ req' = [req EXCEPT ![r] = req'[r]]
  BY <1>1 DEF q, batch, Typed, TypeOK
<1> QED BY <1>3, <1>4, <1>5, ReqStep DEF StartRows

LEMMA StartAttestTyped ==
  ASSUME Typed, NEW r \in Request, StartAttest(r)
  PROVE  Typed'
<1>1. PICK who \in Callers, k \in GatewayKey :
        req' = [req EXCEPT ![r] =
          IF MayAttest(who.id)
            THEN [Idle EXCEPT !.step = "attest", !.tenant = who.tenant,
                              !.id = who.id, !.key = k]
            ELSE Ended("refused")]
  BY DEF StartAttest
<1> DEFINE q == [Idle EXCEPT !.step = "attest", !.tenant = who.tenant,
                             !.id = who.id, !.key = k]
<1>2. MayAttest(who.id) => q \in Req /\ Flying(q)
  BY IdleTyped, CallerTyped, NothingRead, LedgerAssumption DEF Req, Steps, Flying, Idle
<1>3. Ended("refused") \in Req /\ Flying(Ended("refused"))
  BY EndedTyped, EndedFlying DEF Answers
<1> HIDE DEF q
<1>4. /\ req'[r] = IF MayAttest(who.id) THEN q ELSE Ended("refused")
      /\ req' = [req EXCEPT ![r] = req'[r]]
  BY <1>1 DEF q, Typed, TypeOK
<1> QED BY <1>2, <1>3, <1>4, ReqStep DEF StartAttest

LEMMA StartSpendTyped ==
  ASSUME Typed, NEW r \in Request, StartSpend(r)
  PROVE  Typed'
<1>1. PICK who \in Callers, k \in GatewayKey, usd \in Figure :
        req' = [req EXCEPT ![r] =
          IF MayAttest(who.id)
            THEN [Idle EXCEPT !.step = "checkMinted", !.tenant = who.tenant,
                              !.id = who.id, !.key = k, !.figure = usd]
            ELSE Ended("refused")]
  BY DEF StartSpend
<1> DEFINE q == [Idle EXCEPT !.step = "checkMinted", !.tenant = who.tenant,
                             !.id = who.id, !.key = k, !.figure = usd]
<1>2. MayAttest(who.id) => q \in Req /\ Flying(q)
  BY IdleTyped, CallerTyped, NothingRead, LedgerAssumption DEF Req, Steps, Flying, Idle
<1>3. Ended("refused") \in Req /\ Flying(Ended("refused"))
  BY EndedTyped, EndedFlying DEF Answers
<1> HIDE DEF q
<1>4. /\ req'[r] = IF MayAttest(who.id) THEN q ELSE Ended("refused")
      /\ req' = [req EXCEPT ![r] = req'[r]]
  BY <1>1 DEF q, Typed, TypeOK
<1> QED BY <1>2, <1>3, <1>4, ReqStep DEF StartSpend

LEMMA StartViewTyped ==
  ASSUME Typed, NEW r \in Request, StartView(r)
  PROVE  Typed'
<1>1. PICK who \in Callers, pull \in Pull :
        req' = [req EXCEPT ![r] =
          IF who.id # None /\ who.id.repo # pull.repo
            THEN Ended("refused")
            ELSE [Idle EXCEPT !.step = "readLines", !.tenant = who.tenant, !.pull = pull]]
  BY DEF StartView
<1> DEFINE q == [Idle EXCEPT !.step = "readLines", !.tenant = who.tenant, !.pull = pull]
<1>2. q \in Req /\ Flying(q)
  BY IdleTyped, CallerTyped, NothingRead, LedgerAssumption DEF Req, Steps, Flying, Idle
<1>3. Ended("refused") \in Req /\ Flying(Ended("refused"))
  BY EndedTyped, EndedFlying DEF Answers
<1> HIDE DEF q
<1>4. req'[r] \in {q, Ended("refused")} /\ req' = [req EXCEPT ![r] = req'[r]]
  BY <1>1 DEF q, Typed, TypeOK
<1> QED BY <1>2, <1>3, <1>4, ReqStep DEF StartView

(* A handler that only moves on with what a transaction read. *)
LEMMA ReadTyped ==
  ASSUME Typed, NEW r \in Request,
         ReadProven(r) \/ CheckMinted(r) \/ ReadLines(r) \/ ReadSpend(r)
  PROVE  Typed'
<1> USE DEF Typed
<1>1. CASE ReadProven(r)
  <2>1. provenCredentials(req[r].tenant, req[r].id, req[r].batch) \in SUBSET GatewayKey
    BY DEF provenCredentials
  <2> DEFINE p == [req[r] EXCEPT !.step = "ingest"]
             q == [p EXCEPT !.proven = provenCredentials(req[r].tenant, req[r].id, req[r].batch)]
  <2>2. req'[r] = q /\ req' = [req EXCEPT ![r] = req'[r]]
    BY <1>1 DEF ReadProven, TypeOK
  <2>3. p \in Req /\ Flying(p)
    BY <1>1, MoveTyped DEF ReadProven, Steps
  <2> HIDE DEF p
  <2>4. q \in Req /\ Flying(q)
    BY <2>1, <2>3 DEF Req, Flying
  <2> QED BY <1>1, <2>2, <2>4, ReqStep DEF ReadProven
<1>2. CASE CheckMinted(r)
  <2> DEFINE q == [req[r] EXCEPT !.step = "keepSpend"]
  <2>1. req'[r] \in {q, Ended("conflict")} /\ req' = [req EXCEPT ![r] = req'[r]]
    BY <1>2 DEF CheckMinted, TypeOK
  <2>2. q \in Req /\ Flying(q)
    BY <1>2, MoveTyped DEF CheckMinted, Steps
  <2>3. Ended("conflict") \in Req /\ Flying(Ended("conflict"))
    BY EndedTyped, EndedFlying DEF Answers
  <2> QED BY <1>2, <2>1, <2>2, <2>3, ReqStep DEF CheckMinted
<1>3. CASE ReadLines(r)
  <2> DEFINE p == [req[r] EXCEPT !.step = "readSpend"]
             q == [p EXCEPT !.lines = OfPull(req[r].tenant, req[r].pull)]
  <2>1. req'[r] = q /\ req' = [req EXCEPT ![r] = req'[r]]
    BY <1>3 DEF ReadLines, TypeOK
  <2>2. p \in Req /\ Flying(p) /\ p.step = "readSpend"
    BY <1>3, MoveTyped DEF ReadLines, Steps
  <2> HIDE DEF p
  <2>3. OfPull(req[r].tenant, req[r].pull) \in SUBSET RowId
    BY DEF OfPull
  <2>4. q \in Req /\ Flying(q)
    BY <2>2, <2>3 DEF Req, Flying
  <2> QED BY <1>3, <2>1, <2>4, ReqStep DEF ReadLines
<1>4. CASE ReadSpend(r)
  <2> DEFINE t == req[r].tenant
             counted == Cardinality({i \in OfPull(t, req[r].pull) : Covered(t, i)})
             basis == budgetOf(t, req[r].lines, counted)
             usd == IF basis = "gateway_measured" THEN MeasuredUsd(t, req[r].pull) ELSE {}
             p == [req[r] EXCEPT !.step = "answered"]
             o == [p EXCEPT !.answer = basis]
             q == [o EXCEPT !.usd = usd]
  <2>1. req'[r] = q /\ req' = [req EXCEPT ![r] = req'[r]]
    BY <1>4 DEF ReadSpend, TypeOK
  <2>2. t \in Tenant /\ req[r].pull \in Pull
    BY <1>4 DEF ReadSpend, InFlight, Flying
  <2>3. basis \in {"none", "reconciled", "gateway_measured", "agent_counts"}
    BY DEF budgetOf
  <2>4. MeasuredUsd(t, req[r].pull) \in SUBSET (GatewayKey \X Nat)
    <3>1. \A k \in CountedKeys(t, req[r].pull) : k \in GatewayKey /\ spend[t][k] # None
      BY DEF CountedKeys, Covered
    <3>2. \A k \in CountedKeys(t, req[r].pull) : spend[t][k] \in Nat
      BY <2>2, <3>1 DEF TypeOK
    <3> QED BY <3>1, <3>2 DEF MeasuredUsd
  <2>5. usd \in SUBSET (GatewayKey \X Nat)
    BY <2>4
  <2> HIDE DEF basis, usd
  <2>6. p \in Req /\ Flying(p) /\ p.tenant \in Tenant /\ p.pull \in Pull
    BY <1>4, <2>2, MoveTyped DEF ReadSpend, Steps
  <2> HIDE DEF p
  <2>7. o \in Req /\ Flying(o) /\ o.tenant \in Tenant /\ o.pull \in Pull
    BY <2>3, <2>6 DEF Req, Answers, Flying
  <2> HIDE DEF o
  <2>8. q \in Req /\ Flying(q)
    BY <2>5, <2>7 DEF Req, Flying
  <2> QED BY <1>4, <2>1, <2>8, ReqStep DEF ReadSpend
<1> QED BY <1>1, <1>2, <1>3, <1>4

LEMMA EndTyped ==
  ASSUME Typed, NEW r \in Request, RefuseRows(r) \/ Fail(r) \/ Close(r)
  PROVE  Typed'
<1>1. \A a \in {"refused", "failed"} : Ended(a) \in Req /\ Flying(Ended(a))
  BY EndedTyped, EndedFlying DEF Answers
<1>2. /\ req'[r] \in {Ended("refused"), Ended("failed"), Idle}
      /\ req' = [req EXCEPT ![r] = req'[r]]
  BY DEF Typed, TypeOK, RefuseRows, Fail, Close
<1> QED BY <1>1, <1>2, IdleTyped, IdleFlying, ReqStep DEF RefuseRows, Fail, Close

(* An answered attestation: the record that stays behind is well formed. *)
LEMMA AttestedTyped ==
  ASSUME Typed, NEW r \in Request, NEW answer \in {"stored", "conflict", "failed"},
         req[r].step \in {"attest", "keepSpend"}, Attested(r, answer)
  PROVE  req' \in [Request -> Req] /\ InFlight'
<1> DEFINE p == [req[r] EXCEPT !.step = "answered"]
           o == [p EXCEPT !.answer = answer]
           q == [o EXCEPT !.figure = None]
<1>1. req'[r] \in {q, Ended(answer)} /\ req' = [req EXCEPT ![r] = req'[r]]
  BY DEF Attested, Typed, TypeOK
<1>2. answer = "stored" => req'[r] = q
  BY DEF Attested, Typed, TypeOK
<1>3. /\ p \in Req /\ Flying(p) /\ p.tenant \in Tenant /\ p.key \in GatewayKey
      /\ MayAttest(p.id)
  <2>1. p \in Req /\ Flying(p) /\ p.tenant = req[r].tenant /\ p.key = req[r].key /\ p.id = req[r].id
    BY MoveTyped DEF Steps
  <2> QED BY <2>1 DEF Typed, InFlight, Flying
<1> HIDE DEF p
<1>4. /\ o \in Req /\ Flying(o) /\ o.step = p.step
  BY <1>3 DEF Req, Answers, Flying
<1>5. p.step = "answered"
  BY DEF p, Typed, TypeOK, Req
<1> HIDE DEF o
<1>6. q \in Req /\ Flying(q)
  BY <1>4, <1>5 DEF Req, Flying
<1>7. answer # "stored" => Ended(answer) \in Req /\ Flying(Ended(answer))
  BY EndedTyped, EndedFlying DEF Answers
<1> HIDE DEF q
<1>8. req'[r] \in Req /\ Flying(req'[r])
  BY <1>1, <1>2, <1>6, <1>7
<1>9. req' \in [Request -> Req]
  BY <1>1, <1>8 DEF Typed, TypeOK
<1>10. InFlight'
  BY <1>1, <1>8 DEF Typed, TypeOK, InFlight, Flying, MayAttest
<1> QED BY <1>9, <1>10

LEMMA IngestTyped ==
  ASSUME Typed, NEW r \in Request, Ingest(r)
  PROVE  Typed'
<1> DEFINE t == req[r].tenant
           new == Stored(rows[t], req[r].batch, req[r].id, req[r].proven)
<1>1. req[r] \in Req /\ t \in Tenant
  BY DEF Typed, TypeOK, InFlight, Flying, Ingest
<1>2. new \in [RowId -> Row \cup {None}]
  <2>1. req[r].batch \in Seq(Charge) /\ req[r].id \in Identity \cup {None}
    BY <1>1 DEF Req
  <2>2. rows[t] \in [RowId -> Row \cup {None}]
    BY <1>1 DEF Typed, TypeOK
  <2> QED BY <2>1, <2>2, StoredTyped DEF Ingest
<1>3. rows' = [rows EXCEPT ![t] = new]
  BY DEF Ingest
<1> HIDE DEF new
<1>4. rows' \in [Tenant -> [RowId -> Row \cup {None}]]
  BY <1>2, <1>3 DEF Typed, TypeOK
<1>5. PICK a \in {"accepted", "failed"} : req' = [req EXCEPT ![r] = Ended(a)]
  BY DEF Ingest
<1>6. Ended(a) \in Req /\ Flying(Ended(a))
  BY EndedTyped, EndedFlying DEF Answers
<1>7. req' \in [Request -> Req] /\ InFlight'
  BY <1>5, <1>6 DEF Typed, TypeOK, InFlight, Flying, MayAttest
<1> QED BY <1>4, <1>7 DEF Typed, TypeOK, Ingest

LEMMA AttestTyped ==
  ASSUME Typed, NEW r \in Request, Attest(r)
  PROVE  Typed'
<1>1. req[r].step = "attest" /\ req[r] \in Req /\ Flying(req[r])
  BY DEF Attest, Typed, TypeOK, InFlight
<1>2. \E answer \in {"stored", "conflict", "failed"} : Attested(r, answer)
  BY DEF Attest
<1>3. req' \in [Request -> Req] /\ InFlight'
  BY <1>1, <1>2, AttestedTyped
<1>4. RunOf(req[r].id) \in Run
  BY <1>1, LedgerAssumption DEF Req, Flying, MayAttest, RunOf, Run
<1>5. minted' \in [Tenant -> [GatewayKey -> Run \cup {None}]]
  BY <1>4 DEF Attest, Typed, TypeOK
<1> QED BY <1>3, <1>5 DEF Attest, Typed, TypeOK

LEMMA AttestSpendTyped ==
  ASSUME Typed, NEW r \in Request, AttestSpend(r)
  PROVE  Typed'
<1>1. req[r].step = "keepSpend" /\ req[r] \in Req /\ Flying(req[r])
  BY DEF AttestSpend, Typed, TypeOK, InFlight
<1>2. \E answer \in {"stored", "conflict", "failed"} : Attested(r, answer)
  BY DEF AttestSpend
<1>3. req' \in [Request -> Req] /\ InFlight'
  BY <1>1, <1>2, AttestedTyped
<1>4. spend' \in [Tenant -> [GatewayKey -> Nat \cup {None}]]
  BY <1>1 DEF AttestSpend, Typed, TypeOK, Flying
<1> QED BY <1>3, <1>4 DEF AttestSpend, Typed, TypeOK

LEMMA InitTyped == Init => Typed
<1> SUFFICES ASSUME Init PROVE Typed
  OBVIOUS
<1>1. TypeOK
  BY IdleTyped DEF Init, TypeOK
<1>2. InFlight
  BY IdleFlying DEF Init, InFlight
<1> QED BY <1>1, <1>2 DEF Typed

LEMMA NextTyped ==
  ASSUME Typed, [Next]_vars
  PROVE  Typed'
<1>1. ASSUME NEW k \in IngestKey, AddKey(k) \/ RevokeKey(k)
      PROVE  Typed'
  BY <1>1 DEF AddKey, RevokeKey, Typed, TypeOK, InFlight, Flying, MayAttest, tables
<1>2. ASSUME NEW r \in Request, Handler(r)
      PROVE  Typed'
  BY <1>2, StartRowsTyped, StartAttestTyped, StartSpendTyped, StartViewTyped, ReadTyped,
     EndTyped, IngestTyped, AttestTyped, AttestSpendTyped DEF Handler
<1>3. CASE UNCHANGED vars
  BY <1>3 DEF vars, Typed, TypeOK, InFlight, Flying, MayAttest
<1> QED BY <1>1, <1>2, <1>3 DEF Next

(* Every reachable state of the service is well formed, with any number of *)
(* tenants, keys and concurrent requests: no handler stores a malformed    *)
(* join key, an untyped attestation or a figure that is no number.         *)
THEOREM TypeCorrect == Spec => []TypeOK
<1>1. Spec => []Typed
  BY InitTyped, NextTyped, PTL DEF Spec
<1>2. Typed => TypeOK
  BY DEF Typed
<1> QED BY <1>1, <1>2, PTL

-----------------------------------------------------------------------------
(* The tables only grow. *)

LEMMA UnchangedGrows ==
  ASSUME Typed, UNCHANGED tables
  PROVE  OnlyGrows
<1>1. \A t \in Tenant, k \in GatewayKey : spend[t][k] # None => spend[t][k] \in Nat
  BY DEF Typed, TypeOK
<1> QED BY <1>1 DEF OnlyGrows, tables

LEMMA IngestGrows ==
  ASSUME Typed, NEW r \in Request, Ingest(r)
  PROVE  OnlyGrows
<1> DEFINE t == req[r].tenant
           new == Stored(rows[t], req[r].batch, req[r].id, req[r].proven)
<1>1. \A i \in RowId : rows[t][i] # None => new[i] = rows[t][i]
  BY DEF Stored
<1>2. rows' = [rows EXCEPT ![t] = new]
  BY DEF Ingest
<1> HIDE DEF new
<1>3. \A u \in Tenant, i \in RowId : rows[u][i] # None => rows'[u][i] = rows[u][i]
  BY <1>1, <1>2 DEF Typed, TypeOK
<1>4. \A u \in Tenant, k \in GatewayKey : spend[u][k] # None => spend[u][k] \in Nat
  BY DEF Typed, TypeOK
<1> QED BY <1>3, <1>4 DEF OnlyGrows, Ingest

LEMMA AttestGrows ==
  ASSUME Typed, NEW r \in Request, Attest(r)
  PROVE  OnlyGrows
<1>1. \A u \in Tenant, k \in GatewayKey : spend[u][k] # None => spend[u][k] \in Nat
  BY DEF Typed, TypeOK
<1>2. \A u \in Tenant, k \in GatewayKey : minted[u][k] # None => minted'[u][k] = minted[u][k]
  BY DEF Attest, Typed, TypeOK
<1> QED BY <1>1, <1>2 DEF OnlyGrows, Attest

LEMMA AttestSpendGrows ==
  ASSUME Typed, NEW r \in Request, AttestSpend(r)
  PROVE  OnlyGrows
<1>1. req[r].figure \in Nat /\ None \notin Nat
  BY LedgerAssumption DEF AttestSpend, Typed, InFlight, Flying
<1>2. \A u \in Tenant, k \in GatewayKey : spend[u][k] # None => spend[u][k] \in Nat
  BY DEF Typed, TypeOK
<1>3. \A u \in Tenant, k \in GatewayKey :
        spend[u][k] # None => spend'[u][k] # None /\ spend'[u][k] >= spend[u][k]
  BY <1>1, <1>2 DEF AttestSpend, Typed, TypeOK
<1> QED BY <1>3 DEF OnlyGrows, AttestSpend

LEMMA NextGrows ==
  ASSUME Typed, [Next]_vars
  PROVE  OnlyGrows
<1>1. CASE UNCHANGED tables
  BY <1>1, UnchangedGrows
<1>2. ASSUME NEW r \in Request, Ingest(r) \/ Attest(r) \/ AttestSpend(r)
      PROVE  OnlyGrows
  BY <1>2, IngestGrows, AttestGrows, AttestSpendGrows
<1>3. UNCHANGED tables \/ \E r \in Request : Ingest(r) \/ Attest(r) \/ AttestSpend(r)
  BY DEF Next, Handler, vars, tables, AddKey, RevokeKey, StartRows, ReadProven, RefuseRows,
         StartAttest, StartSpend, CheckMinted, StartView, ReadLines, ReadSpend, Fail, Close
<1> QED BY <1>1, <1>2, <1>3

(* No interleaving of requests, failures and retries changes a stored row, *)
(* moves a key to another run or lowers a figure.                          *)
THEOREM Immutable == Spec => StoredStands
<1>1. Spec => []Typed
  BY InitTyped, NextTyped, PTL DEF Spec
<1>2. Typed /\ [Next]_vars => [OnlyGrows]_tables
  BY NextGrows
<1> QED BY <1>1, <1>2, PTL DEF Spec, StoredStands

-----------------------------------------------------------------------------
(* What a handler read stays true. *)

LEMMA RunOfTyped ==
  ASSUME NEW id \in Identity
  PROVE  RunOf(id) \in Run /\ RunOf(id) # None
  BY LedgerAssumption DEF RunOf, Run

LEMMA OfPullGrows ==
  ASSUME Typed, OnlyGrows, NEW t \in Tenant, NEW q \in Pull
  PROVE  OfPull(t, q) \subseteq OfPull(t, q)'
  BY DEF OfPull, OnlyGrows

(* A request that takes no step keeps what it read while others commit. *)
LEMMA OthersStand ==
  ASSUME Typed, OnlyGrows, NEW s \in Request, req'[s] = req[s], Stands(req[s])
  PROVE  Stands(req[s])'
<1> DEFINE q == req[s]
<1>1. q \in Req /\ Flying(q)
  BY DEF Typed, TypeOK, InFlight
<1>2. /\ q.step = "ingest" => q.tenant \in Tenant
      /\ q.step = "keepSpend" \/ q.answer = "stored" =>
           q.tenant \in Tenant /\ q.key \in GatewayKey /\ q.id \in Identity
      /\ q.lines # {} => q.tenant \in Tenant /\ q.pull \in Pull
  BY <1>1 DEF Flying, MayAttest, Req
<1>3. q.step = "ingest" => \A k \in q.proven : minted'[q.tenant][k] = RunOf(q.id)
  <2> SUFFICES ASSUME q.step = "ingest", NEW k \in q.proven
               PROVE  minted'[q.tenant][k] = RunOf(q.id)
    OBVIOUS
  <2>1. q.id \in Identity /\ k \in GatewayKey
    BY <1>1 DEF Stands, Req
  <2> QED BY <1>2, <2>1, RunOfTyped DEF Stands, OnlyGrows
<1>4. q.step = "keepSpend" \/ q.answer = "stored" =>
        minted'[q.tenant][q.key] = RunOf(q.id)
  BY <1>2, RunOfTyped DEF Stands, OnlyGrows
<1>5. q.lines # {} => q.lines \subseteq OfPull(q.tenant, q.pull)'
  <2> SUFFICES ASSUME q.lines # {}
               PROVE  q.lines \subseteq OfPull(q.tenant, q.pull)'
    OBVIOUS
  <2>1. q.lines \subseteq OfPull(q.tenant, q.pull)
    BY DEF Stands
  <2>2. OfPull(q.tenant, q.pull) \subseteq {i \in RowId :
          rows'[q.tenant][i] # None /\ rows'[q.tenant][i].repo = q.pull.repo
                                    /\ rows'[q.tenant][i].pr = q.pull.pr}
    BY <1>2 DEF OfPull, OnlyGrows
  <2> QED BY <2>1, <2>2 DEF OfPull
<1>6. q.step = "ingest" /\ q.proven # {} =>
        q.id # None /\ q.id.pr # None /\ q.id.attempt # None
  BY DEF Stands
<1> QED BY <1>3, <1>4, <1>5, <1>6 DEF Stands, OfPull, RunOf

(* A record with no answer and nothing read yet stands. *)
LEMMA FreshStands ==
  ASSUME NEW r \in Request, req'[r].step \notin {"ingest", "keepSpend"},
         req'[r].answer # "stored", req'[r].lines = {}
  PROVE  Stands(req[r])'
  BY DEF Stands

(* The request that takes the step. *)
LEMMA OwnStands ==
  ASSUME Typed, ReadsStand, NEW r \in Request, Handler(r)
  PROVE  Stands(req[r])'
<1>1. req[r] \in Req /\ Flying(req[r]) /\ Stands(req[r])
  BY DEF Typed, TypeOK, InFlight, ReadsStand
<1>2. None # "stored"
  BY LedgerAssumption
<1>3. ASSUME NEW path, StartRows(r, path)
      PROVE  Stands(req[r])'
  <2>0. PICK who, read :
          req' = [req EXCEPT ![r] =
            IF path = "rows" /\ \E n \in DOMAIN read : ~read[n].parses
              THEN Ended("refused")
              ELSE [Idle EXCEPT !.step = "prove", !.tenant = who.tenant, !.id = who.id,
                                !.batch = read]]
    BY <1>3 DEF StartRows
  <2>1. req'[r] \in {Ended("refused"),
                     [Idle EXCEPT !.step = "prove", !.tenant = who.tenant, !.id = who.id,
                                  !.batch = read]}
    BY <2>0 DEF Typed, TypeOK
  <2>2. /\ req'[r].step \in {"prove", "answered"} /\ req'[r].answer \in {None, "refused"}
        /\ req'[r].lines = {}
    BY <2>1 DEF Ended, Idle
  <2> QED BY <1>2, <2>2, FreshStands
<1>4. CASE StartAttest(r)
  BY <1>2, <1>4, FreshStands DEF StartAttest, Ended, Idle, Typed, TypeOK
<1>5. CASE StartSpend(r)
  BY <1>2, <1>5, FreshStands DEF StartSpend, Ended, Idle, Typed, TypeOK
<1>6. CASE StartView(r)
  BY <1>2, <1>6, FreshStands DEF StartView, Ended, Idle, Typed, TypeOK
<1>7. CASE RefuseRows(r) \/ Ingest(r) \/ Fail(r) \/ Close(r)
  <2>1. req'[r] \in {Ended("refused"), Ended("accepted"), Ended("failed"), Idle}
    BY <1>7 DEF RefuseRows, Ingest, Fail, Close, Typed, TypeOK
  <2>2. /\ req'[r].step \in {"idle", "answered"} /\ req'[r].lines = {}
        /\ req'[r].answer \in {None, "refused", "accepted", "failed"}
    <3>1. \A a : Ended(a).step = "answered" /\ Ended(a).lines = {} /\ Ended(a).answer = a
      BY DEF Ended, Idle
    <3>2. Idle.step = "idle" /\ Idle.lines = {} /\ Idle.answer = None
      BY DEF Idle
    <3> QED BY <2>1, <3>1, <3>2
  <2> QED BY <1>2, <2>2, FreshStands
<1>8. CASE ReadProven(r)
  <2>1. /\ req'[r].step = "ingest" /\ req'[r].tenant = req[r].tenant
        /\ req'[r].id = req[r].id /\ req'[r].answer = req[r].answer
        /\ req'[r].key = req[r].key /\ req'[r].lines = req[r].lines
        /\ req'[r].pull = req[r].pull
        /\ req'[r].proven = provenCredentials(req[r].tenant, req[r].id, req[r].batch)
    BY <1>1, <1>8 DEF ReadProven, Typed, TypeOK, Req
  <2>2. UNCHANGED <<minted, rows>>
    BY <1>8 DEF ReadProven, tables
  <2>3. \A k \in req'[r].proven :
          /\ req[r].id # None /\ req[r].id.pr # None /\ req[r].id.attempt # None
          /\ minted[req[r].tenant][k] = RunOf(req[r].id)
    BY <2>1 DEF provenCredentials
  <2> QED BY <1>1, <2>1, <2>2, <2>3 DEF Stands, OfPull, RunOf
<1>9. CASE CheckMinted(r)
  <2>1. CASE minted[req[r].tenant][req[r].key] = RunOf(req[r].id)
    <3>1. req'[r] = [req[r] EXCEPT !.step = "keepSpend"]
      BY <1>9, <2>1 DEF CheckMinted, Typed, TypeOK
    <3> QED BY <1>1, <1>9, <2>1, <3>1 DEF CheckMinted, Stands, OfPull, RunOf, Req, tables
  <2>2. CASE minted[req[r].tenant][req[r].key] # RunOf(req[r].id)
    BY <1>2, <1>9, <2>2, FreshStands DEF CheckMinted, Ended, Idle, Typed, TypeOK
  <2> QED BY <2>1, <2>2
<1>10. CASE ReadLines(r)
  <2>1. /\ req'[r].step = "readSpend" /\ req'[r].tenant = req[r].tenant
        /\ req'[r].id = req[r].id /\ req'[r].answer = req[r].answer
        /\ req'[r].key = req[r].key /\ req'[r].pull = req[r].pull
        /\ req'[r].lines = OfPull(req[r].tenant, req[r].pull)
    BY <1>1, <1>10 DEF ReadLines, Typed, TypeOK, Req
  <2> QED BY <1>1, <1>10, <2>1 DEF ReadLines, Stands, OfPull, RunOf, tables
<1>11. CASE ReadSpend(r)
  <2> DEFINE t == req[r].tenant
             counted == Cardinality({i \in OfPull(t, req[r].pull) : Covered(t, i)})
             basis == budgetOf(t, req[r].lines, counted)
  <2>1. basis # "stored"
    BY DEF budgetOf
  <2> HIDE DEF basis
  <2>2. /\ req'[r].step = "answered" /\ req'[r].answer = basis
        /\ req'[r].tenant = req[r].tenant /\ req'[r].pull = req[r].pull
        /\ req'[r].lines = req[r].lines
    BY <1>1, <1>11 DEF ReadSpend, Typed, TypeOK, Req, basis
  <2>3. UNCHANGED tables
    BY <1>11 DEF ReadSpend
  <2> QED BY <1>1, <2>1, <2>2, <2>3 DEF Stands, OfPull, tables
<1>12. CASE Attest(r)
  <2>1. req[r].tenant \in Tenant /\ req[r].key \in GatewayKey /\ req[r].id \in Identity
    BY <1>1, <1>12 DEF Attest, Flying, MayAttest, Req
  <2>2. PICK answer \in {IF minted[req[r].tenant][req[r].key] \in {None, RunOf(req[r].id)}
                           THEN "stored" ELSE "conflict", "failed"} : Attested(r, answer)
    BY <1>12 DEF Attest
  <2>3. CASE answer = "stored"
    <3>1. minted'[req[r].tenant][req[r].key] = RunOf(req[r].id)
      BY <1>12, <2>1, <2>2, <2>3 DEF Attest, Typed, TypeOK
    <3>2. /\ req'[r].step = "answered" /\ req'[r].tenant = req[r].tenant
          /\ req'[r].id = req[r].id /\ req'[r].key = req[r].key
          /\ req'[r].lines = req[r].lines /\ req'[r].pull = req[r].pull
      BY <1>1, <2>2, <2>3 DEF Attested, Typed, TypeOK, Req
    <3> QED BY <1>1, <1>12, <3>1, <3>2 DEF Attest, Stands, OfPull, RunOf
  <2>4. CASE answer # "stored"
    BY <2>2, <2>4, FreshStands DEF Attested, Ended, Idle, Typed, TypeOK
  <2> QED BY <2>3, <2>4
<1>13. CASE AttestSpend(r)
  <2>1. PICK answer \in {IF minted[req[r].tenant][req[r].key] = RunOf(req[r].id)
                           THEN "stored" ELSE "conflict", "failed"} : Attested(r, answer)
    BY <1>13 DEF AttestSpend
  <2>2. CASE answer = "stored"
    <3>1. minted'[req[r].tenant][req[r].key] = RunOf(req[r].id)
      BY <1>13, <2>1, <2>2 DEF AttestSpend
    <3>2. /\ req'[r].step = "answered" /\ req'[r].tenant = req[r].tenant
          /\ req'[r].id = req[r].id /\ req'[r].key = req[r].key
          /\ req'[r].lines = req[r].lines /\ req'[r].pull = req[r].pull
      BY <1>1, <2>1, <2>2 DEF Attested, Typed, TypeOK, Req
    <3> QED BY <1>1, <1>13, <3>1, <3>2 DEF AttestSpend, Stands, OfPull, RunOf
  <2>3. CASE answer # "stored"
    BY <2>1, <2>3, FreshStands DEF Attested, Ended, Idle, Typed, TypeOK
  <2> QED BY <2>2, <2>3
<1> QED BY <1>3, <1>4, <1>5, <1>6, <1>7, <1>8, <1>9, <1>10, <1>11, <1>12, <1>13 DEF Handler

LEMMA HandlerFrame ==
  ASSUME NEW r \in Request, Handler(r), Typed
  PROVE  \A s \in Request \ {r} : req'[s] = req[s]
  BY DEF Handler, Typed, TypeOK, StartRows, ReadProven, RefuseRows, Ingest, StartAttest, Attest,
         Attested, StartSpend, CheckMinted, AttestSpend, StartView, ReadLines, ReadSpend,
         Fail, Close

LEMMA NextStands ==
  ASSUME Typed, ReadsStand, [Next]_vars
  PROVE  ReadsStand'
<1> SUFFICES ASSUME NEW s \in Request
             PROVE  Stands(req[s])'
  BY DEF ReadsStand
<1>1. CASE req'[s] = req[s]
  BY <1>1, NextGrows, OthersStand DEF ReadsStand
<1>2. CASE req'[s] # req[s]
  <2>1. PICK r \in Request : Handler(r)
    BY <1>2 DEF Next, AddKey, RevokeKey, vars
  <2>2. r = s
    BY <1>2, <2>1, HandlerFrame
  <2> QED BY <2>1, <2>2, OwnStands
<1> QED BY <1>1, <1>2

LEMMA InitStands == Init => ReadsStand
  BY LedgerAssumption DEF Init, ReadsStand, Stands, Idle

(* What a handler read before another transaction committed is still true  *)
(* when it acts on it, for any number of concurrent requests.              *)
THEOREM StaleReadsAreSafe == Spec => []ReadsStand
<1>1. Init => Typed /\ ReadsStand
  BY InitTyped, InitStands
<1>2. Typed /\ ReadsStand /\ [Next]_vars => (Typed /\ ReadsStand)'
  BY NextTyped, NextStands
<1> QED BY <1>1, <1>2, PTL DEF Spec

-----------------------------------------------------------------------------
(* What the rows say. *)

(* The CHECKs of a row that are about one column, or about its period. *)
Valued(row) ==
  /\ row.cost.quantity >= 0 /\ row.cost.list >= 0 /\ row.cost.effective >= 0
  /\ row.period.to > row.period.from
  /\ row.grade \in {"exact", "windowed", "unattributed"}
  /\ row.identity \in {"token_verified", "unverified"}
  /\ row.headBasis \in {"token", "stated", None}
  /\ row.basis \in {"minted", "stated", None}

LEMMA RecordValued ==
  ASSUME NEW c \in Charge, NEW id, NEW proven, c.parses, Readable(c)
  PROVE  Valued(RecordOf(c, id, proven))
<1> DEFINE row == RecordOf(c, id, proven)
<1>1. c.tokens >= 0 /\ c.start <= c.end /\ c.start \in Nat /\ c.end \in Nat
  BY DEF Readable, Charge
<1>2. basisOf(c, proven) \in {"minted", "stated", None}
  BY DEF basisOf
<1>3. id # None => headOf(c, id).basis \in {"token", "stated", None}
  BY DEF headOf
<1>4. /\ row.period = ChargePeriod(c.start, c.end) /\ row.cost = Cost(c)
      /\ row.basis = basisOf(c, proven)
      /\ row.grade \in {"exact", "windowed", "unattributed"}
      /\ row.identity \in {"token_verified", "unverified"}
  BY DEF RecordOf, joinUnverified, joinVerified
<1>5. row.headBasis \in {"token", "stated", None}
  BY <1>3 DEF RecordOf, joinUnverified, joinVerified
<1> HIDE DEF row
<1>6. row.period.to > row.period.from
  BY <1>1, <1>4, PeriodHolds
<1>7. row.cost.quantity >= 0 /\ row.cost.list >= 0 /\ row.cost.effective >= 0
  BY <1>1, <1>4, CostTyped
<1> QED BY <1>2, <1>4, <1>5, <1>6, <1>7 DEF Valued, row

(* The row a charge becomes says no more than the caller's token proves,   *)
(* and no CHECK refuses it.                                                *)
LEMMA RecordSound ==
  ASSUME NEW c \in Charge, NEW id \in Identity \cup {None},
         NEW proven \in SUBSET GatewayKey, proven # {} => id # None,
         c.parses /\ Readable(c)
  PROVE  LET row == RecordOf(c, id, proven) IN
           /\ Valued(row)
           /\ row.identity = "token_verified" =>
                id # None /\ row.repo = id.repo /\ row.pr = id.pr /\ RunOf(row) = RunOf(id)
           /\ row.basis = "minted" =>
                row.identity = "token_verified" /\ row.credential \in proven
           /\ row.grade = "exact" => row.basis = "minted" /\ row.pr # None /\ row.sha # None
           /\ row.identity = "token_verified" \/ row.grade = "unattributed"
           /\ row.headBasis = "token" => row.sha = row.tokenSha
           /\ row.identity = "token_verified" \/ row.tokenSha = None
<1> DEFINE basis == basisOf(c, proven)
<1>0. Valued(RecordOf(c, id, proven))
  BY RecordValued
<1>1. basis = "minted" => c.credential \in proven
  BY LedgerAssumption DEF basisOf
<1>2. CASE id = None
  <2>1. basis # "minted"
    BY <1>1, <1>2
  <2> HIDE DEF basis
  <2> DEFINE row == joinUnverified(c, proven)
  <2>3. /\ row.basis = basis /\ row.identity = "unverified" /\ row.grade = "unattributed"
        /\ row.headBasis \in {None, "stated"} /\ row.tokenSha = None
    BY DEF joinUnverified, basis
  <2>4. RecordOf(c, id, proven) = row
    BY <1>2 DEF RecordOf
  <2> HIDE DEF row
  <2> QED BY <1>0, <2>1, <2>3, <2>4, LedgerAssumption
<1>3. CASE id # None
  <2> DEFINE row == joinVerified(c, id, proven)
             head == headOf(c, id)
  <2>1. RecordOf(c, id, proven) = row
    BY <1>3 DEF RecordOf
  <2>2. head.basis = "token" => head.sha = id.commit
    BY LedgerAssumption DEF headOf
  <2>4. /\ row.repo = id.repo /\ row.pr = id.pr /\ row.run = id.run
        /\ row.attempt = id.attempt /\ row.sha = head.sha /\ row.tokenSha = id.commit
        /\ row.headBasis = head.basis /\ row.identity = "token_verified"
        /\ row.basis = basis /\ row.credential = c.credential
    BY DEF joinVerified
  <2>5. row.grade = "exact" => basis = "minted" /\ id.pr # None /\ head.sha # None
    BY DEF joinVerified
  <2> HIDE DEF row, head, basis
  <2>6. RunOf(row) = RunOf(id)
    BY <2>4 DEF RunOf
  <2> QED BY <1>0, <1>1, <1>3, <2>1, <2>2, <2>4, <2>5, <2>6
<1> QED BY <1>2, <1>3

(* A row of the table after a step is the row before it, or a new one made *)
(* of a charge by the caller's join.                                       *)
NewRow(r, t, i) ==
  /\ req[r].step = "ingest" /\ t = req[r].tenant /\ rows[t][i] = None
  /\ \E c \in Charge : /\ c.parses /\ Readable(c)
                      /\ rows'[t][i] = RecordOf(c, req[r].id, req[r].proven)

LEMMA StoredCases ==
  ASSUME NEW table, NEW batch \in Seq(Charge), NEW id, NEW proven, NEW i \in RowId,
         \A n \in DOMAIN batch : Readable(batch[n])
  PROVE  \/ Stored(table, batch, id, proven)[i] = table[i]
         \/ /\ table[i] = None
            /\ \E c \in Charge : /\ c.parses /\ Readable(c)
                                /\ Stored(table, batch, id, proven)[i] = RecordOf(c, id, proven)
<1> DEFINE places == {n \in DOMAIN batch : batch[n].row = i /\ batch[n].parses}
           first == CHOOSE n \in places : \A m \in places : n <= m
<1>1. CASE table[i] # None \/ places = {}
  BY <1>1 DEF Stored
<1>2. CASE table[i] = None /\ places # {}
  <2>1. \E n \in places : \A m \in places : n <= m
    <3>1. places \subseteq Nat /\ places # {}
      BY <1>2
    <3> QED BY <3>1, Least
  <2>2. batch[first] \in Charge /\ batch[first].parses /\ Readable(batch[first])
    BY <2>1
  <2>3. Stored(table, batch, id, proven)[i] = RecordOf(batch[first], id, proven)
    BY <1>2 DEF Stored
  <2> HIDE DEF first
  <2> QED BY <1>2, <2>2, <2>3
<1> QED BY <1>1, <1>2

LEMMA RowsStep ==
  ASSUME Typed, [Next]_vars, NEW t \in Tenant, NEW i \in RowId
  PROVE  rows'[t][i] = rows[t][i] \/ \E r \in Request : NewRow(r, t, i)
<1>1. CASE UNCHANGED rows
  BY <1>1
<1>2. ASSUME NEW r \in Request, Ingest(r), t = req[r].tenant
      PROVE  rows'[t][i] = rows[t][i] \/ NewRow(r, t, i)
  <2>1. /\ req[r].batch \in Seq(Charge) /\ req[r].step = "ingest"
        /\ \A n \in DOMAIN req[r].batch : Readable(req[r].batch[n])
    BY <1>2 DEF Typed, TypeOK, InFlight, Flying, Req, Ingest
  <2>2. rows'[t][i] = Stored(rows[t], req[r].batch, req[r].id, req[r].proven)[i]
    BY <1>2 DEF Ingest, Typed, TypeOK
  <2> QED BY <1>2, <2>1, <2>2, StoredCases DEF NewRow
<1>3. ASSUME NEW r \in Request, Ingest(r), t # req[r].tenant
      PROVE  rows'[t][i] = rows[t][i]
  BY <1>3 DEF Ingest, Typed, TypeOK
<1>4. UNCHANGED rows \/ \E r \in Request : Ingest(r)
  BY DEF Next, Handler, vars, tables, AddKey, RevokeKey, StartRows, ReadProven, RefuseRows,
         StartAttest, Attest, AttestSpend, StartSpend, CheckMinted, StartView, ReadLines,
         ReadSpend, Fail, Close
<1> QED BY <1>1, <1>2, <1>3, <1>4

(* Every verified row was joined to a token of its own tenant. *)
TokenRows ==
  \A t \in Tenant, i \in RowId :
    rows[t][i] # None /\ rows[t][i].identity = "token_verified" =>
      \E id \in Identity : /\ id.tenant = t /\ id.repo = rows[t][i].repo
                           /\ id.pr = rows[t][i].pr /\ RunOf(id) = RunOf(rows[t][i])

Sound == Typed /\ ReadsStand /\ ExactIsProven /\ TokenRows /\ ChecksNeverRefuse

LEMMA InitSound == Init => Sound
<1> SUFFICES ASSUME Init PROVE Sound
  OBVIOUS
<1>1. ExactIsProven /\ TokenRows /\ ChecksNeverRefuse
  BY DEF Init, ExactIsProven, TokenRows, ChecksNeverRefuse
<1> QED BY <1>1, InitTyped, InitStands DEF Sound

(* What a new row says, with the facts its request read standing. *)
LEMMA NewRowSound ==
  ASSUME Typed, ReadsStand, OnlyGrows, NEW r \in Request, NEW t \in Tenant, NEW i \in RowId,
         NewRow(r, t, i)
  PROVE  LET row == rows'[t][i] IN
           /\ Valued(row)
           /\ row.identity = "token_verified" =>
                \E id \in Identity : /\ id.tenant = t /\ id.repo = row.repo
                                     /\ id.pr = row.pr /\ RunOf(id) = RunOf(row)
           /\ row.basis = "minted" =>
                /\ row.identity = "token_verified" /\ row.credential \in GatewayKey
                /\ minted'[t][row.credential] = RunOf(row) /\ row.attempt # None
           /\ row.grade = "exact" => row.basis = "minted" /\ row.pr # None /\ row.sha # None
           /\ row.identity = "token_verified" \/ row.grade = "unattributed"
           /\ row.headBasis = "token" => row.sha = row.tokenSha
           /\ row.identity = "token_verified" \/ row.tokenSha = None
<1> DEFINE id == req[r].id
           proven == req[r].proven
<1>1. PICK c \in Charge :
        c.parses /\ Readable(c) /\ rows'[t][i] = RecordOf(c, id, proven)
  BY DEF NewRow
<1>2. /\ id \in Identity \cup {None} /\ proven \in SUBSET GatewayKey
      /\ id # None => id.tenant = t
  BY DEF NewRow, Typed, TypeOK, InFlight, Flying, Req
<1>3. /\ proven # {} => id # None /\ id.attempt # None
      /\ \A k \in proven : minted[t][k] = RunOf(id)
  BY DEF NewRow, ReadsStand, Stands
<1>4. \A k \in proven : minted'[t][k] = RunOf(id)
  BY <1>2, <1>3, RunOfTyped DEF OnlyGrows
<1> DEFINE row == RecordOf(c, id, proven)
<1>5. /\ row.identity = "token_verified" =>
           id # None /\ row.repo = id.repo /\ row.pr = id.pr /\ RunOf(row) = RunOf(id)
      /\ row.basis = "minted" =>
           row.identity = "token_verified" /\ row.credential \in proven
      /\ row.grade = "exact" => row.basis = "minted" /\ row.pr # None /\ row.sha # None
      /\ row.identity = "token_verified" \/ row.grade = "unattributed"
      /\ row.headBasis = "token" => row.sha = row.tokenSha
      /\ row.identity = "token_verified" \/ row.tokenSha = None
      /\ Valued(row)
  BY <1>1, <1>2, <1>3, RecordSound
<1> HIDE DEF row, id, proven
<1>6. RunOf(row) = RunOf(id) => row.attempt = id.attempt
  BY DEF RunOf
<1>7. rows'[t][i] = row
  BY <1>1 DEF row
<1>8. row.identity = "token_verified" =>
        \E j \in Identity : /\ j.tenant = t /\ j.repo = row.repo
                            /\ j.pr = row.pr /\ RunOf(j) = RunOf(row)
  BY <1>2, <1>5
<1>9. row.basis = "minted" =>
        /\ row.identity = "token_verified" /\ row.credential \in GatewayKey
        /\ minted'[t][row.credential] = RunOf(row) /\ row.attempt # None
  BY <1>2, <1>3, <1>4, <1>5, <1>6
<1> QED BY <1>5, <1>7, <1>8, <1>9

LEMMA NextSound ==
  ASSUME Sound, [Next]_vars
  PROVE  Sound'
<1> USE DEF Sound
<1>1. Typed' /\ ReadsStand' /\ OnlyGrows
  BY NextTyped, NextStands, NextGrows
<1>2. ExactIsProven'
  <2> SUFFICES ASSUME NEW t \in Tenant, NEW i \in RowId
               PROVE  LET row == rows'[t][i] IN
                        /\ row # None /\ row.basis = "minted" =>
                             /\ row.identity = "token_verified"
                             /\ row.credential \in GatewayKey
                             /\ minted'[t][row.credential] = RunOf(row)
                             /\ row.attempt # None
                        /\ row # None /\ row.grade = "exact" =>
                             row.basis = "minted" /\ row.pr # None /\ row.sha # None
    BY DEF ExactIsProven, RunOf
  <2>1. CASE rows'[t][i] = rows[t][i]
    <3> DEFINE row == rows[t][i]
    <3>1. CASE row = None
      BY <2>1, <3>1
    <3>2. CASE row # None
      <4>1. row.basis = "minted" =>
              /\ row.identity = "token_verified" /\ row.credential \in GatewayKey
              /\ minted[t][row.credential] = RunOf(row) /\ row.attempt # None
        BY <3>2 DEF ExactIsProven
      <4>2. row.grade = "exact" => row.basis = "minted" /\ row.pr # None /\ row.sha # None
        BY <3>2 DEF ExactIsProven
      <4>3. row.identity = "token_verified" => RunOf(row) # None
        BY <3>2, RunOfTyped DEF TokenRows
      <4>4. row.basis = "minted" => minted'[t][row.credential] = RunOf(row)
        BY <1>1, <4>1, <4>3 DEF OnlyGrows
      <4> QED BY <2>1, <4>1, <4>2, <4>4
    <3> QED BY <3>1, <3>2
  <2>2. ASSUME NEW r \in Request, NewRow(r, t, i)
        PROVE  LET row == rows'[t][i] IN
                 /\ row.basis = "minted" =>
                      /\ row.identity = "token_verified" /\ row.credential \in GatewayKey
                      /\ minted'[t][row.credential] = RunOf(row) /\ row.attempt # None
                 /\ row.grade = "exact" =>
                      row.basis = "minted" /\ row.pr # None /\ row.sha # None
    BY <1>1, <2>2, NewRowSound
  <2> QED BY <2>1, <2>2, RowsStep
<1>3. TokenRows'
  <2> SUFFICES ASSUME NEW t \in Tenant, NEW i \in RowId, rows'[t][i] # None,
                      rows'[t][i].identity = "token_verified"
               PROVE  \E id \in Identity :
                        /\ id.tenant = t /\ id.repo = rows'[t][i].repo
                        /\ id.pr = rows'[t][i].pr /\ RunOf(id) = RunOf(rows'[t][i])
    BY DEF TokenRows, RunOf
  <2>1. CASE rows'[t][i] = rows[t][i]
    BY <2>1 DEF TokenRows
  <2>2. ASSUME NEW r \in Request, NewRow(r, t, i)
        PROVE  \E id \in Identity :
                 /\ id.tenant = t /\ id.repo = rows'[t][i].repo
                 /\ id.pr = rows'[t][i].pr /\ RunOf(id) = RunOf(rows'[t][i])
    BY <1>1, <2>2, NewRowSound
  <2> QED BY <2>1, <2>2, RowsStep
<1>4. ChecksNeverRefuse'
  <2> SUFFICES ASSUME NEW t \in Tenant, NEW i \in RowId, rows'[t][i] # None
               PROVE  LET row == rows'[t][i] IN
                        /\ row.identity = "token_verified" \/ row.grade = "unattributed"
                        /\ row.headBasis = "token" => row.sha = row.tokenSha
                        /\ row.identity = "token_verified" \/ row.tokenSha = None
                        /\ row.grade = "exact" => row.basis = "minted"
                        /\ Valued(row)
    BY DEF ChecksNeverRefuse, Valued
  <2>1. CASE rows'[t][i] = rows[t][i]
    BY <2>1 DEF ChecksNeverRefuse, Valued
  <2>2. ASSUME NEW r \in Request, NewRow(r, t, i)
        PROVE  LET row == rows'[t][i] IN
                 /\ row.identity = "token_verified" \/ row.grade = "unattributed"
                 /\ row.headBasis = "token" => row.sha = row.tokenSha
                 /\ row.identity = "token_verified" \/ row.tokenSha = None
                 /\ row.grade = "exact" => row.basis = "minted"
                 /\ Valued(row)
    BY <1>1, <2>2, NewRowSound
  <2> QED BY <2>1, <2>2, RowsStep
<1> QED BY <1>1, <1>2, <1>3, <1>4

LEMMA AlwaysSound == Spec => []Sound
  BY InitSound, NextSound, PTL DEF Spec

(* A row that reads minted or exact is backed by an attestation of its own *)
(* run, although the attestation was read before the row was stored.       *)
THEOREM ExactRows == Spec => []ExactIsProven
<1>1. Sound => ExactIsProven
  BY DEF Sound
<1> QED BY <1>1, AlwaysSound, PTL

(* No row that an ingest key sent, or that merely states a pull request,   *)
(* reaches that pull request's budget.                                     *)
THEOREM BudgetRows == Spec => []BudgetRowsAreTokenProven
<1>1. Sound => BudgetRowsAreTokenProven
  BY DEF Sound, TokenRows, BudgetRowsAreTokenProven, Eligible, OfPull, budgetEligible
<1> QED BY <1>1, AlwaysSound, PTL

(* Whatever counts, instants and claims the bodies state, the CHECKs of    *)
(* focus_rows on amounts, periods, known values and the columns that go    *)
(* together accept every row the handlers build, for every price and every *)
(* reading of the clock: no batch the join accepts fails in the schema.    *)
THEOREM SchemaAccepts == Spec => []ChecksNeverRefuse
<1>1. Sound => ChecksNeverRefuse
  BY DEF Sound
<1> QED BY <1>1, AlwaysSound, PTL

(* A figure is changed only by a gateway job of the run its key is         *)
(* attested for, in the key's tenant.                                      *)
THEOREM SpendIsOwn == Spec => OwnSpendOnly
<1>1. Typed /\ [Next]_vars => [OwnRunsSpend]_spend
  <2> SUFFICES ASSUME Typed, [Next]_vars, spend' # spend
               PROVE  OwnRunsSpend
    OBVIOUS
  <2>1. PICK r \in Request : AttestSpend(r)
    BY DEF Next, Handler, vars, tables, AddKey, RevokeKey, StartRows, ReadProven, RefuseRows,
           Ingest, StartAttest, Attest, StartSpend, CheckMinted, StartView, ReadLines,
           ReadSpend, Fail, Close
  <2>2. MayAttest(req[r].id)
    BY <2>1 DEF AttestSpend, Typed, InFlight, Flying
  <2>3. minted[req[r].tenant][req[r].key] = RunOf(req[r].id)
    BY <2>1 DEF AttestSpend
  <2>4. \A t \in Tenant, k \in GatewayKey :
          spend'[t][k] # spend[t][k] => t = req[r].tenant /\ k = req[r].key
    BY <2>1 DEF AttestSpend, Typed, TypeOK
  <2> QED BY <2>2, <2>3, <2>4 DEF MayAttest, OwnRunsSpend
<1>2. Spec => []Typed
  BY InitTyped, NextTyped, PTL DEF Spec
<1> QED BY <1>1, <1>2, PTL DEF Spec, OwnSpendOnly

-----------------------------------------------------------------------------
(* What the gateway's figures say. *)

SpendAttested ==
  \A t \in Tenant, k \in GatewayKey : spend[t][k] # None => minted[t][k] # None

LEMMA NextSpendAttested ==
  ASSUME Typed, SpendAttested, [Next]_vars
  PROVE  SpendAttested'
<1>1. OnlyGrows
  BY NextGrows
<1>2. CASE UNCHANGED spend
  BY <1>1, <1>2 DEF SpendAttested, OnlyGrows
<1>3. ASSUME NEW r \in Request, AttestSpend(r)
      PROVE  SpendAttested'
  <2>1. req[r].id \in Identity
    BY <1>3 DEF AttestSpend, Typed, TypeOK, InFlight, Flying, MayAttest, Req
  <2>2. RunOf(req[r].id) # None
    BY <2>1, RunOfTyped
  <2>3. UNCHANGED minted
    BY <1>3 DEF AttestSpend
  <2>4. \A t \in Tenant, k \in GatewayKey :
          spend'[t][k] # spend[t][k] => minted[t][k] = RunOf(req[r].id)
    BY <1>3 DEF AttestSpend, Typed, TypeOK
  <2> QED BY <2>2, <2>3, <2>4 DEF SpendAttested
<1>4. UNCHANGED spend \/ \E r \in Request : AttestSpend(r)
  BY DEF Next, Handler, vars, tables, AddKey, RevokeKey, StartRows, ReadProven, RefuseRows,
         Ingest, StartAttest, Attest, StartSpend, CheckMinted, StartView, ReadLines,
         ReadSpend, Fail, Close
<1> QED BY <1>2, <1>3, <1>4

(* Two jobs that were both answered 204 for one key are of one run, and no *)
(* figure is kept for a key without an attestation.                        *)
THEOREM KeysHaveOneRun == Spec => []OneRunPerKey
<1>1. Init => Typed /\ ReadsStand /\ SpendAttested
  <2>1. Init => SpendAttested
    BY DEF Init, SpendAttested
  <2> QED BY <2>1, InitTyped, InitStands
<1>2. Typed /\ ReadsStand /\ SpendAttested /\ [Next]_vars
        => (Typed /\ ReadsStand /\ SpendAttested)'
  BY NextTyped, NextStands, NextSpendAttested
<1>3. Typed /\ ReadsStand /\ SpendAttested => OneRunPerKey
  BY DEF ReadsStand, Stands, SpendAttested, OneRunPerKey
<1> QED BY <1>1, <1>2, <1>3, PTL DEF Spec

LEMMA CoveredGrows ==
  ASSUME Typed, ExactIsProven, TokenRows, OnlyGrows, NEW t \in Tenant, NEW i \in RowId,
         Covered(t, i)
  PROVE  Covered(t, i)' /\ rows'[t][i] = rows[t][i]
<1>1. rows'[t][i] = rows[t][i]
  BY DEF Covered, budgetEligible, OnlyGrows
<1>2. minted[t][rows[t][i].credential] # None
  BY RunOfTyped DEF Covered, budgetEligible, TokenRows
<1> QED BY <1>1, <1>2 DEF Covered, budgetEligible, OnlyGrows, RunOf

(* The counted rows of a pull request are eligible rows of it, so when the *)
(* two reads see the same rows equal counts mean equal sets.               *)
LEMMA CountCovers ==
  ASSUME NEW t \in Tenant, NEW q \in Pull, NEW lines, lines = OfPull(t, q),
         Cardinality({i \in OfPull(t, q) : Covered(t, i)}) = Cardinality(Eligible(t, lines))
  PROVE  \A i \in Eligible(t, lines) : Covered(t, i)
<1> DEFINE counted == {i \in OfPull(t, q) : Covered(t, i)}
           eligible == Eligible(t, lines)
<1>1. IsFiniteSet(eligible)
  <2>1. eligible \subseteq RowId
    BY DEF Eligible, OfPull
  <2> QED BY <2>1, FS_Subset, LedgerAssumption
<1>2. counted \subseteq eligible
  BY DEF Covered, Eligible
<1>3. counted = eligible
  <2> HIDE DEF counted, eligible
  <2>1. Cardinality(counted) = Cardinality(eligible)
    BY DEF counted, eligible
  <2> QED BY <1>1, <1>2, <2>1, FS_Subset
<1> QED BY <1>3

(* What the answer of request record q claims of the gateway's figures. *)
Backed(q) ==
  /\ q.answer = "gateway_measured" /\ q.lines = OfPull(q.tenant, q.pull) =>
       \A i \in Eligible(q.tenant, q.lines) : Covered(q.tenant, i)
  /\ \A term \in q.usd : /\ term[1] \in CountedKeys(q.tenant, q.pull)
                         /\ term[2] <= spend[q.tenant][term[1]]

Evidence == Sound /\ \A r \in Request : Backed(req[r])

(* A view that was answered keeps its evidence while others commit. *)
LEMMA OthersEvidence ==
  ASSUME Evidence, OnlyGrows, Typed', NEW s \in Request, req'[s] = req[s]
  PROVE  Backed(req[s])'
<1> DEFINE q == req[s]
           t == q.tenant
<1>1. q \in Req /\ Flying(q) /\ Stands(q)
  BY DEF Evidence, Sound, Typed, TypeOK, InFlight, ReadsStand
<1>2. q.answer = "gateway_measured" \/ q.usd # {} => t \in Tenant /\ q.pull \in Pull
  BY <1>1 DEF Flying
<1>3. ASSUME q.answer = "gateway_measured", q.lines = OfPull(t, q.pull)'
      PROVE  \A i \in Eligible(t, q.lines)' : Covered(t, i)'
  <2>1. OfPull(t, q.pull) \subseteq {i \in RowId :
          rows'[t][i] # None /\ rows'[t][i].repo = q.pull.repo /\ rows'[t][i].pr = q.pull.pr}
    BY <1>2, <1>3 DEF OfPull, OnlyGrows
  <2>2. q.lines \subseteq OfPull(t, q.pull)
    BY <1>1 DEF Stands
  <2>3. q.lines = OfPull(t, q.pull)
    BY <1>3, <2>1, <2>2 DEF OfPull
  <2>4. \A i \in Eligible(t, q.lines) : Covered(t, i)
    BY <1>3, <2>3 DEF Evidence, Backed
  <2>5. \A i \in q.lines : i \in RowId /\ rows[t][i] # None
    BY <2>3 DEF OfPull
  <2>6. \A i \in q.lines : rows'[t][i] = rows[t][i]
    BY <1>2, <1>3, <2>5 DEF OnlyGrows
  <2>7. Eligible(t, q.lines)' = Eligible(t, q.lines)
    BY <2>6 DEF Eligible, budgetEligible
  <2> QED BY <1>2, <1>3, <2>4, <2>5, <2>7, CoveredGrows DEF Evidence, Sound, Eligible
<1>4. ASSUME NEW term \in q.usd
      PROVE  /\ term[1] \in CountedKeys(t, q.pull)'
             /\ term[2] <= spend'[t][term[1]]
  <2>1. t \in Tenant /\ q.pull \in Pull
    BY <1>2
  <2>2. term[1] \in CountedKeys(t, q.pull) /\ term[2] <= spend[t][term[1]]
    BY DEF Evidence, Backed
  <2>3. PICK i \in OfPull(t, q.pull) : Covered(t, i) /\ rows[t][i].credential = term[1]
    BY <2>2 DEF CountedKeys
  <2>4. i \in RowId
    BY DEF OfPull
  <2>5. Covered(t, i)' /\ rows'[t][i] = rows[t][i]
    BY <2>1, <2>3, <2>4, CoveredGrows DEF Evidence, Sound
  <2>6. i \in OfPull(t, q.pull)'
    BY <2>3, <2>5 DEF OfPull
  <2>7. term[1] \in CountedKeys(t, q.pull)'
    BY <2>3, <2>5, <2>6 DEF CountedKeys
  <2>8. term[1] \in GatewayKey /\ spend[t][term[1]] # None
    BY <2>3 DEF Covered
  <2>9. /\ spend[t][term[1]] \in Nat /\ spend'[t][term[1]] \in Nat \cup {None}
        /\ spend'[t][term[1]] # None /\ spend'[t][term[1]] >= spend[t][term[1]]
        /\ term[2] \in Nat
    BY <1>1, <2>1, <2>8 DEF OnlyGrows, Evidence, Sound, Typed, TypeOK, Req
  <2> QED BY <2>2, <2>7, <2>9
<1> QED BY <1>3, <1>4 DEF Backed

(* A request that is not answered has no answer yet. *)
Unanswered(q) == q.step # "answered" => q.answer = None /\ q.usd = {}

Waiting == \A r \in Request : Unanswered(req[r])

(* Every step but ReadSpend leaves a request with no figures and without   *)
(* the answer gateway_measured.                                            *)
LEMMA HandlerWaiting ==
  ASSUME Typed, Waiting, NEW r \in Request, Handler(r)
  PROVE  /\ Unanswered(req[r])'
         /\ ReadSpend(r) \/ (req'[r].usd = {} /\ req'[r].answer # "gateway_measured")
<1> DEFINE Quiet == req'[r].usd = {} /\ req'[r].answer # "gateway_measured"
                    /\ Unanswered(req'[r])
<1>1. req[r] \in Req /\ Unanswered(req[r])
  BY DEF Typed, TypeOK, Waiting
<1>2. None # "gateway_measured"
  BY LedgerAssumption
<1>3. \A a : Ended(a).usd = {} /\ Ended(a).answer = a /\ Ended(a).step = "answered"
  BY DEF Ended, Idle
<1>4. Idle.usd = {} /\ Idle.answer = None
  BY DEF Idle
<1>5. CASE ReadSpend(r)
  <2>1. req'[r].step = "answered"
    BY <1>1, <1>5 DEF ReadSpend, Typed, TypeOK, Req
  <2> QED BY <1>5, <2>1 DEF Unanswered
<1>6. ASSUME NEW path, StartRows(r, path)
      PROVE  Quiet
  <2>0. PICK who, read :
          req' = [req EXCEPT ![r] =
            IF path = "rows" /\ \E n \in DOMAIN read : ~read[n].parses
              THEN Ended("refused")
              ELSE [Idle EXCEPT !.step = "prove", !.tenant = who.tenant, !.id = who.id,
                                !.batch = read]]
    BY <1>6 DEF StartRows
  <2>1. req'[r] \in {Ended("refused"),
                     [Idle EXCEPT !.step = "prove", !.tenant = who.tenant, !.id = who.id,
                                  !.batch = read]}
    BY <2>0 DEF Typed, TypeOK
  <2>2. CASE req'[r] = Ended("refused")
    BY <1>3, <2>2 DEF Unanswered
  <2>3. CASE req'[r] # Ended("refused")
    <3>1. req'[r].usd = {} /\ req'[r].answer = None
      BY <2>1, <2>3 DEF Idle
    <3> QED BY <1>2, <3>1 DEF Unanswered
  <2> QED BY <2>2, <2>3
<1>7. CASE StartAttest(r)
  <2>1. CASE req'[r] = Ended("refused")
    BY <1>3, <2>1 DEF Unanswered
  <2>2. CASE req'[r] # Ended("refused")
    <3>1. req'[r].usd = {} /\ req'[r].answer = None
      BY <1>7, <2>2 DEF StartAttest, Idle, Typed, TypeOK
    <3> QED BY <1>2, <3>1 DEF Unanswered
  <2> QED BY <2>1, <2>2
<1>8. CASE StartSpend(r)
  <2>1. CASE req'[r] = Ended("refused")
    BY <1>3, <2>1 DEF Unanswered
  <2>2. CASE req'[r] # Ended("refused")
    <3>1. req'[r].usd = {} /\ req'[r].answer = None
      BY <1>8, <2>2 DEF StartSpend, Idle, Typed, TypeOK
    <3> QED BY <1>2, <3>1 DEF Unanswered
  <2> QED BY <2>1, <2>2
<1>13. CASE StartView(r)
  <2>1. CASE req'[r] = Ended("refused")
    BY <1>3, <2>1 DEF Unanswered
  <2>2. CASE req'[r] # Ended("refused")
    <3>1. req'[r].usd = {} /\ req'[r].answer = None
      BY <1>13, <2>2 DEF StartView, Idle, Typed, TypeOK
    <3> QED BY <1>2, <3>1 DEF Unanswered
  <2> QED BY <2>1, <2>2
<1>9. CASE RefuseRows(r) \/ Ingest(r) \/ Fail(r) \/ Close(r)
  <2>1. req'[r] \in {Ended("refused"), Ended("accepted"), Ended("failed"), Idle}
    BY <1>9 DEF RefuseRows, Ingest, Fail, Close, Typed, TypeOK
  <2> QED BY <1>2, <1>3, <1>4, <2>1 DEF Unanswered
<1>10. CASE ReadProven(r) \/ ReadLines(r)
  <2>1. req'[r].usd = req[r].usd /\ req'[r].answer = req[r].answer
        /\ req[r].step # "answered"
    BY <1>1, <1>10 DEF ReadProven, ReadLines, Typed, TypeOK, Req
  <2> QED BY <1>1, <1>2, <2>1 DEF Unanswered
<1>11. CASE CheckMinted(r)
  <2>1. \/ req'[r] = Ended("conflict")
        \/ /\ req'[r].usd = req[r].usd /\ req'[r].answer = req[r].answer
           /\ req[r].step # "answered"
    BY <1>1, <1>11 DEF CheckMinted, Typed, TypeOK, Req
  <2> QED BY <1>1, <1>2, <1>3, <2>1 DEF Unanswered
<1>12. CASE Attest(r) \/ AttestSpend(r)
  <2>1. PICK answer \in {"stored", "conflict", "failed"} : Attested(r, answer)
    BY <1>12 DEF Attest, AttestSpend
  <2>2. req[r].usd = {}
    BY <1>1, <1>12 DEF Attest, AttestSpend, Unanswered
  <2>3. /\ req'[r].usd = {} /\ req'[r].answer = answer /\ req'[r].step = "answered"
    BY <1>1, <1>3, <2>1, <2>2 DEF Attested, Typed, TypeOK, Req
  <2> QED BY <2>3 DEF Unanswered
<1> QED BY <1>5, <1>6, <1>7, <1>8, <1>9, <1>10, <1>11, <1>12, <1>13
        DEF Handler, Unanswered

(* The answer of a view: its two reads agree on the rows, or say nothing. *)
LEMMA ReadSpendEvidence ==
  ASSUME Evidence, NEW r \in Request, ReadSpend(r)
  PROVE  Backed(req[r])'
<1> DEFINE t == req[r].tenant
           pull == req[r].pull
           lines == req[r].lines
           counted == Cardinality({i \in OfPull(t, pull) : Covered(t, i)})
           basis == budgetOf(t, lines, counted)
<1>1. t \in Tenant /\ pull \in Pull /\ req[r] \in Req
  BY DEF ReadSpend, Evidence, Sound, Typed, TypeOK, InFlight, Flying
<1>2. /\ req'[r].answer = basis /\ req'[r].lines = lines /\ req'[r].tenant = t
      /\ req'[r].pull = pull
      /\ req'[r].usd = IF basis = "gateway_measured" THEN MeasuredUsd(t, pull) ELSE {}
  BY <1>1 DEF ReadSpend, Evidence, Sound, Typed, TypeOK, Req
<1>3. ASSUME basis = "gateway_measured"
      PROVE  counted = Cardinality(Eligible(t, lines))
  BY <1>3 DEF budgetOf
<1>4. ASSUME basis = "gateway_measured", lines = OfPull(t, pull)
      PROVE  \A i \in Eligible(t, lines) : Covered(t, i)
  BY <1>1, <1>3, <1>4, CountCovers
<1>5. \A term \in MeasuredUsd(t, pull) : /\ term[1] \in CountedKeys(t, pull)
                                         /\ term[2] = spend[t][term[1]]
  BY DEF MeasuredUsd
<1>6. \A k \in CountedKeys(t, pull) : spend[t][k] \in Nat
  BY <1>1 DEF CountedKeys, Covered, Evidence, Sound, Typed, TypeOK
<1>7. UNCHANGED tables
  BY DEF ReadSpend
<1> HIDE DEF t, pull, lines, basis
<1> QED BY <1>2, <1>4, <1>5, <1>6, <1>7
        DEF Backed, OfPull, Eligible, budgetEligible, Covered, CountedKeys, RunOf, tables

LEMMA NextEvidence ==
  ASSUME Evidence, Waiting, [Next]_vars
  PROVE  Evidence' /\ Waiting'
<1>1. Sound' /\ OnlyGrows /\ Typed /\ Typed'
  BY NextSound, NextGrows DEF Evidence, Sound
<1>2. \A s \in Request : req'[s] # req[s] => Handler(s)
  <2> SUFFICES ASSUME NEW s \in Request, req'[s] # req[s]
               PROVE  Handler(s)
    OBVIOUS
  <2>1. PICK r \in Request : Handler(r)
    BY DEF Next, AddKey, RevokeKey, vars
  <2> QED BY <1>1, <2>1, HandlerFrame
<1>3. Waiting'
  BY <1>1, <1>2, HandlerWaiting DEF Waiting, Unanswered
<1>4. \A s \in Request : Backed(req[s])'
  <2> SUFFICES ASSUME NEW s \in Request
               PROVE  Backed(req[s])'
    OBVIOUS
  <2>1. CASE req'[s] = req[s]
    BY <1>1, <2>1, OthersEvidence
  <2>2. CASE req'[s] # req[s] /\ ReadSpend(s)
    BY <2>2, ReadSpendEvidence
  <2>3. CASE req'[s] # req[s] /\ ~ReadSpend(s)
    <3>1. req'[s].usd = {} /\ req'[s].answer # "gateway_measured"
      BY <1>1, <1>2, <2>3, HandlerWaiting
    <3> QED BY <3>1 DEF Backed
  <2> QED BY <2>1, <2>2, <2>3
<1> QED BY <1>1, <1>3, <1>4 DEF Evidence

LEMMA AlwaysEvidence == Spec => []Evidence
<1>1. Init => Evidence /\ Waiting
  <2> SUFFICES ASSUME Init PROVE Evidence /\ Waiting
    OBVIOUS
  <2>1. \A r \in Request : Backed(req[r]) /\ Unanswered(req[r])
    BY LedgerAssumption DEF Init, Idle, Backed, Unanswered
  <2> QED BY <2>1, InitSound DEF Evidence, Waiting
<1>2. Evidence /\ Waiting /\ [Next]_vars => (Evidence /\ Waiting)'
  BY NextEvidence
<1> QED BY <1>1, <1>2, PTL DEF Spec

(* When no row of the pull request is stored between a view's two reads,   *)
(* the answer gateway_measured means that an attested figure covers every  *)
(* row the answer sums.                                                    *)
THEOREM QuietEvidence == Spec => []QuietEvidenceCovers
<1>1. Evidence => QuietEvidenceCovers
  BY DEF Evidence, Backed, QuietEvidenceCovers
<1> QED BY <1>1, AlwaysEvidence, PTL

(* The gateway's dollars of an answer count each key once, and never more  *)
(* than is attested for it.                                                *)
THEOREM UsdBounded == Spec => []UsdNotOverstated
<1>1. Evidence => UsdNotOverstated
  BY DEF Evidence, Backed, UsdNotOverstated
<1> QED BY <1>1, AlwaysEvidence, PTL

(* What a view says of the gateway's evidence and its dollars is sound.    *)
THEOREM ViewsAreSound == Spec => []EvidenceIsSound
<1>1. Evidence => EvidenceIsSound
  BY DEF Evidence, Backed, EvidenceIsSound, QuietEvidenceCovers, UsdNotOverstated
<1> QED BY <1>1, AlwaysEvidence, PTL
=============================================================================
