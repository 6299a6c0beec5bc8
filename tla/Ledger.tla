------------------------------- MODULE Ledger -------------------------------
(***************************************************************************)
(* The ledger service, costroid serve: the HTTP handlers of                *)
(* internal/server over the Postgres tables of internal/store.             *)
(*                                                                         *)
(* A request is a process. Each call a handler makes on the store is one   *)
(* transaction of its own (Store.inTenant), so it is one action here, and  *)
(* the transactions of other requests run between two calls of one         *)
(* handler. What a call read is kept in the request's record until the     *)
(* call that uses it. Ingest is atomic in this module: module IngestTx     *)
(* models its two attempts inside Postgres and shows that they implement   *)
(* an atomic step.                                                         *)
(***************************************************************************)
EXTENDS Integers, Sequences, FiniteSets

CONSTANTS
  Tenant,      \* the tenants
  RowId,       \* values of x_CostroidRowId
  GatewayKey,  \* SHA-256 ids of gateway keys, the form of gatewayKeyID
  IngestKey,   \* ingest keys
  KeyTenant,   \* the tenant keys create gives each ingest key to
  Request,     \* request slots of the service
  Identity,    \* the runs CI tokens can name (oidc.Identity)
  Batch,       \* the request bodies: sequences of charges
  Pull,        \* pull requests a view is asked for
  Figure,      \* USD figures of the gateway
  PerSecond,   \* instants in a second
  Clock,       \* readings of the service's clock
  Name,        \* repositories, runs, attempts, pull requests, commits, key ids
  None,        \* the empty string, NULL or nil
  Malformed    \* a stated value that misses the tag convention's pattern

Sources == {"agent_stream", "otlp", "provider_report"}
Stated == Name \cup {None, Malformed}

(* One row as a body states it, with the catalog's price of its class: 0   *)
(* for an informational one, which carries no cost. An instant of 0 is     *)
(* Go's zero time. sessionKey says the row's SubAccountId repeats its      *)
(* session id, measured that its cost basis is, priced that the catalog    *)
(* prices it and that it does not start in the future, and parses that     *)
(* parseRow or chargesOf accepts the rest of it.                           *)
Charge ==
  [row : RowId, repo : Stated, run : Stated, pr : Stated, sha : Stated,
   credential : GatewayKey \cup Name \cup {None}, sessionKey : BOOLEAN,
   weakJoin : BOOLEAN, source : Sources, start : Nat, end : Nat, tokens : Int,
   rate : Nat, measured : BOOLEAN, priced : BOOLEAN, parses : BOOLEAN]

Run == [repo : Name, run : Name, attempt : Name \cup {None}]

(* One stored row, the columns a query or a constraint reads. A cost is in *)
(* millionths of the price's unit.                                         *)
Row ==
  [repo : Name \cup {None}, pr : Name \cup {None}, run : Name \cup {None},
   attempt : Name \cup {None}, sha : Name \cup {None}, tokenSha : Name \cup {None},
   headBasis : {"token", "stated", None}, identity : {"token_verified", "unverified"},
   grade : {"exact", "windowed", "unattributed"}, basis : {"minted", "stated", None},
   credential : GatewayKey \cup Name \cup {None}, source : Sources,
   period : [from : Int, to : Int], cost : [quantity : Int, list : Int, effective : Int]]

ASSUME LedgerAssumption ==
  /\ IsFiniteSet(RowId)
  /\ KeyTenant \in [IngestKey -> Tenant]
  /\ Figure \subseteq Nat
  /\ PerSecond \in Nat \ {0} /\ Clock \subseteq Nat \ {0}
  /\ Identity \subseteq [tenant : Tenant \cup {None}, repo : Name, run : Name,
                         attempt : Name \cup {None}, pr : Name \cup {None}, commit : Name,
                         commitIsHead : BOOLEAN, gateway : BOOLEAN]
  /\ Batch \subseteq Seq(Charge)
  /\ Pull \subseteq [repo : Name, pr : Name]
  /\ None \notin Tenant \cup GatewayKey \cup Name \cup Nat \cup Identity \cup Run \cup Row
  /\ None \notin {"minted", "stated", "token", "stored", "gateway_measured"}
  /\ Malformed \notin Name \cup {None}
  /\ GatewayKey \cap Name = {}

-----------------------------------------------------------------------------
VARIABLES
  ingestKeys,  \* table ingest_keys: absent, live or revoked
  rows,        \* table focus_rows, per tenant and row id
  minted,      \* table minted_credentials: the run a key is attested for
  spend,       \* table gateway_spend: the largest figure attested for a key
  req          \* the handler of each request slot and what it has read

tables == <<rows, minted, spend>>
vars == <<ingestKeys, rows, minted, spend, req>>

(* What SameRun compares. *)
RunOf(x) == [repo |-> x.repo, run |-> x.run, attempt |-> x.attempt]

Idle == [step |-> "idle", tenant |-> None, id |-> None, batch |-> <<>>,
         proven |-> {}, key |-> None, figure |-> None, pull |-> None,
         lines |-> {}, usd |-> {}, answer |-> None]

Init ==
  /\ ingestKeys = [k \in IngestKey |-> "absent"]
  /\ rows = [t \in Tenant |-> [i \in RowId |-> None]]
  /\ minted = [t \in Tenant |-> [k \in GatewayKey |-> None]]
  /\ spend = [t \in Tenant |-> [k \in GatewayKey |-> None]]
  /\ req = [r \in Request |-> Idle]

-----------------------------------------------------------------------------
(* Ingest keys: costroid keys create and costroid keys revoke. *)

AddKey(k) ==
  /\ ingestKeys[k] = "absent"
  /\ ingestKeys' = [ingestKeys EXCEPT ![k] = "live"]
  /\ UNCHANGED <<tables, req>>

RevokeKey(k) ==
  /\ ingestKeys[k] = "live"
  /\ ingestKeys' = [ingestKeys EXCEPT ![k] = "revoked"]
  /\ UNCHANGED <<tables, req>>

(* Callers a request can prove to be, with the tenant the store resolves:  *)
(* an ingest key that is not revoked, or a CI token whose owner a tenant   *)
(* holds. A key proves no run.                                             *)
Callers ==
  {[tenant |-> KeyTenant[k], id |-> None] : k \in {j \in IngestKey : ingestKeys[j] = "live"}}
  \cup {[tenant |-> i.tenant, id |-> i] : i \in {j \in Identity : j.tenant # None}}

(* A request that was answered and keeps nothing but the answer. *)
Ended(answer) == [Idle EXCEPT !.step = "answered", !.answer = answer]

(* An attestation answered 204 keeps whose it was, for OneRunPerKey. *)
Attested(r, answer) ==
  req' = [req EXCEPT ![r] =
    IF answer = "stored"
      THEN [@ EXCEPT !.step = "answered", !.answer = answer, !.figure = None]
      ELSE Ended(answer)]

-----------------------------------------------------------------------------
(* Rows: POST /v1/rows and the OTLP paths. *)

(* sourceOf: two names belong to other paths. *)
sourceOf(stated) ==
  IF stated \in {"otlp", "provider_report"} THEN "agent_stream" ELSE stated

(* Mutant: a count is any number.                                          *)
AnyCount(c) == TRUE

readQuantity(c) == c.tokens >= 0

(* The charge a path reads out of a body: no negative count, and a row's   *)
(* period must end after it starts. Telemetry states no credential and no  *)
(* weaker join; a span without a start starts now, and does not end before *)
(* it starts.                                                              *)
ChargeOf(path, c, now) ==
  IF path = "rows"
    THEN [c EXCEPT !.source = sourceOf(c.source),
                   !.parses = c.parses /\ readQuantity(c) /\ c.end > c.start]
    ELSE LET start == IF c.start = 0 THEN now ELSE c.start
         IN [c EXCEPT !.source = "otlp", !.credential = None, !.weakJoin = FALSE,
                      !.start = start, !.end = IF c.end < start THEN start ELSE c.end,
                      !.parses = c.parses /\ readQuantity(c)]

namesCredential(c) == c.credential # None /\ ~c.sessionKey

(* handleRows and handleTelemetry up to write: authenticate and parse. One *)
(* bad row refuses the body; telemetry leaves a bad record behind.         *)
StartRows(r, path) ==
  /\ req[r].step = "idle"
  /\ \E who \in Callers, b \in Batch, now \in Clock :
       LET read == [n \in DOMAIN b |-> ChargeOf(path, b[n], now)] IN
       req' = [req EXCEPT ![r] =
         IF path = "rows" /\ \E n \in DOMAIN read : ~read[n].parses
           THEN Ended("refused")
           ELSE [Idle EXCEPT !.step = "prove", !.tenant = who.tenant, !.id = who.id,
                             !.batch = read]]
  /\ UNCHANGED <<ingestKeys, tables>>

ProvenByAnyRun(t, id, batch) ==
  {k \in GatewayKey :
     /\ id # None /\ id.pr # None
     /\ \E n \in DOMAIN batch : batch[n].parses /\ batch[n].credential = k
     /\ minted[t][k] # None}

(* provenCredentials: the keys the batch names that are attested for the   *)
(* token's run. One transaction of its own.                                *)
provenCredentials(t, id, batch) ==
  IF id = None \/ id.pr = None \/ id.attempt = None
    THEN {}
    ELSE {k \in GatewayKey :
            /\ \E n \in DOMAIN batch : /\ batch[n].parses /\ namesCredential(batch[n])
                                       /\ batch[n].credential = k
            /\ minted[t][k] = RunOf(id)}

ReadProven(r) ==
  /\ req[r].step = "prove"
  /\ req' = [req EXCEPT
       ![r].step = "ingest",
       ![r].proven = provenCredentials(req[r].tenant, req[r].id, req[r].batch)]
  /\ UNCHANGED <<ingestKeys, tables>>

basisOf(c, proven) ==
  CASE c.credential = None -> None
    [] namesCredential(c) /\ c.credential \in proven -> "minted"
    [] OTHER -> "stated"

(* headOf: a push token is the authority over the head; any other token    *)
(* leaves the sender's statement a claim.                                  *)
headOf(c, id) ==
  IF id.commitIsHead THEN [sha |-> id.commit, basis |-> "token"]
  ELSE IF c.sha = None THEN [sha |-> None, basis |-> None]
  ELSE [sha |-> c.sha, basis |-> "stated"]

(* A stated join key the token disagrees with. It refuses the batch. *)
Disagrees(c, id) ==
  \/ c.repo \notin {None, id.repo}
  \/ c.run \notin {None, id.run}
  \/ c.pr # None /\ id.pr # None /\ c.pr # id.pr
  \/ IF id.commitIsHead THEN c.sha \notin {None, id.commit} ELSE c.sha = Malformed

(* Mutant: a span inside one second is not widened.                        *)
PeriodAsStated(start, end) ==
  LET last == end \div PerSecond IN
    [from |-> start \div PerSecond, to |-> IF last * PerSecond < end THEN last + 1 ELSE last]

(* ChargePeriod widens a span to whole seconds and past its first.         *)
ChargePeriod(start, end) ==
  LET first == start \div PerSecond
      last == end \div PerSecond
  IN [from |-> first, to |-> IF last * PerSecond < end \/ last <= first THEN last + 1 ELSE last]

(* NewRow: the period, the count, and its cost at the list price.          *)
Cost(c) ==
  [quantity |-> c.tokens, list |-> c.rate * c.tokens,
   effective |-> IF c.measured THEN c.rate * c.tokens ELSE 0]

Keep(stated) == IF stated = Malformed THEN None ELSE stated

(* The row an ingest key's charge becomes: its stated keys stay claims. *)
joinUnverified(c, proven) ==
  [repo |-> Keep(c.repo), pr |-> Keep(c.pr), run |-> Keep(c.run), attempt |-> None,
   sha |-> Keep(c.sha), tokenSha |-> None,
   headBasis |-> IF Keep(c.sha) = None THEN None ELSE "stated",
   identity |-> "unverified", grade |-> "unattributed",
   basis |-> basisOf(c, proven), credential |-> c.credential, source |-> c.source,
   period |-> ChargePeriod(c.start, c.end), cost |-> Cost(c)]

JoinKeepsStatedPull(c, id, proven) ==
  [joinUnverified(c, proven) EXCEPT
     !.repo = id.repo, !.pr = IF id.pr = None THEN Keep(c.pr) ELSE id.pr,
     !.run = id.run, !.attempt = id.attempt, !.tokenSha = id.commit,
     !.identity = "token_verified", !.grade = "windowed"]

(* The row a CI token's charge becomes: every join key is the token's. *)
joinVerified(c, id, proven) ==
  LET head == headOf(c, id)
      exact == /\ id.pr # None /\ head.sha # None
               /\ basisOf(c, proven) = "minted" /\ ~c.weakJoin
  IN [repo |-> id.repo, pr |-> id.pr, run |-> id.run, attempt |-> id.attempt,
      sha |-> head.sha, tokenSha |-> id.commit, headBasis |-> head.basis,
      identity |-> "token_verified", grade |-> IF exact THEN "exact" ELSE "windowed",
      basis |-> basisOf(c, proven), credential |-> c.credential, source |-> c.source,
      period |-> ChargePeriod(c.start, c.end), cost |-> Cost(c)]

RecordOf(c, id, proven) ==
  IF id = None THEN joinUnverified(c, proven) ELSE joinVerified(c, id, proven)

(* A charge left behind at the edge refuses nothing. *)
Refused(c, id) == c.parses /\ (~c.priced \/ (id # None /\ Disagrees(c, id)))

StoredOverwrites(table, batch, id, proven) ==
  [i \in RowId |->
     LET places == {n \in DOMAIN batch : batch[n].row = i /\ batch[n].parses}
     IN IF places = {} THEN table[i]
        ELSE RecordOf(batch[CHOOSE n \in places : TRUE], id, proven)]

(* Store.Ingest: a stored row is a duplicate and changes nothing, and of   *)
(* two charges of one batch with one id the first is stored.               *)
Stored(table, batch, id, proven) ==
  [i \in RowId |->
     LET places == {n \in DOMAIN batch : batch[n].row = i /\ batch[n].parses}
         first == CHOOSE n \in places : \A m \in places : n <= m
     IN IF table[i] # None \/ places = {} THEN table[i]
        ELSE RecordOf(batch[first], id, proven)]

(* write, from the join on: refuse the batch, or store it whole. The       *)
(* answer is lost when the connection drops after the commit.              *)
RefuseRows(r) ==
  /\ req[r].step = "ingest"
  /\ \E n \in DOMAIN req[r].batch : Refused(req[r].batch[n], req[r].id)
  /\ req' = [req EXCEPT ![r] = Ended("refused")]
  /\ UNCHANGED <<ingestKeys, tables>>

Ingest(r) ==
  /\ req[r].step = "ingest"
  /\ \A n \in DOMAIN req[r].batch : ~Refused(req[r].batch[n], req[r].id)
  /\ rows' = [rows EXCEPT ![req[r].tenant] =
                Stored(@, req[r].batch, req[r].id, req[r].proven)]
  /\ \E answer \in {"accepted", "failed"} : req' = [req EXCEPT ![r] = Ended(answer)]
  /\ UNCHANGED <<ingestKeys, minted, spend>>

-----------------------------------------------------------------------------
(* Attestations: POST /v1/credentials. *)

MayAttestAnywhere(id) == id # None /\ id.attempt # None

(* readAttestation: a CI token of a job in the gateway's environment that  *)
(* names an attempt. The run stated must be the token's, so the request    *)
(* carries the token's.                                                    *)
MayAttest(id) == id # None /\ id.gateway /\ id.attempt # None

StartAttest(r) ==
  /\ req[r].step = "idle"
  /\ \E who \in Callers, k \in GatewayKey :
       req' = [req EXCEPT ![r] =
         IF MayAttest(who.id)
           THEN [Idle EXCEPT !.step = "attest", !.tenant = who.tenant,
                             !.id = who.id, !.key = k]
           ELSE Ended("refused")]
  /\ UNCHANGED <<ingestKeys, tables>>

AttestReplaces(r) ==
  /\ req[r].step = "attest"
  /\ minted' = [minted EXCEPT ![req[r].tenant][req[r].key] = RunOf(req[r].id)]
  /\ Attested(r, "stored")
  /\ UNCHANGED <<ingestKeys, rows, spend>>

(* Store.Attest: insert, or compare with the attestation stored. *)
Attest(r) ==
  LET t == req[r].tenant
      k == req[r].key
      run == RunOf(req[r].id)
  IN /\ req[r].step = "attest"
     /\ minted' = IF minted[t][k] = None THEN [minted EXCEPT ![t][k] = run] ELSE minted
     /\ \E answer \in {IF minted[t][k] \in {None, run} THEN "stored" ELSE "conflict", "failed"} :
          Attested(r, answer)
     /\ UNCHANGED <<ingestKeys, rows, spend>>

-----------------------------------------------------------------------------
(* The gateway's count: POST /v1/credentials/{key}/spend. *)

StartSpend(r) ==
  /\ req[r].step = "idle"
  /\ \E who \in Callers, k \in GatewayKey, usd \in Figure :
       req' = [req EXCEPT ![r] =
         IF MayAttest(who.id)
           THEN [Idle EXCEPT !.step = "checkMinted", !.tenant = who.tenant,
                             !.id = who.id, !.key = k, !.figure = usd]
           ELSE Ended("refused")]
  /\ UNCHANGED <<ingestKeys, tables>>

(* handleSpend's own read of the attestation, before AttestSpend. *)
CheckMinted(r) ==
  /\ req[r].step = "checkMinted"
  /\ IF minted[req[r].tenant][req[r].key] = RunOf(req[r].id)
       THEN req' = [req EXCEPT ![r].step = "keepSpend"]
       ELSE req' = [req EXCEPT ![r] = Ended("conflict")]
  /\ UNCHANGED <<ingestKeys, tables>>

(* Store.AttestSpend: reads the attestation again, then keepSpend. *)
AttestSpend(r) ==
  LET t == req[r].tenant
      k == req[r].key
      usd == req[r].figure
      run == minted[t][k] = RunOf(req[r].id)
      grows == spend[t][k] = None \/ usd > spend[t][k]
  IN /\ req[r].step = "keepSpend"
     /\ spend' = IF run /\ grows THEN [spend EXCEPT ![t][k] = usd] ELSE spend
     /\ \E answer \in {IF run THEN "stored" ELSE "conflict", "failed"} : Attested(r, answer)
     /\ UNCHANGED <<ingestKeys, rows, minted>>

-----------------------------------------------------------------------------
(* The per-PR view and the verdict: two reads, each its own transaction. *)

budgetEligible(row) ==
  row # None /\ row.identity = "token_verified" /\ row.grade # "unattributed"

OfPull(t, q) == {i \in RowId : rows[t][i] # None /\ rows[t][i].repo = q.repo
                                                 /\ rows[t][i].pr = q.pr}

Eligible(t, S) == {i \in S : budgetEligible(rows[t][i])}

(* pullRequestSpend's counted rows: eligible, minted, of a key attested    *)
(* for the row's own run, with a figure attested.                          *)
Covered(t, i) ==
  LET row == rows[t][i] IN
    /\ budgetEligible(row)
    /\ row.basis = "minted"
    /\ row.credential \in GatewayKey
    /\ minted[t][row.credential] = RunOf(row)
    /\ spend[t][row.credential] # None

CountedKeys(t, q) == {rows[t][i].credential : i \in {j \in OfPull(t, q) : Covered(t, j)}}

(* The terms of pullRequestSpend's sum: each key once. *)
MeasuredUsd(t, q) == {<<k, spend[t][k]>> : k \in CountedKeys(t, q)}

StartView(r) ==
  /\ req[r].step = "idle"
  /\ \E who \in Callers, q \in Pull :
       req' = [req EXCEPT ![r] =
         IF who.id # None /\ who.id.repo # q.repo
           THEN Ended("refused")
           ELSE [Idle EXCEPT !.step = "readLines", !.tenant = who.tenant, !.pull = q]]
  /\ UNCHANGED <<ingestKeys, tables>>

(* Store.PullRequest. *)
ReadLines(r) ==
  /\ req[r].step = "readLines"
  /\ req' = [req EXCEPT ![r].step = "readSpend",
                        ![r].lines = OfPull(req[r].tenant, req[r].pull)]
  /\ UNCHANGED <<ingestKeys, tables>>

BudgetOfSome(t, lines, counted) ==
  IF Eligible(t, lines) = {} THEN "none"
  ELSE IF counted > 0 THEN "gateway_measured" ELSE "agent_counts"

(* budgetOf. Every row is in USD, the currency focus.NewRow writes. *)
budgetOf(t, lines, counted) ==
  LET eligible == Eligible(t, lines) IN
    CASE eligible = {} -> "none"
      [] eligible # {} /\ \A i \in eligible : rows[t][i].source = "provider_report" -> "reconciled"
      [] OTHER -> IF counted = Cardinality(eligible) THEN "gateway_measured"
                                                     ELSE "agent_counts"

(* Store.GatewaySpend, then the answer from both reads. *)
ReadSpend(r) ==
  LET t == req[r].tenant
      q == req[r].pull
      counted == Cardinality({i \in OfPull(t, q) : Covered(t, i)})
      basis == budgetOf(t, req[r].lines, counted)
  IN /\ req[r].step = "readSpend"
     /\ req' = [req EXCEPT ![r].step = "answered", ![r].answer = basis,
                           ![r].usd = IF basis = "gateway_measured"
                                        THEN MeasuredUsd(t, q) ELSE {}]
     /\ UNCHANGED <<ingestKeys, tables>>

-----------------------------------------------------------------------------
(* A store call that fails before it commits answers INTERNAL. *)
Fail(r) ==
  /\ req[r].step \notin {"idle", "answered"}
  /\ req' = [req EXCEPT ![r] = Ended("failed")]
  /\ UNCHANGED <<ingestKeys, tables>>

Close(r) ==
  /\ req[r].step = "answered"
  /\ req' = [req EXCEPT ![r] = Idle]
  /\ UNCHANGED <<ingestKeys, tables>>

Handler(r) ==
  \/ StartRows(r, "rows") \/ StartRows(r, "telemetry")
  \/ ReadProven(r) \/ RefuseRows(r) \/ Ingest(r)
  \/ StartAttest(r) \/ Attest(r)
  \/ StartSpend(r) \/ CheckMinted(r) \/ AttestSpend(r)
  \/ StartView(r) \/ ReadLines(r) \/ ReadSpend(r)
  \/ Fail(r) \/ Close(r)

Next ==
  \/ \E k \in IngestKey : AddKey(k) \/ RevokeKey(k)
  \/ \E r \in Request : Handler(r)

Spec == Init /\ [][Next]_vars

-----------------------------------------------------------------------------
Steps == {"idle", "prove", "ingest", "attest", "checkMinted", "keepSpend",
          "readLines", "readSpend", "answered"}

Answers == {"accepted", "refused", "failed", "stored", "conflict", "none",
            "agent_counts", "gateway_measured", "reconciled", None}

Req == [step : Steps, tenant : Tenant \cup {None}, id : Identity \cup {None},
        batch : Seq(Charge), proven : SUBSET GatewayKey, key : GatewayKey \cup {None},
        figure : Nat \cup {None}, pull : Pull \cup {None}, lines : SUBSET RowId,
        usd : SUBSET (GatewayKey \X Nat), answer : Answers]

(* The tables and the handlers' local state are well formed: in particular *)
(* no malformed statement of a sender is ever stored in a join column, and *)
(* gateway_usd sums numbers (joinUnverified, readSpend).                   *)
TypeOK ==
  /\ ingestKeys \in [IngestKey -> {"absent", "live", "revoked"}]
  /\ rows \in [Tenant -> [RowId -> Row \cup {None}]]
  /\ minted \in [Tenant -> [GatewayKey -> Run \cup {None}]]
  /\ spend \in [Tenant -> [GatewayKey -> Nat \cup {None}]]
  /\ req \in [Request -> Req]

(* What request record q read in earlier transactions is still so. *)
Stands(q) ==
  /\ q.step = "ingest" /\ q.proven # {} =>
       q.id # None /\ q.id.pr # None /\ q.id.attempt # None
  /\ q.step = "ingest" => \A k \in q.proven : minted[q.tenant][k] = RunOf(q.id)
  /\ q.step = "keepSpend" \/ q.answer = "stored" => minted[q.tenant][q.key] = RunOf(q.id)
  /\ q.lines # {} => q.lines \subseteq OfPull(q.tenant, q.pull)

(* What a handler read in one transaction still holds when a later one     *)
(* uses it, whatever ran between: the keys provenCredentials proved are    *)
(* still attested for the caller's run when the rows are stored, the key   *)
(* handleSpend checked is when its figure is kept, a 204 stays true, and   *)
(* the lines of a view are still stored.                                   *)
ReadsStand == \A r \in Request : Stands(req[r])

(* A stored row that reads minted names a key that is attested for the     *)
(* row's own repository, run and attempt, although the attestation was     *)
(* read in an earlier transaction than the one that stored the row; and a  *)
(* row reads exact only then, under a token that names a pull request, on  *)
(* a row with a head (join, provenCredentials, Store.Attest).              *)
ExactIsProven ==
  \A t \in Tenant, i \in RowId :
    LET row == rows[t][i] IN
      /\ row # None /\ row.basis = "minted" =>
           /\ row.identity = "token_verified"
           /\ row.credential \in GatewayKey
           /\ minted[t][row.credential] = RunOf(row)
           /\ row.attempt # None
      /\ row # None /\ row.grade = "exact" =>
           row.basis = "minted" /\ row.pr # None /\ row.sha # None

(* A row the budget of a pull request counts was stored under a CI token   *)
(* of the row's tenant that itself names that repository and pull request: *)
(* neither an ingest key nor a stated pull request reaches a budget (join, *)
(* joinUnverified, budget_eligible).                                       *)
BudgetRowsAreTokenProven ==
  \A t \in Tenant, q \in Pull : \A i \in Eligible(t, OfPull(t, q)) :
    \E id \in Identity : /\ id.tenant = t /\ id.repo = q.repo /\ id.pr = q.pr
                         /\ RunOf(id) = RunOf(rows[t][i])

(* Every CHECK of focus_rows in migrations 0001, 0002 and 0006 that is not *)
(* about the pattern or the length of a text holds of the rows that the    *)
(* handlers build, and so does Row.Check's refusal of a negative amount:   *)
(* whatever counts, instants and claims a body states, no batch that the   *)
(* join accepts fails in the schema (ChargePeriod, NewRow, join, price).   *)
ChecksNeverRefuse ==
  \A t \in Tenant, i \in RowId :
    LET row == rows[t][i] IN
      row # None =>
        /\ row.cost.quantity >= 0 /\ row.cost.list >= 0 /\ row.cost.effective >= 0
        /\ row.period.to > row.period.from
        /\ row.grade \in {"exact", "windowed", "unattributed"}
        /\ row.identity \in {"token_verified", "unverified"}
        /\ row.identity = "token_verified" \/ row.grade = "unattributed"
        /\ row.headBasis \in {"token", "stated", None}
        /\ row.headBasis = "token" => row.sha = row.tokenSha
        /\ row.identity = "token_verified" \/ row.tokenSha = None
        /\ row.basis \in {"minted", "stated", None}
        /\ row.grade = "exact" => row.basis = "minted"

(* The key of every stored figure is attested, so the foreign key of       *)
(* gateway_spend never refuses, and two jobs that were both answered 204   *)
(* for one key, mint or close, ran in one run (Store.Attest,               *)
(* Store.AttestSpend).                                                     *)
OneRunPerKey ==
  /\ \A t \in Tenant, k \in GatewayKey : spend[t][k] # None => minted[t][k] # None
  /\ \A r, s \in Request :
       /\ req[r].answer = "stored" /\ req[s].answer = "stored"
       /\ req[r].key = req[s].key /\ req[r].tenant = req[s].tenant
       => RunOf(req[r].id) = RunOf(req[s].id)

(* When no row of the pull request was stored between a view's two reads,  *)
(* gateway_measured means what docs/serve.md says: every eligible row the  *)
(* answer sums has a key minted for its run and a figure attested for that *)
(* key (budgetOf, pullRequestSpend).                                       *)
QuietEvidenceCovers ==
  \A r \in Request :
    LET t == req[r].tenant IN
      req[r].answer = "gateway_measured" /\ req[r].lines = OfPull(t, req[r].pull)
        => \A i \in Eligible(t, req[r].lines) : Covered(t, i)

(* gateway_usd is never more than the figures attested for the keys of the *)
(* pull request's rows, each key once: a figure attested after the answer  *)
(* only adds (pullRequestSpend, keepSpend).                                *)
UsdNotOverstated ==
  \A r \in Request : \A term \in req[r].usd :
    /\ term[1] \in CountedKeys(req[r].tenant, req[r].pull)
    /\ term[2] <= spend[req[r].tenant][term[1]]

(* What a view states of the gateway is sound when its reads agree: the    *)
(* grade covers every eligible row, and the dollars are attested.          *)
EvidenceIsSound == QuietEvidenceCovers /\ UsdNotOverstated

(* docs/serve.md: gateway_measured when "the gateway's attested count      *)
(* covers every eligible row". The code compares a count of one read with  *)
(* a count of another, so a row stored between the reads can stand in for  *)
(* one that nothing covers.                                                *)
EvidenceCovers ==
  \A r \in Request :
    req[r].answer = "gateway_measured" =>
      \A i \in Eligible(req[r].tenant, req[r].lines) : Covered(req[r].tenant, i)

OnlyGrows ==
  /\ \A t \in Tenant, i \in RowId : rows[t][i] # None => rows'[t][i] = rows[t][i]
  /\ \A t \in Tenant, k \in GatewayKey :
       /\ minted[t][k] # None => minted'[t][k] = minted[t][k]
       /\ spend[t][k] # None => spend'[t][k] # None /\ spend'[t][k] >= spend[t][k]

(* What the service stores it never changes: the first row under an id and *)
(* the first attestation of a key stand, and a key's figure only grows.    *)
StoredStands == [][OnlyGrows]_tables

OwnRunsSpend ==
  \A t \in Tenant, k \in GatewayKey :
    spend'[t][k] # spend[t][k] =>
      \E r \in Request : /\ req[r].tenant = t /\ req[r].id # None /\ req[r].id.gateway
                         /\ minted[t][k] = RunOf(req[r].id)

(* A key's figure changes only by a request of a job in the gateway's      *)
(* environment, of the key's tenant and of the run it is attested for: "a  *)
(* sender cannot state spend for a key it did not mint" (handleSpend).     *)
OwnSpendOnly == [][OwnRunsSpend]_spend
=============================================================================
