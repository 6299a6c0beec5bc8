----------------------------- MODULE Reconcile ------------------------------
(***************************************************************************)
(* costroid reconcile: the rows of a ledger file against a provider's own  *)
(* usage and cost reports, per credential per UTC day.                     *)
(*                                                                         *)
(* A pass reads the ledger, walks the report page by page while the        *)
(* provider goes on counting, compares, and replaces the stored rows in    *)
(* one rename. Two providers: one stamps each page with how far its        *)
(* figures reach, the other says nothing and is complete after a lag.      *)
(* Time counts whole days; a pass at time t runs at the start of day t.    *)
(***************************************************************************)
EXTENDS Integers, Sequences, FiniteSets, FiniteSetsExt, SequencesExt

CONSTANTS
  Requests,   \* the model requests that may be sent
  Ranges,     \* the ranges of days reconciled, all of one month that starts on day 0
  MonthEnd, RerunDays,     \* the day after the month, and how long figures move after it
  MaxSpan,    \* anthropicMaxSpan: days of one window
  Lag,        \* openAILag, in days
  Sheet,      \* the catalog: list price by tier
  Fallback,   \* the catalog's price of a tier it does not name
  Residency,  \* the catalog's multiplier by region
  Scopes,     \* credentials whose id carries the scope prefix
  MaxReconcileDay      \* bound on the clock

(* A range is an interval of the month's days. A request's key carries no  *)
(* scope prefix, and its scope does or is empty.                           *)
ASSUME ReconcileAssumption ==
  /\ \A days \in Ranges : \E a, b \in 0 .. MonthEnd - 1 : a <= b /\ days = a .. b
  /\ \A r \in Requests : r.day \in Nat /\ r.key \notin Scopes /\ r.scope \in Scopes \cup {""}
  /\ {MonthEnd, RerunDays, Lag} \subseteq Nat /\ MaxSpan \in Nat \ {0}

VARIABLES
  source,     \* "anthropic" or "openai"
  now,        \* the day
  sent,       \* requests sent so far
  reported,   \* requests the provider's reports hold
  restated,   \* requests whose figure the provider has corrected
  refreshed,  \* data_refreshed_at: every request before this day is in; 0 for null
  pass,       \* the running pass
  stored      \* the rows file: a row per key, and what the row was compared on

reconcileVars == <<source, now, sent, reported, restated, refreshed, pass, stored>>

Classes == {"input", "write5m", "write1h", "write"}
Idle == [step |-> "idle"]

-----------------------------------------------------------------------------
(* ReadLedger: the token rows of the range, each id once.                  *)

inScope(r, days) == r.row # "none" /\ r.day \in days

ReadLedger(days) == {r \in sent : inScope(r, days)}

(* add, group: the rows of one credential and day.                         *)
groupOf(rows, key) == {r \in rows : r.credential = key.credential /\ r.day = key.day}

Credentials(rows) == {r.credential : r \in rows}

-----------------------------------------------------------------------------
(* Fetch: the pages of a report.                                           *)

(* Each credential needs a report grouped by its own dimension.            *)
grainOf(credential) == IF credential \in Scopes THEN "scope" ELSE "key"

(* The range in windows of at most limit days, first to last.              *)
windows(days, limit) ==
  [i \in 1 .. ((Cardinality(days) - 1) \div limit) + 1 |->
     {d \in days : (d - Min(days)) \div limit = i - 1}]

pagesOf(kind, grain, span) ==
  [i \in 1 .. Cardinality(span) |->
     [kind |-> kind, grain |-> grain, span |-> span, day |-> Min(span) + i - 1]]

(* Usage, then cost: window by window, or over the whole range at once.    *)
anthropicFetch(days, grain) ==
  LET spans == windows(days, MaxSpan) IN
  FlattenSeq([i \in DOMAIN spans |->
                pagesOf("usage", grain, spans[i]) \o pagesOf("cost", grain, spans[i])])

openAIFetch(days, grain) == pagesOf("usage", grain, days) \o pagesOf("cost", grain, days)

(* One report for each grain the credentials need.                         *)
Fetch(days, credentials) ==
  LET grains == SetToSeq({grainOf(c) : c \in credentials}) IN
  FlattenSeq([i \in DOMAIN grains |->
                IF source = "anthropic" THEN anthropicFetch(days, grains[i]) ELSE openAIFetch(days, grains[i])])

named(grain, r) == IF grain = "scope" THEN r.scope ELSE r.key

(* The provider's figure for a request now.                                *)
figure(r) == IF r \in restated THEN r.tokens ELSE r.first

(* Mutant: the last page's stamp decides for its window.                   *)
StampLatest(unsettled, page) ==
  IF source # "anthropic" THEN unsettled
  ELSE (unsettled \ page.span) \cup {d \in page.span : d + 1 > refreshed}

(* stamp: a page refreshed before a day's end leaves the day unsettled,    *)
(* whatever a later page says.                                             *)
stamp(unsettled, page) ==
  IF source # "anthropic" THEN unsettled
  ELSE unsettled \cup {d \in page.span : d + 1 > refreshed}

(* A line of usage. OpenAI reports no region.                              *)
anthropicUsage(c, r) == [credential |-> c, request |-> r, tokens |-> figure(r), region |-> r.region]
openAIUsage(c, r) == [credential |-> c, request |-> r, tokens |-> figure(r), region |-> "global"]

(* A line of cost. Anthropic tells a tool's charge apart and may state the *)
(* list figure; every OpenAI line reads as a token line without one.       *)
anthropicCost(c, r) == [credential |-> c, request |-> r, token |-> ~r.tool, stated |-> r.stated]
openAICost(c, r) == [credential |-> c, request |-> r, token |-> TRUE, stated |-> FALSE]

line(kind, c, r) ==
  CASE kind = "usage" -> IF source = "anthropic" THEN anthropicUsage(c, r) ELSE openAIUsage(c, r)
    [] kind = "cost" -> IF source = "anthropic" THEN anthropicCost(c, r) ELSE openAICost(c, r)

(* addUsage, addCost: the page's lines that name a credential. A tool's    *)
(* charge is a cost with no tokens.                                        *)
lines(page) ==
  {line(page.kind, named(page.grain, r), r) :
     r \in {r \in reported : /\ r.day = page.day /\ named(page.grain, r) # ""
                             /\ r.tool => page.kind = "cost"}}

-----------------------------------------------------------------------------
(* The comparison.                                                         *)

Abs(n) == IF n < 0 THEN -n ELSE n

within(ledger, provider, percent) == Abs(provider - ledger) * 100 <= provider * percent

Total(S, f(_)) == MapThenSumSet(f, S)

joined(class, join) == IF join /\ class \in {"write5m", "write1h"} THEN "write" ELSE class

(* compareTokens: each class either side holds, cache writes as one where  *)
(* the ledger cannot see their lifetime.                                   *)
compareTokens(mine, theirs) ==
  LET join == source = "openai" \/ \E r \in mine : r.assumed
      ledger(c) == Total({r \in mine : joined(r.rowClass, join) = c}, LAMBDA r : r.tokens)
      provider(c) == Total({u \in theirs : joined(u.request.class, join) = c}, LAMBDA u : u.tokens)
  IN {[class |-> c, delta |-> provider(c) - ledger(c), within |-> within(ledger(c), provider(c), 1)] :
        c \in {c \in Classes : ledger(c) # 0 \/ provider(c) # 0}}

unitPrice(tier, region) ==
  LET price == IF tier \in DOMAIN Sheet THEN Sheet[tier] ELSE Fallback
  IN IF tier \in DOMAIN Sheet /\ region \in DOMAIN Residency THEN price * Residency[region] ELSE price

(* servedPrices: a tier the sheet does not name keeps the standard price.  *)
tiered(tier) ==
  IF source = "anthropic" /\ tier = "priority" THEN 0
  ELSE IF tier \in DOMAIN Sheet THEN Sheet[tier]
  ELSE Sheet["standard"]

served(tier, region) ==
  tiered(tier) * (IF tier \in DOMAIN Sheet /\ region \in DOMAIN Residency THEN Residency[region] ELSE 1)

(* walker.price: one set of tokens at three bases.                         *)
price(lots) ==
  [standard |-> Total(lots, LAMBDA x : x.tokens * Sheet["standard"]),
   tiered |-> Total(lots, LAMBDA x : x.tokens * tiered(x.tier)),
   served |-> Total(lots, LAMBDA x : x.tokens * served(x.tier, x.region))]

(* costOf: what the report bills for tokens, and its list figure when      *)
(* every line states one.                                                  *)
costOf(costs) ==
  LET tokens == {u \in costs : u.token} IN
  [amount |-> Total(tokens, LAMBDA u : u.request.bill - u.request.discount),
   other |-> Total(costs \ tokens, LAMBDA u : u.request.bill),
   list |-> Total(tokens, LAMBDA u : u.request.bill),
   stated |-> tokens # {} /\ \A u \in tokens : u.stated]

WithinRounding(rows, variance) == Abs(variance) <= 100 \/ 4 * variance * variance <= rows

(* dollars: the residual, walked from the ledger's list cost to the bill.  *)
dollars(mine, theirs, costs, tokens) ==
  LET measured == {r \in mine : r.row = "measured"}
      cost == costOf(costs)
      list == Total(measured, LAMBDA r : r.tokens * unitPrice(r.rowTier, r.region))
      ours == price({[of |-> r, tokens |-> r.tokens, tier |-> r.rowTier, region |-> r.region] : r \in measured})
      their == price({[of |-> u, tokens |-> u.tokens, tier |-> u.request.tier, region |-> u.region] : u \in theirs})
      tier == (their.tiered - their.standard) - (ours.tiered - ours.standard)
      residency == (their.served - their.tiered) - (ours.served - ours.tiered)
      high == \E t \in tokens : ~t.within /\ t.delta > 0
      shared == IF high THEN their.standard - ours.standard ELSE 0
      contract == IF cost.stated THEN cost.amount - cost.list ELSE 0
  IN IF mine # {} /\ measured = {}
     THEN [verdict |-> "no_bill", unattributed |-> 0, rounding |-> TRUE]
     ELSE [verdict |-> IF within(list, cost.amount, 10) THEN "within" ELSE "outside",
           unattributed |-> cost.amount - list - tier - residency - shared - contract,
           rounding |-> cost.stated => WithinRounding(Cardinality(measured), cost.list - list)]

settled(p, day) ==
  p.at >= day + 1 + (IF source = "openai" THEN Lag ELSE 0) /\ day \notin p.unsettled

isFinal(p) == p.at >= MonthEnd + RerunDays

usageOf(S, key) == {u \in S : u.credential = key.credential /\ u.request.day = key.day}

(* row: a pending day carries no figure. seen says what it was compared on.*)
Row(p, key) ==
  LET mine == groupOf(p.ledger, key)
      theirs == usageOf(p.usage, key)
      costs == usageOf(p.costs, key)
      tokens == compareTokens(mine, theirs)
  IN IF ~settled(p, key.day) THEN [state |-> "pending", final |-> isFinal(p)]
     ELSE [state |-> IF \A t \in tokens : t.within THEN "matched" ELSE "tokens_miss",
           final |-> isFinal(p), tokens |-> tokens,
           dollars |-> dollars(mine, theirs, costs, tokens),
           seen |-> {r \in {u.request : u \in costs} : r.tool \/ r \in {u.request : u \in theirs}}]

(* keys: every named credential and day with data on either side.          *)
keysOf(p) ==
  {[credential |-> r.credential, day |-> r.day] : r \in p.ledger}
  \cup {[credential |-> u.credential, day |-> u.request.day] :
          u \in {u \in p.usage \cup p.costs : u.credential \in Credentials(p.ledger)}}

(* Mutant: the file is written anew from the pass.                         *)
Overwrite(old, p) == [key \in keysOf(p) |-> Row(p, key)]

(* Merge: each fresh row in its key's place, every other row as it was.    *)
Merge(old, p) ==
  [key \in DOMAIN old \cup keysOf(p) |-> IF key \in keysOf(p) THEN Row(p, key) ELSE old[key]]

-----------------------------------------------------------------------------
ReconcileInit ==
  /\ source \in {"anthropic", "openai"}
  /\ now = 0 /\ sent = {} /\ reported = {} /\ restated = {} /\ refreshed = 0
  /\ pass = Idle /\ stored = [key \in {} |-> 0]

(* A request goes out on its day; a run's row is in the ledger with it.    *)
Send(r) ==
  /\ r \notin sent /\ r.day = now /\ sent' = sent \cup {r}
  /\ UNCHANGED <<source, now, reported, restated, refreshed, pass, stored>>

(* The provider counts a request whenever it likes, but before the time it *)
(* promises.                                                               *)
Report(r) ==
  /\ r \in sent \ reported /\ reported' = reported \cup {r}
  /\ UNCHANGED <<source, now, sent, restated, refreshed, pass, stored>>

Refresh ==
  /\ source = "anthropic" /\ refreshed < now
  /\ {r \in sent : r.day < now} \subseteq reported
  /\ refreshed' = now
  /\ UNCHANGED <<source, now, sent, reported, restated, pass, stored>>

(* Figures are corrected until restating stops.                            *)
Restate(r) ==
  /\ r \in reported \ restated /\ r.first # r.tokens
  /\ restated' = restated \cup {r}
  /\ UNCHANGED <<source, now, sent, reported, refreshed, pass, stored>>

Tick ==
  /\ now < MaxReconcileDay
  /\ source = "openai" => \A r \in sent \ reported : now + 1 < r.day + 1 + Lag
  /\ now + 1 = MonthEnd + RerunDays => \A r \in sent : r.first # r.tokens => r \in restated
  /\ now' = now + 1
  /\ UNCHANGED <<source, sent, reported, restated, refreshed, pass, stored>>

(* reconcileRows: the ledger and the time are read before the reports. A   *)
(* row with no credential refuses the pass.                                *)
Start(days) ==
  LET rows == ReadLedger(days) IN
  /\ pass = Idle /\ rows # {} /\ "" \notin Credentials(rows)
  /\ pass' = [step |-> "fetch", at |-> now, ledger |-> rows, pages |-> Fetch(days, Credentials(rows)),
              usage |-> {}, costs |-> {}, unsettled |-> {}]
  /\ UNCHANGED <<source, now, sent, reported, restated, refreshed, stored>>

FetchPage ==
  /\ pass.step = "fetch" /\ pass.pages # <<>>
  /\ LET page == Head(pass.pages) IN
     pass' = [pass EXCEPT !.pages = Tail(@), !.unsettled = stamp(@, page),
                          !.usage = IF page.kind = "usage" THEN @ \cup lines(page) ELSE @,
                          !.costs = IF page.kind = "cost" THEN @ \cup lines(page) ELSE @]
  /\ UNCHANGED <<source, now, sent, reported, restated, refreshed, stored>>

(* A page that fails, or a crash, ends the pass with the rows as they were.*)
Fail ==
  /\ pass # Idle /\ pass' = Idle
  /\ UNCHANGED <<source, now, sent, reported, restated, refreshed, stored>>

(* storeRows: the merged rows replace the file in one rename.              *)
storeRows ==
  /\ pass.step = "fetch" /\ pass.pages = <<>>
  /\ stored' = Merge(stored, pass) /\ pass' = Idle
  /\ UNCHANGED <<source, now, sent, reported, restated, refreshed>>

ReconcileNext ==
  \/ \E r \in Requests : Send(r) \/ Report(r) \/ Restate(r)
  \/ \E days \in Ranges : Start(days)
  \/ Refresh \/ Tick \/ FetchPage \/ Fail \/ storeRows

ReconcileSpec == ReconcileInit /\ [][ReconcileNext]_reconcileVars

-----------------------------------------------------------------------------
(* Properties.                                                             *)

Made(key) == {r \in sent : r.day = key.day /\ key.credential \in {r.key, r.scope}}

(* Every price the walk meets is on the sheet, and the provider says where *)
(* it served the request.                                                  *)
Listed(r) ==
  /\ r.first = r.tokens /\ {r.tier, r.rowTier} \subseteq DOMAIN Sheet
  /\ source = "openai" => r.region \notin DOMAIN Residency

(* A day is judged only on a complete report, whatever the provider counts *)
(* between two pages: every request made on the credential that day is in  *)
(* the usage and in the cost compared. So a day whose every request is in  *)
(* the ledger is no defect, one with a request the ledger never saw is,    *)
(* and the residual is attributed down to the discounts the report does    *)
(* not state and the tool charges it does not tell apart (settled, stamp,  *)
(* compareTokens, dollars).                                                *)
RowsAreTrue ==
  \A key \in DOMAIN stored :
    LET row == stored[key]
        requests == {r \in Made(key) : ~r.tool}
        listed == \A r \in requests : Listed(r)
        kept == \A r \in requests : r.row # "none" /\ r.credential = key.credential
        unstated == source = "openai" \/ \E r \in requests : ~r.stated
        tools == IF source = "openai" THEN Made(key) \ requests ELSE {}
    IN row.state # "pending" =>
         /\ row.seen = Made(key)
         /\ kept /\ listed => row.state = "matched"
         /\ (\E r \in requests : r.row = "none" /\ r.tokens > 1) => row.state = "tokens_miss"
         /\ listed /\ row.dollars.verdict # "no_bill" /\ (\A r \in requests : r.row # "equivalent") =>
              row.dollars.unattributed =
                Total(tools, LAMBDA r : r.bill)
                  - (IF unstated THEN Total(requests, LAMBDA r : r.discount) ELSE 0)

(* A rerun only moves forward. A key keeps its place in the file, a judged *)
(* day is not pending again, and once the month has closed a row stands,   *)
(* through failed pages and crashes (Merge, storeRows, isFinal).           *)
StoredMovesForward ==
  [][\A key \in DOMAIN stored :
       /\ key \in DOMAIN stored'
       /\ stored[key].state # "pending" => stored'[key].state # "pending"
       /\ stored[key].final /\ stored[key].state # "pending" => stored'[key] = stored[key]]_reconcileVars
=============================================================================
