------------------------------- MODULE Verdict ------------------------------
(***************************************************************************)
(* The policy's verdict on a pull request (internal/policy): the settings  *)
(* of costroid.yml at the base branch, the warn-only period, the default   *)
(* pack's rules over the rows, and what a ledger's evidence lets pass. Two *)
(* callers ask for it: the report, over the rows the agent's job wrote     *)
(* (Evaluate), and the service, over the pull request's rows in its ledger *)
(* (EvaluateLedger). Between two verdicts rows arrive, days pass, the      *)
(* gateway counts, and the pull request or the base changes its settings.  *)
(* Amounts are whole numbers; compare_decimal compares them exactly.       *)
(***************************************************************************)
EXTENDS Integers, FiniteSets, Functions

CONSTANTS
  Kinds,        \* kinds of row: what the verdict tells apart about one
  ConfigFiles,  \* what costroid.yml may hold
  Histories,    \* what the report reads of earlier runs and of the workflow's start
  WarnOnlyPeriod, WarnOnlyPullRequests, MinBaselineRuns,
  MaxRows, MaxVerdictDay, MaxMeasured   \* bounds

ASSUME VerdictAssumption ==
  /\ IsFiniteSet(Kinds)
  /\ \A k \in Kinds : k.cost \in Nat /\ {k.verified, k.attributed, k.joinable} \subseteq BOOLEAN
  /\ \A file \in ConfigFiles :
       file.read \in BOOLEAN /\ \A key \in DOMAIN file.policy : file.policy[key].n \in Nat
  /\ \A h \in Histories :
       /\ {h.baseline.runs, h.baseline.median, h.lifetime.usd, h.start.day} \subseteq Nat
       /\ {h.baseline.verified, h.lifetime.known, h.lifetime.verified, h.lifetime.mayRepeat,
           h.lifetime.other, h.start.known} \subseteq BOOLEAN
  /\ {WarnOnlyPeriod, WarnOnlyPullRequests, MinBaselineRuns} \subseteq Nat

VARIABLES
  base, head,   \* costroid.yml at the base branch and at the pull request's head
  past,         \* the history, as this report reads it
  day, pulls,   \* the time, and the repository's pull requests with a measured cost
  rows,         \* how many rows of each kind the pull request has
  measured,     \* what the gateway counted on its keys
  evidence,     \* what vouches for the rows' spend
  check         \* the conclusions the report and the service come to now

verdictVars == <<base, head, past, day, pulls, rows, measured, evidence, check>>

Keys == {"run_budget_usd", "max_run_cost_usd", "max_increase_usd", "max_increase_percent",
         "pr_budget_usd", "monthly_budget_usd"}

-----------------------------------------------------------------------------
(* Settings. A file is unread, or maps the keys under policy to values.    *)

(* Mutant: the settings are the ones the pull request carries.             *)
ReadHead(b, h) == h

(* A pull request's settings are its base's, never its head's.             *)
ReadConfig(b, h) == b

wellFormed(key, value) ==
  CASE key \in Keys -> value.form \in {"whole", "quoted"}
    [] key = "models" -> value.form = "list" /\ value.list # {}
    [] key = "enforce" -> value.form = "bool"
    [] OTHER -> FALSE

(* One key or value that cannot be read refuses all of them.               *)
readableConfig(file) == file.read /\ \A key \in DOMAIN file.policy : wellFormed(key, file.policy[key])

ParseSettings(file) ==
  [amounts |-> [key \in Keys \cap DOMAIN file.policy |-> file.policy[key].n],
   models |-> IF "models" \in DOMAIN file.policy THEN file.policy["models"].list ELSE {},
   enforce |-> "enforce" \in DOMAIN file.policy /\ file.policy["enforce"].n = 1]

(* An entry is a model or a prefix of models: the models it admits.        *)
allows(settings, model) == \E entry \in settings.models : model \in entry

-----------------------------------------------------------------------------
(* The warn-only period.                                                   *)

warnOnly(enforce, at, now, count) ==
  /\ ~enforce
  /\ at.known => now < at.day + WarnOnlyPeriod
  /\ count < WarnOnlyPullRequests

-----------------------------------------------------------------------------
(* Usage: the rows as the pack reads them.                                 *)

Usage(r, unattributed, joinable) ==
  LET usd == {k \in Kinds : k.currency = "USD" /\ r[k] > 0}
      held == {k \in Kinds : r[k] > 0}
  IN [rows |-> SumFunctionOnSet(r, Kinds),
      usd |-> SumFunctionOnSet([k \in Kinds |-> r[k] * k.cost], usd), inUSD |-> usd # {},
      other |-> held \ usd # {},
      unattributed |-> SumFunctionOnSet(r, unattributed), joinable |-> SumFunctionOnSet(r, joinable),
      models |-> {k.model : k \in {k \in held : k.model # "unreadable"}},
      unreadable |-> \E k \in held : k.model = "unreadable"]

(* The agent's job could write any tag, so none of its rows is attributed. *)
ReadUsage(r) == Usage(r, Kinds, {k \in Kinds : k.joinable})

ledgerUsage(r) == Usage(r, {k \in Kinds : ~k.attributed}, {})

-----------------------------------------------------------------------------
(* The default pack. A request q holds usage, trust, settings, baseline,   *)
(* lifetime and warn_only.                                                 *)

Unproven(reason) == [outcome |-> "unproven", reason |-> reason]

broken(q, reason) == [outcome |-> IF q.warnOnly THEN "warn" ELSE "fail", reason |-> reason]

kept(q, verified, result) ==
  IF ~verified THEN Unproven("unverified_rows")
  ELSE IF q.usage.unattributed > 0 THEN Unproven("unattributed_rows")
  ELSE result

within_limit(other) == IF other THEN Unproven("other_currency") ELSE [outcome |-> "pass", reason |-> "within_limit"]

run_held(q, limit, reason, verified) ==
  IF q.usage.inUSD /\ q.usage.usd > limit THEN broken(q, reason)
  ELSE IF q.usage.rows = 0 THEN Unproven("no_rows")
  ELSE kept(q, verified, within_limit(q.usage.other))

(* What a run may reach over the median of the earlier runs.               *)
reach(q, key) ==
  IF key = "max_increase_usd"
  THEN q.baseline.median + q.settings.amounts[key]
  ELSE (q.baseline.median * (100 + q.settings.amounts[key])) \div 100

increase(q, key) ==
  IF q.baseline.runs >= MinBaselineRuns
  THEN run_held(q, reach(q, key), "over_baseline", q.verified /\ q.baseline.verified)
  ELSE Unproven("no_baseline")

lifetimeTotal(q) == q.lifetime.usd + q.usage.usd

pull_request(q, limit) ==
  IF ~q.lifetime.known THEN Unproven("no_lifetime")
  ELSE IF q.lifetime.mayRepeat THEN Unproven("repeat_possible")
  ELSE IF lifetimeTotal(q) > limit THEN broken(q, "over_limit")
  ELSE IF q.usage.rows = 0 THEN Unproven("no_rows")
  ELSE kept(q, q.verified /\ q.lifetime.verified, within_limit(q.lifetime.other))

allowlist(q) ==
  IF \E m \in q.usage.models : ~allows(q.settings, m) THEN broken(q, "model_outside_allowlist")
  ELSE IF q.usage.rows = 0 THEN Unproven("no_rows")
  ELSE IF q.usage.unreadable THEN Unproven("unreadable_model")
  ELSE kept(q, q.verified, [outcome |-> "pass", reason |-> "models_on_allowlist"])

rule(q, key) ==
  CASE key \in {"run_budget_usd", "max_run_cost_usd"} ->
         run_held(q, q.settings.amounts[key], "over_limit", q.verified)
    [] key \in {"max_increase_usd", "max_increase_percent"} -> increase(q, key)
    [] key = "pr_budget_usd" -> pull_request(q, q.settings.amounts[key])
    [] key = "monthly_budget_usd" -> Unproven("no_ledger")

(* One result for each rule that is set. Attribution only warns.           *)
evaluatePack(q) ==
  [key \in DOMAIN q.settings.amounts
           \cup (IF q.settings.models # {} THEN {"models"} ELSE {})
           \cup (IF q.usage.joinable > 0 THEN {"attribution"} ELSE {}) |->
     CASE key = "models" -> allowlist(q)
       [] key = "attribution" -> [outcome |-> "warn", reason |-> "joinable_rows"]
       [] OTHER -> rule(q, key)]

conclusion(results) ==
  CASE \E key \in DOMAIN results : results[key].outcome = "fail" -> "failure"
    [] DOMAIN results # {} /\ \A key \in DOMAIN results : results[key].outcome = "pass" -> "success"
    [] OTHER -> "neutral"

-----------------------------------------------------------------------------
(* The verdict.                                                            *)

(* Mutant: a pass stands on the counts the agent's job sent.               *)
TrustCounts(results, vouched) == results

(* On token-verified rows a limit or the allowlist passes only on measured *)
(* or reconciled spend.                                                    *)
demoteUnmeasured(results, vouched) ==
  [key \in DOMAIN results |->
     IF results[key].outcome = "pass" /\ ~vouched THEN Unproven("unmeasured_spend") ELSE results[key]]

RunKeys == {"run_budget_usd", "max_run_cost_usd", "max_increase_usd", "max_increase_percent"}

(* A ledger's answer covers the pull request, so no rule of one run runs.  *)
withoutRunRules(settings) ==
  [settings EXCEPT !.amounts = [key \in DOMAIN @ \ RunKeys |-> @[key]]]

(* The conclusion on a request whose settings are the file's.              *)
evaluateScoped(q, file, ledger, vouched) ==
  LET set == IF ledger THEN withoutRunRules(q.settings) ELSE q.settings
      withheld == DOMAIN q.settings.amounts # DOMAIN set.amounts
      results == demoteUnmeasured(evaluatePack([q EXCEPT !.settings = set]), vouched)
      decided == CHOOSE c \in {conclusion(r) : r \in {results}} : TRUE
  IN IF ~readableConfig(file) \/ (decided = "success" /\ withheld) THEN "neutral" ELSE decided

Settled(file) ==
  IF readableConfig(file) THEN ParseSettings(file) ELSE ParseSettings([policy |-> [key \in {} |-> 0]])

NoBaseline == [runs |-> 0, median |-> 0, verified |-> FALSE]

Evaluate(request, file) ==
  CHOOSE c \in {evaluateScoped(q, file, FALSE, TRUE) : q \in {request}} : TRUE

(* decideVerdict: the report's own run, on the agent's rows.               *)
decideVerdict ==
  LET file == ReadConfig(base, head) settings == Settled(file)
  IN Evaluate([usage |-> ReadUsage(rows), verified |-> FALSE, settings |-> settings,
               baseline |-> past.baseline, lifetime |-> past.lifetime,
               warnOnly |-> warnOnly(settings.enforce, past.start, day, pulls)], file)

(* EvaluateLedger: the rows are verified when every line is, and pr_budget *)
(* is held to the larger of the gateway's count and the rows' cost.        *)
EvaluateLedger(file, lines, spend, proof) ==
  LET settings == Settled(file)
      usage == ledgerUsage(lines)
      held == {k \in Kinds : lines[k] > 0}
      verified == held # {} /\ \A k \in held : k.verified
      above == IF proof = "gateway_measured" /\ spend > usage.usd THEN spend - usage.usd ELSE 0
      vouched == verified => proof \in {"gateway_measured", "reconciled"}
      request == [usage |-> usage, verified |-> verified, settings |-> settings, baseline |-> NoBaseline,
                  lifetime |-> [known |-> TRUE, usd |-> above, verified |-> verified,
                                mayRepeat |-> FALSE, other |-> usage.other],
                  warnOnly |-> warnOnly(settings.enforce, past.start, day, pulls)]
  IN CHOOSE c \in {evaluateScoped(q, file, TRUE, vouched) : q \in {request}} : TRUE

(* handleVerdict: the service's, on the pull request's rows in the ledger. *)
handleVerdict == EvaluateLedger(ReadConfig(base, head), rows, measured, evidence)

BothConclusions == [report |-> decideVerdict, ledger |-> handleVerdict]

-----------------------------------------------------------------------------
(* What changes between two verdicts.                                      *)

VerdictInit ==
  /\ base \in ConfigFiles /\ head = base
  /\ past \in Histories
  /\ day = 0 /\ pulls = 0
  /\ rows = [k \in Kinds |-> 0]
  /\ measured = 0 /\ evidence = "agent_counts"
  /\ check = BothConclusions

(* A row the gateway's figures do not cover yet leaves agent counts.       *)
StoreRow(k) ==
  /\ SumFunctionOnSet(rows, Kinds) < MaxRows
  /\ rows' = [rows EXCEPT ![k] = @ + 1]
  /\ evidence' = "agent_counts"
  /\ UNCHANGED <<base, head, past, day, pulls, measured>>

(* The gateway's count covers every row, at least at what it counted.      *)
GatewayCounts(n) ==
  /\ n \in measured .. MaxMeasured /\ SumFunctionOnSet(rows, Kinds) > 0
  /\ measured' = n /\ evidence' = "gateway_measured"
  /\ UNCHANGED <<base, head, past, day, pulls, rows>>

TimePasses ==
  /\ \/ day < MaxVerdictDay /\ day' = day + 1 /\ UNCHANGED pulls
     \/ pulls < WarnOnlyPullRequests /\ pulls' = pulls + 1 /\ UNCHANGED day
  /\ UNCHANGED <<base, head, past, rows, measured, evidence>>

PushSettings(file) ==
  /\ head = base /\ head' = file
  /\ UNCHANGED <<base, past, day, pulls, rows, measured, evidence>>

MergeSettings ==
  /\ base # head /\ base' = head
  /\ UNCHANGED <<head, past, day, pulls, rows, measured, evidence>>

VerdictNext ==
  /\ \/ \E k \in Kinds : StoreRow(k)
     \/ \E n \in 0 .. MaxMeasured : GatewayCounts(n)
     \/ TimePasses \/ MergeSettings
     \/ \E file \in ConfigFiles : PushSettings(file)
  /\ check' = BothConclusions'

VerdictSpec == VerdictInit /\ [][VerdictNext]_verdictVars

-----------------------------------------------------------------------------
(* Properties.                                                             *)

Held == {k \in Kinds : rows[k] > 0}
UsdCost == SumFunctionOnSet([k \in Kinds |-> rows[k] * k.cost], {k \in Held : k.currency = "USD"})
Limit(key) == base.policy[key].n
IsSet(key) == key \in DOMAIN base.policy

(* The larger of the rows' cost and what the gateway counted on them.      *)
Most == IF evidence = "gateway_measured" /\ measured > UsdCost THEN measured ELSE UsdCost

(* The cost is over what a rule of the report's allows.                    *)
Over(key) ==
  CASE key \in {"run_budget_usd", "max_run_cost_usd"} -> UsdCost > Limit(key)
    [] key = "max_increase_usd" -> UsdCost > past.baseline.median + Limit(key)
    [] key = "max_increase_percent" -> UsdCost * 100 > past.baseline.median * (100 + Limit(key))
    [] key = "pr_budget_usd" -> past.lifetime.known /\ past.lifetime.usd + UsdCost > Limit(key)
    [] OTHER -> FALSE

Admitted == {m \in {k.model : k \in Held} : \E entry \in base.policy["models"].list : m \in entry}

WarnOnlyEnded ==
  \/ IsSet("enforce") /\ base.policy["enforce"].n = 1
  \/ past.start.known /\ day >= past.start.day + WarnOnlyPeriod
  \/ pulls >= WarnOnlyPullRequests

(* What the rows must show for a check to succeed or to fail, whatever the *)
(* path to it. Success is the ledger's alone, over rows that a token       *)
(* proved, that are attributed and that the gateway's count covers, in USD *)
(* and within the budget by both figures, each of an allowed model, when   *)
(* no rule is set that nothing proves. Failure is past the warn-only       *)
(* period, for a figure over a limit or a model outside the list           *)
(* (Evaluate, EvaluateLedger, the default pack).                           *)
ConclusionIsProven ==
  /\ check.report # "success"
  /\ check.ledger = "success" =>
       /\ base.read /\ Held # {} /\ evidence # "agent_counts"
       /\ \A k \in Held : k.verified /\ k.attributed
       /\ DOMAIN base.policy \subseteq {"pr_budget_usd", "models", "enforce"}
       /\ IsSet("pr_budget_usd") => Most <= Limit("pr_budget_usd") /\ \A k \in Held : k.currency = "USD"
       /\ IsSet("models") => \A k \in Held : k.model \in Admitted
       /\ IsSet("pr_budget_usd") \/ IsSet("models")
  /\ LET outside == IsSet("models") /\ \E k \in Held : k.model \notin Admitted \cup {"unreadable"} IN
     /\ check.report = "failure" =>
          base.read /\ WarnOnlyEnded /\ (outside \/ \E key \in Keys : IsSet(key) /\ Over(key))
     /\ check.ledger = "failure" =>
          base.read /\ WarnOnlyEnded /\ (outside \/ (IsSet("pr_budget_usd") /\ Most > Limit("pr_budget_usd")))

(* Nothing a pull request's own jobs do takes a failure back: not another  *)
(* row, not its own costroid.yml, not waiting. Only the base's settings    *)
(* do, and a row outside the gateway's figures when the failure rests on   *)
(* those alone (ReadConfig, warnOnly, EvaluateLedger).                     *)
FailureStands ==
  [][base' = base =>
       /\ check.report = "failure" => check'.report = "failure"
       /\ check.ledger = "failure" /\ (evidence' = evidence \/ UsdCost >= measured) =>
            check'.ledger = "failure"]_verdictVars
=============================================================================
