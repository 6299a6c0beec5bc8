------------------------------ MODULE MCRules -------------------------------
(***************************************************************************)
(* The TLC instance of the four modules that judge figures: Verdict,       *)
(* Reconcile, Telemetry and ForkCheck. They share no state, so a behaviour *)
(* is about one of them, its subject, and the others stay as they began.   *)
(***************************************************************************)
EXTENDS Verdict, Reconcile, Telemetry, ForkCheck

VARIABLE subject

-----------------------------------------------------------------------------
(* Verdict: rows that a token proved or not, in two currencies, of an      *)
(* allowed model, another one and one whose name cannot be read; settings  *)
(* with each rule; histories that know the earlier runs or do not.         *)

Kind(c, m, v, a) ==
  [currency |-> c, cost |-> 1, model |-> m, verified |-> v, attributed |-> a, joinable |-> ~a]

MCKinds ==
  {Kind("USD", "m", TRUE, TRUE), Kind("USD", "n", TRUE, TRUE), Kind("USD", "m", TRUE, FALSE),
   Kind("USD", "m", FALSE, FALSE), Kind("EUR", "m", TRUE, TRUE), Kind("USD", "unreadable", TRUE, TRUE)}

Amount(n) == [form |-> "whole", n |-> n, list |-> {}]

File(keys, value(_)) == [read |-> TRUE, policy |-> [k \in keys |-> value(k)]]

MCConfigFiles ==
  {File({"pr_budget_usd", "models"},
        LAMBDA k : IF k = "models" THEN [form |-> "list", n |-> 0, list |-> {{"m"}}] ELSE Amount(2)),
   File({"pr_budget_usd", "enforce"},
        LAMBDA k : IF k = "enforce" THEN [form |-> "bool", n |-> 1, list |-> {}] ELSE Amount(1)),
   File({"pr_budget_usd", "run_budget_usd"}, LAMBDA k : Amount(1)),
   File({"max_increase_usd", "max_increase_percent", "monthly_budget_usd"},
        LAMBDA k : Amount(IF k = "max_increase_percent" THEN 50 ELSE 1)),
   File({"typo"}, LAMBDA k : Amount(0)),
   [read |-> FALSE, policy |-> [k \in {} |-> 0]]}

Past(runs, known, usd, repeat, started) ==
  [baseline |-> [runs |-> runs, median |-> 1, verified |-> FALSE],
   lifetime |-> [known |-> known, usd |-> usd, verified |-> FALSE, mayRepeat |-> repeat, other |-> FALSE],
   start |-> [known |-> started, day |-> 0]]

MCHistories ==
  {Past(1, FALSE, 0, FALSE, TRUE), Past(2, TRUE, 1, FALSE, TRUE), Past(2, TRUE, 1, TRUE, FALSE)}

-----------------------------------------------------------------------------
(* Reconcile: a cache write whose lifetime was assumed on a tier of its    *)
(* own price, a request the ledger never saw in a region with a surcharge, *)
(* one whose figure is corrected later, and a tool's charge.               *)

Plain ==
  [key |-> "k", scope |-> "", credential |-> "k", day |-> 0, class |-> "input", rowClass |-> "input",
   tokens |-> 100, first |-> 100, row |-> "measured", assumed |-> FALSE,
   tier |-> "standard", rowTier |-> "standard", region |-> "global", tool |-> FALSE,
   bill |-> 100, discount |-> 0, stated |-> TRUE]

MCRequests ==
  {[Plain EXCEPT !.class = "write5m", !.rowClass = "write1h", !.assumed = TRUE, !.tier = "fast", !.bill = 200],
   [Plain EXCEPT !.day = 1, !.tokens = 50, !.first = 50, !.row = "none", !.scope = "p", !.region = "eu", !.discount = 7],
   [Plain EXCEPT !.key = "j", !.credential = "p", !.scope = "p", !.day = 1, !.first = 90],
   [Plain EXCEPT !.row = "none", !.tool = TRUE, !.bill = 5]}

MCSheet == [t \in {"standard", "fast"} |-> IF t = "standard" THEN 1 ELSE 2]
MCResidency == [r \in {"eu"} |-> 2]

-----------------------------------------------------------------------------
(* Telemetry: one request of each agent in the records it exports, beside  *)
(* a gateway's log of it, records that do not decode or count nothing, a   *)
(* record of the future and one whose counts cannot be.                    *)

C(i, o, cr, cw, w5, w1, re) ==
  {[input |-> i, output |-> o, cacheRead |-> cr, cacheWrite |-> cw, write5m |-> w5, write1h |-> w1, reasoning |-> re]}
Q(n) == [name |-> n, tokens |-> 10]

Claude ==
  [request |-> Q("claude"), log |-> TRUE, name |-> "api_request", body |-> "", service |-> "claude-code",
   spelled |-> "claude-code",
   counts |-> C(4, 2, 1, 3, 2, 1, 0), id |-> "m1", span |-> "", at |-> 0, model |-> "claude-x", provider |-> "",
   basis |-> "list-equivalent", undecodable |-> FALSE, tagged |-> TRUE, future |-> FALSE, counted |-> TRUE]
Codex ==
  [Claude EXCEPT !.request = Q("codex"), !.log = FALSE, !.name = "turn", !.service = "codex", !.spelled = "genai",
                 !.counts = C(8, 2, 1, 3, 0, 0, 1), !.id = "", !.span = "s2", !.model = "gpt-x"]
Cursor ==
  [Claude EXCEPT !.request = Q("cursor"), !.name = "", !.body = "cursor.api.request", !.service = "editor", !.spelled = "cursor",
                 !.counts = C(4, 2, 1, 3, 0, 0, 0), !.id = "", !.at = 7, !.provider = "anthropic"]
OpenCode ==
  [Codex EXCEPT !.request = Q("opencode"), !.service = "opencode", !.counts = C(8, 2, 1, 0, 0, 0, 0), !.id = "m4",
                !.provider = "anthropic"]
Gateway ==
  [Claude EXCEPT !.name = "chat", !.service = "litellm", !.spelled = "genai", !.counts = C(8, 2, 1, 3, 0, 0, 0),
                 !.provider = "anthropic", !.counted = FALSE]
Undecodable == [Cursor EXCEPT !.undecodable = TRUE, !.counted = FALSE]

MCExports ==
  {{Claude, [Claude EXCEPT !.log = FALSE, !.name = "llm_request", !.id = "", !.span = "s1", !.counted = FALSE],
    Gateway, Undecodable},
   {Codex, [Codex EXCEPT !.log = TRUE, !.id = "r2", !.span = "", !.counted = FALSE],
    OpenCode, [OpenCode EXCEPT !.future = TRUE, !.id = "m6", !.counted = FALSE, !.request = Q("future")]},
   {OpenCode, [OpenCode EXCEPT !.log = TRUE], Cursor, Undecodable,
    [OpenCode EXCEPT !.counts = C(2, 2, 1, 3, 0, 0, 3), !.id = "m5", !.counted = FALSE, !.request = Q("bad")]}}
MCPosted == {Q("claude")}

-----------------------------------------------------------------------------
Init ==
  /\ subject \in {"verdict", "reconcile", "telemetry", "fork"}
  /\ VerdictInit /\ ReconcileInit /\ TelemetryInit /\ ForkInit
  /\ subject # "verdict" => base = (CHOOSE f \in ConfigFiles : TRUE) /\ past = (CHOOSE h \in Histories : TRUE)
  /\ subject # "reconcile" => source = "openai"
  /\ subject # "telemetry" => outbox = (CHOOSE e \in Exports : TRUE)

Next ==
  \/ subject = "verdict" /\ VerdictNext /\ UNCHANGED <<subject, reconcileVars, telemetryVars, forkVars>>
  \/ subject = "reconcile" /\ ReconcileNext /\ UNCHANGED <<subject, verdictVars, telemetryVars, forkVars>>
  \/ subject = "telemetry" /\ TelemetryNext /\ UNCHANGED <<subject, verdictVars, reconcileVars, forkVars>>
  \/ subject = "fork" /\ ForkNext /\ UNCHANGED <<subject, verdictVars, reconcileVars, telemetryVars>>

Spec == Init /\ [][Next]_<<subject, verdictVars, reconcileVars, telemetryVars, forkVars>>
=============================================================================
