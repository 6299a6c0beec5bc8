# Costroid in TLA+

Costroid puts what a coding agent costs on the pull request it works on.
`costroid run` starts the agent under a budget and writes one FOCUS row per
priced token class, `costroid report` posts a check and a comment, an optional
service (`costroid serve`) keeps the rows in Postgres and answers what a pull
request cost, and an optional LiteLLM gateway holds each run to a key of its
own. This directory models the parts of that system where several actors share
state, checks them with TLC on small instances, and proves most of their
safety properties for every instance with TLAPS.

Paths below are relative to the repository's root. `PROJECT.json` lists every
component, run, mutant, hazard, finding and theorem, and maps every definition
to the lines it models.

## Inventory

| Component | State it keeps | Operations | Talks to |
| --- | --- | --- | --- |
| Ledger service, `internal/server`, `internal/store` | tables `focus_rows`, `minted_credentials`, `gateway_spend`, `ingest_keys`, drop counters | ingest rows or telemetry, attest a key, attest its spend, view and verdict of a pull request, create and revoke ingest keys | CI jobs over HTTP, Postgres |
| `Store.Ingest`, `internal/store/rows.go` | one transaction per attempt | filter and insert, second attempt on a conflict, add drop counts | Postgres' unique index and row locks |
| Webhook, `internal/scm/webhook.go` | claimed delivery ids, bounded event queue | verify, claim, offer, release, process | GitHub, the workers |
| Agent process, `internal/run/run.go`, `reap_linux.go` | process tree, stopper, reaper | start, read output, stop, contain, wait, finish the tail | the kernel, the agent, the adapter's tail |
| Codex adapter, `internal/adapter/codex` | stream session, one log per rollout file, subagents | Feed, Tail, checkCap, Finish | the agent's stdout and its files, the stopper |
| Gateway key, `internal/gateway`, `cmd/costroid/gateway.go` | key, its count, sealed request artifact | request, mint, attest, probe, close, attest spend | LiteLLM, the ledger, three CI jobs |
| Claude Code adapter, `internal/adapter/claudecode` | stream session, session files, config directory's lock | Feed, Finish, nested sessions, Claim | the agent's stdout and files |
| Report, approval, follow-up, `cmd/costroid`, `internal/scm`, `internal/history` | the pull request's check runs and its one comment, held by the host | read history, decide, post check, name it, upsert comment; approve re-concludes the newest check | GitHub's or GitLab's API |
| Policy, `internal/policy` | none | evaluate a pack over rows, settings and evidence | report, service |
| Service start and stop, `internal/server/serve.go`, `internal/store/migrate.go` | `schema_migrations`, `tenant_bindings`, egress counters | migrate, provision, bind, serve, flush, shut down | Postgres, other instances |
| Issuer keys, App tokens, request limits, `internal/oidc`, `internal/scm` | caches and rolling windows under a lock | look up, refetch, admit, release | identity providers, GitHub |
| Reconcile, `internal/reconcile` | the file of reconciled rows | walk a provider's report page by page, compare tokens and dollars, merge | the provider's API, a ledger file |
| Telemetry, `internal/otlp`, `internal/server/telemetry.go` | the ledger's rows | decode a batch, pick the record that counts, store | exporters that retry |
| Rendering, FOCUS encoding, catalog, configuration, lint, doctor, init, demo, export | none that outlives a call | pure transformations and file I/O | files, providers' reports |

What is hard about each, and what makes it correct:

- **Ledger.** A handler makes several store calls, each its own transaction, so
  what it read can be stale when it writes. Correct means: a row is graded
  `exact` only with an attestation of its own run, no stated pull request
  reaches a budget, attested figures never sink, one run per key, and
  `gateway_measured` is said only when every eligible row is covered.
- **Ingest.** Two senders store the same ids at once, in any order, and an answer
  may be lost after the commit. Correct means whole or not at all, a receipt
  that counts what this batch added, no lasting deadlock.
- **Webhook.** GitHub redelivers, concurrently and late, and the queue can be
  full. Correct means an event is processed at most once within what the code
  can know, and never dropped without a refusal.
- **Agent process.** The tree forks while it is killed, its children leave the
  group and hold the output open, and three goroutines may stop it. Correct
  means nothing of it is alive when the rows are written (`docs/security.md`,
  "The agent's processes"), and the run always ends.
- **Codex session.** Files and stream are written while they are read, totals
  repeat, threads are resumed and subagents have files of their own. Correct
  means a run graded `wrapper-watchdog` counts each request once.
- **Gateway key.** Three jobs act on one key through calls that may fail after
  they took effect, against a count that is late and batched. Correct means a
  closed key is gone, the attested count covers the rows, and
  `gateway-precheck` holds the bound it states.
- **Report and approval.** A report and an approve job read and then write one
  pull request's checks with no lock, over requests that may fail. Correct means
  an approval counts only for its own commit, the newest check states the
  newest report and what the reviews give, a run reported again counts once,
  and a pull request has one comment.
- **Claude Code session.** Sessions of several processes share a directory, lines
  repeat and are cut, results are cumulative. Correct means no request in two
  runs' rows, and what is missing is said.
- **Verdict.** Two callers evaluate one pack over rows that are partly proven,
  while the pull request may change the settings file. Correct means success
  and failure each rest on what the rows prove, and a failure is not taken back
  by what the pull request itself can change.
- **Reconcile.** The provider's report moves while it is read and is complete
  only later. Correct means a day is judged on a complete report, and a rerun
  never takes a judgement back.
- **Telemetry.** One request arrives as a span, a log and a gateway's record, in
  batches that are retried. Correct means it is counted once and whole.
- **Fork follow-up.** A check belongs to a commit, and a fork can push any commit.
  Correct means a fork's check settles no branch of the repository.
- **Service start, egress counters, issuer keys, App limits.** Overlapping starts
  and crashes, writes whose answer is lost, rotating keys, rolling windows.


## Modules

| Module | Models | Runs |
| --- | --- | --- |
| `Ledger` | the handlers of `internal/server` over the tables | `ledger_join`, `ledger_race`, `ledger_evidence` |
| `LedgerProofs` | theorems of `Ledger` | TLAPS |
| `AtomicIngest` | what `Store.Ingest` promises | as a property of `ingest_tx` |
| `IngestTx` | `Store.Ingest` inside Postgres | `ingest_tx` |
| `Webhook` | handler, `ParseEvent`, `MemoryDeliveries`, `Queue` | `webhook` |
| `WebhookProofs` | theorems of `Webhook` | TLAPS |
| `AgentProcess` | `execute`, the stopper, the reaper and the cgroup | `agent_run` |
| `CodexSession` | `Feed`, `Tail`, subagents, `checkCap`, `Finish` | `codex_session` |
| `CodexProofs` | theorems of `CodexSession` | TLAPS |
| `ClaudeSession` | `Claim`, `Feed`, `Finish`, session files, nested sessions, execution files | `claude_session` |
| `SessionProofs` | theorems of `ClaudeSession` | TLAPS |
| `GatewayKey` | the agent's, the minting and the closing job | `agent_run` |
| `RunProofs` | theorems of `AgentProcess` and of `GatewayKey` | TLAPS |
| `PullCheck` | the report and the approve job on one pull request | `pull_check` |
| `PullCheckProofs` | theorems of `PullCheck` and of `ForkCheck` | TLAPS |
| `Verdict` | `Evaluate`, `EvaluateLedger`, the default pack, settings, warn-only period | `rules` |
| `Reconcile` | a pass over a provider's report, `Merge` | `rules` |
| `Telemetry` | `Decode`, `interpret`, `readCounts` and the batch's storage | `rules` |
| `ForkCheck` | the follow-up job of a fork's pull request | `rules` |
| `ServiceStart` | `MigrateFrom`, `checkRole`, `bindOwners`, `Provision` | `service_life`, `service_schema` |
| `TokenKeys` | `Verifier.Verify`, `issuerKeys` | `service_life` |
| `EgressCounters` | `Gate.RoundTrip`, `Counters`, the service's stop | `service_life` |
| `Installation` | `Limiter`, `AppTokens`, `GitHub.do` | `service_life` |
| `ServiceProofs` | theorems of `IngestTx`, the refinement of `AtomicIngest` among them, and of the four modules of `service_life` | TLAPS |
| `RulesProofs` | what sums over finite sets and flattened sequences are, and theorems of `Verdict` and `Reconcile` | TLAPS |
| `MC*` | constants of the runs | |

`MCRun` extends two modules that share no state, `MCRules` and `MCService` four: a
behaviour is about one of them, its `subject`, and the others stay as they
began, so a run explores the sum of their states and not the product.

The modules meet at named points. `Ledger` takes an ingest as one step, which
`IngestTx` shows to be what the two attempts amount to. `CodexSession` assumes
that a stopped agent exits, which `AgentProcess` shows (`RunEnds`).
`GatewayKey` assumes that the ledger takes or refuses an attestation and a
figure in one step, which are actions of `Ledger`. `PullCheck` takes a verdict
as failure or neutral by one rule, and `Verdict` shows what each verdict rests
on. `Telemetry` stores a batch in one step, again by `IngestTx`; `TokenKeys`
says whose token `Ledger`'s identities are.

### Ledger

A request is a process with a `step`; a store call (`Store.inTenant`) is one
action, so other requests' transactions run between two calls of one handler.
`StartRows`, `ReadProven`, `RefuseRows` and `Ingest` are the rows and telemetry
handlers; `StartAttest` and `Attest` the minting job's; `StartSpend`,
`CheckMinted` and `AttestSpend` the closing job's; `StartView`, `ReadLines` and
`ReadSpend` the view and the verdict; `Fail` is a store call that errors, with
or without its effect, and `Close` the end of a request. A body is a sequence
of charges; a charge keeps the fields that decide its grade. Strings are model
values: a stated value is a name, absent or malformed. A price is a rate, a cost
the rate times the count (`Cost`), an instant a number of which `PerSecond` make
a second, and `ChargePeriod` widens a span to whole seconds.

`ChecksNeverRefuse` is the schema's CHECK constraints of `focus_rows`: no
amount below zero, a period that ends after it starts, the known grades,
identities and bases, and the four constraints that tie columns to each other
(migrations `0001`, `0002` and `0006`). They matter because a batch is stored
whole or not at all: a row that a CHECK refuses would take its batch with it, and
a sender that tries again would be refused again. What keeps that from happening
lies elsewhere: `parseRow` refuses a negative count and, on the rows path, an
end that is not after its start; telemetry states neither, so its spans rely on
`ChargePeriod`. The length and the pattern of a text, the enforcement grade and
the overshoot bound are left out.

### IngestTx and AtomicIngest

`tx[s]` is the transaction of sender `s`: the snapshot of the first statement,
the row it is at, the ids it inserted and the counters it locked. Postgres is
external and modelled by what the code relies on: an inserter of an id that is
inserted and uncommitted waits, an abort frees the id, a commit turns the wait
into a conflict, a cycle of waits aborts one transaction. `Fail` and the lost
answer of `Commit` stand for a broken connection. The variables `rows`,
`drops` and `answer` are those of `AtomicIngest`, so the refinement mapping is
the identity on them (`INSTANCE AtomicIngest WITH rows <- rows, ...`) and hides
`tx` and `sends`.

### Webhook

`Receive` is the handler up to the claim: the signature, `ParseEvent` of the
payload and the window. A payload keeps what `ParseEvent` tells apart. `Claim`,
`Offer` and `Release` the calls on the store and the queue, `Process` a
worker's receive, `Stop` the end of the workers' context. `claims` keeps the
entries in insertion order, released ones included, as the code's slice does.
A redelivery between the Claim and the Release of a request that finds the
queue full is answered 200 although its event is then dropped; `NoSilentLoss`
holds because the first request is answered 503. `HeldUnlessReleased` excepts
released ids because `Release` leaves the id's entry in `claims`: when that
entry expires it takes a later claim of the id with it, before its retention is
over, against `internal/scm/webhook.go:48` ("it holds each for
DeliveryRetention"). Without the exception TLC finds that replay.
`RefusedMayReturn` says that a 503 means what it says: the id of a refused event
is free again once its request is done, so GitHub's redelivery is offered to the
queue. That a queued event is then processed is the worker's fairness and
nothing else, so no property states it.

### AgentProcess

`proc`, `parent`, `group` and `out` are the kernel's view. `Fork`, `CloseOutput`
and `Exit` are what the processes do; a fork may leave the group and drop the
output. `main` follows `execute`; `reaper` follows `stopDescendants`, with the
listing of `/proc` and the reading of each stat as separate steps; the cgroup
kill is a choice of `Init`, as the run may or may not be allowed one.

### CodexSession

A file is a sequence of lines of five kinds; one request costs one unit. `Feed`
reads the stream, `Follow`, `Discover`, `Apply`, `checkCap`, `Stop` and `Again`
are one tick of `Tail`, and `Finish` builds the report. A running total may be
stated twice, and the thread's file may hold an earlier run.

### GatewayKey

`setup` chooses the workflow: the shipped recipe with a ledger on a gateway
that counts at most one or two answered requests late, the recipe without a
ledger and with a budget above the run's, and a close that runs beside mint
and waits for it. A tick is one poll. The gateway is external: it admits a
request while the counted spend is below the budget, counts it some time after
it answered, and writes the count to its store in batches; the store may go
down and return. `Failed(before, after)` is a call whose caller sees an error
and whose effect may or may not have happened; `post` is the same for the
ledger, the job's token included. Three things the module shows beside its
properties: `watcher.probe` drops its answer when the run's context has ended
(`internal/gateway/session.go:220`), so a cancelled run's last probe says
nothing and its rows still read `gateway-precheck`, where
`cmd/costroid/main.go:125` says "before, during and after the run"; with close
beside mint, a key registered between `readCount` and the delete is deleted with
no count read and the step succeeds, so `AttestedCovers` is stated for the
recipe's order; and a second run that is a repository's first may fail its mint
when both create the team, one of `Register`'s outcomes.

### PullCheck

The recipes give the report and the approve job a concurrency group each, so
one job of each kind runs at a time and the two overlap. Each request to the
host is a step: `StartReport` lists the commits, `ReadCommit` reads one of
them, `decideVerdict` evaluates, `ReportReadsPull` and `ReportReadsReviews` are
`reportApproval`, then `ReportPosts` and `UpsertComment`. `StartApprove`,
`ApproveReadsReviews`, `Reconclude` and `ApprovePosts` are `reconclude`. Any of
them may fail (`*Fails`, `*Ends`, `ApprovalUnread`). What it leaves out:

- The policy enforces `pr_budget_usd` alone, a run's rows cost one unit, and
  every row names its id. Unverified rows never conclude success, so a verdict
  is failure or neutral.
- A comment review changes no standing, so it is only an event.
- `nameCheck` and `UpdateCheck` write a check run's own id into it and nothing
  else. The comment's search and its write are one step, because no other
  report of the pull request runs. The reviews and the reviewers' roles are
  read in one step.
- The token is the workflow's own, so the account that posts never changes.
- No commit leaves the pull request (no forced push).

`overtaken` records that one job posted between the other's reading and its
post, and `failures` what failed.

A report of a refused artifact concludes failure with no policy in its object,
which `Block.verdict` (`internal/comment/render.go:1282`) reads as neutral, so
any review event, a comment's too, makes approve post that check again as
neutral with no approval, against `cmd/costroid/approve.go:161` ("when an
approval changes its conclusion, or when one no longer does"). The model has
this behaviour; `ApprovalBindsHead` speaks of failed verdicts and not of it.

### ClaudeSession

`proc`, `file` and `out` are the claude processes, their session files and their
streams; what claude does is external. `Claim`, `Launch`, `Feed`, `Exit`,
`Finish`, `nestedSession`, `Record` and `Release` are a run of costroid, `Runs`
and `RefuseTruncated` the reading of an execution file of claude-code-action,
and `Crash` a killed costroid, whose lock the kernel frees. A request costs two
units and its lines state one and then two, so a file may repeat, cut or hide
it. Six setups (`MCClaudeSession`) give one run every kind of line, two runs and
a hook one directory, an action's run its file and a developer's session its
place beside a run. What the module shows beside its properties: a cut line
after a readable result is lost with nothing unrecorded and no warning; a nested
session's cut line is not reported; and when the run's own session files are
missing, nested sessions are not looked for. Two runs never start and end at one
instant. `agentError`, `keyBilled`, `costBasis` and `Plan` are left out.

### Verdict

The state is a pull request's rows by kind, the settings at its base and its
head, the history a report reads, the days, what the gateway measured and the
evidence. Every step is followed by both callers' conclusions, `check.report`
from `decideVerdict` and `check.ledger` from `EvaluateLedger`. The pack's rules
are operators in the pack's order. `FailureStands` has one exception: a failure
that rests on the gateway's figure alone becomes neutral when a row that the
gateway's count does not cover is stored, because the evidence is then the
agent's own counts.

### Reconcile

A pass (`ReadLedger`, `Fetch`, compare, `storeRows`) reads one page a step while
the provider counts, refreshes and corrects. One provider stamps its pages, the
other is complete after a lag; a behaviour has one of them. A request's row is
in the ledger with the request. Two passes at once on one `--out` file lose each
other's rows, because the merge is a read and a rename without a lock; one pass
runs at a time here. The saved copy of a report, the list of unmatched
credentials and the table are left out.

### Telemetry

A record is a span or a log with a dialect, counts, an id or a span id, and a
time. An exporter sends any part of its outbox and sends it again until it is
answered. `RequestCountedOnce` is stated for requests whose batches agree on the
lifetime of cache writes (`Coherent`): `keepStatedSplits` sees one batch, so a
stated and an assumed record of one request in two batches store its writes
twice. Logs without a request id inside one span have one id. A row dated in
the future, or a protobuf record that does not decode, refuses its whole batch,
which exporters do not send again.

### ForkCheck

Forks and maintainers push; a follow-up job reads its event, confirms that the
commit is one fork's open pull request and no branch's head, and posts a check
capped at neutral. A branch pushed to the commit between the last look and the
post is `raced` and left out: the host offers no way to close that window. So
`ForkSettlesNothing` is about what is pushed before the confirmation reads its
commit, and that the check concludes at most neutral follows from `capAtNeutral`
alone.

### ServiceStart, TokenKeys, EgressCounters, Installation

- `ServiceStart`: instances of several releases start, crash and start again. An
  advisory lock ends with its connection. `Open` is `checkRole`: it refuses a
  role that reads past row level security and one that owns a relation, and
  reads nothing of the schema. An instance that is given the owner's role for its
  own therefore opens a database nobody has migrated yet, and then either fails at
  the first owner it looks up or, with none to look up, serves. The owner is held
  to the policies too, because every table that the migrations create has FORCE ROW
  LEVEL SECURITY. `SchemaFound` asks for an instance's own schema only where the
  instance migrates; of any other it says that its role does not read past row
  level security, and nothing of the schema (see Findings). Two starts that bind
  one owner: one may fail with the primary key (`bind`), a visible failure that a
  restart repairs and that `StartIsSafe` permits; it checks that the owner ends in
  one tenant, the one that the instance which serves made.
- `TokenKeys`: a verification holds the cache's lock through a fetch, during
  which the issuer may rotate. A failed fetch leaves the time of the last one,
  so an issuer that is down is asked on every request, where `internal/oidc/jwks.go:22`
  says "at most once per refetchInterval", and a known key is served however
  old while it cannot be fetched, where `docs/serve.md:199` says that the service
  "fails closed if it stops answering"; `VerifyIsRight` states both, and
  `internal/oidc/oidc_test.go` expects the second.
- `EgressCounters`: a write whose answer is lost is counted again (`repeated`),
  calls after the last flush are not written (`late`), and a killed process
  loses what is pending. `CallsCounted` excuses exactly what is late, because the
  code has that loss, so what it shows is the retries and the lost answers
  between `take` and `putBack`. The host and the day of a count are left out.
- `Installation`: the limiter's two rings and the token, each under its lock. It
  counts admissions; a write that waits for a token is sent later, so GitHub
  may see more in one window than were admitted in it.

## Runs

Each run ends within about three and a half minutes with two workers. `Ledger`'s
type invariant is proved and `Webhook`'s is part of `ReplaysRefused`; those of the
other modules are stated for their proofs and are no property of a run.

| Run | Instance | Shows |
| --- | --- | --- |
| `ledger_join` | one request at a time, two tenants, six kinds of token and an ingest key, eight bodies with half-second instants and counts from -1 | grades, bases and budget eligibility follow the token and the attestations; no row fails a CHECK of the schema; a figure is changed only by a job of the key's own run |
| `ledger_race` | two concurrent requests, two runs, two keys, two row ids | stale reads stand, one run per key, an undisturbed view's evidence is sound, stored data only grows |
| `ledger_evidence` | as `ledger_race` | **violation**: a row stored between the view's two reads makes `gateway_measured` cover an uncovered row |
| `ingest_tx` | three batches, two with the same ids in opposite orders and one that repeats an id, each sent at most twice | refinement of `AtomicIngest`, every request is answered, counters never deadlock |
| `webhook` | two handlers, a pull_request, a click and six requests that end early, queue of one, five ticks | only signed events, dated ones at most once, retention of ids never released, no silent loss, a refused event may come back |
| `agent_run` | `AgentProcess` with the agent and two more processes and three reaper rounds; `GatewayKey` with four setups, four requests of cost 2 and a budget of 3 | nothing outlives the run, a reported stop was signalled, the run ends; a closed key is gone, the attested count covers the answers, `gateway-precheck` holds, no wait cycle (deadlock is checked) |
| `codex_session` | a thread and its subagent, or a nested subagent and another run's subagent; a resumed thread | a watched grade is exact, requests in flight are stated, only the run's own threads count, a stop is at the cap, the cap stops the agent |
| `pull_check` | one or two commits, up to two reviews and two reports, at most one failure | an approval binds its own commit, the newest check states the newest report and what the reviews give, the budget fails on distinct runs only, one comment |
| `claude_session` | six setups of up to two runs, a hook's and a developer's session | no session is counted twice over all runs, rows are exact when the stream says so, loss is stated, a run's rows are its own tree's in CI |
| `rules` | `Verdict` with six settings files, six kinds of row, three histories; `Reconcile` with four requests over three days, in ranges of one day or two; `Telemetry` with three exports; `ForkCheck` with two branches, forks and jobs | success and failure are proven and a failure stands; days are judged on complete reports and never taken back; a request counts once; a fork settles nothing |
| `service_life` | `ServiceStart` with four instances of three releases and four starts; `TokenKeys` with two keys over five ticks; `EgressCounters` with two handlers and three calls; `Installation` with windows of two and four ticks | migrations once and in order, tokens accepted only on current keys, calls counted, limits kept |
| `service_schema` | as `service_life` | **violation**: an instance without the owner's connection serves on a database that records another checksum for a migration of its own |

### Bounds

- `ledger_race`: two requests are enough to put any transaction between two
  calls of a handler; two runs, keys and rows are enough for a conflict and for
  one row to stand in for another. `ledger_join` trades concurrency for the
  breadth of statements. The theorems lift both to any number.
- `ingest_tx`: a cycle of waits needs two batches; the third repeats an id
  within itself and commits between the others' attempts. `MaxSends` 2 is one
  retry, and a retry starts from a state like the first send's.
- `webhook`: `Window` 1 and `Retention` 3 keep the code's relation
  2 * `Window` < `Retention`; five ticks pass a retention and a second claim
  after it. `MaxClaims` bounds the slice of entries, which in the code only the
  retention bounds.
- `agent_run`: `MaxReapRounds` exceeds the number of children, which is the
  code's own assumption (100 rounds); a tree that forks in each of them
  outlasts the reaper. A stop that starts late may signal a process group whose
  leader was already waited for; the kernel's reuse of a pid is not modelled.
  Of the key, `Batch` 1 < `Stable` 2 and `Batch + Stable < Settle` 4 keep the
  order of the code's 10, 12 and 30 seconds. Four requests of cost 2 against a
  budget of 3 pass the budget by more than the stated bound if the bound is
  wrong by one request. The close that runs beside mint is
  taken without a ledger: what it adds is the order of mint and close, and the
  steps of attesting are those of the other setups.
- `codex_session`: a behaviour chooses its threads. One request for each of two and
  a cap of two let the sources reach the cap together and alone; a subagent's
  subagent with two requests reaches it without its parent. Repeated totals and
  an earlier run's request come on top.
- `pull_check`: a behaviour chooses one of three bounds. Two reports and two
  reviews of one commit are enough for a job to post over what the other read
  and for a reviewer to take an approval back; one report with the author's and
  a writer's review over a push, for an approval of a commit the head left; two
  reports over a push with one failure, for a total over two commits and a
  report that could not read, post or finish. A budget of one is passed by two
  runs.
- `claude_session`: two requests and two results of one run meet every order of
  a repeated, a cut and an unreadable line; two runs, a hook and a clock of two
  instants put a session before, inside and after a window.
- `rules`: two rows pass a budget of one and meet one of two; `MaxVerdictDay` and
  `WarnOnlyPeriod` 1 reach both sides of the warn-only period. The ranges of a
  pass are both days of a month of two and its second day, so ranges overlap, a
  window's two days are stamped apart, and the clock of three days closes the
  month. A range fits in one window (`MaxSpan` 2) there; that a longer one is cut
  without missing a day is proved (`WindowsCover`) and not run. `MaxMoves` 3 is enough
  for a fork and two branches to meet on a commit before and after a job looked;
  the theorem lifts it.
- `service_life`: four starts let every instance start, or one crash and start
  again beside two others. No instance has a role that reads past row level
  security; the theorem has. `Interval` 2 < `Lifetime` 3 and `Timeout` 1 keep the code's
  order; five ticks pass a lifetime. The long window is twice the short one and
  its limit is less than twice the short one's, as with the code's 80 a minute
  and 500 an hour neither limit implies the other. `MaxRepeated` bounds the
  writes whose answer is lost.

`ingest_tx`, `webhook`, `claude_session`, `rules` and `service_life` do not
check deadlock: a sender that was answered may send nothing more, every run may
be recorded, and time stops at its bound.

### Symmetry

The request slots of `ledger_race` and `ledger_evidence` are interchangeable, and
so are the rows of `pull_check`; these runs check no liveness. No run with a liveness property uses symmetry.

### Fairness

- `IngestTx`: weak fairness of each transaction's next step and of Postgres'
  deadlock detector. Nothing makes a sender retry.
- `AgentProcess`: weak fairness of each goroutine and of the kill timer.
  Nothing is assumed of the agent or its children.
- `CodexSession`: weak fairness of the tail and of `execute`, and a stopped
  agent exits, because SIGKILL follows.
- The other modules state no fairness: every property of theirs is a safety
  property, and in `Ledger`, `GatewayKey` and `PullCheck` waiting for ever shows
  as a deadlock.

## Proofs

Every theorem is `Spec => []P` or `Spec => P` for all values of the constants
that meet the named assumptions, so for any number of actors and with no bound
but those that are constants themselves. Each rests on an inductive invariant
that is stronger than the properties, was checked by TLC on the module's run
and is preserved by every action (`NextInv`, one lemma for each action).

### LedgerProofs

`LedgerProofs` proves, for any tenants, row ids, keys, identities, bodies and
number of concurrent requests, the safety properties that the ledger's passing
runs check. The assumptions are those of `LedgerAssumption`: row ids are a
finite set, ingest keys have a tenant, figures are numbers, a second has at least
one instant and the service's clock does not read Go's zero time, and the markers
`None` and `Malformed` are distinct from what they mark.

| Theorem | Property | Rests on |
| --- | --- | --- |
| `TypeCorrect` | `TypeOK` | `Typed` |
| `Immutable` | `StoredStands` | `Typed` |
| `StaleReadsAreSafe` | `ReadsStand` | `Typed`, `Immutable`'s step lemma |
| `ExactRows`, `BudgetRows`, `SchemaAccepts` | `ExactIsProven`, `BudgetRowsAreTokenProven`, `ChecksNeverRefuse` | `Sound` |
| `SpendIsOwn` | `OwnSpendOnly` | `Typed` |
| `KeysHaveOneRun` | `OneRunPerKey` | `Typed`, `ReadsStand`, `SpendAttested` |
| `QuietEvidence`, `UsdBounded`, `ViewsAreSound` | `QuietEvidenceCovers`, `UsdNotOverstated`, `EvidenceIsSound` | `Evidence`, `Waiting` |

The argument, from the bottom:

1. `Typed` is `TypeOK` and `InFlight`. Types alone are not inductive: a
   handler at `keepSpend` writes `figure` for `key`, so they have to be a
   number and a key *at that step*. `InFlight` says of each step which fields
   it has filled, and that a token's tenant is the request's.
2. One lemma per writing action (`IngestGrows`, `AttestGrows`,
   `AttestSpendGrows`) shows that the tables only grow.
3. Because the tables only grow, what a request read stays true under any
   other request's step: `ReadsStand` is inductive with `Typed`. This is the
   reason the code may grade in one transaction and store in another.
4. `Sound` adds to it what is true of stored rows. `ExactIsProven` needs
   `ReadsStand` at the step `ingest`: the proof that the row's key is attested
   is the request's earlier read. `TokenRows` strengthens the budget property,
   which speaks only of eligible rows, to all verified rows. `SchemaAccepts` needs
   what reading a body establishes (`Readable`, part of `InFlight`): no negative
   count, and no end before its start. `PeriodHolds` is then arithmetic on whole
   seconds for any `PerSecond`, and `CostTyped` on products of natural numbers.
5. `Evidence` states what an answer claims of the figures. A row that another
   request stores changes the rows of a pull request, so the answer's claim is
   made only while the lines still are those rows; a figure that grows keeps it.
   The stepping stone is that equal counts of covered and eligible rows, with
   one a subset of the other, mean equal sets. `Waiting` says an unanswered
   request claims nothing.

`EvidenceCovers`, without the quiet condition, is false: `ledger_evidence`
shows it.

### IngestTx in ServiceProofs

For any senders (a finite set), row ids, counters, batches and number of sends:

| Theorem | States |
| --- | --- |
| `SpecTypeOK` | `TypeOK` |
| `SpecDropsNeverDeadlock` | `DropsNeverDeadlock` |
| `SpecIngestIsAtomic` | the refinement: `Spec` implies `AtomicIngest`'s safety specification under the mapping |

`IngestInv` adds to the types: a request is answered exactly when its transaction is
over; a transaction holds rows before counters and nothing before or after;
each row behind the statement is stored or inserted by it, and what its snapshot
saw is still stored (`RowsCovered`); counters are locked in one order
(`HeldFromBelow`). The refinement needs `RowsCovered`: `Commit` is the abstract
`Ingest` only because nothing of the batch is left out, and its receipt is right
only because what it inserted nobody else stored. `Fail` maps to `Refuse` and the
other steps to stutters. No cycle of waits is among counters because the
transaction that holds the greatest of them waits for no other: a finite set of
senders has such a one.

### WebhookProofs

For any deliveries, payloads, handlers, queue size and times with
2 * `Window` < `Retention`: `SpecReplaysRefused`, `SpecNoSilentLoss` and
`SpecRefusedMayReturn`. A replay
arrives when its first delivery may be claimed, offered, queued, released or
expired, so `Inv` follows the id through all of them: a dated event has at most
one holder and none once it is queued (`OneHolder`); its id then refuses until the
event's instant is outside the window of every request under way
(`RefusedTillOutside`), because an entry is dropped only `Retention` after a
claim that was inside the window; an id never released has exactly one entry
(`OneEntry`); an id that refuses was queued, refused with a word or is held
(`SeenIsBacked`), which is why a 200 for a replay loses nothing.

### RunProofs

Of `AgentProcess`, for any finite set of processes below `MaxReapRounds`:
`SpecProcessTypeOK`,
`SpecNothingOutlives`, `SpecStopReported`. The reaper lists, reads stats, kills
and waits while the tree forks. `Reaping` says that what it saw still holds when
it acts: while a child is alive, one that was listed is the run's to reap, since
an orphan's parent becomes the run and parents form no cycle (`Acyclic`, in the
form "every set of children has one whose parent is outside it", which needs no
induction). Every round reaps at least one process, so rounds are bounded by the
processes gone, and `reaper = "done"` means nothing is alive.

Of `GatewayKey`, for any setups, budget, cost, parallel limit and times with `Batch` < `Stable`
and `Batch + Stable` < `Settle` (10, 12 and 30 seconds in the code):
`SpecTypeOK`, `SpecClosedIsGone`, `SpecCountIsSettled`, `SpecOvershootIsBounded`.
`CloseOrder` and `KeyLife` say that nothing mints any more once close has
deleted what there was. `CountIsSettled` needs the race between the gateway's
batches and the reader's polls: `CaughtUp` says that while a reader polls, the
store is behind the run's answers only for as long as no batch was written since
the first poll, so a figure that stood still for `Stable` ticks holds them all.
`OvershootIsBounded` is arithmetic over any budget and cost.

### CodexProofs

For any finite set of threads, any starters, budget and bounds: `SpecTypeOK`,
`SpecStopIsAtCap` and `SpecReportIsExact`. A behaviour may have any number of
subagents that start subagents, and files of any length.

The reader folds `apply` over the lines a file gained; the properties count what
the file holds. Neither is bounded, so the first part shows what folds and sums
are: a fold's recursive function exists (`FoldExists`), a log after `k` lines is
`apply` of line `k` to the log after `k - 1` (`LogAtSteps`), a file that grows
keeps its earlier logs (`LogAtPrefix`), and a log that reads what its file gained
is the log of the longer prefix (`LogAtGained`). Sums grow with their sets and
their terms (`SumGrows`) and lose nothing with the threads that add nothing
(`SumDropsZeros`). The smallest prefix or set that would refute a claim
(`Upward`, `SmallestSet`) stands in for an induction.

`Tells` is the meaning of a file: after `k` lines, unless one could not be read,
the totals stated are 1 to `settled`, and `sent` says that a task or a tool's
output came after the last of them. A repeated total adds no member to a set of
totals, which is why `settle` counts it once (`TellsNext`). `Inv` then says of
each actor how far it is:

- `ReadInv`: a log is what the lines applied say. The thread's own may hold a
  problem of a subagent instead; it then counts no more than the file holds.
- `TailInv` and `FinalInv`: the follow that starts after the agent exited reads
  every file of the run to its end. `Started` is a closure over the starters, and
  a subagent's file exists only after its starter's (`FileInv`), so the sets
  `discover` finds among the files are those the run started (`StartedWithin`).
- `BaseInv` and `StaleInv`: a file an earlier run left either was found as it was
  left, or was read past the second task, so `rolloutPredates` names it.
- `StreamInv`: the stream has one turn, and a session with no turn has no total.

With no problem noted, a finished run's logs are then its files, and what the
report says is what they hold: from the files where they hold a request, and from
the stream where they hold none, whose total `judgeRollout` has compared with
them (`NoneInTheStream`).

### SessionProofs

For any runs, other sessions, starters, directories and setups: `SpecOwnTreeOnly`,
`SpecCountedOnce`.
Lines and requests are of any number. `ClaudeSessionAssumption` says of a setup
inside CI that every session of another process is a run's hook, because the
runner hosts one job (`internal/adapter/claudecode/nested.go:76`); without that,
a stranger's session would be counted, and the code means it to be. Outside CI
nothing of the kind is claimed.

`nestedSession` looks only at times, so the proof is about when sessions begin.
`Written` and `Headed` say of a file whose requests it states, that no line is of
the future and that its first line is the earliest, which is what `startedInside`
reads (`BeginsFirst`). `Alone` is what the lock and the action's step give: while
an agent is live no other is, so its window is the only open one. `Apart` orders
the runs: of two that started, one had ended before the other's window and before
anything of the other's tree began (`After`), and of a run that ended nothing
begins later than its window (`TreeBegins`). A session that started inside a
run's window is therefore of its tree (`InsideIsOwn`), and so are the requests its
files state, those copied from the run among them (`RequestsOwned`). A killed
costroid ends the order: its agent goes on while the lock is free. That is why the
property excepts it and the invariant is `Whole => Orderly`.

`SpecCountedOnce` is `CountedOnce` under `Whole`: inside CI and with no costroid
killed. `SpecOwnTreeOnly` puts all rows of a session in one run's report; that they
come to no more than it spent is a second invariant, `Counts`, which needs no
order of the runs and holds outside CI too. Its parts:

- `SoundFiles`: a usage line states a request that was sent, at one unit when it
  begins and two when it has ended; a line that states another session's request
  is a hook's copy of its starter's, whose main file has it. `Third` says why a
  copy is of an ended request: a run's main file opens, begins a request and ends it.
- `Streams`: no result says more than the requests and the side requests there
  were when it was written (`Stated`), and both only grow.
- `Books`: a run's rows are one for each id of a set and one for each total of a
  model (`MadeOf`), the ids are of requests that were sent at what a line states of
  them, each is in `counted`, and none is of the run itself where the main model's
  total is a row. While files are left to read, `counted` has every request of the
  run's main file (`Knows`), so a hook's copy of one adds nothing (`NestedBook`);
  `finishRun` starts it from all requests read, the ones in no row among them.

A row that a file gave is worth two units at most and its id is one of `begun`, so
the rows of a session are at most two for each request and the totals
(`BookBound`). The sums of the library are functions whose existence for finite
sets is proved by a smallest counterexample (`FoldExists`, `SumBound`).

### PullCheckProofs

For any commits, reviewers, runs, reports, failures and a finite set of rows:
`SpecTypeOK`, `SpecApprovalBindsHead`, `SpecConclusionFollowsReviews`,
`SpecNewestReportStands`, `SpecFiguresHold`. The two jobs' local copies are tied
to the host's state: `ReportIsRight` (an approval a report holds is one of its
commit, a failure it decided is one of the rows it and the posted checks have)
and `ApproveIsRight` (what approve posts again is its commit's newest check
until it is overtaken). `ConclusionFollowsReviews` speaks of quiet states only;
`Follows` is what holds on the way there: a conclusion on the head that the
reviews do not give has an event or an approve job of the head coming, and a
job's answer agrees with the reviews or has another job coming. `Repeats` gives
`NewestReportStands` the same way.

`SpecForkSettlesNothing` is about `ForkCheck`, with no assumption on its
constants. `LateBranches` is the strengthening: a branch at a commit that a
confirmed job is about to post on was pushed after the confirmation, so it is in
`raced`.

### The service's own life in ServiceProofs

| Theorem | Under | Inductive part |
| --- | --- | --- |
| `SpecStartIsSafe` | `StartAssumption`: each release numbers its migrations from 1 without a gap, as the files under `src/migrations` do | only the lock's holder is between its check and its last migration, so what it found stands (`Locked`); the history is a prefix (`InOrder`) |
| `SpecCallsCounted` | none | `Balanced`: written, taken and pending calls are those made and repeated |
| `SpecVerifyIsRight` | `TokenAssumption`: `Interval` <= `Lifetime` | a key id that differs between a cached set and the issuer's changed since the set was read (`ReadAt`) |
| `SpecInstallationLimits` | `InstallationAssumption`: `RequestTimeout` <= `Margin` and < `TokenLife` | a ring holds the instants of the last writes (`Ring`), so a write comes a period after the one a full ring before (`Spaced`) |

Each assumption is an `ASSUME` of its module, holds for the code's values
(`internal/oidc/oidc.go`, `internal/scm/app.go`) and is evaluated on the run.

### RulesProofs

For any finite set of kinds of row, any settings files, histories, periods and
amounts that are natural numbers (`VerdictAssumption`): `SpecConclusionIsProven`
and `SpecFailureStands`.

The first part is about `SumFunctionOnSet`, which adds up what the rows cost.
The library defines it as a recursive function over the subsets of a set, and
such a function is known only once one is shown to exist. `FoldExists` does so:
of the subsets without one, take a smallest (`SmallestSet`), and build its
function from those of the set less one element. `SumTakes` (taking any element
out, in whatever order the fold chose), `SumGrows` and `SumIsZero` follow the
same way; a smallest counterexample stands in for induction throughout.

The second part says of each rule of the pack when it fails and what a pass
needs (`RunHeld`, `PullRequestRule`, `AllowlistRule`, `LimitRule`,
`PackOutcomes`), and so what the two conclusions are in terms of the state
(`ReportConcludes`, `LedgerConcludes`). `VerdictInv` is types and
`check = BothConclusions`; `Explained` adds those characterisations. A step with
the same base settings leaves the history alone and lowers nothing (`Forward`),
so every reason for a failure stands (`ReasonsStand`): the cost by `SumGrows`.

The rest is about `Reconcile`: `SpecStoredMovesForward` and `SpecJudgedIsComplete`,
for any requests, prices and window length, either provider, and ranges that are
intervals of one month (`ReconcileAssumption`). The assumption also says that a
request's key carries no scope prefix and its scope does, which is how
`internal/reconcile/report.go` tells the two apart (`grains`).

`SpecJudgedIsComplete` is the part of `RowsAreTrue` everything else in it stands
on: a judged row was compared on every request made on its credential that day.
A pass starts with a page for each kind, grain and day (`FetchCovers`, from
`WindowsCover`, that a range's windows are intervals and miss no day, and
`FlattenHolds`). `Fetched` says what a day's page has shown once it is read: of a
day the pass counts as settled, a line for each request, because the provider
has promised it is in by then (`Promised`), and a page that came before that has
marked the day unsettled. So with no page left, every line is there (`PassLines`).

`SpecStoredMovesForward` compares two passes. `PassFollows` says that a pass
knows at least what the file knows: of a day judged it finds no page unsettled,
because `refreshed` and the clock only go forward, and after a final row it is
final. `FinalRow` is a row as a function of the day's requests and their last
figures alone. On a settled day of a closed month every pass arrives at it
(`PassRow`), and no step changes it (`FinalRowStands`), so a row replaced is
replaced by itself.

### Only model-checked

- Liveness (`Answered`, `RunEnds`, `CapStops`): the prover does
  not reach properties under fairness.
- `RunIsAccounted` of `ClaudeSession`: that the rows come to exactly what was spent
  where a result says so, and that a warning states what they lack. `Counts` bounds
  the sums from above only. `CountedOnce` where a costroid was killed, or outside CI;
  inside CI with none killed it is `SpecCountedOnce`.
- The figures in `RowsAreTrue` of `Reconcile`: sums of products of prices, and a
  missed request shows in the tokens only for counts as small as the run's, since
  the comparison forgives a hundredth.
- `RequestCountedOnce` of `Telemetry`: that the records of one request agree with
  each other is a fact about the exporters, which the run states by listing their
  exports.

## Findings

`internal/server/view.go:95`: the view and the verdict read the lines and the
gateway's count in two transactions and compare two numbers, so a row stored
between them can stand in for one that no figure covers (`docs/serve.md:91`).
`ledger_evidence` shows it.

`internal/server/serve.go:189`: the service compares the database's migrations
with its own only inside `store.Migrate`, which it calls only when it is given the
owner's connection, and `store.Open` reads nothing of the schema. An instance
without that connection therefore serves over an edited migration and over a
database ahead of it, where `docs/serve.md:27` says that "the service refuses" both.
`service_schema` shows it, and `StartIsSafe` speaks of an instance's own schema
only where the instance migrates.

The sections on `Webhook`, `GatewayKey`, `PullCheck`,
`ClaudeSession` and `TokenKeys` name where else the code and its comments part;
the models follow the code.

Two windows of the report and the approval are real and are the reason
`ConclusionFollowsReviews` and `NewestReportStands` except `overtaken`; both
fail without the exception. A review that is submitted after the report read
the reviews and before it posts starts an approve job that finds no check, or
an older one, and leaves it to "the report applies an approval when it posts"
(`cmd/costroid/approve.go:214`), which it then does not. And a report that posts
after `reconclude` read the newest check has its own check followed by the
older report's object. The next review event or re-run repairs both. The two
properties therefore do not cover these windows; what they show is that no other
order of pushes, reviews and the two jobs leads to such a check.

## Not modelled

- Field-by-field validation of bodies, the bytes of telemetry, the catalog's
  parsing and decimals, FOCUS columns, comment text: sequential transformations whose
  errors end a request before anything is stored.
- Token signatures, sealing and webhook signatures: cryptography. A check is a
  choice of its outcome.
- In `GatewayKey`: the key's expiry, the daily caps of a team and a user,
  requests of different sizes. A run attempted again mints under a new alias,
  so each attempt is a run of its own.
- In `AgentProcess`: macOS, where only the process group is killed, as
  `docs/security.md` says.
- In `CodexSession`: reading an ended run from its home directory.
- In `PullCheck`: GitLab, whose report posts a note and no check, and the approval
  button of an App, which no command calls.
- The order claim, gateway, watch, execute, finish of one `costroid run` as a
  composition: its parts are modules of their own and share no variable but the
  agent's exit.
- Lint, doctor, init, demo, validate, export: commands of one process with no
  state that outlives them.

## Plan

Everything the modules' safety properties rest on is proved but the sums above.
What could follow:

1. `ClaudeSession`: `RunIsAccounted`, with `SumBound` for both directions and what
   an unread line costs; `CountedOnce` outside CI, where one run is alone with the
   developer's sessions.
2. `Reconcile`: that equal sides match, from a sum over a set being the sum over
   its image.
