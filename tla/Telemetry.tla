----------------------------- MODULE Telemetry ------------------------------
(***************************************************************************)
(* OpenTelemetry ingest: agents and gateways describe one model request in *)
(* spans and in log records, each exporter sends them in batches of one    *)
(* signal and sends a batch again until it is answered, and the ledger     *)
(* keeps one row per request id and token class. A run of the wrapper may  *)
(* post the same request's rows itself.                                    *)
(***************************************************************************)
EXTENDS Integers, FiniteSets, FiniteSetsExt

CONSTANTS
  Exports,    \* sets of span and log records, one of which is exported
  MaxTokens,  \* the bound on one count
  Posted      \* requests a run posts as rows of its own

VARIABLES
  outbox,     \* records not answered yet
  landed,     \* the ledger's rows
  told,       \* ghost: requests a stored batch held the counting record of
  heard       \* ghost: how each stored batch stated a request's cache writes

telemetryVars == <<outbox, landed, told, heard>>

(* The classes a price is put on; the two others repeat tokens of these.   *)
Billed == {"input_uncached", "cache_read", "write5m", "write1h", "write30m", "output"}
Writes == {"write5m", "write1h", "write30m"}

-----------------------------------------------------------------------------
(* interpret: one record, one request's usage, or nothing.                 *)

EventNames == {"api_request", "cursor.api.request"}

(* A log without an event name is named by a body that is one.             *)
nameOf(r) == IF r.log /\ r.name = "" /\ r.body \in EventNames THEN r.body ELSE r.name

dialectOf(r) ==
  IF nameOf(r) = "api_request" \/ r.service = "claude-code" THEN "claude-code"
  ELSE IF nameOf(r) = "cursor.api.request" \/ r.service = "cursor" \/ r.spelled = "cursor" THEN "cursor"
  ELSE IF r.service \in {"codex", "copilot", "opencode"} THEN r.service
  ELSE "genai"

claudeRequestEvent(r) == r.log /\ nameOf(r) = "api_request"

(* The names a dialect's counts are read under.                            *)
readerOf(dialect) == IF dialect \in {"claude-code", "cursor"} THEN dialect ELSE "genai"

(* Mutant: every record with counts counts.                                *)
CountEveryRecord(r) == r.counts # {}

(* readCounts: where a dialect reports a request twice, one report counts. *)
readCounts(r) ==
  /\ r.counts # {} /\ r.spelled = readerOf(dialectOf(r))
  /\ dialectOf(r) = "claude-code" => claudeRequestEvent(r)
  /\ dialectOf(r) = "codex" => ~r.log

providerOf(r) ==
  CASE dialectOf(r) = "claude-code" -> "anthropic"
    [] dialectOf(r) = "codex" -> "openai"
    [] OTHER -> r.provider

(* requestID: the provider's id, or the span, or what the record says.     *)
requestID(r) ==
  IF r.id # "" THEN <<r.id>>
  ELSE IF r.span # "" THEN <<"span", r.span>>
  ELSE <<"record", r.at, nameOf(r), r.model>>

Counts(r) == CHOOSE c \in r.counts : TRUE

written(c) == Max({c.cacheWrite, c.write5m + c.write1h})

uncached(r) ==
  LET c == Counts(r) IN
  IF r.spelled = "genai" THEN c.input - c.cacheRead - written(c) ELSE c.input

(* A count the reader refuses, or counts that cannot be one request.       *)
readable(r) ==
  LET c == Counts(r) IN
  /\ \A k \in DOMAIN c : c[k] \in 0 .. MaxTokens
  /\ providerOf(r) # ""
  /\ uncached(r) >= 0 /\ c.reasoning <= c.output

(* addWrites: a lifetime the record leaves open takes the provider's rule. *)
assumedWrite(r) ==
  LET c == Counts(r) IN
  CASE written(c) = c.write5m + c.write1h -> ""
    [] OTHER -> CASE providerOf(r) = "openai" -> "write30m"
                  [] providerOf(r) # "openai" /\ dialectOf(r) = "claude-code" /\ r.basis = "list-equivalent" -> "write1h"
                  [] OTHER -> "write5m"

applyCounts(r) ==
  LET c == Counts(r)
      rest(class) == IF class = assumedWrite(r) THEN written(c) - c.write5m - c.write1h ELSE 0
  IN [class \in Billed \cup {"reasoning", "cached_reported"} |->
        CASE class = "input_uncached" -> uncached(r)
          [] class \in {"cache_read", "cached_reported"} -> c.cacheRead
          [] class = "write5m" -> c.write5m + rest(class)
          [] class = "write1h" -> c.write1h + rest(class)
          [] class = "write30m" -> rest(class)
          [] class = "output" -> c.output
          [] class = "reasoning" -> c.reasoning]

(* The record's status and usage.                                          *)
interpret(r) ==
  [id |-> requestID(r), provider |-> providerOf(r), model |-> r.model, assumed |-> assumedWrite(r),
   counts |-> applyCounts(r), of |-> r.request, future |-> r.future]

withoutWrites(counts) ==
  [class \in (DOMAIN counts \ Writes) \cup {"writes"} |->
     IF class = "writes" THEN MapThenSumSet(LAMBDA w : counts[w], Writes) ELSE counts[class]]

sameButLifetime(a, b) ==
  /\ a.id = b.id /\ a.provider = b.provider /\ a.model = b.model
  /\ withoutWrites(a.counts) = withoutWrites(b.counts)

(* keepStatedSplits: within one batch, the record that states the          *)
(* lifetimes wins over one that assumed them.                              *)
keepStatedSplits(usages) ==
  {a \in usages : a.assumed = "" \/ ~\E b \in usages : b.assumed = "" /\ sameButLifetime(a, b)}

(* A record that does not decode is rejected alone in JSON, and refuses    *)
(* the whole body in protobuf.                                             *)
decodeJSON(batch) == {r \in batch : ~r.undecodable}
decodeProtobuf(batch) == IF \E r \in batch : r.undecodable THEN {} ELSE batch

decode(batch, encoding) == IF encoding = "json" THEN decodeJSON(batch) ELSE decodeProtobuf(batch)

malformed(batch, encoding) == encoding = "protobuf" /\ decodeProtobuf(batch) = {}

usable(r) == readCounts(r) /\ readable(r) /\ r.tagged

(* Parse, then the usages whose model and agent fit a tag.                 *)
Parse(batch, encoding) ==
  keepStatedSplits({interpret(r) : r \in {r \in decode(batch, encoding) : usable(r)}})

(* chargesOf: a row for each class with tokens.                            *)
chargesOf(usages) ==
  {[id |-> u.id, class |-> class, tokens |-> u.counts[class], of |-> u.of] :
     <<u, class>> \in {p \in usages \X (Billed \cup {"reasoning", "cached_reported"}) : p[1].counts[p[2]] > 0}}

sameRow(a, b) == a.id = b.id /\ a.class = b.class

(* Ingest: the first row of an id stands.                                  *)
Ingest(charges) ==
  landed \cup {c \in charges : /\ ~\E row \in landed : sameRow(row, c)
                               /\ c = CHOOSE d \in charges : sameRow(d, c)}

(* Which kinds of statement about its writes a request came with.          *)
Statements(usages) ==
  {[of |-> q, stated |-> \E u \in usages : u.of = q /\ u.assumed = ""] : q \in {u.of : u \in usages}}

-----------------------------------------------------------------------------
TelemetryInit ==
  /\ outbox \in Exports
  /\ landed = {} /\ told = {} /\ heard = {}

Batches(log) == SUBSET {r \in outbox : r.log = log} \ {{}}

(* A body that does not decode, or a row that starts in the future, is     *)
(* answered with an error no exporter retries.                             *)
Refuse(batch, encoding) ==
  /\ malformed(batch, encoding) \/ \E u \in Parse(batch, encoding) : u.future
  /\ outbox' = outbox \ batch
  /\ UNCHANGED <<landed, told, heard>>

(* handleTelemetry: the whole batch is stored. When the answer is lost the *)
(* exporter sends the records again, in the same batch or in others.       *)
handleTelemetry(batch, encoding, answered) ==
  /\ ~malformed(batch, encoding)
  /\ \A u \in Parse(batch, encoding) : ~u.future
  /\ landed' = Ingest(chargesOf(Parse(batch, encoding)))
  /\ heard' = heard \cup Statements(Parse(batch, encoding))
  /\ told' = told \cup {r.request : r \in {r \in batch : r.counted}}
  /\ outbox' = IF answered THEN outbox \ batch ELSE outbox

(* handleRows: the wrapper's own rows of a request, from the counts the    *)
(* agent's stream gives it under the same id.                              *)
handleRows(r) ==
  /\ r.request \in Posted /\ claudeRequestEvent(r)
  /\ landed' = Ingest(chargesOf({interpret(r)}))
  /\ heard' = heard \cup Statements({interpret(r)})
  /\ UNCHANGED <<outbox, told>>

TelemetryNext ==
  \/ \E log \in BOOLEAN, encoding \in {"json", "protobuf"} : \E batch \in Batches(log) :
       Refuse(batch, encoding) \/ \E answered \in BOOLEAN : handleTelemetry(batch, encoding, answered)
  \/ \E r \in UNION Exports : handleRows(r)

TelemetrySpec == TelemetryInit /\ [][TelemetryNext]_telemetryVars

-----------------------------------------------------------------------------
(* Properties.                                                             *)

Tokens(q) == MapThenSumSet(LAMBDA row : row.tokens, {row \in landed : row.of = q /\ row.class \in Billed})

(* Batches agree on a request's writes: none only assumed a lifetime that  *)
(* another one stated.                                                     *)
Coherent(q) == Cardinality({h.stated : h \in {h \in heard : h.of = q}}) < 2

(* A request is counted once and whole: whichever of its spans and logs    *)
(* arrive, over however many batches, retries and encodings, the billed    *)
(* rows the ledger holds for it are none or sum to the tokens it used, and *)
(* once a batch with a usable record of it is stored they are not none     *)
(* (readCounts, applyCounts, keepStatedSplits, requestID, Store.Ingest).   *)
RequestCountedOnce ==
  \A q \in {r.request : r \in UNION Exports} : Coherent(q) =>
    /\ Tokens(q) \in {0, q.tokens}
    /\ q \in told => Tokens(q) = q.tokens
=============================================================================
