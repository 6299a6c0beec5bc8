---------------------------- MODULE Installation ----------------------------
(***************************************************************************)
(* A GitHub App's installation: the limiter, which holds writes to two     *)
(* rolling windows and requests to a number in flight, and the cache of    *)
(* the installation's token. Both work under one lock a call.              *)
(***************************************************************************)
EXTENDS Integers, FiniteSets, FiniteSetsExt, Sequences

CONSTANTS
  PerMinute, Minute,   \* writesPerMinute, and the length of the short window
  PerHour, Hour,       \* writesPerHour, and the length of the long one
  MaxConcurrent,       \* maxConcurrent
  Margin,              \* tokenMargin
  RequestTimeout,      \* requestTimeout, shorter than the margin
  TokenLife,           \* how long GitHub makes a token live
  MaxTick              \* bound on the clock

ASSUME InstallationAssumption ==
  /\ PerMinute \in Nat \ {0} /\ PerHour \in Nat \ {0} /\ Minute \in Nat /\ Hour \in Nat
  /\ MaxConcurrent \in Nat /\ Margin \in Nat /\ RequestTimeout \in Nat /\ TokenLife \in Nat
  /\ RequestTimeout <= Margin /\ RequestTimeout < TokenLife

VARIABLES
  tick,       \* the clock
  minute, hour,        \* the buckets: a ring of the instants tokens were spent at
  inFlight,   \* the requests in flight by place
  token,      \* expiry of the token held, 0 for none
  writes      \* instants of the writes admitted, in order

installationVars == <<tick, minute, hour, inFlight, token, writes>>

newBucket(limit) == [spent |-> [i \in 1 .. limit |-> -1], next |-> 1]

(* Mutant: a token is back one instant before its period has passed.       *)
WaitShort(b, period) ==
  IF b.spent[b.next] = -1 THEN 0 ELSE Max({b.spent[b.next] + period - 1 - tick, 0})

(* wait: the ring's next place holds the oldest instant, -1 when unused.   *)
wait(b, period) ==
  IF b.spent[b.next] = -1 THEN 0 ELSE Max({b.spent[b.next] + period - tick, 0})

take(b) ==
  [spent |-> [b.spent EXCEPT ![b.next] = tick], next |-> (b.next % Len(b.spent)) + 1]

InstallationInit ==
  /\ tick = 0 /\ minute = newBucket(PerMinute) /\ hour = newBucket(PerHour)
  /\ inFlight = [n \in 1 .. MaxConcurrent |-> [step |-> "free"]] /\ token = 0 /\ writes = <<>>

Places == 1 .. MaxConcurrent

free == {n \in Places : inFlight[n].step = "free"}

(* Admit: a place for one request, and for a write a token of each bucket. *)
(* A refused request takes nothing.                                        *)
Admit(n, write) ==
  /\ n \in free
  /\ inFlight' = [inFlight EXCEPT ![n] = [step |-> "admitted"]]
  /\ \/ /\ write /\ Max({wait(minute, Minute), wait(hour, Hour)}) = 0
        /\ minute' = take(minute) /\ hour' = take(hour) /\ writes' = Append(writes, tick)
     \/ ~write /\ UNCHANGED <<minute, hour, writes>>
  /\ UNCHANGED <<tick, token>>

held == token # 0 /\ tick + Margin < token

(* AppTokens.Token: the held token while it outlives the margin, a newly   *)
(* minted one otherwise. The request is sent on it.                        *)
Token(n) ==
  /\ inFlight[n].step = "admitted"
  /\ token' = IF held THEN token ELSE tick + TokenLife
  /\ inFlight' = [inFlight EXCEPT ![n] = [step |-> "sent", at |-> tick, expires |-> token']]
  /\ UNCHANGED <<tick, minute, hour, writes>>

(* The request ends, or its token could not be minted: the place is given  *)
(* back and the write stays spent.                                         *)
Release(n) ==
  /\ inFlight[n].step = "sent" \/ (inFlight[n].step = "admitted" /\ ~held)
  /\ inFlight' = [inFlight EXCEPT ![n] = [step |-> "free"]]
  /\ UNCHANGED <<tick, minute, hour, token, writes>>

(* The client's timeout ends every request.                                *)
Pass ==
  /\ tick < MaxTick
  /\ \A n \in Places : inFlight[n].step = "sent" => tick - inFlight[n].at < RequestTimeout
  /\ tick' = tick + 1
  /\ UNCHANGED <<minute, hour, inFlight, token, writes>>

InstallationNext ==
  \/ \E n \in Places : (\E write \in BOOLEAN : Admit(n, write)) \/ Token(n) \/ Release(n)
  \/ Pass

InstallationSpec == InstallationInit /\ [][InstallationNext]_installationVars

-----------------------------------------------------------------------------
(* Properties.                                                             *)

Within(t, period) == Cardinality({i \in DOMAIN writes : writes[i] \in t - period + 1 .. t})

(* The writes admitted stay inside GitHub's limits over every rolling      *)
(* window, a burst before and one after included, whatever the order of    *)
(* admissions and refusals and though a failed mint gives no write back,   *)
(* and a request's token is live until the request ends (Limiter.Admit,    *)
(* bucket, AppTokens.Token, GitHub.do).                                    *)
InstallationLimits ==
  /\ \A t \in 0 .. tick : Within(t, Minute) <= PerMinute /\ Within(t, Hour) <= PerHour
  /\ \A n \in Places : inFlight[n].step = "sent" => tick < inFlight[n].expires
=============================================================================
