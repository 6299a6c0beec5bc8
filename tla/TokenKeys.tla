----------------------------- MODULE TokenKeys ------------------------------
(***************************************************************************)
(* Who a CI token is: the service verifies it with the issuer's keys,      *)
(* which it caches and fetches through the egress gate, while the issuer   *)
(* rotates them. One verification at a time holds the cache's lock.        *)
(***************************************************************************)
EXTENDS Integers, FiniteSets

CONSTANTS
  Kids,       \* key ids of the issuer
  Tokens,     \* tokens presented
  Lifetime,   \* keySetLifetime
  Interval,   \* refetchInterval
  Timeout,    \* keySetTimeout, the HTTP client's
  Skew,       \* clockSkew
  MaxClock    \* bound on the clock

ASSUME TokenAssumption ==
  /\ Lifetime \in Nat \ {0} /\ Interval \in Nat \ {0} /\ Timeout \in Nat /\ Skew \in Nat
  /\ Interval <= Lifetime
  /\ \A t \in Tokens :
       /\ t.audience \in BOOLEAN /\ t.alg \in BOOLEAN /\ t.claims \in BOOLEAN /\ t.bound \in BOOLEAN
       /\ t.exp \in Int /\ t.nbf \in Int

VARIABLES
  clock,
  allowed,    \* whether the allowlist holds the issuer's host
  published,  \* key ids the issuer publishes
  since,      \* when each key id was last published or withdrawn
  cache,      \* issuerKeys: keys, and the time of the fetch (-1 for never)
  verifying,  \* the verification that holds the cache's lock
  verdict     \* the last verification's answer

tokenVars == <<clock, allowed, published, since, cache, verifying, verdict>>

Idle == [step |-> "idle"]

TokenInit ==
  /\ clock = 0 /\ allowed \in BOOLEAN
  /\ published \in SUBSET Kids \ {{}} /\ since = [k \in Kids |-> 0]
  /\ cache = [keys |-> {}, fetched |-> -1]
  /\ verifying = Idle /\ verdict = Idle

-----------------------------------------------------------------------------
(* Verifier.Verify.                                                        *)

Age == clock - cache.fetched

(* Mutant: a known key is served however old the set is.                   *)
KnownForever(kid) == kid \in cache.keys

(* The key is served from the cache.                                       *)
fresh(kid) == kid \in cache.keys /\ Age < Lifetime

(* An unknown key id does not fetch again so soon.                         *)
tooSoon == cache.fetched # -1 /\ Age < Interval

checkRegistered(t) ==
  /\ t.audience
  /\ clock - Skew < t.exp
  /\ clock + Skew >= t.nbf

checkSignature(t) == t.signer = t.kid

(* The claims name a run this service can read.                            *)
readIdentity(t) == t.claims

Verify(t, key) == key /\ checkSignature(t) /\ checkRegistered(t) /\ readIdentity(t)

(* authenticateToken, once the key is settled.                             *)
Judge(t, key, fetch) ==
  [step |-> "answered", token |-> t, at |-> clock, fetch |-> fetch,
   status |-> CASE fetch = "refused" /\ ~key -> 503
                [] ~(fetch = "refused" /\ ~key) /\ ~Verify(t, key) -> 401
                [] OTHER -> IF t.bound THEN 200 ELSE 403]

(* A token of another algorithm or issuer is refused before any key.       *)
Malformed(t) ==
  /\ verifying = Idle
  /\ ~t.alg
  /\ verdict' = [Judge(t, FALSE, "none") EXCEPT !.status = 401]
  /\ UNCHANGED <<clock, allowed, published, since, cache, verifying>>

(* key, without a fetch.                                                   *)
FromCache(t) ==
  /\ verifying = Idle /\ t.alg
  /\ fresh(t.kid) \/ tooSoon
  /\ verdict' = Judge(t, fresh(t.kid), "none")
  /\ UNCHANGED <<clock, allowed, published, since, cache, verifying>>

(* key, up to the gate: a host off the list is refused there.              *)
Ask(t) ==
  /\ verifying = Idle /\ t.alg
  /\ ~fresh(t.kid) /\ ~tooSoon
  /\ IF allowed
       THEN /\ verifying' = [step |-> "asked", token |-> t, at |-> clock]
            /\ UNCHANGED verdict
       ELSE /\ verdict' = Judge(t, t.kid \in cache.keys, "refused")
            /\ UNCHANGED verifying
  /\ UNCHANGED <<clock, allowed, published, since, cache>>

(* The issuer answers with the keys it publishes at that instant.          *)
IssuerAnswers ==
  /\ verifying.step = "asked"
  /\ verifying' = [step |-> "answered", token |-> verifying.token, at |-> verifying.at, keys |-> published]
  /\ UNCHANGED <<clock, allowed, published, since, cache, verdict>>

(* fetch succeeds: the set replaces the cached one whole.                  *)
Fetched ==
  /\ verifying.step = "answered"
  /\ cache' = [keys |-> verifying.keys, fetched |-> clock]
  /\ verdict' = Judge(verifying.token, verifying.token.kid \in verifying.keys, "read")
  /\ verifying' = Idle
  /\ UNCHANGED <<clock, allowed, published, since>>

(* fetch fails: no answer, or an answer that is no key set. The cache      *)
(* stays, its time too, and a key it knows is served however old.          *)
FetchFails ==
  /\ verifying.step \in {"asked", "answered"}
  /\ verdict' = Judge(verifying.token, verifying.token.kid \in cache.keys, "failed")
  /\ verifying' = Idle
  /\ UNCHANGED <<clock, allowed, published, since, cache>>

(* The issuer rotates its keys.                                            *)
Rotate(k) ==
  /\ published' = IF k \in published THEN published \ {k} ELSE published \cup {k}
  /\ since' = [since EXCEPT ![k] = clock]
  /\ UNCHANGED <<clock, allowed, cache, verifying, verdict>>

TokenTick ==
  /\ clock < MaxClock
  /\ verifying # Idle => clock - verifying.at < Timeout
  /\ clock' = clock + 1
  /\ UNCHANGED <<allowed, published, since, cache, verifying, verdict>>

TokenNext ==
  \/ \E t \in Tokens : Malformed(t) \/ FromCache(t) \/ Ask(t)
  \/ IssuerAnswers \/ Fetched \/ FetchFails
  \/ TokenTick \/ \E k \in Kids : Rotate(k)

TokenSpec == TokenInit /\ [][TokenNext]_tokenVars

-----------------------------------------------------------------------------
(* Properties.                                                             *)

Just == verdict # Idle /\ verdict.at = clock

Proper(t) == t.alg /\ t.signer = t.kid /\ t.audience /\ t.claims /\ t.bound

InTime(t) == clock - Skew < t.exp /\ clock + Skew >= t.nbf

(* A token is accepted only when the issuer signed it for this service,    *)
(* inside its time, with a key that is published, or was until less than a *)
(* key set's lifetime and a request ago unless the issuer cannot be read;  *)
(* and such a token is refused only when the issuer cannot be read or the  *)
(* key is newer than the refetch interval, in whatever order keys rotate,  *)
(* fetches fail and the set grows old (Verify, key, fetch,                 *)
(* checkRegistered, authenticateToken).                                    *)
VerifyIsRight ==
  Just => LET t == verdict.token
              recent(limit) == clock - since[t.kid] < limit
              unread == verdict.fetch \in {"failed", "refused"}
          IN IF verdict.status = 200
               THEN Proper(t) /\ InTime(t) /\ (t.kid \in published \/ recent(Lifetime + Timeout) \/ unread)
               ELSE Proper(t) /\ InTime(t) =>
                      t.kid \notin published \/ recent(Interval + Timeout) \/ unread
=============================================================================
