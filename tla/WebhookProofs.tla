---------------------------- MODULE WebhookProofs ---------------------------
(***************************************************************************)
(* Theorems about module Webhook, for any number of deliveries and         *)
(* requests, any payloads, queue size and time, and any replay window and  *)
(* retention with twice the window below the retention.                    *)
(***************************************************************************)
EXTENDS Webhook, TLAPS, WellFoundedInduction, SequenceTheorems

Entry == [d : Delivery, at : Nat]
Request == [step : {"free", "claim", "offer", "release"}, d : Delivery \cup {None}, now : Nat]

Types ==
  /\ clock \in Nat /\ seen \subseteq Delivery /\ claims \in Seq(Entry)
  /\ queue \in Seq(Delivery) /\ Len(queue) <= Size
  /\ handler \in [Handler -> Request]
  /\ claimedAt \in [Delivery -> Nat \cup {None}]
  /\ queued \in [Delivery -> Nat] /\ told \in [Delivery -> SUBSET Nat]

(* The instant lies within the replay window of the one the event states. *)
Inside(d, now) == Event(d).at # None => now <= Event(d).at + Window /\ Event(d).at <= now + Window

(* A request past its checks carries an event within its window, and read  *)
(* the clock in this tick or the last.                                     *)
Flying ==
  \A h \in Handler : handler[h].step # "free" =>
    /\ handler[h].d \in Events /\ Inside(handler[h].d, handler[h].now)
    /\ handler[h].now <= clock /\ clock <= handler[h].now + 1

(* Every entry is of such a request. *)
EntriesInside ==
  \A n \in DOMAIN claims : Inside(claims[n].d, claims[n].at) /\ claims[n].at <= clock

(* The request h holds the claim of d. *)
Holds(h, d) == handler[h].step \in {"offer", "release"} /\ handler[h].d = d

(* An event that states its instant has one holder until it is queued, and *)
(* none after that.                                                        *)
OneHolder ==
  \A d \in Delivery : Payload[d].name = "pull_request" =>
    /\ queued[d] <= 1
    /\ \A g, h \in Handler : Holds(g, d) /\ Holds(h, d) => g = h
    /\ queued[d] = 1 => \A h \in Handler : ~Holds(h, d)

(* While it is held or once it is queued, its id refuses replays until its *)
(* instant does, in every request still under way.                         *)
RefusedTillOutside ==
  \A d \in Delivery :
    /\ Payload[d].name = "pull_request"
    /\ queued[d] = 1 \/ \E h \in Handler : Holds(h, d)
    => d \in seen \/ clock > Event(d).at + Window + 1

(* An id that was never released has the one entry of its standing claim,  *)
(* and refuses while it has it.                                            *)
OneEntryOf(d, entries, at, ids) ==
  /\ \A m, n \in DOMAIN entries : entries[m].d = d /\ entries[n].d = d => m = n
  /\ \A n \in DOMAIN entries : entries[n].d = d => entries[n].at = at /\ d \in ids

OneEntry == \A d \in Delivery \ released : OneEntryOf(d, claims, claimedAt[d], seen)

QueuedAreEvents == \A d \in Delivery : queued[d] > 0 => d \in Events

SeenHasEntry == \A d \in seen : \E n \in DOMAIN claims : claims[n].d = d

(* An id that refuses was queued or is still held. *)
SeenIsBacked ==
  \A d \in seen : queued[d] > 0 \/ \E h \in Handler : Holds(h, d)

ToldIsBacked ==
  \A d \in Delivery : told[d] # {} =>
    queued[d] > 0 \/ told[d] \cap {403, 503} # {} \/ \E h \in Handler : Holds(h, d)

Inv ==
  /\ Types /\ Flying /\ EntriesInside /\ OneHolder /\ RefusedTillOutside /\ OneEntry
  /\ SeenHasEntry /\ SeenIsBacked /\ ToldIsBacked /\ HeldUnlessReleased /\ QueuedAreEvents

-----------------------------------------------------------------------------
(* A nonempty set of numbers has a least one. *)
LEMMA LeastNumber ==
  ASSUME NEW T, T \subseteq Nat, T # {}
  PROVE  \E x \in T : \A y \in T : x <= y
<1> DEFINE R == OpToRel(<, Nat)
<1>1. IsWellFoundedOn(R, Nat)
  BY NatLessThanWellFounded
<1>2. \A a, b \in Nat : a < b => <<a, b>> \in R
  BY DEF OpToRel
<1> HIDE DEF R
<1>3. PICK x \in T : \A y \in T : ~ (<<y, x>> \in R)
  BY <1>1, WFMin
<1>4. \A y \in T : ~(y < x)
  BY <1>2, <1>3
<1> QED BY <1>3, <1>4

(* What a delivery that reaches the queue says. *)
LEMMA EventSays ==
  ASSUME NEW d \in Events
  PROVE  /\ d \in Delivery /\ Event(d).at \in Nat \cup {None}
         /\ Payload[d].signed /\ Payload[d].common /\ Payload[d].subject
         /\ \/ Payload[d].name = "pull_request" /\ Payload[d].updatedAt # None /\ Event(d).at \in Nat
            \/ Payload[d].name = "check_run" /\ Payload[d].requested /\ Payload[d].button
<1>1. /\ d \in Delivery /\ Payload[d].signed /\ Event(d).kind = "event"
      /\ Payload[d].updatedAt \in Nat \cup {None} /\ None \notin Nat
  BY WebhookAssumption DEF Events
<1>2. Bad.kind # "event" /\ Ignored.kind # "event"
  BY DEF Bad, Ignored
<1>3. Payload[d].name \in {"pull_request", "check_run"} /\ Payload[d].common
  BY <1>1, <1>2 DEF Event, ParseEvent
<1>4. CASE Payload[d].name = "pull_request"
  <2>1. Event(d) = pullRequest(Payload[d])
    BY <1>3, <1>4 DEF Event, ParseEvent
  <2>2. /\ Payload[d].subject /\ Payload[d].updatedAt # None
        /\ Event(d) = [kind |-> "event", at |-> Payload[d].updatedAt]
    BY <1>1, <1>2, <2>1 DEF pullRequest
  <2> QED BY <1>1, <1>3, <1>4, <2>2
<1>5. CASE Payload[d].name = "check_run"
  <2>1. Event(d) = checkRun(Payload[d])
    BY <1>3, <1>5 DEF Event, ParseEvent
  <2>2. /\ Payload[d].subject /\ Payload[d].requested /\ Payload[d].button
        /\ Event(d) = [kind |-> "event", at |-> None]
    BY <1>1, <1>2, <2>1 DEF checkRun
  <2> QED BY <1>1, <1>3, <1>5, <2>2
<1> QED BY <1>3, <1>4, <1>5

(* A Claim expires a prefix of the entries, every one of them past its     *)
(* retention.                                                              *)
LEMMA ExpiredIsPrefix ==
  ASSUME claims \in Seq(Entry), NEW now \in Nat
  PROVE  /\ Expired(now) \in 0 .. Len(claims)
         /\ \A m \in 1 .. Expired(now) : now > claims[m].at + Retention
<1> DEFINE stale(m) == now > claims[m].at + Retention
           T == {n \in 0 .. Len(claims) : n < Len(claims) => ~stale(n + 1)}
<1>1. Len(claims) \in Nat /\ \A m \in 1 .. Len(claims) : claims[m].at \in Nat
  <2>1. Len(claims) \in Nat /\ \A m \in 1 .. Len(claims) : claims[m] \in Entry
    OBVIOUS
  <2> QED BY <2>1 DEF Entry
<1>2. PICK n \in T : \A m \in T : n <= m
  <2>1. Len(claims) \in T /\ T \subseteq Nat
    BY <1>1
  <2> HIDE DEF T
  <2> QED BY <2>1, LeastNumber
<1>3. \A m \in 1 .. n : stale(m)
  <2> SUFFICES ASSUME NEW m \in 1 .. n, ~stale(m) PROVE FALSE
    OBVIOUS
  <2>1. m - 1 \in T
    BY <1>1, <1>2
  <2>2. n <= m - 1
    <3> HIDE DEF T
    <3> QED BY <1>2, <2>1
  <2> QED BY <1>1, <1>2, <2>2
<1>4. n < Len(claims) => now <= claims[n + 1].at + Retention
  BY <1>1, <1>2, WebhookAssumption
<1>5. n \in 0 .. Len(claims)
  BY <1>2
<1> HIDE DEF T
<1> QED BY <1>3, <1>4, <1>5 DEF Expired

LEMMA RestOfClaims ==
  ASSUME claims \in Seq(Entry), NEW n \in 0 .. Len(claims),
         NEW rest, rest = SubSeq(claims, n + 1, Len(claims))
  PROVE  /\ rest \in Seq(Entry) /\ Len(rest) = Len(claims) - n
         /\ DOMAIN rest = 1 .. Len(claims) - n
         /\ \A k \in DOMAIN rest : rest[k] = claims[k + n] /\ k + n \in DOMAIN claims
<1>1. /\ Len(claims) \in Nat /\ DOMAIN claims = 1 .. Len(claims)
      /\ \A i \in 1 .. Len(claims) : claims[i] \in Entry
  OBVIOUS
<1>2. /\ rest \in Seq(Entry)
      /\ Len(rest) = IF n + 1 <= Len(claims) THEN Len(claims) - (n + 1) + 1 ELSE 0
      /\ \A i \in 1 .. Len(claims) - (n + 1) + 1 : rest[i] = claims[(n + 1) + i - 1]
  BY <1>1, SubSeqProperties
<1>3. Len(rest) = Len(claims) - n
  <2>1. \A a, l : a \in Nat /\ l = (IF n + 1 <= a THEN a - (n + 1) + 1 ELSE 0) /\ n \in 0 .. a
                  => l = a - n
    OBVIOUS
  <2> QED BY <1>1, <1>2, <2>1
<1>4. DOMAIN rest = 1 .. Len(rest)
  BY <1>2
<1>5. \A k \in 1 .. Len(claims) - n : rest[k] = claims[k + n] /\ k + n \in 1 .. Len(claims)
  <2> TAKE k \in 1 .. Len(claims) - n
  <2>1. k \in 1 .. Len(claims) - (n + 1) + 1 /\ (n + 1) + k - 1 = k + n
    BY <1>1
  <2>2. rest[k] = claims[k + n]
    BY <1>2, <2>1
  <2> QED BY <1>1, <2>2
<1> QED BY <1>1, <1>2, <1>3, <1>4, <1>5

LEMMA FreeIsRequest == Free \in Request /\ Free.step = "free"
  BY DEF Free, Request

-----------------------------------------------------------------------------
LEMMA InitInv == Init => Inv
<1> SUFFICES ASSUME Init PROVE Inv
  OBVIOUS
<1>1. handler \in [Handler -> Request] /\ \A h \in Handler : handler[h].step = "free"
  BY FreeIsRequest DEF Init
<1>2. claims \in Seq(Entry) /\ queue \in Seq(Delivery) /\ Len(queue) = 0 /\ DOMAIN claims = {}
  BY DEF Init
<1>3. Types
  BY <1>1, <1>2, WebhookAssumption DEF Init, Types
<1>4. Flying /\ EntriesInside /\ OneEntry
  BY <1>1, <1>2 DEF Flying, EntriesInside, OneEntry, OneEntryOf
<1>5. OneHolder /\ RefusedTillOutside
  BY <1>1 DEF Init, OneHolder, RefusedTillOutside, Holds
<1>6. SeenHasEntry /\ SeenIsBacked /\ ToldIsBacked /\ HeldUnlessReleased /\ QueuedAreEvents
  BY DEF Init, SeenHasEntry, SeenIsBacked, ToldIsBacked, HeldUnlessReleased, QueuedAreEvents
<1> QED BY <1>3, <1>4, <1>5, <1>6 DEF Inv

(* A request that takes in a delivery, or refuses it before its claim. *)
LEMMA ReceiveInv ==
  ASSUME Inv, NEW h \in Handler, NEW d \in Delivery, Receive(h, d)
  PROVE  Inv'
<1>1. /\ handler[h].step = "free"
      /\ clock' = clock /\ seen' = seen /\ claims' = claims /\ queue' = queue
      /\ claimedAt' = claimedAt /\ released' = released /\ queued' = queued
  BY DEF Receive
<1>2. PICK r \in Request, t \in SUBSET {403} :
        /\ handler' = [handler EXCEPT ![h] = r] /\ told' = [told EXCEPT ![d] = @ \cup t]
        /\ \/ r.step = "free"
           \/ /\ r.step = "claim" /\ r.d = d /\ r.now = clock
              /\ d \in Events /\ Inside(d, clock)
  <2>1. [told EXCEPT ![d] = @ \cup {}] = told
    BY DEF Inv, Types
  <2>2. CASE d \notin Events
    <3>1. handler' = [handler EXCEPT ![h] = Free] /\ told' = [told EXCEPT ![d] = @]
      <4>1. ~Payload[d].signed \/ Event(d).kind # "event"
        BY <2>2 DEF Events
      <4>2. Event(d).kind \in {"ignored", "bad", "event"}
        BY DEF Event, ParseEvent, pullRequest, checkRun, Bad, Ignored
      <4> QED BY <2>2, <4>1, <4>2 DEF Receive, Answer
    <3>2. told' = told
      BY <3>1 DEF Inv, Types
    <3> QED BY <2>1, <3>1, <3>2, FreeIsRequest
  <2>3. CASE d \in Events /\ outsideWindow(Event(d).at, clock)
    <3>1. handler' = [handler EXCEPT ![h] = Free] /\ told' = [told EXCEPT ![d] = @ \cup {403}]
      BY <2>3 DEF Receive, Answer, Events
    <3> QED BY <3>1, FreeIsRequest
  <2>4. CASE d \in Events /\ ~outsideWindow(Event(d).at, clock)
    <3> DEFINE r == [step |-> "claim", d |-> d, now |-> clock]
    <3>1. handler' = [handler EXCEPT ![h] = r] /\ told' = told
      BY <2>4 DEF Receive, Events
    <3>2. r \in Request
      BY DEF Request, Inv, Types
    <3>3. Inside(d, clock)
      BY <2>4, EventSays, WebhookAssumption DEF outsideWindow, Inside, Inv, Types
    <3> QED BY <2>1, <2>4, <3>1, <3>2, <3>3
  <2> QED BY <2>2, <2>3, <2>4
<1>3. /\ handler' \in [Handler -> Request] /\ handler'[h] = r
      /\ \A g \in Handler \ {h} : handler'[g] = handler[g]
  BY <1>2 DEF Inv, Types
<1>4. \A g \in Handler, e \in Delivery : Holds(g, e)' <=> Holds(g, e)
  BY <1>1, <1>2, <1>3 DEF Holds
<1>5. /\ told' \in [Delivery -> SUBSET Nat] /\ told'[d] = told[d] \cup t
      /\ \A e \in Delivery \ {d} : told'[e] = told[e]
  <2>1. told \in [Delivery -> SUBSET Nat] /\ t \subseteq Nat
    BY <1>2 DEF Inv, Types
  <2>2. told[d] \subseteq Nat
    BY <2>1
  <2>3. told[d] \cup t \in SUBSET Nat
    BY <2>1, <2>2, Zenon
  <2> QED BY <1>2, <2>1, <2>3
<1>6. Types'
  BY <1>1, <1>3, <1>5 DEF Inv, Types
<1>7. Flying'
  <2> SUFFICES ASSUME NEW g \in Handler, handler'[g].step # "free"
               PROVE  /\ handler'[g].d \in Events /\ Inside(handler'[g].d, handler'[g].now)
                      /\ handler'[g].now <= clock /\ clock <= handler'[g].now + 1
    BY <1>1 DEF Flying, Inside
  <2>1. CASE g = h
    BY <1>2, <1>3, <2>1 DEF Inv, Types
  <2>2. CASE g # h
    BY <1>3, <2>2 DEF Inv, Flying
  <2> QED BY <2>1, <2>2
<1>8. EntriesInside' /\ OneEntry' /\ SeenHasEntry' /\ HeldUnlessReleased' /\ QueuedAreEvents'
  BY <1>1 DEF Inv, EntriesInside, OneEntry, SeenHasEntry, HeldUnlessReleased, QueuedAreEvents, Inside
<1>9. OneHolder' /\ RefusedTillOutside'
  BY <1>1, <1>4 DEF Inv, OneHolder, RefusedTillOutside
<1>10. SeenIsBacked'
  <2>1. seen \subseteq Delivery
    BY DEF Inv, Types
  <2> QED BY <1>1, <1>4, <1>5, <2>1 DEF Inv, SeenIsBacked
<1>11. ToldIsBacked'
  BY <1>1, <1>4, <1>5 DEF Inv, ToldIsBacked
<1> QED BY <1>6, <1>7, <1>8, <1>9, <1>10, <1>11 DEF Inv

(* What a Claim at this instant leaves of the store: n entries are over,   *)
(* left are the ids that still refuse, rest the entries behind the n.      *)
Leaves(now, n, left, rest) ==
  /\ \A k \in DOMAIN rest : k + n \in DOMAIN claims /\ rest[k] = claims[k + n]
  /\ n \in Nat /\ rest \in Seq(Entry) /\ left \subseteq seen
  /\ \A e \in left : \E k \in DOMAIN rest : rest[k].d = e
  /\ \A e \in seen \ left : \E m \in DOMAIN claims :
       claims[m].d = e /\ now > claims[m].at + Retention
  /\ \A e \in Delivery \ released : \A k \in DOMAIN rest : rest[k].d = e => e \in left

LEMMA ClaimFinds ==
  ASSUME Inv, NEW h \in Handler, Claim(h),
         NEW n, n = Expired(handler[h].now),
         NEW left, left = seen \ {claims[m].d : m \in 1 .. n},
         NEW rest, rest = SubSeq(claims, n + 1, Len(claims))
  PROVE  Leaves(handler[h].now, n, left, rest)
<1>1. handler[h].now \in Nat /\ claims \in Seq(Entry)
  BY DEF Inv, Types, Request
<1>2. n \in 0 .. Len(claims) /\ \A m \in 1 .. n : handler[h].now > claims[m].at + Retention
  BY <1>1, ExpiredIsPrefix
<1>3. /\ rest \in Seq(Entry) /\ DOMAIN rest = 1 .. Len(claims) - n
      /\ \A k \in DOMAIN rest : rest[k] = claims[k + n] /\ k + n \in DOMAIN claims
  BY <1>1, <1>2, RestOfClaims
<1>4. DOMAIN claims = 1 .. Len(claims) /\ Len(claims) \in Nat
  BY <1>1
<1>5. \A e \in left : \E k \in DOMAIN rest : rest[k].d = e
  <2> TAKE e \in left
  <2>1. PICK i \in DOMAIN claims : claims[i].d = e
    BY DEF Inv, SeenHasEntry
  <2>2. i \notin 1 .. n
    BY <2>1
  <2>3. i - n \in DOMAIN rest /\ (i - n) + n = i
    BY <1>2, <1>3, <1>4, <2>1, <2>2
  <2> QED BY <1>3, <2>1, <2>3
<1>6. \A e \in seen \ left : \E m \in DOMAIN claims :
        claims[m].d = e /\ handler[h].now > claims[m].at + Retention
  <2> TAKE e \in seen \ left
  <2>1. PICK m \in 1 .. n : claims[m].d = e
    OBVIOUS
  <2>2. m \in DOMAIN claims
    BY <1>2, <1>4
  <2> QED BY <1>2, <2>1, <2>2
<1>7. \A e \in Delivery \ released : \A k \in DOMAIN rest : rest[k].d = e => e \in left
  <2> SUFFICES ASSUME NEW e \in Delivery \ released, NEW k \in DOMAIN rest, rest[k].d = e
               PROVE  e \in left
    OBVIOUS
  <2>0. k \in Nat \ {0} /\ n \in Nat
    <3>1. \A a \in Nat : (\A i \in 0 .. a : i \in Nat) /\ (\A j \in 1 .. a : j \in Nat \ {0})
      OBVIOUS
    <3>2. k \in 1 .. Len(rest) /\ Len(rest) \in Nat
      BY <1>3
    <3> QED BY <1>2, <1>4, <3>1, <3>2
  <2>1. k + n \in DOMAIN claims /\ claims[k + n].d = e
    BY <1>3
  <2>2. e \in seen
    BY <2>1 DEF Inv, OneEntry, OneEntryOf
  <2>3. \A m \in 1 .. n : claims[m].d # e
    <3> SUFFICES ASSUME NEW m \in 1 .. n, claims[m].d = e PROVE FALSE
      OBVIOUS
    <3>1. m \in DOMAIN claims
      BY <1>2, <1>4
    <3>2. m = k + n
      BY <2>1, <3>1 DEF Inv, OneEntry, OneEntryOf
    <3> QED BY <2>0, <3>2
  <2> QED BY <2>2, <2>3
<1>8. n \in Nat /\ left \subseteq seen
  BY <1>2
<1> QED BY <1>3, <1>5, <1>6, <1>7, <1>8 DEF Leaves

LEMMA EntryTyped ==
  ASSUME Inv, NEW m \in DOMAIN claims
  PROVE  claims[m].d \in Delivery /\ claims[m].at \in Nat /\ clock \in Nat
<1>1. claims \in Seq(Entry) /\ clock \in Nat
  BY DEF Inv, Types
<1>2. claims[m] \in Entry
  BY <1>1
<1> QED BY <1>1, <1>2 DEF Entry

(* The entries left are still one for each id that was never released. *)
LEMMA RestOneEntry ==
  ASSUME Inv, NEW now, NEW n, NEW left, NEW rest, Leaves(now, n, left, rest),
         NEW e \in Delivery \ released
  PROVE  OneEntryOf(e, rest, claimedAt[e], left)
<1>1. ASSUME NEW j \in DOMAIN rest, NEW k \in DOMAIN rest, rest[j].d = e, rest[k].d = e
      PROVE  j = k
  <2>1. j + n = k + n
    BY <1>1 DEF Leaves, Inv, OneEntry, OneEntryOf
  <2>2. n \in Nat /\ j \in Nat /\ k \in Nat
    BY DEF Leaves
  <2> QED BY <2>1, <2>2
<1>2. ASSUME NEW k \in DOMAIN rest, rest[k].d = e
      PROVE  rest[k].at = claimedAt[e] /\ e \in left
  BY <1>2 DEF Leaves, Inv, OneEntry, OneEntryOf
<1> QED BY <1>1, <1>2 DEF OneEntryOf

(* When an entry of an event that states its instant expires, the instant  *)
(* is outside the window of every request still under way.                 *)
LEMMA ExpiredIsOutside ==
  ASSUME Inv, NEW e \in Delivery, Payload[e].name = "pull_request",
         queued[e] = 1 \/ \E g \in Handler : Holds(g, e),
         NEW now \in Nat, now <= clock,
         NEW m \in DOMAIN claims, claims[m].d = e, now > claims[m].at + Retention
  PROVE  clock > Event(e).at + Window + 1
<1>1. e \in Events
  BY DEF Inv, Flying, Holds, QueuedAreEvents
<1>2. Event(e).at \in Nat /\ None \notin Nat
  BY <1>1, EventSays, WebhookAssumption
<1>3. claims[m].at \in Nat /\ clock \in Nat
  BY EntryTyped
<1>4. Event(e).at <= claims[m].at + Window
  BY <1>2 DEF Inv, EntriesInside, Inside
<1> QED BY <1>2, <1>3, <1>4, WebhookAssumption

(* When the entry of an id that was never released expires, its claim has  *)
(* stood for its retention.                                                *)
LEMMA StaleIsOver ==
  ASSUME Inv, NEW e \in Delivery \ released, NEW now \in Nat, now <= clock,
         NEW m \in DOMAIN claims, claims[m].d = e, now > claims[m].at + Retention
  PROVE  claimedAt[e] \in Nat /\ clock > claimedAt[e] + Retention
<1>1. claims[m].at \in Nat /\ clock \in Nat
  BY EntryTyped
<1>2. claimedAt[e] = claims[m].at
  BY DEF Inv, OneEntry, OneEntryOf
<1> QED BY <1>1, <1>2, WebhookAssumption

(* A request for an id that refuses: a replay, answered 200. *)
LEMMA ReplayInv ==
  ASSUME Inv, NEW h \in Handler, Claim(h),
         NEW n, n = Expired(handler[h].now),
         NEW left, left = seen \ {claims[m].d : m \in 1 .. n},
         NEW rest, rest = SubSeq(claims, n + 1, Len(claims)),
         handler[h].d \in left
  PROVE  Inv'
<1> DEFINE d == handler[h].d
<1>1. /\ handler[h].step = "claim" /\ seen' = left /\ claims' = rest
      /\ handler' = [handler EXCEPT ![h] = Free]
      /\ told' = [told EXCEPT ![d] = IF d \in Events THEN @ \cup {200} ELSE @]
      /\ clock' = clock /\ queue' = queue /\ released' = released /\ queued' = queued
      /\ claimedAt' = claimedAt
  BY DEF Claim, Answer
<1>2. d \in Events /\ d \in Delivery /\ handler[h].now <= clock /\ handler[h].now \in Nat
  BY <1>1, EventSays DEF Inv, Flying, Types, Request
<1>3. /\ handler' \in [Handler -> Request] /\ handler'[h] = Free
      /\ \A g \in Handler \ {h} : handler'[g] = handler[g]
  BY <1>1, FreeIsRequest DEF Inv, Types
<1>4. \A g \in Handler, e \in Delivery : Holds(g, e)' <=> Holds(g, e)
  BY <1>1, <1>3, FreeIsRequest DEF Holds
<1>5. /\ told' \in [Delivery -> SUBSET Nat] /\ told'[d] = told[d] \cup {200}
      /\ \A e \in Delivery \ {d} : told'[e] = told[e]
  BY <1>1, <1>2 DEF Inv, Types
<1>6. Leaves(handler[h].now, n, left, rest)
  BY ClaimFinds
<1>7. Types'
  BY <1>1, <1>3, <1>5, <1>6 DEF Inv, Types, Leaves
<1>8. Flying'
  BY <1>1, <1>3, FreeIsRequest DEF Inv, Flying, Inside
<1>9. EntriesInside' /\ SeenHasEntry'
  BY <1>1, <1>6 DEF Leaves, Inv, EntriesInside, SeenHasEntry, Inside
<1>10. OneEntry'
  BY <1>1, <1>6, RestOneEntry DEF OneEntry
<1>11. OneHolder' /\ QueuedAreEvents'
  BY <1>1, <1>4 DEF Inv, OneHolder, QueuedAreEvents
<1>12. RefusedTillOutside'
  BY <1>1, <1>2, <1>4, <1>6, ExpiredIsOutside DEF Inv, RefusedTillOutside, Leaves
<1>13. SeenIsBacked'
  <2>1. seen \subseteq Delivery
    BY DEF Inv, Types
  <2> QED BY <1>1, <1>4, <1>5, <1>6, <2>1 DEF Inv, SeenIsBacked, Leaves
<1>14. ToldIsBacked'
  <2>1. queued[d] > 0 \/ \E g \in Handler : Holds(g, d)
    BY <1>6 DEF Inv, SeenIsBacked, Leaves
  <2> QED BY <1>1, <1>2, <1>4, <1>5, <2>1 DEF Inv, ToldIsBacked
<1>15. HeldUnlessReleased'
  <2> SUFFICES ASSUME NEW e \in Delivery \ released, claimedAt[e] # None,
                      clock <= claimedAt[e] + Retention, e \notin left
               PROVE  FALSE
    BY <1>1 DEF HeldUnlessReleased
  <2>1. e \in seen
    BY DEF Inv, HeldUnlessReleased
  <2>2. PICK m \in DOMAIN claims : claims[m].d = e /\ handler[h].now > claims[m].at + Retention
    BY <1>6, <2>1 DEF Leaves
  <2> QED BY <1>2, <2>2, StaleIsOver, WebhookAssumption DEF Inv, Types
<1> QED BY <1>7, <1>8, <1>9, <1>10, <1>11, <1>12, <1>13, <1>14, <1>15 DEF Inv

(* A request whose id does not refuse makes the claim: nobody else holds   *)
(* the claim of an event that states its instant, and it was not queued.   *)
LEMMA FirstHolder ==
  ASSUME Inv, NEW h \in Handler, Claim(h),
         NEW n, NEW left, NEW rest, Leaves(handler[h].now, n, left, rest),
         handler[h].d \notin left, Payload[handler[h].d].name = "pull_request"
  PROVE  queued[handler[h].d] # 1 /\ \A g \in Handler : ~Holds(g, handler[h].d)
<1> DEFINE d == handler[h].d
           now == handler[h].now
<1> SUFFICES ASSUME queued[d] = 1 \/ \E g \in Handler : Holds(g, d) PROVE FALSE
  OBVIOUS
<1>1. handler[h].step = "claim"
  BY DEF Claim
<1>2. d \in Events /\ now \in Nat /\ now <= clock /\ clock <= now + 1 /\ Inside(d, now) /\ clock \in Nat
  BY <1>1 DEF Inv, Flying, Types, Request
<1>3. d \in Delivery /\ Event(d).at \in Nat /\ Event(d).at # None
  BY <1>2, EventSays, WebhookAssumption
<1>4. now <= Event(d).at + Window
  BY <1>2, <1>3 DEF Inside
<1>5. clock > Event(d).at + Window + 1
  <2>1. CASE d \in seen
    <3>1. PICK m \in DOMAIN claims : claims[m].d = d /\ now > claims[m].at + Retention
      BY <2>1 DEF Leaves
    <3> QED BY <1>2, <1>3, <3>1, ExpiredIsOutside
  <2>2. CASE d \notin seen
    BY <1>3, <2>2 DEF Inv, RefusedTillOutside
  <2> QED BY <2>1, <2>2
<1> QED BY <1>2, <1>3, <1>4, <1>5, WebhookAssumption

LEMMA FirstClaimInv ==
  ASSUME Inv, NEW h \in Handler, Claim(h),
         NEW n, n = Expired(handler[h].now),
         NEW left, left = seen \ {claims[m].d : m \in 1 .. n},
         NEW rest, rest = SubSeq(claims, n + 1, Len(claims)),
         handler[h].d \notin left
  PROVE  Inv'
<1> DEFINE d == handler[h].d
           now == handler[h].now
           c == [d |-> d, at |-> now]
           r == [handler[h] EXCEPT !.step = "offer"]
<1>1. /\ handler[h].step = "claim" /\ seen' = left \cup {d} /\ claims' = Append(rest, c)
      /\ handler' = [handler EXCEPT ![h] = r]
      /\ claimedAt' = [claimedAt EXCEPT ![d] = now]
      /\ told' = told
      /\ clock' = clock /\ queue' = queue /\ released' = released /\ queued' = queued
  BY DEF Claim
<1>2. /\ d \in Events /\ d \in Delivery /\ now <= clock /\ clock <= now + 1 /\ now \in Nat
      /\ Inside(d, now) /\ clock \in Nat
  BY <1>1, EventSays DEF Inv, Flying, Types, Request
<1>3. r \in Request /\ r.step = "offer" /\ r.d = d /\ r.now = now
  BY DEF Inv, Types, Request
<1> HIDE DEF r
<1>4. /\ handler' \in [Handler -> Request] /\ handler'[h] = r
      /\ \A g \in Handler \ {h} : handler'[g] = handler[g]
  BY <1>1, <1>3 DEF Inv, Types
<1>5. \A g \in Handler, e \in Delivery : Holds(g, e)' <=> Holds(g, e) \/ (g = h /\ e = d)
  BY <1>1, <1>3, <1>4 DEF Holds
<1>6. Leaves(now, n, left, rest)
  BY ClaimFinds
<1>7. c \in Entry /\ c.d = d /\ c.at = now
  BY <1>2 DEF Entry
<1> HIDE DEF c
<1>8. rest \in Seq(Entry) /\ Len(rest) \in Nat /\ DOMAIN rest = 1 .. Len(rest)
  BY <1>6 DEF Leaves
<1>9. /\ claims' \in Seq(Entry) /\ DOMAIN claims' = 1 .. Len(rest) + 1
      /\ \A i \in 1 .. Len(rest) : claims'[i] = rest[i]
      /\ claims'[Len(rest) + 1] = c
  BY <1>1, <1>7, <1>8, AppendProperties
<1>10. \A k \in DOMAIN claims' : (k \in DOMAIN rest /\ claims'[k] = rest[k]) \/ (k = Len(rest) + 1 /\ claims'[k] = c)
  BY <1>8, <1>9
<1>11. /\ claimedAt' \in [Delivery -> Nat \cup {None}] /\ claimedAt'[d] = now
       /\ \A e \in Delivery \ {d} : claimedAt'[e] = claimedAt[e]
  BY <1>1, <1>2 DEF Inv, Types
<1>12. Types'
  BY <1>1, <1>2, <1>4, <1>6, <1>9, <1>11 DEF Inv, Types, Leaves
<1>13. Flying'
  <2> SUFFICES ASSUME NEW g \in Handler, handler'[g].step # "free"
               PROVE  /\ handler'[g].d \in Events /\ Inside(handler'[g].d, handler'[g].now)
                      /\ handler'[g].now <= clock /\ clock <= handler'[g].now + 1
    BY <1>1 DEF Flying, Inside
  <2> QED BY <1>2, <1>3, <1>4 DEF Inv, Flying
<1>14. EntriesInside'
  <2>1. \A k \in DOMAIN rest : Inside(rest[k].d, rest[k].at) /\ rest[k].at <= clock
    <3> TAKE k \in DOMAIN rest
    <3>1. k + n \in DOMAIN claims /\ rest[k] = claims[k + n]
      BY <1>6 DEF Leaves
    <3> QED BY <3>1 DEF Inv, EntriesInside
  <2>2. \A k \in DOMAIN claims' : Inside(claims'[k].d, claims'[k].at) /\ claims'[k].at <= clock
    BY <1>2, <1>7, <1>10, <2>1
  <2> QED BY <1>1, <2>2 DEF EntriesInside, Inside
<1>15. SeenHasEntry'
  <2> SUFFICES ASSUME NEW e \in left \cup {d} PROVE \E k \in DOMAIN claims' : claims'[k].d = e
    BY <1>1 DEF SeenHasEntry
  <2>1. CASE e = d
    BY <1>7, <1>8, <1>9, <2>1
  <2>2. CASE e \in left
    <3>1. PICK k \in DOMAIN rest : rest[k].d = e
      BY <1>6, <2>2 DEF Leaves
    <3>2. k \in DOMAIN claims' /\ claims'[k] = rest[k]
      BY <1>8, <1>9, <3>1
    <3> QED BY <3>1, <3>2
  <2> QED BY <2>1, <2>2
<1>16. OneEntry'
  <2> SUFFICES ASSUME NEW e \in Delivery \ released
               PROVE  OneEntryOf(e, claims', claimedAt'[e], left \cup {d})
    BY <1>1 DEF OneEntry
  <2>1. CASE e = d
    <3>1. \A k \in DOMAIN rest : rest[k].d # d
      BY <1>6, <2>1 DEF Leaves
    <3> QED BY <1>7, <1>10, <1>11, <2>1, <3>1 DEF OneEntryOf
  <2>2. CASE e # d
    <3>1. OneEntryOf(e, rest, claimedAt[e], left)
      BY <1>6, RestOneEntry
    <3> QED BY <1>7, <1>10, <1>11, <2>2, <3>1 DEF OneEntryOf
  <2> QED BY <2>1, <2>2
<1>17. OneHolder' /\ QueuedAreEvents'
  <2>1. Payload[d].name = "pull_request" => queued[d] # 1 /\ \A g \in Handler : ~Holds(g, d)
    BY <1>6, FirstHolder
  <2> QED BY <1>1, <1>2, <1>5, <2>1 DEF Inv, OneHolder, QueuedAreEvents
<1>18. RefusedTillOutside'
  <2> SUFFICES ASSUME NEW e \in Delivery, Payload[e].name = "pull_request", e \notin left \cup {d},
                      queued[e] = 1 \/ \E g \in Handler : Holds(g, e)
               PROVE  clock > Event(e).at + Window + 1
    BY <1>1, <1>5 DEF RefusedTillOutside
  <2>1. CASE e \in seen
    <3>1. PICK m \in DOMAIN claims : claims[m].d = e /\ now > claims[m].at + Retention
      BY <1>6, <2>1 DEF Leaves
    <3> QED BY <1>2, <3>1, ExpiredIsOutside
  <2>2. CASE e \notin seen
    BY <2>2 DEF Inv, RefusedTillOutside
  <2> QED BY <2>1, <2>2
<1>19. SeenIsBacked' /\ ToldIsBacked'
  <2>1. seen \subseteq Delivery /\ left \subseteq seen
    BY <1>6 DEF Inv, Types, Leaves
  <2>2. \A g \in Handler, e \in Delivery : Holds(g, e) \/ (g = h /\ e = d) => Holds(g, e)'
    BY <1>5
  <2>3. SeenIsBacked'
    <3> SUFFICES ASSUME NEW e \in left \cup {d}
                 PROVE  queued[e] > 0 \/ \E g \in Handler : Holds(g, e)'
      BY <1>1 DEF SeenIsBacked
    <3>1. e \in Delivery /\ (e = d \/ e \in seen)
      BY <1>2, <2>1
    <3> QED BY <2>2, <3>1 DEF Inv, SeenIsBacked
  <2>4. ToldIsBacked'
    <3> SUFFICES ASSUME NEW e \in Delivery, told[e] # {}
                 PROVE  \/ queued[e] > 0 \/ told[e] \cap {403, 503} # {}
                        \/ \E g \in Handler : Holds(g, e)'
      BY <1>1 DEF ToldIsBacked
    <3> QED BY <2>2 DEF Inv, ToldIsBacked
  <2> QED BY <2>3, <2>4
<1>20. HeldUnlessReleased'
  <2> SUFFICES ASSUME NEW e \in Delivery \ released, claimedAt'[e] # None,
                      clock <= claimedAt'[e] + Retention, e \notin left \cup {d}
               PROVE  FALSE
    BY <1>1 DEF HeldUnlessReleased
  <2>1. claimedAt'[e] = claimedAt[e]
    BY <1>11
  <2>2. e \in seen
    BY <2>1 DEF Inv, HeldUnlessReleased
  <2>3. PICK m \in DOMAIN claims : claims[m].d = e /\ now > claims[m].at + Retention
    BY <1>6, <2>2 DEF Leaves
  <2> QED BY <1>2, <2>1, <2>3, StaleIsOver, WebhookAssumption
<1> QED BY <1>12, <1>13, <1>14, <1>15, <1>16, <1>17, <1>18, <1>19, <1>20 DEF Inv

LEMMA ClaimInv ==
  ASSUME Inv, NEW h \in Handler, Claim(h)
  PROVE  Inv'
<1> DEFINE n == Expired(handler[h].now)
           left == seen \ {claims[m].d : m \in 1 .. n}
           rest == SubSeq(claims, n + 1, Len(claims))
<1>1. CASE handler[h].d \in left
  <2> HIDE DEF n, left, rest
  <2> QED BY <1>1, ReplayInv DEF n, left, rest
<1>2. CASE handler[h].d \notin left
  BY <1>2, FirstClaimInv
<1> QED BY <1>1, <1>2

(* The request that holds the claim offers the event, which the queue      *)
(* takes or not, and without room gives the claim back.                    *)
LEMMA OfferInv ==
  ASSUME Inv, NEW h \in Handler, Offer(h)
  PROVE  Inv'
<1> DEFINE d == handler[h].d
<1>1. /\ handler[h].step = "offer" /\ clock' = clock /\ seen' = seen /\ claims' = claims
      /\ claimedAt' = claimedAt /\ released' = released
  BY DEF Offer
<1>2. d \in Events /\ d \in Delivery
  BY <1>1, EventSays DEF Inv, Flying
<1>3. EntriesInside' /\ OneEntry' /\ SeenHasEntry' /\ HeldUnlessReleased'
  BY <1>1 DEF Inv, EntriesInside, OneEntry, SeenHasEntry, HeldUnlessReleased, Inside
<1>4. seen \subseteq Delivery /\ queued \in [Delivery -> Nat] /\ told \in [Delivery -> SUBSET Nat]
  BY DEF Inv, Types
<1>5. CASE Len(queue) < Size
  <2>1. /\ queue' = Append(queue, d)
        /\ queued' = [queued EXCEPT ![d] = @ + 1]
        /\ handler' = [handler EXCEPT ![h] = Free]
        /\ told' = [told EXCEPT ![d] = @ \cup {202}]
    BY <1>2, <1>5 DEF Offer, Answer
  <2>2. /\ handler' \in [Handler -> Request] /\ handler'[h] = Free
        /\ \A g \in Handler \ {h} : handler'[g] = handler[g]
    BY <2>1, FreeIsRequest DEF Inv, Types
  <2>3. \A g \in Handler, e \in Delivery : Holds(g, e)' <=> Holds(g, e) /\ g # h
    BY <2>2, FreeIsRequest DEF Holds
  <2>4. /\ queued' \in [Delivery -> Nat] /\ queued'[d] = queued[d] + 1 /\ queued[d] \in Nat
        /\ \A e \in Delivery \ {d} : queued'[e] = queued[e]
    BY <1>2, <1>4, <2>1
  <2>5. /\ told' \in [Delivery -> SUBSET Nat] /\ told'[d] = told[d] \cup {202}
        /\ \A e \in Delivery \ {d} : told'[e] = told[e]
    BY <1>2, <1>4, <2>1
  <2>6. queue' \in Seq(Delivery) /\ Len(queue') <= Size
    BY <1>2, <1>5, <2>1, AppendProperties, WebhookAssumption DEF Inv, Types
  <2>7. Types'
    BY <1>1, <2>2, <2>4, <2>5, <2>6 DEF Inv, Types
  <2>8. Flying'
    BY <1>1, <2>2, FreeIsRequest DEF Inv, Flying, Inside
  <2>9. OneHolder'
    <3> SUFFICES ASSUME NEW e \in Delivery, Payload[e].name = "pull_request"
                 PROVE  /\ queued'[e] <= 1
                        /\ \A f, g \in Handler : Holds(f, e)' /\ Holds(g, e)' => f = g
                        /\ queued'[e] = 1 => \A g \in Handler : ~Holds(g, e)'
      BY DEF OneHolder
    <3>1. CASE e # d
      BY <2>3, <2>4, <3>1 DEF Inv, OneHolder
    <3>2. CASE e = d
      <4>1. Holds(h, e)
        BY <1>1, <3>2 DEF Holds
      <4>2. queued[e] <= 1 /\ queued[e] # 1 /\ \A g \in Handler : Holds(g, e) => g = h
        BY <4>1 DEF Inv, OneHolder
      <4> QED BY <2>3, <2>4, <3>2, <4>2
    <3> QED BY <3>1, <3>2
  <2>10. RefusedTillOutside'
    <3> SUFFICES ASSUME NEW e \in Delivery, Payload[e].name = "pull_request",
                        queued'[e] = 1 \/ \E g \in Handler : Holds(g, e)'
                 PROVE  e \in seen \/ clock > Event(e).at + Window + 1
      BY <1>1 DEF RefusedTillOutside
    <3>1. queued[e] = 1 \/ \E g \in Handler : Holds(g, e)
      BY <1>1, <2>3, <2>4 DEF Holds
    <3> QED BY <3>1 DEF Inv, RefusedTillOutside
  <2>11. QueuedAreEvents'
    BY <1>2, <2>4 DEF Inv, QueuedAreEvents
  <2>12. \A e \in Delivery : queued[e] > 0 \/ (\E g \in Handler : Holds(g, e)) =>
           queued'[e] > 0 \/ \E g \in Handler : Holds(g, e)'
    <3> SUFFICES ASSUME NEW e \in Delivery, queued[e] > 0 \/ \E g \in Handler : Holds(g, e)
                 PROVE  queued'[e] > 0 \/ \E g \in Handler : Holds(g, e)'
      OBVIOUS
    <3>1. CASE e = d
      BY <2>4, <3>1
    <3>2. CASE e # d
      <4>1. ~Holds(h, e)
        BY <3>2 DEF Holds
      <4> QED BY <2>3, <2>4, <3>2, <4>1
    <3> QED BY <3>1, <3>2
  <2>13. SeenIsBacked'
    BY <1>1, <1>4, <2>5, <2>12 DEF Inv, SeenIsBacked
  <2>14. ToldIsBacked'
    <3> SUFFICES ASSUME NEW e \in Delivery, told'[e] # {}
                 PROVE  \/ queued'[e] > 0 \/ told'[e] \cap {403, 503} # {}
                        \/ \E g \in Handler : Holds(g, e)'
      BY DEF ToldIsBacked
    <3>1. CASE e = d
      BY <2>4, <3>1
    <3>2. CASE e # d
      BY <2>5, <2>12, <3>2 DEF Inv, ToldIsBacked
    <3> QED BY <3>1, <3>2
  <2> QED BY <1>3, <2>7, <2>8, <2>9, <2>10, <2>11, <2>13, <2>14 DEF Inv
<1>6. CASE ~(Len(queue) < Size)
  <2> DEFINE r == [handler[h] EXCEPT !.step = "release"]
  <2>1. handler' = [handler EXCEPT ![h] = r] /\ queue' = queue /\ queued' = queued /\ told' = told
    BY <1>6 DEF Offer
  <2>2. r \in Request /\ r.step = "release" /\ r.d = d /\ r.now = handler[h].now
    BY DEF Inv, Types, Request
  <2> HIDE DEF r
  <2>3. /\ handler' \in [Handler -> Request] /\ handler'[h] = r
        /\ \A g \in Handler \ {h} : handler'[g] = handler[g]
    BY <2>1, <2>2 DEF Inv, Types
  <2>4. \A g \in Handler, e \in Delivery : Holds(g, e)' <=> Holds(g, e)
    BY <1>1, <2>2, <2>3 DEF Holds
  <2>5. Types'
    BY <1>1, <2>1, <2>3 DEF Inv, Types
  <2>6. Flying'
    <3> SUFFICES ASSUME NEW g \in Handler, handler'[g].step # "free"
                 PROVE  /\ handler'[g].d \in Events /\ Inside(handler'[g].d, handler'[g].now)
                        /\ handler'[g].now <= clock /\ clock <= handler'[g].now + 1
      BY <1>1 DEF Flying, Inside
    <3> QED BY <1>1, <2>2, <2>3 DEF Inv, Flying
  <2>7. OneHolder' /\ RefusedTillOutside' /\ QueuedAreEvents'
    BY <1>1, <2>1, <2>4 DEF Inv, OneHolder, RefusedTillOutside, QueuedAreEvents
  <2>8. SeenIsBacked' /\ ToldIsBacked'
    BY <1>1, <1>4, <2>1, <2>4 DEF Inv, SeenIsBacked, ToldIsBacked
  <2> QED BY <1>3, <2>5, <2>6, <2>7, <2>8 DEF Inv
<1> QED BY <1>5, <1>6

LEMMA ReleaseInv ==
  ASSUME Inv, NEW h \in Handler, Release(h)
  PROVE  Inv'
<1> DEFINE d == handler[h].d
<1>1. /\ handler[h].step = "release" /\ clock' = clock /\ claims' = claims /\ queue' = queue
      /\ queued' = queued /\ seen' = seen \ {d} /\ released' = released \cup {d}
      /\ claimedAt' = [claimedAt EXCEPT ![d] = None]
      /\ handler' = [handler EXCEPT ![h] = Free]
      /\ told' = [told EXCEPT ![d] = IF d \in Events THEN @ \cup {503} ELSE @]
  BY DEF Release, Answer
<1>2. d \in Events /\ d \in Delivery
  BY <1>1, EventSays DEF Inv, Flying
<1>3. seen \subseteq Delivery /\ told \in [Delivery -> SUBSET Nat]
  BY DEF Inv, Types
<1>4. /\ handler' \in [Handler -> Request] /\ handler'[h] = Free
      /\ \A g \in Handler \ {h} : handler'[g] = handler[g]
  BY <1>1, FreeIsRequest DEF Inv, Types
<1>5. \A g \in Handler, e \in Delivery : Holds(g, e)' <=> Holds(g, e) /\ g # h
  BY <1>4, FreeIsRequest DEF Holds
<1>6. /\ told' \in [Delivery -> SUBSET Nat] /\ told'[d] = told[d] \cup {503}
      /\ \A e \in Delivery \ {d} : told'[e] = told[e]
  BY <1>1, <1>2, <1>3
<1>7. /\ claimedAt' \in [Delivery -> Nat \cup {None}]
      /\ \A e \in Delivery \ {d} : claimedAt'[e] = claimedAt[e]
  BY <1>1, <1>2 DEF Inv, Types
<1>8. Types'
  BY <1>1, <1>4, <1>6, <1>7 DEF Inv, Types
<1>9. Flying'
  BY <1>1, <1>4, FreeIsRequest DEF Inv, Flying, Inside
<1>10. EntriesInside' /\ SeenHasEntry' /\ QueuedAreEvents'
  BY <1>1 DEF Inv, EntriesInside, SeenHasEntry, QueuedAreEvents, Inside
<1>11. OneEntry'
  BY <1>1, <1>7 DEF Inv, OneEntry, OneEntryOf
<1>12. OneHolder'
  BY <1>1, <1>5 DEF Inv, OneHolder
<1>13. RefusedTillOutside'
  <2> SUFFICES ASSUME NEW e \in Delivery, Payload[e].name = "pull_request",
                      queued[e] = 1 \/ \E g \in Handler : Holds(g, e) /\ g # h
               PROVE  e \in seen \ {d} \/ clock > Event(e).at + Window + 1
    BY <1>1, <1>5 DEF RefusedTillOutside
  <2>1. e # d
    <3> SUFFICES ASSUME e = d PROVE FALSE
      OBVIOUS
    <3>1. Holds(h, e)
      BY <1>1 DEF Holds
    <3> QED BY <3>1 DEF Inv, OneHolder
  <2> QED BY <2>1 DEF Inv, RefusedTillOutside
<1>14. \A e \in Delivery \ {d}, g \in Handler : Holds(g, e) => Holds(g, e)'
  <2>1. \A e \in Delivery \ {d} : ~Holds(h, e)
    BY DEF Holds
  <2> QED BY <1>5, <2>1
<1>15. SeenIsBacked'
  <2> SUFFICES ASSUME NEW e \in seen \ {d}
               PROVE  queued[e] > 0 \/ \E g \in Handler : Holds(g, e)'
    BY <1>1 DEF SeenIsBacked
  <2> QED BY <1>3, <1>6, <1>14 DEF Inv, SeenIsBacked
<1>16. ToldIsBacked'
  <2> SUFFICES ASSUME NEW e \in Delivery, told'[e] # {}
               PROVE  queued[e] > 0 \/ told'[e] \cap {403, 503} # {} \/ \E g \in Handler : Holds(g, e)'
    BY <1>1 DEF ToldIsBacked
  <2> QED BY <1>6, <1>14 DEF Inv, ToldIsBacked
<1>17. HeldUnlessReleased'
  BY <1>1, <1>7 DEF Inv, HeldUnlessReleased
<1> QED BY <1>8, <1>9, <1>10, <1>11, <1>12, <1>13, <1>15, <1>16, <1>17 DEF Inv

(* A step that leaves the claims, the requests and the answers alone. *)
LEMMA OtherInv ==
  ASSUME Inv,
         seen' = seen, claims' = claims, handler' = handler, claimedAt' = claimedAt,
         released' = released, queued' = queued, told' = told,
         queue' \in Seq(Delivery), Len(queue') <= Size,
         \/ clock' = clock
         \/ /\ clock' = clock + 1
            /\ \A h \in Handler : handler[h].step # "free" => handler[h].now = clock
  PROVE  Inv'
<1>1. clock \in Nat /\ clock' \in Nat /\ clock <= clock'
  BY DEF Inv, Types
<1>2. Types'
  BY <1>1 DEF Inv, Types
<1>3. Flying'
  <2> SUFFICES ASSUME NEW h \in Handler, handler[h].step # "free"
               PROVE  /\ handler[h].d \in Events /\ Inside(handler[h].d, handler[h].now)
                      /\ handler[h].now <= clock' /\ clock' <= handler[h].now + 1
    BY DEF Flying, Inside
  <2>1. handler[h].now \in Nat
    BY DEF Inv, Types, Request
  <2> QED BY <1>1, <2>1 DEF Inv, Flying
<1>4. EntriesInside'
  <2> SUFFICES ASSUME NEW m \in DOMAIN claims
               PROVE  Inside(claims[m].d, claims[m].at) /\ claims[m].at <= clock'
    BY DEF EntriesInside, Inside
  <2> QED BY <1>1, EntryTyped DEF Inv, EntriesInside
<1>5. \A g \in Handler, e \in Delivery : Holds(g, e)' <=> Holds(g, e)
  BY DEF Holds
<1>6. OneHolder' /\ OneEntry' /\ SeenHasEntry' /\ QueuedAreEvents'
  BY <1>5 DEF Inv, OneHolder, OneEntry, SeenHasEntry, QueuedAreEvents
<1>7. RefusedTillOutside'
  <2> SUFFICES ASSUME NEW e \in Delivery, Payload[e].name = "pull_request", e \notin seen,
                      queued[e] = 1 \/ \E g \in Handler : Holds(g, e)
               PROVE  clock' > Event(e).at + Window + 1
    BY <1>5 DEF RefusedTillOutside
  <2>1. e \in Events
    BY DEF Inv, QueuedAreEvents, Flying, Holds
  <2>2. Event(e).at \in Nat
    BY <2>1, EventSays
  <2>3. clock > Event(e).at + Window + 1
    BY DEF Inv, RefusedTillOutside
  <2> QED BY <1>1, <2>2, <2>3, WebhookAssumption
<1>8. SeenIsBacked' /\ ToldIsBacked'
  <2>1. seen \subseteq Delivery
    BY DEF Inv, Types
  <2> QED BY <1>5, <2>1 DEF Inv, SeenIsBacked, ToldIsBacked
<1>9. HeldUnlessReleased'
  <2> SUFFICES ASSUME NEW e \in Delivery \ released, claimedAt[e] # None,
                      clock' <= claimedAt[e] + Retention
               PROVE  e \in seen
    BY DEF HeldUnlessReleased
  <2>1. claimedAt[e] \in Nat
    BY DEF Inv, Types
  <2>2. clock <= claimedAt[e] + Retention
    BY <1>1, <2>1, WebhookAssumption
  <2> QED BY <2>2 DEF Inv, HeldUnlessReleased
<1> QED BY <1>2, <1>3, <1>4, <1>6, <1>7, <1>8, <1>9 DEF Inv

LEMMA NextInv == Inv /\ [Next]_vars => Inv'
<1> SUFFICES ASSUME Inv, [Next]_vars PROVE Inv'
  OBVIOUS
<1>1. queue \in Seq(Delivery) /\ Len(queue) <= Size
  BY DEF Inv, Types
<1>2. ASSUME NEW h \in Handler, NEW d \in Delivery, Receive(h, d) PROVE Inv'
  BY <1>2, ReceiveInv
<1>3. ASSUME NEW h \in Handler, Claim(h) \/ Offer(h) \/ Release(h) PROVE Inv'
  BY <1>3, ClaimInv, OfferInv, ReleaseInv
<1>4. CASE Process
  <2>1. queue' \in Seq(Delivery) /\ Len(queue') <= Size
    BY <1>1, <1>4, HeadTailProperties, WebhookAssumption DEF Process
  <2> QED BY <1>4, <2>1, OtherInv DEF Process, history
<1>5. CASE Stop
  BY <1>1, <1>5, OtherInv DEF Stop, history
<1>6. CASE Tick
  BY <1>1, <1>6, OtherInv DEF Tick, history
<1>7. CASE UNCHANGED vars
  BY <1>1, <1>7, OtherInv DEF vars
<1> QED BY <1>2, <1>3, <1>4, <1>5, <1>6, <1>7 DEF Next

(* The invariant the other theorems rest on. *)
THEOREM SpecInv == Spec => []Inv
  BY InitInv, NextInv, PTL DEF Spec

LEMMA InvReplaysRefused == Inv => ReplaysRefused
<1> SUFFICES ASSUME Inv PROVE ReplaysRefused
  OBVIOUS
<1>1. TypeOK
  <2>1. \A n \in DOMAIN claims : claims[n].d \in Delivery /\ claims[n].at <= clock
    BY EntryTyped DEF Inv, EntriesInside
  <2>2. seen \subseteq {claims[n].d : n \in DOMAIN claims}
    BY DEF Inv, SeenHasEntry
  <2> QED BY <2>1, <2>2 DEF TypeOK, Inv, Types, Request
<1>2. SignedInstantOnce
  BY DEF SignedInstantOnce, Inv, OneHolder
<1>3. OnlySignedQueued
  BY EventSays DEF OnlySignedQueued, Inv, QueuedAreEvents
<1> QED BY <1>1, <1>2, <1>3 DEF ReplaysRefused, Inv

(* A replay is refused by its signed instant or by its claim: an event     *)
(* that states its instant is queued at most once, an id that was never    *)
(* released refuses for its retention, and only signed, complete events    *)
(* are queued, for every window and retention with twice the window below  *)
(* the retention (MemoryDeliveries.Claim, outsideWindow).                  *)
THEOREM SpecReplaysRefused == Spec => []ReplaysRefused
  BY SpecInv, InvReplaysRefused, PTL

LEMMA InvNoSilentLoss == Inv => NoSilentLoss
<1> SUFFICES ASSUME Inv, NEW d \in Delivery, told[d] # {}, queued[d] = 0,
                    \A h \in Handler : handler[h].d # d
             PROVE  told[d] \cap {403, 503} # {}
  BY DEF NoSilentLoss
<1>1. \A h \in Handler : ~Holds(h, d)
  BY DEF Holds
<1> QED BY <1>1 DEF Inv, ToldIsBacked

(* No event is lost without a word: whichever requests race for its id, an *)
(* event that was never queued was refused with 403 or 503 (enqueue).      *)
THEOREM SpecNoSilentLoss == Spec => []NoSilentLoss
  BY SpecInv, InvNoSilentLoss, PTL

(* No claim outlives the request that made it unless its event was queued, *)
(* so what a full queue refused may be delivered again (enqueue, Release). *)
THEOREM SpecRefusedMayReturn == Spec => []RefusedMayReturn
<1>1. Inv => RefusedMayReturn
  BY DEF Inv, SeenIsBacked, Holds, RefusedMayReturn
<1> QED BY <1>1, SpecInv, PTL
=============================================================================
