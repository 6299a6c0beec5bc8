------------------------------- MODULE Webhook ------------------------------
(***************************************************************************)
(* The GitHub App's webhook (internal/scm/webhook.go): handlers verify a   *)
(* delivery, claim its id in MemoryDeliveries and offer its event to a     *)
(* bounded queue that workers empty. Each call on the store or the queue   *)
(* is a step of its own, so handlers of one delivery interleave. Time is   *)
(* counted in ticks.                                                       *)
(***************************************************************************)
EXTENDS Naturals, Sequences, FiniteSets

CONSTANTS
  Delivery,     \* delivery ids
  Handler,      \* concurrent requests
  Payload,      \* the request that carries each delivery
  Size,         \* events the queue holds
  Window,       \* ReplayWindow, in ticks
  Retention,    \* DeliveryRetention, in ticks
  MaxTime,      \* bound: the last tick
  MaxClaims,    \* bound: entries of claims; released ones stay, so claims can grow
  None

ASSUME WebhookAssumption ==
  /\ Size \in Nat /\ Window \in Nat /\ Retention \in Nat
  /\ MaxTime \in Nat /\ MaxClaims \in Nat
  /\ Payload \in [Delivery -> [signed : BOOLEAN, name : STRING, common : BOOLEAN, subject : BOOLEAN,
                               updatedAt : Nat \cup {None}, requested : BOOLEAN, button : BOOLEAN]]
  /\ 2 * Window < Retention
  /\ None \notin Nat

VARIABLES
  clock,
  seen,         \* MemoryDeliveries.seen
  claims,       \* MemoryDeliveries.claims, oldest first
  queue,        \* Queue.events
  running,      \* the workers' context is not done
  handler,      \* each request: its step, its delivery and its instant
  claimedAt,    \* when the claim that stands for an id was made, else None
  released,     \* ids that Release ever forgot
  queued,       \* how often the event of an id was queued
  told          \* the statuses the requests of an event's id were answered

vars == <<clock, seen, claims, queue, running, handler, claimedAt, released, queued, told>>
history == <<claimedAt, released, queued, told>>

Free == [step |-> "free", d |-> None, now |-> 0]

Init ==
  /\ clock = 0
  /\ seen = {} /\ claims = <<>> /\ queue = <<>> /\ running = TRUE
  /\ handler = [h \in Handler |-> Free]
  /\ claimedAt = [d \in Delivery |-> None]
  /\ released = {}
  /\ queued = [d \in Delivery |-> 0]
  /\ told = [d \in Delivery |-> {}]

-----------------------------------------------------------------------------
(* ParseEvent: what a signed body says. common is its action, installation,*)
(* repository and sender being valid, subject its pull request or check    *)
(* run, requested its action being requested_action, and button the number *)
(* and the identifier a click names.                                       *)
Bad == [kind |-> "bad", at |-> None]
Ignored == [kind |-> "ignored", at |-> None]

(* The only event that states the instant it is about.                     *)
pullRequest(p) == IF p.subject /\ p.updatedAt # None THEN [kind |-> "event", at |-> p.updatedAt] ELSE Bad

checkRun(p) ==
  CASE ~p.subject -> Bad
    [] p.subject /\ ~p.requested -> Ignored
    [] OTHER -> IF p.button THEN [kind |-> "event", at |-> None] ELSE Bad

ParseEvent(p) ==
  CASE p.name \notin {"pull_request", "check_run"} -> Ignored
    [] p.name \in {"pull_request", "check_run"} /\ ~p.common -> Bad
    [] OTHER -> IF p.name = "pull_request" THEN pullRequest(p) ELSE checkRun(p)

Event(d) == ParseEvent(Payload[d])
Events == {d \in Delivery : Payload[d].signed /\ Event(d).kind = "event"}

Answer(h, d, status) ==
  /\ handler' = [handler EXCEPT ![h] = Free]
  /\ told' = [told EXCEPT ![d] = IF d \in Events THEN @ \cup {status} ELSE @]

-----------------------------------------------------------------------------
NeverOutside(at, now) == FALSE

outsideWindow(at, now) == at # None /\ (at + Window < now \/ at > now + Window)

(* status, up to enqueue: a body that is not verified or read, an event    *)
(* the App ignores and an instant outside the window end the request.      *)
Receive(h, d) ==
  /\ handler[h].step = "free"
  /\ Len(claims) + Cardinality({g \in Handler : handler[g].step = "claim"}) < MaxClaims
  /\ CASE ~Payload[d].signed -> Answer(h, d, 401)
       [] Payload[d].signed /\ Event(d).kind = "ignored" -> Answer(h, d, 202)
       [] Payload[d].signed /\ Event(d).kind = "bad" -> Answer(h, d, 400)
       [] Payload[d].signed /\ Event(d).kind = "event" /\ outsideWindow(Event(d).at, clock) ->
            Answer(h, d, 403)
       [] OTHER -> /\ handler' = [handler EXCEPT ![h] = [step |-> "claim", d |-> d, now |-> clock]]
                   /\ UNCHANGED told
  /\ UNCHANGED <<clock, seen, claims, queue, running, claimedAt, released, queued>>

(* The claims a Claim at this instant expires: a prefix. *)
Expired(now) ==
  CHOOSE n \in 0 .. Len(claims) :
    /\ \A m \in 1 .. n : now > claims[m].at + Retention
    /\ n < Len(claims) => now <= claims[n + 1].at + Retention

(* MemoryDeliveries.Claim, under its mutex. *)
Claim(h) ==
  LET d == handler[h].d
      now == handler[h].now
      n == Expired(now)
      left == seen \ {claims[m].d : m \in 1 .. n}
      rest == SubSeq(claims, n + 1, Len(claims))
  IN /\ handler[h].step = "claim"
     /\ IF d \in left
          THEN /\ seen' = left /\ claims' = rest
               /\ Answer(h, d, 200)
               /\ UNCHANGED claimedAt
          ELSE /\ seen' = left \cup {d}
               /\ claims' = Append(rest, [d |-> d, at |-> now])
               /\ handler' = [handler EXCEPT ![h].step = "offer"]
               /\ claimedAt' = [claimedAt EXCEPT ![d] = now]
               /\ UNCHANGED told
     /\ UNCHANGED <<clock, queue, running, released, queued>>

(* Queue.Offer, which does not block. *)
Offer(h) ==
  LET d == handler[h].d IN
    /\ handler[h].step = "offer"
    /\ IF Len(queue) < Size
         THEN /\ queue' = Append(queue, d)
              /\ queued' = [queued EXCEPT ![d] = @ + 1]
              /\ Answer(h, d, 202)
         ELSE /\ handler' = [handler EXCEPT ![h].step = "release"]
              /\ UNCHANGED <<queue, queued, told>>
    /\ UNCHANGED <<clock, seen, claims, running, claimedAt, released>>

ReleaseKeepsClaim(h) ==
  /\ handler[h].step = "release"
  /\ Answer(h, handler[h].d, 503)
  /\ UNCHANGED <<clock, seen, claims, queue, running, claimedAt, released, queued>>

ReleaseQuietly(h) ==
  LET d == handler[h].d IN
    /\ handler[h].step = "release"
    /\ seen' = seen \ {d}
    /\ claimedAt' = [claimedAt EXCEPT ![d] = None]
    /\ released' = released \cup {d}
    /\ Answer(h, d, 202)
    /\ UNCHANGED <<clock, claims, queue, running, queued>>

(* MemoryDeliveries.Release: the claim's entry stays in claims. *)
Release(h) ==
  LET d == handler[h].d IN
    /\ handler[h].step = "release"
    /\ seen' = seen \ {d}
    /\ claimedAt' = [claimedAt EXCEPT ![d] = None]
    /\ released' = released \cup {d}
    /\ Answer(h, d, 503)
    /\ UNCHANGED <<clock, claims, queue, running, queued>>

(* A worker of Queue.Run takes the next event. *)
Process ==
  /\ running /\ queue # <<>>
  /\ queue' = Tail(queue)
  /\ UNCHANGED <<clock, seen, claims, running, handler, history>>

(* The workers' context ends: what is queued is never processed. *)
Stop ==
  /\ running
  /\ running' = FALSE
  /\ UNCHANGED <<clock, seen, claims, queue, handler, history>>

(* A tick is minutes, so a request that read the clock in one tick has     *)
(* ended before the next but one.                                          *)
Tick ==
  /\ clock < MaxTime
  /\ \A h \in Handler : handler[h].step # "free" => handler[h].now = clock
  /\ clock' = clock + 1
  /\ UNCHANGED <<seen, claims, queue, running, handler, history>>

Next ==
  \/ \E h \in Handler, d \in Delivery : Receive(h, d)
  \/ \E h \in Handler : Claim(h) \/ Offer(h) \/ Release(h)
  \/ Process \/ Stop \/ Tick

Spec == Init /\ [][Next]_vars

-----------------------------------------------------------------------------
(* The store and the queue are well formed and bounded: every id that      *)
(* refuses a delivery has an entry that will expire it, and the queue      *)
(* holds what it was made for (MemoryDeliveries, Queue).                   *)
TypeOK ==
  /\ seen \subseteq {claims[n].d : n \in DOMAIN claims}
  /\ \A n \in DOMAIN claims : claims[n].d \in Delivery /\ claims[n].at <= clock
  /\ Len(queue) <= Size
  /\ \A h \in Handler : handler[h].step \in {"free", "claim", "offer", "release"}

(* An event that states its instant is queued at most once, however often, *)
(* how late and how concurrently it is delivered, and although its id may  *)
(* be released and claimed again: the claim outlasts the replay window.    *)
SignedInstantOnce == \A d \in Delivery : Payload[d].name = "pull_request" => queued[d] <= 1

(* An id that Release never touched refuses its replays for at least       *)
(* DeliveryRetention, whatever order concurrent claims are entered in. A   *)
(* released id may lose its next claim early, because Release leaves its   *)
(* entry in claims.                                                        *)
HeldUnlessReleased ==
  \A d \in Delivery :
    d \notin released /\ claimedAt[d] # None /\ clock <= claimedAt[d] + Retention => d \in seen

(* Only a signed and complete pull_request or click is ever queued         *)
(* (Webhook.status, ParseEvent).                                           *)
OnlySignedQueued ==
  \A d \in Delivery : queued[d] > 0 =>
    /\ Payload[d].signed /\ Payload[d].common /\ Payload[d].subject
    /\ \/ Payload[d].name = "pull_request" /\ Payload[d].updatedAt # None
       \/ Payload[d].name = "check_run" /\ Payload[d].requested /\ Payload[d].button

(* A replay is refused by its signed instant or by its claim, and no id is *)
(* refused for ever: the store and the queue stay well formed (Claim).     *)
ReplaysRefused == TypeOK /\ SignedInstantOnce /\ HeldUnlessReleased /\ OnlySignedQueued

(* No event is lost without a word: an id whose event was never queued,    *)
(* and that no request still works on, was refused by some answer, even    *)
(* when another request for it was answered 200 as a repeat (enqueue).     *)
NoSilentLoss ==
  \A d \in Delivery :
    /\ told[d] # {} /\ queued[d] = 0
    /\ \A h \in Handler : handler[h].d # d
    => told[d] \cap {403, 503} # {}

(* A refused delivery may come back: an id whose event no queue took, and  *)
(* that no request holds, is not remembered, so a redelivery is offered to *)
(* the queue again and never answered 200 as a repeat (enqueue, Release).  *)
RefusedMayReturn ==
  \A d \in seen :
    queued[d] > 0 \/ \E h \in Handler : handler[h].step \in {"offer", "release"} /\ handler[h].d = d
=============================================================================
