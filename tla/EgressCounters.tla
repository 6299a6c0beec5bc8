--------------------------- MODULE EgressCounters ---------------------------
(***************************************************************************)
(* The egress gate's counters: handlers make outbound calls through the    *)
(* gate, each call is counted in memory by its outcome, and the counts are *)
(* written in the background until the service has stopped. The host and   *)
(* the day a count is kept under are left out.                             *)
(***************************************************************************)
EXTENDS Integers

CONSTANTS
  Handlers,   \* handlers that can have a call under way
  MaxCalls,   \* bound on calls
  MaxRepeated \* bound on calls in writes whose answer is lost

VARIABLES
  calling,    \* each handler's call: none, sent
  pending, taken, written,  \* counts by outcome: Counters, a flush, the database
  made, repeated,  \* ghosts: calls made, and calls the database counted again
  late,       \* ghost: calls counted after the last flush took its counts
  flusher,    \* Counters.Run
  up          \* serving, stopping, exited

egressVars == <<calling, pending, taken, written, made, repeated, late, flusher, up>>

Outcomes == {"completed", "failed", "refused"}
NoCounts == [o \in Outcomes |-> 0]
Add(a, b) == [o \in Outcomes |-> a[o] + b[o]]
Total(a) == a["completed"] + a["failed"] + a["refused"]

EgressInit ==
  /\ calling = [h \in Handlers |-> "none"]
  /\ pending = NoCounts /\ taken = NoCounts /\ written = NoCounts /\ made = NoCounts /\ repeated = NoCounts /\ late = NoCounts
  /\ flusher = "waiting" /\ up = "serving"

-----------------------------------------------------------------------------
Record(outcome) ==
  LET one == [NoCounts EXCEPT ![outcome] = 1] IN
  /\ pending' = Add(pending, one) /\ made' = Add(made, one)
  /\ late' = IF flusher \in {"waiting", "writing"} THEN late ELSE Add(late, one)
  /\ UNCHANGED <<taken, written, repeated, flusher, up>>

(* Gate.RoundTrip: a host off the list is refused before a socket opens.   *)
RoundTrip(h, allowed) ==
  /\ up # "exited" /\ calling[h] = "none" /\ Total(made) < MaxCalls
  /\ \/ ~allowed /\ Record("refused") /\ UNCHANGED calling
     \/ /\ allowed /\ calling' = [calling EXCEPT ![h] = "sent"]
        /\ UNCHANGED <<pending, taken, written, made, repeated, late, flusher, up>>

(* The host answers, whatever the answer is, or the transport fails.       *)
Return(h, outcome) ==
  /\ up # "exited" /\ calling[h] = "sent" /\ Total(made) < MaxCalls
  /\ calling' = [calling EXCEPT ![h] = "none"] /\ Record(outcome)

-----------------------------------------------------------------------------
(* Counters.Run: at each interval and, once the service's context has      *)
(* ended, a last time. Nothing pending is nothing to write.                *)
Flush(last) ==
  /\ flusher = "waiting" /\ up # "exited"
  /\ last => up = "stopping"
  /\ taken' = pending /\ pending' = NoCounts
  /\ flusher' = IF pending = NoCounts THEN (IF last THEN "done" ELSE "waiting")
                ELSE (IF last THEN "last" ELSE "writing")
  /\ UNCHANGED <<calling, written, made, repeated, late, up>>

(* Mutant: a write that failed is forgotten.                               *)
Forget(counts) == pending

putBack(counts) == Add(pending, counts)

(* AddEgress is stored, fails, or is stored while its answer is lost,      *)
(* which the flush takes for a failure.                                    *)
AddEgress(result) ==
  /\ flusher \in {"writing", "last"} /\ up # "exited"
  /\ result = "unheard" => Total(repeated) < MaxRepeated
  /\ written' = IF result = "failed" THEN written ELSE Add(written, taken)
  /\ repeated' = IF result = "unheard" THEN Add(repeated, taken) ELSE repeated
  /\ pending' = IF result = "stored" THEN pending ELSE putBack(taken)
  /\ taken' = NoCounts
  /\ flusher' = CASE flusher = "writing" -> "waiting"
                  [] flusher = "last" /\ result = "stored" -> "done"
                  [] OTHER -> "failed"
  /\ UNCHANGED <<calling, made, late, up>>

(* serve: the context ends, the server drains beside the last flush, and   *)
(* the process ends when that flush has and the handlers have or are past  *)
(* shutdownTimeout.                                                        *)
Stop ==
  /\ up = "serving" /\ up' = "stopping"
  /\ UNCHANGED <<calling, pending, taken, written, made, repeated, late, flusher>>

Exit ==
  /\ up = "stopping" /\ flusher \in {"done", "failed"} /\ up' = "exited"
  /\ UNCHANGED <<calling, pending, taken, written, made, repeated, late, flusher>>

EgressNext ==
  \/ \E h \in Handlers : \/ \E allowed \in BOOLEAN : RoundTrip(h, allowed)
                         \/ \E outcome \in {"completed", "failed"} : Return(h, outcome)
  \/ \E last \in BOOLEAN : Flush(last)
  \/ \E result \in {"stored", "failed", "unheard"} : AddEgress(result)
  \/ Stop \/ Exit

EgressSpec == EgressInit /\ [][EgressNext]_egressVars

-----------------------------------------------------------------------------
(* Properties.                                                             *)

(* Every outbound call is counted: through failed writes and writes whose  *)
(* answer is lost each call is in memory, in a flush or in the database,   *)
(* and after a stop whose last write succeeds only the calls of handlers   *)
(* that outlived that flush are missing (Gate.RoundTrip, Record, take,     *)
(* putBack, Flush, Run, run).                                              *)
CallsCounted ==
  /\ Add(Add(written, taken), pending) = Add(made, repeated)
  /\ up = "exited" /\ flusher = "done" => pending = late
=============================================================================
