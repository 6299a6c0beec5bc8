---------------------------- MODULE CodexSession ----------------------------
(***************************************************************************)
(* A Codex run as costroid reads it (internal/adapter/codex): Feed reads   *)
(* the agent's stream, Tail follows the rollout files of the thread and of *)
(* its subagents and checks the cap, and Finish judges what they said. The *)
(* agent writes both, and is modelled from how the readers use them: one   *)
(* prompt is one turn, each request costs one unit, and a request settles  *)
(* with a line that states its thread's running total, which may repeat.   *)
(***************************************************************************)
EXTENDS Naturals, FiniteSets, Sequences, SequencesExt

CONSTANTS
  Main,         \* the run's own thread
  Sub,          \* threads with rollout files in the same home
  Starter,      \* the thread each of Sub names in session_id
  Budget,       \* the cap, in requests
  Bounds        \* the bounds of one behaviour: the threads of Sub it uses, and
                \* the requests of each thread, of every run that used it

Thread == {Main} \cup Sub

ASSUME CodexSessionAssumption ==
  /\ Main \notin Sub /\ IsFiniteSet(Sub)
  /\ \A s \in Sub : Starter[s] # s
  /\ Budget \in Nat \ {0}
  /\ \A b \in Bounds : b.subs \subseteq Sub /\ b.requests \in [Thread -> Nat]

VARIABLES
  bound,        \* the bounds of this behaviour
  \* the agent
  agent,        \* running or exited
  turn,         \* none, open or closed
  file,         \* each thread's rollout file, in whole lines
  base,         \* requests an earlier run left in the thread's file
  stream,       \* stdout lines written and not read
  \* the session
  watched,      \* the plan's Watchdog; without it there is no file and no tail
  session,      \* what Feed read
  log,          \* each thread's rolloutLog
  taken,        \* subagents.files
  \* the tail
  tail,         \* the step Tail is at
  pos, upto,    \* lines of each file applied, and read by this follow
  found,        \* the requests this follow reported to checkCap
  final,        \* this follow is the one after ctx ended
  \* execute
  main,         \* read, tail, finish or finished
  ended, budget, called,   \* the stopper
  report        \* what Finish returned

agentVars == <<bound, agent, turn, file, base, stream>>
tailVars == <<tail, pos, upto, found, final>>
readerVars == <<watched, session, log, taken>>
mainVars == <<main, ended, budget, called, report>>
vars == <<bound, agent, turn, file, base, stream, watched, session, log, taken, tail,
          pos, upto, found, final, main, ended, budget, called, report>>

Line(kind) == [kind |-> kind, total |-> 0]
Usage(total) == [kind |-> "usage", total |-> total]

(* A thread a run before this one used: one turn of one request.           *)
Earlier == <<Line("meta"), Line("task"), Usage(1)>>

NewLog == [version |-> FALSE, tasks |-> 0, settled |-> 0, requests |-> 0, problem |-> FALSE, sent |-> FALSE]

NoReport == [refused |-> FALSE, grade |-> "none", source |-> "none", requests |-> 0, unrecorded |-> 0, inside |-> FALSE, problem |-> FALSE]

Init ==
  /\ bound \in Bounds
  /\ agent = "running" /\ turn = "none" /\ stream = <<>>
  /\ watched \in BOOLEAN
  /\ base \in (IF watched /\ bound.requests[Main] > 0 THEN {0, 1} ELSE {0})
  /\ file = [t \in Thread |-> IF t = Main /\ base = 1 THEN Earlier ELSE <<>>]
  /\ session = [thread |-> FALSE, turnOpen |-> FALSE, turnsStarted |-> 0, turns |-> 0, total |-> 0,
                unreadTurn |-> FALSE, opened |-> FALSE, stale |-> FALSE]
  /\ log = [t \in Thread |-> NewLog]
  /\ taken = {}
  /\ tail = IF watched THEN "follow" ELSE "done"
  /\ pos = [t \in Thread |-> 0] /\ upto = [t \in Thread |-> 0] /\ found = 0 /\ final = FALSE
  /\ main = "read" /\ ended = FALSE /\ budget = FALSE /\ called = FALSE
  /\ report = NoReport

-----------------------------------------------------------------------------
(* The agent.                                                              *)

(* The thread and the threads of S that it started, by any number of steps. *)
Started(S) ==
  LET reach[n \in 0..Cardinality(Sub)] ==
        IF n = 0 THEN {Main}
        ELSE reach[n - 1] \cup {s \in S : Starter[s] \in reach[n - 1]}
  IN reach[Cardinality(Sub)]

Ours == Started(Sub)

Count(t, kind) == Cardinality({i \in DOMAIN file[t] : file[t][i].kind = kind})
Total(t) == Cardinality({file[t][i].total : i \in {i \in DOMAIN file[t] : file[t][i].kind = "usage"}})
InFlight(t) ==
  \E i \in DOMAIN file[t] :
    /\ file[t][i].kind \in {"task", "tool"}
    /\ \A j \in i + 1 .. Len(file[t]) : file[t][j].kind # "usage"
Counted == SumFunctionOnSet([t \in Thread |-> Total(t)], Ours)

(* The thread wrote its task in this run. It is the first line a run adds  *)
(* to a file that an earlier one left.                                     *)
OnTask(t) == Count(t, "task") > IF t = Main THEN base ELSE 0

(* Only the run's own agent stops writing when it exits. What a file gains *)
(* after an unreadable line is never read, so none is written.             *)
Writes(t) ==
  /\ watched /\ turn # "none"
  /\ t \in Ours => agent = "running"
  /\ Count(t, "bad") = 0

Write(t, line) ==
  /\ file' = [file EXCEPT ![t] = Append(@, line)]
  /\ UNCHANGED <<bound, agent, turn, base, stream, readerVars, tailVars, mainVars>>

CreateFile(t) ==
  /\ Writes(t) /\ file[t] = <<>> /\ t \in {Main} \cup bound.subs
  /\ t \in Sub => (Starter[t] \in Thread => file[Starter[t]] # <<>>)
  /\ Write(t, Line("meta"))

StartTask(t) ==
  /\ Writes(t) /\ file[t] # <<>> /\ turn # "closed"
  /\ ~OnTask(t) /\ Total(t) < bound.requests[t]
  /\ Write(t, Line("task"))

SettleRequest(t) == Writes(t) /\ InFlight(t) /\ Write(t, Usage(Total(t) + 1))

(* A token_count after its token_usage_record, or for a rate limit: once   *)
(* for a thread, as a bound.                                               *)
RepeatTotal(t) ==
  /\ Writes(t) /\ OnTask(t)
  /\ Last(file[t]).kind = "usage" /\ Count(t, "usage") = Total(t)
  /\ Write(t, Last(file[t]))

SendOutput(t) ==
  /\ Writes(t) /\ turn = "open" /\ OnTask(t) /\ ~InFlight(t)
  /\ Total(t) < bound.requests[t]
  /\ Write(t, Line("tool"))

(* A line that does not parse, or whose counts do not add up, in place of  *)
(* a request's.                                                            *)
WriteUnreadable(t) ==
  /\ Writes(t) /\ InFlight(t)
  /\ Write(t, Line("bad"))

Emit(from, to, line) ==
  /\ agent = "running" /\ turn = from
  /\ turn' = to
  /\ stream' = Append(stream, line)
  /\ UNCHANGED <<bound, agent, file, base, readerVars, tailVars, mainVars>>

(* The stream's total may be ahead of the file by the request that ended   *)
(* the turn, and may hold the subagents' spend or not.                     *)
EmitCompleted ==
  LET own == Total(Main) + IF InFlight(Main) THEN 1 ELSE 0 IN
  \E total \in {own, own + Counted - Total(Main)} :
    Emit("open", "closed", [kind |-> "completed", total |-> total])

Exit ==
  /\ agent = "running"
  /\ agent' = "exited"
  /\ UNCHANGED <<bound, turn, file, base, stream, readerVars, tailVars, mainVars>>

Agent ==
  \/ \E t \in Thread : \/ CreateFile(t) \/ StartTask(t) \/ SettleRequest(t)
                       \/ RepeatTotal(t) \/ SendOutput(t) \/ WriteUnreadable(t)
  \/ Emit("none", "thread", Line("thread"))
  \/ Emit("thread", "open", Line("turn"))
  \/ EmitCompleted
  \/ Emit("open", "closed", Line("unread"))
  \/ Exit

-----------------------------------------------------------------------------
(* The stream.                                                             *)

completeTurn(total) ==
  [session EXCEPT !.total = total, !.turnOpen = FALSE, !.turns = @ + 1]

Feed ==
  /\ main = "read" /\ stream # <<>>
  /\ stream' = Tail(stream)
  /\ LET line == Head(stream) IN
     session' = CASE line.kind = "thread" -> [session EXCEPT !.thread = TRUE]
                  [] line.kind = "turn" -> [session EXCEPT !.turnOpen = TRUE, !.turnsStarted = @ + 1]
                  [] line.kind = "completed" -> IF session.unreadTurn THEN session ELSE completeTurn(line.total)
                  [] line.kind = "unread" -> [session EXCEPT !.unreadTurn = TRUE]
  /\ UNCHANGED <<bound, agent, turn, file, base, watched, log, taken, tailVars, mainVars>>

-----------------------------------------------------------------------------
(* The rollout files.                                                      *)

refuse(l) == [l EXCEPT !.problem = TRUE]

(* Only a total that moved is a new request.                               *)
settle(l, total) ==
  CASE ~l.version -> refuse(l)
    [] l.version /\ total = l.settled -> l
    [] l.version /\ total = l.settled + 1 ->
         [l EXCEPT !.settled = total, !.requests = @ + 1, !.sent = FALSE]
    [] OTHER -> refuse(l)

apply(l, line) ==
  IF l.problem THEN l
  ELSE CASE line.kind = "meta" -> [l EXCEPT !.version = TRUE]
         [] line.kind = "task" -> [l EXCEPT !.tasks = @ + 1, !.sent = TRUE]
         [] line.kind = "tool" -> [l EXCEPT !.sent = TRUE]
         [] line.kind = "usage" -> settle(l, line.total)
         [] line.kind = "bad" -> refuse(l)

Requests(logs, subs) == SumFunctionOnSet([t \in Thread |-> logs[t].requests], {Main} \cup subs)

(* open, and the lines the thread's own file gained. A file last written   *)
(* before the run started is noted when it is first found.                 *)
Follow ==
  /\ tail = "follow"
  /\ IF session.thread /\ file[Main] # <<>>
     THEN /\ tail' = "discover"
          /\ upto' = [upto EXCEPT ![Main] = Len(file[Main])]
          /\ session' = [session EXCEPT !.stale = IF session.opened THEN @ ELSE base = 1 /\ file[Main] = Earlier]
     ELSE /\ tail' = IF final THEN "done" ELSE "idle"
          /\ UNCHANGED <<upto, session>>
  /\ UNCHANGED <<agentVars, watched, log, taken, pos, found, final, mainVars>>

(* Mutant: every rollout file in the home is taken.                        *)
DiscoverAll ==
  /\ tail = "discover"
  /\ taken' = {s \in Sub : file[s] # <<>>}
  /\ upto' = [t \in Thread |-> IF t \in taken' THEN Len(file[t]) ELSE upto[t]]
  /\ tail' = "apply"
  /\ UNCHANGED <<agentVars, watched, session, log, pos, found, final, mainVars>>

(* discover, take, and the lines each subagent's file gained.              *)
Discover ==
  /\ tail = "discover"
  /\ taken' = Started({s \in Sub : file[s] # <<>>}) \ {Main}
  /\ upto' = [t \in Thread |-> IF t \in taken' THEN Len(file[t]) ELSE upto[t]]
  /\ tail' = "apply"
  /\ UNCHANGED <<agentVars, watched, session, log, pos, found, final, mainVars>>

(* The rest of follow, under the session's lock. Tail reports what settled *)
(* while the agent works, except after ctx ended.                          *)
Apply ==
  /\ tail = "apply"
  /\ LET gained(t) == SubSeq(file[t], pos[t] + 1, upto[t])
         read == [t \in Thread |-> FoldLeft(apply, log[t], gained(t))]
         failed == \E s \in taken : read[s].problem
         working == session.turnOpen \/ session.turns = 0
     IN /\ log' = [read EXCEPT ![Main].problem = @ \/ failed]
        /\ IF working /\ ~final /\ Requests(log', taken) > Requests(log, taken)
           THEN tail' = "cap" /\ found' = Requests(log', taken)
           ELSE tail' = (IF final THEN "done" ELSE "idle") /\ found' = 0
  /\ session' = [session EXCEPT !.opened = TRUE]
  /\ pos' = upto
  /\ UNCHANGED <<agentVars, watched, taken, upto, final, mainVars>>

(* Mutant: the run is stopped past the cap and not at it.                  *)
CheckPastCap ==
  /\ tail = "cap"
  /\ IF found > Budget /\ ~ended
     THEN budget' = TRUE /\ tail' = "stop"
     ELSE tail' = "idle" /\ UNCHANGED budget
  /\ found' = 0
  /\ UNCHANGED <<agentVars, readerVars, pos, upto, final, main, ended, called, report>>

checkCap ==
  /\ tail = "cap"
  /\ IF found >= Budget /\ ~ended
     THEN budget' = TRUE /\ tail' = "stop"
     ELSE tail' = "idle" /\ UNCHANGED budget
  /\ found' = 0
  /\ UNCHANGED <<agentVars, readerVars, pos, upto, final, main, ended, called, report>>

Stop ==
  /\ tail = "stop"
  /\ called' = TRUE /\ tail' = "idle"
  /\ UNCHANGED <<agentVars, readerVars, pos, upto, found, final, main, ended, budget, report>>

(* The ticker, or ctx's end and the last follow.                           *)
Again ==
  /\ tail = "idle"
  /\ tail' = "follow"
  /\ final' \in {FALSE, main = "tail"}
  /\ UNCHANGED <<agentVars, readerVars, pos, upto, found, mainVars>>

-----------------------------------------------------------------------------
(* execute after the output ended, and Finish.                             *)

OutputEnds ==
  /\ main = "read" /\ stream = <<>> /\ agent = "exited"
  /\ main' = "tail" /\ ended' = TRUE
  /\ UNCHANGED <<agentVars, readerVars, tailVars, budget, called, report>>

FinishTail ==
  /\ main = "tail" /\ tail = "done"
  /\ main' = "finish"
  /\ UNCHANGED <<agentVars, readerVars, tailVars, ended, budget, called, report>>

(* Mutant: a file that gained nothing in this run passes.                  *)
PredatesByTasks ==
  session.opened /\ log[Main].tasks > (IF session.turnsStarted > 1 THEN session.turnsStarted ELSE 1)

rolloutPredates ==
  /\ session.opened
  /\ log[Main].tasks > (IF session.turnsStarted > 1 THEN session.turnsStarted ELSE 1) \/ session.stale

judgeRollout ==
  LET with == SumFunctionOnSet([t \in Thread |-> log[t].settled], {Main} \cup taken) IN
  \/ ~session.opened
  \/ /\ ~session.turnOpen /\ session.turns > 0
     /\ session.total \notin {log[Main].settled, with}

inFlight == Cardinality({t \in {Main} \cup taken : log[t].sent})

Finish ==
  /\ main = "finish"
  /\ main' = "finished"
  /\ LET problem == log[Main].problem \/ rolloutPredates \/ (watched /\ judgeRollout)
         requests == Requests(log, taken)
         fromFile == requests > 0 /\ (~problem \/ session.turns = 0)
         inside == session.turnOpen \/ session.turns = 0
     IN report' =
          IF ~session.thread \/ session.unreadTurn
          THEN [NoReport EXCEPT !.refused = TRUE]
          ELSE [refused |-> FALSE,
                grade |-> IF watched /\ ~problem THEN "wrapper-watchdog" ELSE "none",
                source |-> IF fromFile THEN "agent_session_file" ELSE "agent_stream",
                requests |-> IF fromFile THEN requests ELSE session.total,
                unrecorded |-> IF inside /\ session.opened /\ ~problem THEN inFlight ELSE 0,
                inside |-> inside, problem |-> problem]
  /\ UNCHANGED <<agentVars, readerVars, tailVars, ended, budget, called>>

Finished == main = "finished" /\ UNCHANGED vars

Tailing == Follow \/ Discover \/ Apply \/ checkCap \/ Stop \/ Again
Executing == Feed \/ OutputEnds \/ FinishTail \/ Finish

Next == Agent \/ Tailing \/ Executing \/ Finished

(* The run's goroutines run, and a stopped agent ends: module AgentProcess *)
(* shows that SIGKILL follows. Nothing else is assumed of the agent.       *)
Fairness == WF_vars(Tailing) /\ WF_vars(Executing) /\ WF_vars(called /\ Exit)

Spec == Init /\ [][Next]_vars
FairSpec == Spec /\ Fairness

-----------------------------------------------------------------------------
(* Properties.                                                             *)

(* The state has its type. A position never passes what was read, nor a    *)
(* file's end.                                                             *)
TypeOK ==
  /\ agent \in {"running", "exited"} /\ turn \in {"none", "thread", "open", "closed"}
  /\ tail \in {"follow", "discover", "apply", "cap", "stop", "idle", "done"}
  /\ main \in {"read", "tail", "finish", "finished"}
  /\ taken \subseteq Sub
  /\ \A t \in Thread : pos[t] \in 0..upto[t] /\ upto[t] \in 0..Len(file[t])
  /\ \A t \in Thread : log[t].requests \in 0..bound.requests[t]

(* A run graded wrapper-watchdog reports each request its thread and its   *)
(* subagents settled, once, and none of an earlier run's, whatever was     *)
(* still unread when the agent exited (Finish, judgeRollout and Tail's     *)
(* last follow).                                                           *)
WatchedIsExact ==
  main = "finished" /\ report.grade = "wrapper-watchdog" =>
    report.requests = Counted /\ base = 0

(* A run that ended inside its turn states how many requests its files     *)
(* show sent and not settled (reportInFlight).                             *)
UnrecordedIsExact ==
  main = "finished" /\ ~report.refused /\ report.inside /\ watched /\ ~report.problem =>
    report.unrecorded = Cardinality({t \in Ours : InFlight(t)})

(* What a finished run reports of its requests, settled and in flight, is  *)
(* what its files hold (Finish).                                           *)
ReportIsExact == WatchedIsExact /\ UnrecordedIsExact

(* A run is stopped only when the files it wrote reach the cap, however    *)
(* often they repeat a total (settle and checkCap).                        *)
StopIsAtCap == budget => Counted >= Budget

(* Once its files reach the cap, a watched agent is stopped unless its     *)
(* turn closed first or a file could not be read (Tail, checkCap).         *)
CapStops ==
  Counted >= Budget ~>
    agent = "exited" \/ turn = "closed" \/ log[Main].problem
=============================================================================
