---------------------------- MODULE ClaudeSession ---------------------------
(***************************************************************************)
(* Claude Code runs that share a config directory, as costroid reads them  *)
(* (internal/adapter/claudecode, internal/run): Claim holds the directory  *)
(* for one run, Feed reads the agent's stream, and Finish sets the last    *)
(* result beside the session files and adds the sessions nested in the     *)
(* run. Of streams and files only what the readers tell apart is kept: a   *)
(* request costs two units, its first content block's line states one and  *)
(* its last block's line two, and it is of the model "main".               *)
(***************************************************************************)
EXTENDS Naturals, FiniteSets, Sequences, FiniteSetsExt, SequencesExt

CONSTANTS
  Run,          \* runs that costroid records
  Other,        \* sessions of other claude processes in the directory
  Starter,      \* the run whose hook starts each of Other, or Nobody
  Place,        \* each session's project directory and working directory
  Setups,       \* what one behaviour holds
  Nobody

Session == Run \cup Other
Files == {"main", "sub"}
Model == {"main", "side"}

SetupType ==
  [oneJob : BOOLEAN,              \* inside CI, where the runner hosts one job
   contained : BOOLEAN,           \* what an agent started ends with it
   persist : BOOLEAN,             \* the agent keeps session files
   odd : BOOLEAN,                 \* some lines cannot be read
   files : SUBSET Files,          \* the files the requests are in
   byAction : SUBSET Run,         \* runs of claude-code-action, read when they ended
   requests : [Session -> Nat],   \* bounds: requests, results, side requests and time
   results : Nat, side : Nat, time : Nat]

ASSUME ClaudeSessionAssumption ==
  /\ Setups \subseteq SetupType
  /\ Run \cap Other = {} /\ Nobody \notin Session
  /\ Starter \in [Other -> Run \cup {Nobody}]
  \* A runner in CI has no sessions of others (nestedSessions).
  /\ \A u \in Setups : u.oneJob => \A s \in Other : u.requests[s] > 0 => Starter[s] \in Run

VARIABLES
  setup, now,
  \* the claude processes
  proc,         \* none, live or dead
  begun,        \* requests each session sent
  sides,        \* each run's side requests, by model
  file,         \* each session's two files, in lines
  out,          \* each run's stream, in lines
  \* costroid
  lock,         \* the run that holds costroid-run.lock
  run,          \* the step each run is at
  window,       \* when the agent's process ran
  report,       \* what Finish returned so far
  todo          \* the files nestedSessions has still to read

agentVars == <<proc, begun, sides, file, out>>
runVars == <<lock, run, window, report, todo>>
vars == <<setup, now, proc, begun, sides, file, out, lock, run, window, report, todo>>

NoTotals == [m \in Model |-> 0]
NoReport == [rows |-> {}, counted |-> {}, unrecorded |-> 0, warned |-> FALSE]

Init ==
  /\ setup \in Setups /\ now = 0
  /\ proc = [s \in Session |-> "none"]
  /\ begun = [s \in Session |-> 0] /\ sides = [r \in Run |-> NoTotals]
  /\ file = [s \in Session |-> [f \in Files |-> <<>>]]
  /\ out = [r \in Run |-> <<>>]
  /\ lock = Nobody /\ run = [r \in Run |-> "idle"]
  /\ window = [r \in Run |-> [from |-> 0, to |-> 0]]
  /\ report = [r \in Run |-> NoReport] /\ todo = [r \in Run |-> {}]

Tick ==
  /\ now < setup.time
  /\ now' = now + 1
  /\ UNCHANGED <<setup, agentVars, runVars>>

-----------------------------------------------------------------------------
(* The processes and what they write.                                      *)

Line(kind, s, n, units) == [kind |-> kind, id |-> <<s, n>>, units |-> units, names |-> s, at |-> now]

Opening(s) == IF s \in Run /\ ~setup.persist THEN <<>> ELSE <<Line("user", s, 0, 0)>>
Keep(s, f, line) ==
  file' = [file EXCEPT ![s][f] = IF file[s]["main"] = <<>> THEN @ ELSE Append(@, line)]

(* The requests whose first block is the last line of their file.          *)
Open(s, f) == file[s][f] # <<>> /\ LET line == Last(file[s][f]) IN line.kind = "usage" /\ line.units = 1
OpenFiles(s) == {f \in Files : Open(s, f)}

BeginRequest(s, f) ==
  /\ proc[s] = "live" /\ (s \in Run => out[s] # <<>>) /\ f \in setup.files /\ ~Open(s, f) /\ begun[s] < setup.requests[s]
  /\ begun' = [begun EXCEPT ![s] = @ + 1]
  /\ Keep(s, f, Line("usage", s, begun[s] + 1, IF file[s]["main"] = <<>> THEN 2 ELSE 1))
  /\ UNCHANGED <<setup, now, proc, sides, out, runVars>>

EndRequest(s, f) ==
  /\ proc[s] = "live" /\ Open(s, f)
  /\ \E kind \in {"usage"} \cup IF setup.odd THEN {"bad", "past"} ELSE {} :
       Keep(s, f, Line(kind, s, Last(file[s][f]).id[2], 2))
  /\ out' = IF s \in Run /\ f = "main" THEN [out EXCEPT ![s] = Append(@, [kind |-> "assistant"])] ELSE out
  /\ UNCHANGED <<setup, now, proc, begun, sides, runVars>>

(* A session started from the run's conversation repeats its request, under *)
(* its own session id or under the run's.                                  *)
CopyRequest(s) ==
  /\ Starter[s] \in Run /\ proc[s] = "live" /\ Len(file[s]["main"]) = 1
  /\ LET r == Starter[s] IN
     /\ Len(file[r]["main"]) > 2
     /\ \E names \in {s, r} : Keep(s, "main", [file[r]["main"][3] EXCEPT !.names = names, !.at = now])
  /\ UNCHANGED <<setup, now, proc, begun, sides, out, runVars>>

StartOther(s) ==
  /\ proc[s] = "none" /\ setup.requests[s] > 0
  /\ Starter[s] \in Run => proc[Starter[s]] = "live"
  /\ proc' = [proc EXCEPT ![s] = "live"]
  /\ file' = [file EXCEPT ![s]["main"] = Opening(s)]
  /\ UNCHANGED <<setup, now, begun, sides, out, runVars>>

(* A process that is killed while it writes leaves a cut line: a request's *)
(* last block, or the only trace of another request.                       *)
Cuts(s) ==
  {C \in SUBSET setup.files :
     /\ C # {} => setup.odd /\ file[s]["main"] # <<>>
     /\ begun[s] + Cardinality(C \ OpenFiles(s)) <= setup.requests[s]}

(* The processes of D end, each with the cuts of cut.                      *)
Die(D, cut) ==
  /\ proc' = [s \in Session |-> IF s \in D THEN "dead" ELSE proc[s]]
  /\ begun' = [s \in Session |-> IF s \in D THEN begun[s] + Cardinality(cut[s] \ OpenFiles(s)) ELSE begun[s]]
  /\ file' = [s \in Session |-> [f \in Files |->
                IF s \in D /\ f \in cut[s] THEN Append(file[s][f], Line("cut", s, 0, 0)) ELSE file[s][f]]]

EndOther(s) ==
  /\ proc[s] = "live"
  /\ \E C \in Cuts(s) : Die({s}, [t \in {s} |-> C])
  /\ UNCHANGED <<setup, now, sides, out, runVars>>

(* A request outside the conversation: only a result counts it.            *)
SideRequest(r, m) ==
  /\ proc[r] = "live" /\ out[r] # <<>> /\ sides[r]["main"] + sides[r]["side"] < setup.side
  /\ sides' = [sides EXCEPT ![r][m] = @ + 1]
  /\ UNCHANGED <<setup, now, proc, begun, file, out, runVars>>

(* What the run's requests came to, when each has ended.                   *)
Spent(s) == 2 * begun[s] + IF s \in Run THEN sides[s]["main"] + sides[s]["side"] ELSE 0

(* A result's modelUsage is cumulative.                                    *)
EmitResult(r) ==
  /\ proc[r] = "live" /\ out[r] # <<>> /\ Cardinality({i \in DOMAIN out[r] : out[r][i].kind = "result"}) < setup.results
  /\ LET totals == [sides[r] EXCEPT !["main"] = @ + 2 * (begun[r] - Cardinality(OpenFiles(r)))] IN
     \E says \in {"totals"} \cup IF setup.odd THEN {"unread", "usageAlone", "none"} ELSE {} :
       out' = [out EXCEPT ![r] = Append(@,
                 [kind |-> "result", says |-> says, totals |-> IF says = "totals" THEN totals ELSE NoTotals])]
  /\ UNCHANGED <<setup, now, proc, begun, sides, file, runVars>>

EmitInit(r) ==
  /\ proc[r] = "live" /\ out[r] = <<>>
  /\ out' = [out EXCEPT ![r] = <<[kind |-> "init"]>>]
  /\ UNCHANGED <<setup, now, proc, begun, sides, file, runVars>>

-----------------------------------------------------------------------------
(* The stream.                                                             *)

NewSession ==
  [id |-> FALSE, sawResult |-> FALSE, unread |-> FALSE, usageAlone |-> FALSE,
   totals |-> NoTotals, answered |-> {}]

(* Mutant: the results of a run are added up.                              *)
AddResults(s, line) ==
  IF line.says = "unread"
  THEN [s EXCEPT !.sawResult = TRUE, !.unread = TRUE]
  ELSE [s EXCEPT !.sawResult = TRUE, !.unread = FALSE, !.usageAlone = line.says = "usageAlone",
                 !.totals = [m \in Model |-> @[m] + line.totals[m]], !.id = TRUE]

(* The last result wins, and a result that cannot be read keeps what the   *)
(* one before it said.                                                     *)
readResult(s, line) ==
  IF line.says = "unread"
  THEN [s EXCEPT !.sawResult = TRUE, !.unread = TRUE]
  ELSE [s EXCEPT !.sawResult = TRUE, !.unread = FALSE, !.usageAlone = line.says = "usageAlone",
                 !.totals = line.totals, !.id = TRUE]

Feed(s, line) ==
  CASE line.kind = "init" -> [s EXCEPT !.id = TRUE]
    [] line.kind = "assistant" -> [s EXCEPT !.answered = {"main"}]
    [] line.kind = "result" -> readResult(s, line)

(* The run's output is read to its end before Finish.                      *)
Fed(r) == FoldLeft(Feed, NewSession, out[r])

checkResult(s) == ~s.unread /\ ~s.usageAlone

-----------------------------------------------------------------------------
(* Session files.                                                          *)

Lines(s) == file[s]["main"] \o file[s]["sub"]

(* The count that stops the reading of the files: the first that cannot be *)
(* read or passes the bound.                                               *)
Problem(lines) ==
  LET stops == {i \in DOMAIN lines : lines[i].kind \in {"bad", "past"}}
  IN IF stops = {} THEN "none" ELSE lines[Min(stops)].kind

(* Each request counts once, as its last line states it.                   *)
requestsOf(lines) ==
  LET usage == {i \in DOMAIN lines : lines[i].kind = "usage"}
  IN [id \in {lines[i].id : i \in usage} |-> lines[Max({i \in usage : lines[i].id = id})].units]

(* The files that end inside a line.                                       *)
inFlight(s) == Cardinality({f \in Files : file[s][f] # <<>> /\ Last(file[s][f]).kind = "cut"})

Times(lines) == {lines[i].at : i \in {i \in DOMAIN lines : lines[i].kind # "cut"}}

Empty == [found |-> FALSE, problem |-> "none", requests |-> requestsOf(<<>>), inFlight |-> 0]

readSessionFiles(r, s) ==
  IF ~s.id \/ file[r]["main"] = <<>> THEN Empty
  ELSE IF Problem(Lines(r)) # "none" THEN [Empty EXCEPT !.problem = Problem(Lines(r))]
  ELSE [found |-> TRUE, problem |-> "none",
        requests |-> requestsOf(Lines(r)), inFlight |-> inFlight(r)]

Row(id, units) == [of |-> id[1], id |-> id, units |-> units]
Units(requests) == MapThenSumSet(LAMBDA id : requests[id], DOMAIN requests)

sideModels(s, requests) ==
  {m \in Model : s.totals[m] > 0 /\ m \notin s.answered /\ ~(m = "main" /\ DOMAIN requests # {})}

agrees(s, requests) ==
  /\ Units(requests) = s.totals["main"]
  /\ \A m \in Model \ {"main"} : s.totals[m] > 0 => m \in sideModels(s, requests)

perModel(r, s, only) == {Row(<<r, m>>, s.totals[m]) : m \in {m \in only : s.totals[m] > 0}}

(* What finishRun makes of the stream s and the files t.                   *)
finishRun(r, s, t) ==
  LET filed == DOMAIN t.requests # {}
      agree == agrees(s, t.requests)
      fromFiles == filed /\ (~s.sawResult \/ agree)
      unused == t.problem = "bad" \/ (filed /\ s.sawResult /\ ~agree)
      unrecorded == IF s.sawResult THEN 0 ELSE t.inFlight
  IN [refused |->
        \/ ~checkResult(s) \/ t.problem = "past"
        \/ t.problem = "bad" /\ ~s.sawResult
        \/ ~fromFiles /\ ~s.sawResult /\ t.inFlight = 0,
      report |->
        [rows |-> IF fromFiles
                  THEN {Row(id, t.requests[id]) : id \in DOMAIN t.requests}
                         \cup perModel(r, s, sideModels(s, t.requests))
                  ELSE perModel(r, s, Model),
         counted |-> DOMAIN t.requests,
         unrecorded |-> unrecorded,
         warned |-> \/ unused \/ unrecorded > 0
                    \/ filed /\ ~s.sawResult
                    \/ ~fromFiles /\ s.totals # NoTotals]]

(* The main files nestedSessions reads. One last written more than a       *)
(* minute, a tick, before the run began is passed over.                    *)
candidates(r) ==
  {s \in Session \ {r} :
     /\ file[s]["main"] # <<>>
     /\ setup.oneJob \/ Place[s].project = Place[r].project
     /\ Last(file[s]["main"]).at + 1 >= window[r].from}

-----------------------------------------------------------------------------
(* A run.                                                                  *)

(* Mutant: the lock is not asked for.                                      *)
ClaimAnyway(r) ==
  /\ run[r] = "idle" /\ r \notin setup.byAction
  /\ run' = [run EXCEPT ![r] = "claimed"] /\ lock' = r
  /\ UNCHANGED <<setup, now, agentVars, window, report, todo>>

Claim(r) ==
  /\ run[r] = "idle" /\ r \notin setup.byAction
  /\ IF lock = Nobody
     THEN run' = [run EXCEPT ![r] = "claimed"] /\ lock' = r
     ELSE run' = [run EXCEPT ![r] = "refused"] /\ UNCHANGED lock
  /\ UNCHANGED <<setup, now, agentVars, window, report, todo>>

(* The agent starts, from Run or from the action, whose step has the job   *)
(* to itself. No run starts at the instant another ended.                  *)
Launch(r) ==
  /\ setup.requests[r] > 0
  /\ \/ run[r] = "claimed"
     \/ run[r] = "idle" /\ r \in setup.byAction /\ \A q \in Run : run[q] \notin {"claimed", "running"}
  /\ \A q \in Run \ {r} : /\ proc[q] = "dead" => window[q].to < now
                          /\ q \in setup.byAction => run[q] # "running"
  /\ run' = [run EXCEPT ![r] = "running"]
  /\ window' = [window EXCEPT ![r].from = now]
  /\ proc' = [proc EXCEPT ![r] = "live"]
  /\ file' = [file EXCEPT ![r]["main"] = Opening(r)]
  /\ UNCHANGED <<setup, now, begun, sides, out, lock, report, todo>>

(* execute returns, and RunWindow. An execution file states its window     *)
(* from the messages' times or from the result's duration, which may leave *)
(* out the run's beginning.                                                *)
Exit(r) ==
  LET D == {r} \cup {s \in Other : setup.contained /\ Starter[s] = r /\ proc[s] = "live"} IN
  /\ run[r] = "running"
  /\ run' = [run EXCEPT ![r] = "exited"]
  /\ \E cut \in [D -> UNION {Cuts(s) : s \in D}] : (\A s \in D : cut[s] \in Cuts(s)) /\ Die(D, cut)
  /\ \E from \in IF r \in setup.byAction THEN window[r].from .. now ELSE {window[r].from} :
       window' = [window EXCEPT ![r] = [from |-> from, to |-> now]]
  /\ UNCHANGED <<setup, now, sides, out, lock, report, todo>>

Release(r) == lock' = IF lock = r THEN Nobody ELSE lock

Finish(r) ==
  LET s == Fed(r)
      t == readSessionFiles(r, s)
      finished == finishRun(r, s, t)
  IN /\ run[r] = "exited"
     /\ IF finished.refused
        THEN run' = [run EXCEPT ![r] = "refused"] /\ Release(r) /\ UNCHANGED <<report, todo>>
        ELSE /\ run' = [run EXCEPT ![r] = "nested"] /\ UNCHANGED lock
             /\ report' = [report EXCEPT ![r] = finished.report]
             /\ todo' = [todo EXCEPT ![r] = IF t.found THEN candidates(r) ELSE {}]
     /\ UNCHANGED <<setup, now, agentVars, window>>

(* An execution file that ends inside its array.                           *)
RefuseTruncated(r) ==
  /\ run[r] = "exited" /\ r \in setup.byAction
  /\ run' = [run EXCEPT ![r] = "refused"]
  /\ UNCHANGED <<setup, now, agentVars, lock, window, report, todo>>

(* Mutant: a session is nested whenever it started.                        *)
StartedAnyTime(r, s) == Times(file[s]["main"]) # {}

startedInside(r, s) ==
  /\ Times(file[s]["main"]) # {}
  /\ Min(Times(file[s]["main"])) \in window[r].from .. window[r].to

(* One file: it is passed over, named in a warning, or counted whole.      *)
nestedSession(r, s) ==
  LET names == {file[s]["main"][i].names : i \in DOMAIN file[s]["main"]}
      unread == Problem(file[s]["main"]) # "none"
      passed == ~unread /\ (r \in names \/ ~startedInside(r, s))
      failed == \/ Problem(Lines(s)) # "none"
                \/ Max(Times(Lines(s))) > window[r].to
                \/ ~setup.oneJob /\ Place[s].cwd # Place[r].cwd
      requests == requestsOf(Lines(s))
      fresh == DOMAIN requests \ report[r].counted
  IN /\ run[r] = "nested" /\ s \in todo[r]
     /\ todo' = [todo EXCEPT ![r] = @ \ {s}]
     /\ report' = IF passed THEN report
                  ELSE IF failed THEN [report EXCEPT ![r].warned = TRUE]
                  ELSE [report EXCEPT ![r].rows = @ \cup {Row(id, requests[id]) : id \in fresh},
                                      ![r].counted = @ \cup fresh]
     /\ UNCHANGED <<setup, now, agentVars, lock, run, window>>

(* record, and the deferred release.                                       *)
Record(r) ==
  /\ run[r] = "nested" /\ todo[r] = {}
  /\ run' = [run EXCEPT ![r] = "recorded"] /\ Release(r)
  /\ UNCHANGED <<setup, now, agentVars, window, report, todo>>

(* costroid's own process is killed: the kernel ends the lock, and the     *)
(* agent may go on.                                                        *)
Crash(r) ==
  /\ run[r] \in {"claimed", "running", "exited", "nested"} /\ r \notin setup.byAction
  /\ run' = [run EXCEPT ![r] = "crashed"] /\ Release(r)
  /\ UNCHANGED <<setup, now, agentVars, window, report, todo>>

Agents ==
  \/ \E s \in Session, f \in Files : BeginRequest(s, f) \/ EndRequest(s, f)
  \/ \E s \in Other : StartOther(s) \/ CopyRequest(s) \/ EndOther(s)
  \/ \E r \in Run : EmitInit(r) \/ EmitResult(r) \/ \E m \in Model : SideRequest(r, m)

Runs ==
  \E r \in Run : \/ Claim(r) \/ Launch(r) \/ Exit(r) \/ Finish(r) \/ RefuseTruncated(r)
                 \/ Record(r) \/ Crash(r) \/ \E s \in Session : nestedSession(r, s)

Next == Tick \/ Agents \/ Runs

Spec == Init /\ [][Next]_vars

-----------------------------------------------------------------------------
(* Properties.                                                             *)

RowsOf(s) ==
  {p \in UNION {{r} \X report[r].rows : r \in {r \in Run : run[r] = "recorded"}} : p[2].of = s}
RowUnits(pairs) == MapThenSumSet(LAMBDA p : p[2].units, pairs)

(* Over all runs that share the directory, the rows never state more of a  *)
(* session than it spent: no request is counted by two runs, by a run and  *)
(* as nested, by file and by result, or once for each of its lines (Claim, *)
(* addResponse, sideModels, nestedSessions' counted).                      *)
CountedOnce == \A s \in Session : RowUnits(RowsOf(s)) <= Spent(s)

(* When the last thing a run's stream says is a result it can read, and    *)
(* nothing was spent after it, the run's own rows come to exactly what it  *)
(* spent, from whichever source Finish took them (finishRun, readResult,   *)
(* agrees, sideRequests).                                                  *)
ResultIsExact ==
  \A r \in Run :
    /\ run[r] = "recorded" /\ out[r] # <<>>
    /\ Last(out[r]).kind = "result" /\ Last(out[r]).totals["main"] + Last(out[r]).totals["side"] = Spent(r)
    => RowUnits({p \in RowsOf(r) : p[1] = r}) = Spent(r)

(* A request that a whole line of the run's files, or of a session its     *)
(* hook started and ended beside it, shows in full is in the rows or a     *)
(* warning says that something is not; and a run that was killed with no   *)
(* result states one unrecorded request for each file that ends inside a   *)
(* line (reportInFlight, finishRun's warnings, nestedSession).             *)
LossIsStated ==
  \A r \in {r \in Run : run[r] = "recorded"} :
    LET shown(s) == {l.id : l \in {l \in ToSet(Lines(s)) : l.kind = "usage" /\ l.units = 2 /\ l.id[1] = s}}
        results == {i \in DOMAIN out[r] : out[r][i].kind = "result"}
        beside(s) ==
          /\ Starter[s] = r /\ setup.contained /\ r \notin setup.byAction
          /\ setup.oneJob \/ Place[s] = Place[r]
          /\ \A l \in ToSet(file[s]["main"]) : l.names = s
    IN /\ 2 * Cardinality(shown(r)) > RowUnits({p \in RowsOf(r) : p[1] = r}) => report[r].warned
       /\ results = {} => report[r].unrecorded =
            Cardinality({f \in Files : \E i \in DOMAIN file[r][f] : file[r][f][i].kind = "cut"})
       /\ \A s \in Other : beside(s) /\ setup.persist =>
            report[r].warned \/ shown(s) \subseteq {row.id : row \in report[r].rows}

(* A run's rows come to what it spent where its stream says so, and what   *)
(* they lack is stated (finishRun).                                        *)
RunIsAccounted == ResultIsExact /\ LossIsStated

(* Inside CI a run's rows are its own and its hooks': runs that follow     *)
(* each other in one directory never take each other's sessions, unless a  *)
(* killed costroid left an agent behind (Claim, startedInside).            *)
OwnTreeOnly ==
  setup.oneJob =>
    \A r \in {r \in Run : run[r] = "recorded"} : \A row \in report[r].rows :
      \/ row.of = r
      \/ row.of \in Other /\ Starter[row.of] = r
      \/ \E q \in Run : run[q] = "crashed"
=============================================================================
