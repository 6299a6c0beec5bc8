---------------------------- MODULE AgentProcess ----------------------------
(***************************************************************************)
(* One agent under `costroid run`, from its start to execute's return      *)
(* (internal/run/run.go, internal/run/reap_linux.go). Four goroutines of   *)
(* the run act beside the processes: execute itself, the containment's     *)
(* reaper, the tail that watches the cap, and the stop that follows the    *)
(* run's own context. The agent and what it starts fork, leave the process *)
(* group, close their output, ignore SIGTERM and exit as they like.        *)
(***************************************************************************)
EXTENDS Naturals, FiniteSets

CONSTANTS
  Agent,        \* the agent's own process
  Child,        \* bound: every process the agent or its children ever start
  Run,          \* the run's process, the subreaper
  MaxReapRounds

ASSUME AgentProcessAssumption ==
  /\ Agent \notin Child /\ Run \notin Child \cup {Agent}
  /\ IsFiniteSet(Child)
  \* A tree that forks in more rounds than this outlasts the reaper.
  /\ MaxReapRounds \in Nat /\ Cardinality(Child) < MaxReapRounds

Proc == {Agent} \cup Child

VARIABLES
  proc,         \* each process: none, alive, zombie or gone
  parent,       \* who waits for each child
  group,        \* members of the agent's process group
  out,          \* processes that hold the write end of the agent's stdout
  cgroup,       \* the agent started in a cgroup of its own
  main,         \* the step execute is at
  reaper, listed, children, rounds,  \* stopDescendants
  tail,         \* the tail's goroutine: watch, stopping or ended
  context,      \* the run's context and its AfterFunc: live, firing, done or off
  budget, ended, called, timer       \* the stopper

processes == <<proc, parent, group, out>>
reaping == <<reaper, listed, children, rounds>>
stopper == <<budget, ended, called, timer>>
processVars == <<proc, parent, group, out, cgroup, main, reaper, listed, children,
                 rounds, tail, context, budget, ended, called, timer>>

ProcessInit ==
  /\ proc = [p \in Proc |-> IF p = Agent THEN "alive" ELSE "none"]
  /\ parent = [c \in Child |-> Run]
  /\ group = {Agent} /\ out = {Agent}
  /\ cgroup \in BOOLEAN
  /\ main = "read"
  /\ reaper = "waiting" /\ listed = {} /\ children = {} /\ rounds = 0
  \* A plan that does not watch the run has no tail.
  /\ tail \in {"watch", "ended"}
  /\ context = "live"
  /\ budget = FALSE /\ ended = FALSE /\ called = FALSE /\ timer = "none"

Alive == {p \in Proc : proc[p] = "alive"}

-----------------------------------------------------------------------------
(* The processes and the kernel.                                           *)

(* A dead process lets go of its output, and its children become the       *)
(* subreaper's.                                                            *)
Die(dead) ==
  /\ proc' = [p \in Proc |-> IF p \in dead THEN "zombie" ELSE proc[p]]
  /\ parent' = [c \in Child |-> IF parent[c] \in dead THEN Run ELSE parent[c]]
  /\ out' = out \ dead
  /\ UNCHANGED group

Fork(p, c) ==
  /\ proc[p] = "alive" /\ proc[c] = "none"
  /\ proc' = [proc EXCEPT ![c] = "alive"]
  /\ parent' = [parent EXCEPT ![c] = p]
  /\ \/ p \in group /\ group' = group \cup {c}
     \/ UNCHANGED group                      \* setsid
  /\ out' = IF p \in out THEN out \cup {c} ELSE out
  /\ UNCHANGED <<cgroup, main, reaping, tail, context, stopper>>

CloseOutput(p) ==
  /\ p \in out
  /\ out' = out \ {p}
  /\ UNCHANGED <<proc, parent, group, cgroup, main, reaping, tail, context, stopper>>

Exit(p) ==
  /\ proc[p] = "alive"
  /\ Die({p})
  /\ UNCHANGED <<cgroup, main, reaping, tail, context, stopper>>

(* kill(-pid): a process ends at SIGTERM or ignores it.                    *)
Terminate == \E obeys \in SUBSET (group \cap Alive) : Die(obeys)
Kill == Die(group \cap Alive)

-----------------------------------------------------------------------------
(* The stopper.                                                            *)

(* once.Do: SIGTERM to the group and the timer that follows it.            *)
Stop ==
  IF called
  THEN UNCHANGED <<processes, called, timer>>
  ELSE Terminate /\ called' = TRUE /\ timer' = "armed"

(* The cap is read while the tail watches. After agentDone it is no stop.  *)
StopForBudget ==
  /\ tail = "watch" /\ ~ended
  /\ budget' = TRUE
  /\ tail' = "stopping"
  /\ UNCHANGED <<processes, cgroup, main, reaping, context, ended, called, timer>>

TailStops ==
  /\ tail = "stopping"
  /\ Stop
  /\ tail' = "watch"
  /\ UNCHANGED <<cgroup, main, reaping, context, budget, ended>>

CancelContext ==
  /\ context = "live"
  /\ context' = "firing"
  /\ UNCHANGED <<processes, cgroup, main, reaping, tail, stopper>>

ContextStops ==
  /\ context = "firing"
  /\ Stop
  /\ context' = "done"
  /\ UNCHANGED <<cgroup, main, reaping, tail, budget, ended>>

GraceEnds ==
  /\ timer = "armed"
  /\ Kill
  /\ timer' = "fired"
  /\ UNCHANGED <<cgroup, main, reaping, tail, context, budget, ended, called>>

-----------------------------------------------------------------------------
(* The containment's goroutine: waitExited, then stopDescendants.          *)

AgentExited ==
  /\ reaper = "waiting" /\ proc[Agent] # "alive"
  /\ reaper' = "list"
  /\ IF cgroup THEN Die(Child \cap Alive) ELSE UNCHANGED processes
  /\ UNCHANGED <<cgroup, main, listed, children, rounds, tail, context, stopper>>

(* leftChildren lists /proc, then reads each process it listed.            *)
ListProcesses ==
  /\ reaper = "list"
  /\ IF rounds = MaxReapRounds
     THEN reaper' = "done" /\ UNCHANGED listed
     ELSE reaper' = "stat" /\ listed' = {c \in Child : proc[c] \in {"alive", "zombie"}}
  /\ UNCHANGED <<processes, cgroup, main, children, rounds, tail, context, stopper>>

(* Mutant: a zombie is passed over, as it needs no kill.                   *)
RunningChildren == {c \in listed : parent[c] = Run /\ proc[c] = "alive"}

(* Mutant: only the agent's process group is stopped.                      *)
GroupChildren == {c \in listed \cap group : parent[c] = Run /\ proc[c] \in {"alive", "zombie"}}

leftChildren == {c \in listed : parent[c] = Run /\ proc[c] \in {"alive", "zombie"}}

ReadStats ==
  /\ reaper = "stat"
  /\ children' = leftChildren
  /\ reaper' = IF leftChildren = {} THEN "done" ELSE "kill"
  /\ UNCHANGED <<processes, cgroup, main, listed, rounds, tail, context, stopper>>

KillChildren ==
  /\ reaper = "kill"
  /\ Die(children \cap Alive)
  /\ reaper' = "reap"
  /\ UNCHANGED <<cgroup, main, listed, children, rounds, tail, context, stopper>>

Reap ==
  /\ reaper = "reap"
  /\ proc' = [p \in Proc |-> IF p \in children THEN "gone" ELSE proc[p]]
  /\ rounds' = rounds + 1
  /\ reaper' = "list"
  /\ UNCHANGED <<parent, group, out, cgroup, main, listed, children, tail, context, stopper>>

-----------------------------------------------------------------------------
(* execute.                                                                *)

To(from, to) == main = from /\ main' = to

(* read returns at the end of the output, or when a line cannot be copied. *)
OutputEnds ==
  /\ out = {}
  /\ To("read", "done")
  /\ UNCHANGED <<processes, cgroup, reaping, tail, context, stopper>>

CopyFails ==
  /\ To("read", "done")
  /\ UNCHANGED <<processes, cgroup, reaping, tail, context, stopper>>

AgentDone ==
  /\ To("done", "end")
  /\ ended' = TRUE
  /\ UNCHANGED <<processes, cgroup, reaping, tail, context, budget, called, timer>>

End ==
  /\ To("end", "wait")
  /\ reaper = "done"
  /\ UNCHANGED <<processes, cgroup, reaping, tail, context, stopper>>

Wait ==
  /\ To("wait", "tail")
  /\ proc[Agent] = "zombie"
  /\ proc' = [proc EXCEPT ![Agent] = "gone"]
  /\ UNCHANGED <<parent, group, out, cgroup, reaping, tail, context, stopper>>

(* Mutant: the tail is cancelled and not waited for.                       *)
CancelTail ==
  /\ To("tail", "return")
  /\ tail' = IF tail = "watch" THEN "ended" ELSE tail
  /\ UNCHANGED <<processes, cgroup, reaping, context, stopper>>

(* finishTail cancels the tail and waits for its goroutine to return.      *)
FinishTail ==
  /\ To("tail", "return")
  /\ tail # "stopping"
  /\ tail' = "ended"
  /\ UNCHANGED <<processes, cgroup, reaping, context, stopper>>

(* The deferred calls: the context's stop is unhooked, the timer released. *)
Return ==
  /\ To("return", "returned")
  /\ context' = IF context = "live" THEN "off" ELSE context
  /\ timer' = IF timer = "armed" THEN "stopped" ELSE timer
  /\ UNCHANGED <<processes, cgroup, reaping, tail, budget, ended, called>>

Returned == main = "returned" /\ UNCHANGED processVars

System ==
  \/ TailStops \/ ContextStops \/ GraceEnds
  \/ AgentExited \/ ListProcesses \/ ReadStats \/ KillChildren \/ Reap
  \/ OutputEnds \/ AgentDone \/ End \/ Wait \/ FinishTail \/ Return

Environment ==
  \/ \E p \in Proc, c \in Child : Fork(p, c)
  \/ \E p \in Proc : CloseOutput(p) \/ Exit(p)
  \/ CancelContext \/ StopForBudget \/ CopyFails

ProcessNext == System \/ Environment \/ Returned

(* Each goroutine of the run, and the timer, takes its next step. Nothing  *)
(* is assumed of the agent.                                                *)
Fairness ==
  /\ WF_processVars(TailStops) /\ WF_processVars(ContextStops) /\ WF_processVars(GraceEnds)
  /\ WF_processVars(AgentExited \/ ListProcesses \/ ReadStats \/ KillChildren \/ Reap)
  /\ WF_processVars(OutputEnds \/ AgentDone \/ End \/ Wait \/ FinishTail \/ Return)

ProcessSpec == ProcessInit /\ [][ProcessNext]_processVars
FairSpec == ProcessSpec /\ Fairness

-----------------------------------------------------------------------------
(* Properties.                                                             *)

(* The state has its type, and the kernel's own rules hold: only a live    *)
(* process holds the output, and a child's parent is alive or the run.     *)
ProcessTypeOK ==
  /\ proc \in [Proc -> {"none", "alive", "zombie", "gone"}]
  /\ parent \in [Child -> Proc \cup {Run}]
  /\ \A c \in Child : parent[c] = Run \/ proc[parent[c]] = "alive"
  /\ group \subseteq Proc /\ out \subseteq Alive
  /\ cgroup \in BOOLEAN
  /\ main \in {"read", "done", "end", "wait", "tail", "return", "returned"}
  /\ reaper \in {"waiting", "list", "stat", "kill", "reap", "done"}
  /\ listed \subseteq Child /\ children \subseteq Child /\ rounds \in 0..MaxReapRounds
  /\ tail \in {"watch", "stopping", "ended"}
  /\ context \in {"live", "firing", "done", "off"}
  /\ budget \in BOOLEAN /\ ended \in BOOLEAN /\ called \in BOOLEAN
  /\ timer \in {"none", "armed", "fired", "stopped"}

(* Once execute goes on to wait for the agent, no process it started is    *)
(* alive, however those forked while they were killed, so none keeps the   *)
(* agent's credentials or writes while the rows are written (execute's     *)
(* comment and stopDescendants).                                           *)
NothingOutlives ==
  main \in {"wait", "tail", "return", "returned"} => Alive = {}

(* A run reported as stopped at its cap was signalled before execute       *)
(* returned, though the tail decides and signals in two steps, and leaves  *)
(* no SIGKILL due for a pid that is no longer the agent's (byBudget,       *)
(* finishTail and stopper.release).                                        *)
StopReported ==
  main = "returned" /\ budget => called /\ timer # "armed"

(* execute returns once the agent has exited, its cap was read or the      *)
(* context is done: no child that holds the output and no agent that       *)
(* ignores SIGTERM holds the run open (execute's comment, stopper.stop).   *)
RunEnds ==
  (proc[Agent] # "alive" \/ budget \/ context = "firing") ~> main = "returned"
=============================================================================
