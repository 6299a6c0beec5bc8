------------------------------ MODULE RunProofs -----------------------------
(***************************************************************************)
(* Theorems about what one run relies on: module AgentProcess, its process *)
(* tree, for any number of processes and any limit on the reaper's rounds  *)
(* above it, and module GatewayKey, its key on a gateway, for any          *)
(* workflows, budgets, costs, parallel limits and numbers of requests, and *)
(* for any times with Batch < Stable and Batch + Stable < Settle.          *)
(***************************************************************************)
EXTENDS AgentProcess, GatewayKey, TLAPS, FiniteSetTheorems

-----------------------------------------------------------------------------
(* The agent's process tree.                                               *)

(* Parents form no cycle: every set of children has one with its parent    *)
(* outside the set.                                                        *)
Acyclic == \A S \in SUBSET Child : S # {} => \E c \in S : parent[c] \notin S

There == {"alive", "zombie"}
Gone == {c \in Child : proc[c] = "gone"}

(* What the reaper has seen is still true when it acts on it: while a      *)
(* child is alive, one that was listed is the run's to reap; what it found *)
(* is dead before it is reaped; and it is through when nothing is alive.   *)
(* Every round has reaped a process.                                       *)
Reaping ==
  /\ reaper # "waiting" => proc[Agent] # "alive"
  /\ reaper = "stat" /\ Child \cap Alive # {} =>
       \E c \in listed : parent[c] = Run /\ proc[c] \in There
  /\ reaper \in {"kill", "reap"} => children # {}
  /\ reaper = "kill" => \A c \in children : proc[c] \in There
  /\ reaper = "reap" => \A c \in children : proc[c] = "zombie"
  /\ reaper = "done" => Alive = {}
  /\ rounds <= Cardinality(Gone)

Executing == main \in {"wait", "tail", "return", "returned"} => reaper = "done"

(* The cap's stop is called by the tail, which execute waits for. *)
Stopping ==
  /\ budget => called \/ tail = "stopping"
  /\ main \in {"return", "returned"} => tail = "ended"
  /\ main = "returned" /\ budget => timer # "armed"

RunInv == ProcessTypeOK /\ Acyclic /\ Reaping /\ Executing /\ Stopping

-----------------------------------------------------------------------------
LEMMA ProcessInitInv == ProcessInit => RunInv
<1> SUFFICES ASSUME ProcessInit PROVE RunInv
  OBVIOUS
<1>1. Proc = {Agent} \cup Child /\ Run \notin Child
  BY AgentProcessAssumption DEF Proc
<1>2. ProcessTypeOK
  <2>1. proc \in [Proc -> {"none", "alive", "zombie", "gone"}] /\ proc[Agent] = "alive"
    BY <1>1 DEF ProcessInit
  <2>2. parent \in [Child -> Proc \cup {Run}] /\ \A c \in Child : parent[c] = Run
    BY DEF ProcessInit
  <2>3. group \subseteq Proc /\ out \subseteq Alive
    BY <1>1, <2>1 DEF ProcessInit, Alive
  <2>4. rounds \in 0 .. MaxReapRounds
    BY AgentProcessAssumption DEF ProcessInit
  <2> QED BY <2>1, <2>2, <2>3, <2>4 DEF ProcessInit, ProcessTypeOK
<1>3. Acyclic
  BY <1>1 DEF ProcessInit, Acyclic
<1>4. Reaping
  <2>1. Gone = {}
    BY <1>1, AgentProcessAssumption DEF ProcessInit, Gone
  <2>2. Cardinality(Gone) = 0
    BY <2>1, FS_EmptySet
  <2> QED BY <2>2 DEF ProcessInit, Reaping
<1>5. Executing /\ Stopping
  BY DEF ProcessInit, Executing, Stopping
<1> QED BY <1>2, <1>3, <1>4, <1>5 DEF RunInv

LEMMA GoneIsFinite == IsFiniteSet(Gone) /\ Cardinality(Gone) \in Nat /\ Cardinality(Gone) < MaxReapRounds
<1>1. IsFiniteSet(Gone) /\ Cardinality(Gone) <= Cardinality(Child)
  <2>1. Gone \in SUBSET Child
    BY DEF Gone
  <2> QED BY <2>1, FS_Subset, AgentProcessAssumption
<1>2. Cardinality(Gone) \in Nat /\ Cardinality(Child) \in Nat
  BY <1>1, FS_CardinalityType, AgentProcessAssumption
<1> QED BY <1>1, <1>2, AgentProcessAssumption

(* What deaths do to the processes: the live ones become zombies, the      *)
(* run adopts their children, nobody disappears.                           *)
Quieter ==
  /\ \A p \in Proc : proc'[p] = "alive" => proc[p] = "alive"
  /\ \A c \in Child :
       /\ proc[c] \in There => proc'[c] \in There
       /\ proc[c] = "zombie" => proc'[c] = "zombie"
       /\ proc'[c] = "gone" <=> proc[c] = "gone"
       /\ parent[c] = Run => parent'[c] = Run

ProcessesOK ==
  /\ proc \in [Proc -> {"none", "alive", "zombie", "gone"}]
  /\ parent \in [Child -> Proc \cup {Run}]
  /\ \A c \in Child : parent[c] = Run \/ proc[parent[c]] = "alive"
  /\ group \subseteq Proc /\ out \subseteq Alive
  /\ Acyclic

LEMMA DieKeeps ==
  ASSUME ProcessesOK, NEW dead \in SUBSET Alive, Die(dead)
  PROVE  ProcessesOK' /\ Quieter
<1>1. /\ Child \subseteq Proc /\ Run \notin Proc /\ dead \subseteq Proc
      /\ \A p \in dead : proc[p] = "alive"
  BY AgentProcessAssumption DEF Proc, Alive
<1>2. /\ proc' \in [Proc -> {"none", "alive", "zombie", "gone"}]
      /\ \A p \in Proc : proc'[p] = IF p \in dead THEN "zombie" ELSE proc[p]
  BY DEF ProcessesOK, Die
<1>3. /\ parent' \in [Child -> Proc \cup {Run}]
      /\ \A c \in Child : parent'[c] = IF parent[c] \in dead THEN Run ELSE parent[c]
  BY DEF ProcessesOK, Die
<1>4. \A c \in Child : parent'[c] = Run \/ proc'[parent'[c]] = "alive"
  BY <1>1, <1>2, <1>3 DEF ProcessesOK
<1>5. group' \subseteq Proc /\ out' \subseteq Alive'
  BY <1>2 DEF ProcessesOK, Die, Alive
<1>6. Acyclic'
  <2> SUFFICES ASSUME NEW S \in SUBSET Child, S # {} PROVE \E c \in S : parent'[c] \notin S
    BY DEF Acyclic
  <2>1. PICK c \in S : parent[c] \notin S
    BY DEF ProcessesOK, Acyclic
  <2> QED BY <1>1, <1>3, <2>1
<1>7. Quieter
  BY <1>1, <1>2, <1>3 DEF Quieter, There
<1> QED BY <1>2, <1>3, <1>4, <1>5, <1>6, <1>7 DEF ProcessesOK

LEMMA QuieterKeepsReaping ==
  ASSUME Reaping, Quieter, reaper' = reaper, listed' = listed, children' = children,
         rounds' = rounds, listed \subseteq Child, children \subseteq Child
  PROVE  Reaping'
<1>1. Agent \in Proc /\ Child \subseteq Proc
  BY DEF Proc
<1>2. Gone' = Gone
  BY DEF Gone, Quieter
<1>3. Alive' \subseteq Alive
  BY DEF Alive, Quieter
<1>4. reaper = "stat" /\ Child \cap Alive' # {} =>
        \E c \in listed : parent'[c] = Run /\ proc'[c] \in There
  BY <1>3 DEF Quieter, Reaping
<1>5. reaper = "kill" => \A c \in children : proc'[c] \in There
  BY DEF Quieter, Reaping
<1>6. reaper = "reap" => \A c \in children : proc'[c] = "zombie"
  BY DEF Quieter, Reaping
<1>7. reaper # "waiting" => proc'[Agent] # "alive"
  BY <1>1 DEF Quieter, Reaping
<1>8. reaper = "done" => Alive' = {}
  BY <1>3 DEF Reaping
<1> QED BY <1>2, <1>4, <1>5, <1>6, <1>7, <1>8 DEF Reaping, There

LEMMA ForkKeeps ==
  ASSUME RunInv, NEW p \in Proc, NEW c \in Child, Fork(p, c)
  PROVE  ProcessesOK' /\ Reaping'
<1>1. /\ Child \subseteq Proc /\ Run \notin Proc /\ Agent \notin Child /\ Agent \in Proc
      /\ Proc = {Agent} \cup Child
  BY AgentProcessAssumption DEF Proc
<1>2. /\ proc[p] = "alive" /\ proc[c] = "none" /\ p # c /\ c \in Proc
      /\ reaper' = reaper /\ listed' = listed /\ children' = children /\ rounds' = rounds
  BY <1>1 DEF Fork, reaping
<1>3. /\ proc' \in [Proc -> {"none", "alive", "zombie", "gone"}] /\ proc'[c] = "alive"
      /\ \A q \in Proc \ {c} : proc'[q] = proc[q]
  BY <1>2 DEF Fork, RunInv, ProcessTypeOK
<1>4. /\ parent' \in [Child -> Proc \cup {Run}] /\ parent'[c] = p
      /\ \A d \in Child \ {c} : parent'[d] = parent[d]
  BY DEF Fork, RunInv, ProcessTypeOK
<1>5. \A d \in Child : parent'[d] = Run \/ proc'[parent'[d]] = "alive"
  BY <1>2, <1>3, <1>4 DEF RunInv, ProcessTypeOK
<1>6. group' \subseteq Proc /\ out' \subseteq Alive'
  BY <1>2, <1>3 DEF RunInv, ProcessTypeOK, Fork, Alive
<1>7. \A d \in Child : parent[d] # c
  BY <1>1, <1>2 DEF RunInv, ProcessTypeOK
<1>8. Acyclic'
  <2> SUFFICES ASSUME NEW S \in SUBSET Child, S # {} PROVE \E d \in S : parent'[d] \notin S
    BY DEF Acyclic
  <2>1. CASE S \ {c} = {}
    BY <1>2, <1>4, <2>1
  <2>2. CASE S \ {c} # {}
    <3>1. PICK d \in S \ {c} : parent[d] \notin S \ {c}
      BY <2>2 DEF RunInv, Acyclic
    <3> QED BY <1>4, <1>7, <3>1
  <2> QED BY <2>1, <2>2
<1>9. Reaping'
  <2>1. Gone' = Gone
    BY <1>1, <1>2, <1>3 DEF Gone
  <2>2. \A d \in Child : proc[d] \in There => proc'[d] = proc[d] /\ parent'[d] = parent[d]
    BY <1>1, <1>2, <1>3, <1>4 DEF There
  <2>3. listed \subseteq Child /\ children \subseteq Child
    BY DEF RunInv, ProcessTypeOK
  <2>4. reaper # "waiting" => p \in Child \cap Alive /\ reaper # "done" /\ proc'[Agent] # "alive"
    BY <1>1, <1>2, <1>3 DEF RunInv, Reaping, Alive
  <2>5. reaper = "stat" => \E d \in listed : parent'[d] = Run /\ proc'[d] \in There
    BY <2>2, <2>3, <2>4 DEF RunInv, Reaping
  <2>6. reaper = "kill" => \A d \in children : proc'[d] \in There
    BY <2>2, <2>3 DEF RunInv, Reaping
  <2>7. reaper = "reap" => \A d \in children : proc'[d] = "zombie"
    BY <2>2, <2>3 DEF RunInv, Reaping, There
  <2> QED BY <1>2, <2>1, <2>4, <2>5, <2>6, <2>7 DEF RunInv, Reaping, There
<1> QED BY <1>3, <1>4, <1>5, <1>6, <1>8, <1>9 DEF ProcessesOK

-----------------------------------------------------------------------------
(* The steps that leave the reaper alone. *)

LEMMA InvProcesses == RunInv => ProcessesOK
  BY DEF RunInv, ProcessTypeOK, ProcessesOK

(* A step with deaths only, or none, that moves the tail, the context or   *)
(* the stopper.                                                            *)
LEMMA StopperKeeps ==
  ASSUME RunInv, ProcessesOK', Quieter,
         reaper' = reaper, listed' = listed, children' = children, rounds' = rounds,
         main' = main, cgroup' = cgroup, ended' = ended,
         tail' \in {"watch", "stopping", "ended"}, context' \in {"live", "firing", "done", "off"},
         budget' \in BOOLEAN, called' \in BOOLEAN, timer' \in {"none", "armed", "fired", "stopped"},
         Stopping'
  PROVE  RunInv'
<1>1. Reaping'
  BY QuieterKeepsReaping DEF RunInv, ProcessTypeOK
<1>2. ProcessTypeOK'
  BY DEF RunInv, ProcessTypeOK, ProcessesOK
<1>3. Executing'
  BY DEF RunInv, Executing
<1> QED BY <1>1, <1>2, <1>3 DEF RunInv, ProcessesOK

LEMMA NoDeaths ==
  ASSUME ProcessesOK, UNCHANGED processes
  PROVE  ProcessesOK' /\ Quieter
<1>1. proc' = proc /\ parent' = parent /\ group' = group /\ out' = out
  BY DEF processes
<1> QED BY <1>1 DEF ProcessesOK, Acyclic, Alive, Quieter

LEMMA StopKeeps ==
  ASSUME RunInv, Stop
  PROVE  /\ ProcessesOK' /\ Quieter /\ called'
         /\ timer' \in {"none", "armed", "fired", "stopped"}
         /\ called => timer' = timer
<1>1. CASE called
  BY <1>1, InvProcesses, NoDeaths DEF Stop, RunInv, ProcessTypeOK, processes
<1>2. CASE ~called
  <2>1. PICK obeys \in SUBSET (group \cap Alive) : Die(obeys)
    BY <1>2 DEF Stop, Terminate
  <2>2. ProcessesOK' /\ Quieter
    BY <2>1, InvProcesses, DieKeeps
  <2> QED BY <1>2, <2>2 DEF Stop
<1> QED BY <1>1, <1>2 DEF RunInv, ProcessTypeOK

LEMMA TailAndContextInv ==
  ASSUME RunInv, TailStops \/ ContextStops \/ GraceEnds \/ CancelContext \/ StopForBudget
  PROVE  RunInv'
<1>1. CASE TailStops
  <2>1. /\ tail = "stopping" /\ tail' = "watch" /\ Stop /\ cgroup' = cgroup /\ main' = main
        /\ reaper' = reaper /\ listed' = listed /\ children' = children /\ rounds' = rounds
        /\ context' = context /\ budget' = budget /\ ended' = ended
    BY <1>1 DEF TailStops, reaping
  <2>2. Stopping'
    BY <2>1, StopKeeps DEF RunInv, Stopping
  <2> QED BY <2>1, <2>2, StopKeeps, StopperKeeps DEF RunInv, ProcessTypeOK
<1>2. CASE ContextStops
  <2>1. /\ context' = "done" /\ Stop /\ cgroup' = cgroup /\ main' = main
        /\ reaper' = reaper /\ listed' = listed /\ children' = children /\ rounds' = rounds
        /\ tail' = tail /\ budget' = budget /\ ended' = ended
    BY <1>2 DEF ContextStops, reaping
  <2>2. Stopping'
    BY <2>1, StopKeeps DEF RunInv, Stopping
  <2> QED BY <2>1, <2>2, StopKeeps, StopperKeeps DEF RunInv, ProcessTypeOK
<1>3. CASE GraceEnds
  <2>1. /\ timer' = "fired" /\ Kill /\ cgroup' = cgroup /\ main' = main
        /\ reaper' = reaper /\ listed' = listed /\ children' = children /\ rounds' = rounds
        /\ tail' = tail /\ context' = context /\ budget' = budget /\ ended' = ended /\ called' = called
    BY <1>3 DEF GraceEnds, reaping
  <2>2. ProcessesOK' /\ Quieter
    BY <2>1, InvProcesses, DieKeeps DEF Kill
  <2>3. Stopping'
    BY <2>1 DEF RunInv, Stopping
  <2> QED BY <2>1, <2>2, <2>3, StopperKeeps DEF RunInv, ProcessTypeOK
<1>4. CASE CancelContext \/ StopForBudget
  <2>1. ProcessesOK' /\ Quieter
    BY <1>4, InvProcesses, NoDeaths DEF CancelContext, StopForBudget
  <2>2. /\ cgroup' = cgroup /\ main' = main /\ ended' = ended /\ called' = called /\ timer' = timer
        /\ reaper' = reaper /\ listed' = listed /\ children' = children /\ rounds' = rounds
        /\ \/ context' = "firing" /\ budget' = budget /\ tail' = tail
           \/ context' = context /\ budget' = TRUE /\ tail = "watch" /\ tail' = "stopping"
    BY <1>4 DEF CancelContext, StopForBudget, reaping, stopper
  <2>3. Stopping'
    BY <2>2 DEF RunInv, Stopping
  <2> QED BY <2>1, <2>2, <2>3, StopperKeeps DEF RunInv, ProcessTypeOK
<1> QED BY <1>1, <1>2, <1>3, <1>4

LEMMA ForkInv ==
  ASSUME RunInv, NEW p \in Proc, NEW c \in Child, Fork(p, c)
  PROVE  RunInv'
<1>1. /\ cgroup' = cgroup /\ main' = main /\ tail' = tail /\ context' = context
      /\ reaper' = reaper /\ listed' = listed /\ children' = children /\ rounds' = rounds
      /\ budget' = budget /\ ended' = ended /\ called' = called /\ timer' = timer
  BY DEF Fork, reaping, stopper
<1>2. ProcessTypeOK'
  BY <1>1, ForkKeeps DEF RunInv, ProcessTypeOK, ProcessesOK
<1> QED BY <1>1, <1>2, ForkKeeps DEF RunInv, Executing, Stopping, ProcessesOK

LEMMA ProcessInv ==
  ASSUME RunInv, NEW p \in Proc, CloseOutput(p) \/ Exit(p)
  PROVE  RunInv'
<1>1. ProcessesOK' /\ Quieter
  <2>1. CASE Exit(p)
    <3>1. {p} \in SUBSET Alive /\ Die({p})
      BY <2>1 DEF Exit, Alive
    <3> QED BY <3>1, InvProcesses, DieKeeps
  <2>2. CASE CloseOutput(p)
    BY <2>2, InvProcesses DEF CloseOutput, ProcessesOK, Quieter, Acyclic, Alive
  <2> QED BY <2>1, <2>2
<1>2. /\ cgroup' = cgroup /\ main' = main /\ tail' = tail /\ context' = context
      /\ reaper' = reaper /\ listed' = listed /\ children' = children /\ rounds' = rounds
      /\ budget' = budget /\ ended' = ended /\ called' = called /\ timer' = timer
  BY DEF CloseOutput, Exit, reaping, stopper
<1>3. Stopping'
  BY <1>2 DEF RunInv, Stopping
<1> QED BY <1>1, <1>2, <1>3, StopperKeeps DEF RunInv, ProcessTypeOK

-----------------------------------------------------------------------------
(* The reaper. *)

(* A step of the reaper leaves execute, the tail and the stopper alone, so *)
(* Reaping is what it must establish.                                      *)
LEMMA ReaperKeeps ==
  ASSUME RunInv, ProcessesOK', Reaping',
         cgroup' = cgroup, main' = main, tail' = tail, context' = context,
         budget' = budget, ended' = ended, called' = called, timer' = timer,
         reaper # "done", reaper' \in {"waiting", "list", "stat", "kill", "reap", "done"},
         listed' \subseteq Child, children' \subseteq Child, rounds' \in 0 .. MaxReapRounds
  PROVE  RunInv'
<1>1. ProcessTypeOK'
  BY DEF RunInv, ProcessTypeOK, ProcessesOK
<1>2. Executing' /\ Stopping'
  BY DEF RunInv, Executing, Stopping
<1> QED BY <1>1, <1>2 DEF RunInv, ProcessesOK

LEMMA AgentExitedInv ==
  ASSUME RunInv, AgentExited
  PROVE  RunInv'
<1>1. /\ reaper = "waiting" /\ reaper' = "list" /\ proc[Agent] # "alive"
      /\ cgroup' = cgroup /\ main' = main /\ tail' = tail /\ context' = context
      /\ listed' = listed /\ children' = children /\ rounds' = rounds
      /\ budget' = budget /\ ended' = ended /\ called' = called /\ timer' = timer
  BY DEF AgentExited, stopper
<1>2. ProcessesOK' /\ Quieter
  <2>1. CASE cgroup
    <3>1. Child \cap Alive \in SUBSET Alive /\ Die(Child \cap Alive)
      BY <2>1 DEF AgentExited
    <3> QED BY <3>1, InvProcesses, DieKeeps
  <2>2. CASE ~cgroup
    BY <2>2, InvProcesses, NoDeaths DEF AgentExited
  <2> QED BY <2>1, <2>2
<1>3. Reaping'
  <2>1. Gone' = Gone
    BY <1>2 DEF Quieter, Gone
  <2>2. Agent \in Proc
    BY DEF Proc
  <2> QED BY <1>1, <1>2, <2>1, <2>2 DEF Quieter, RunInv, Reaping
<1> QED BY <1>1, <1>2, <1>3, ReaperKeeps DEF RunInv, ProcessTypeOK

(* The listing is long enough to run to its end: the limit of rounds is    *)
(* never the reason to stop. One of the live children is the run's own.    *)
LEMMA ListProcessesInv ==
  ASSUME RunInv, ListProcesses
  PROVE  RunInv'
<1>1. rounds # MaxReapRounds
  BY GoneIsFinite, AgentProcessAssumption DEF RunInv, Reaping, ProcessTypeOK
<1>2. /\ reaper = "list" /\ reaper' = "stat" /\ listed' = {c \in Child : proc[c] \in There}
      /\ proc' = proc /\ parent' = parent /\ group' = group /\ out' = out
      /\ cgroup' = cgroup /\ main' = main /\ tail' = tail /\ context' = context
      /\ children' = children /\ rounds' = rounds
      /\ budget' = budget /\ ended' = ended /\ called' = called /\ timer' = timer
  BY <1>1 DEF ListProcesses, There, processes, stopper
<1>3. ProcessesOK'
  BY <1>2, InvProcesses, NoDeaths DEF processes
<1>4. ASSUME Child \cap Alive # {}
      PROVE  \E c \in listed' : parent[c] = Run /\ proc[c] \in There
  <2>1. PICK c \in Child \cap Alive : parent[c] \notin Child \cap Alive
    BY <1>4 DEF RunInv, Acyclic
  <2>2. parent[c] = Run
    BY <1>2, <2>1 DEF RunInv, ProcessTypeOK, Reaping, Proc, Alive
  <2> QED BY <1>2, <2>1, <2>2 DEF Alive, There
<1>5. Reaping'
  <2>1. Alive' = Alive /\ Gone' = Gone
    BY <1>2 DEF Alive, Gone
  <2> QED BY <1>2, <1>4, <2>1 DEF RunInv, Reaping, There
<1> QED BY <1>2, <1>3, <1>5, ReaperKeeps DEF RunInv, ProcessTypeOK

(* It stops only when nothing is left alive. *)
LEMMA ReadStatsInv ==
  ASSUME RunInv, ReadStats
  PROVE  RunInv'
<1>1. /\ reaper = "stat" /\ children' = leftChildren
      /\ reaper' = IF leftChildren = {} THEN "done" ELSE "kill"
      /\ proc' = proc /\ parent' = parent /\ group' = group /\ out' = out
      /\ cgroup' = cgroup /\ main' = main /\ tail' = tail /\ context' = context
      /\ listed' = listed /\ rounds' = rounds
      /\ budget' = budget /\ ended' = ended /\ called' = called /\ timer' = timer
  BY DEF ReadStats, processes, stopper
<1>2. ProcessesOK'
  BY <1>1, InvProcesses, NoDeaths DEF processes
<1>3. leftChildren \subseteq Child /\ \A c \in leftChildren : proc[c] \in There
  BY DEF leftChildren, There, RunInv, ProcessTypeOK
<1>4. leftChildren = {} => Alive = {}
  BY <1>1 DEF leftChildren, There, RunInv, Reaping, Alive, Proc
<1>5. Alive' = Alive /\ Gone' = Gone
  BY <1>1 DEF Alive, Gone
<1>6. Reaping'
  <2>1. CASE leftChildren = {}
    BY <1>1, <1>3, <1>4, <1>5, <2>1 DEF RunInv, Reaping
  <2>2. CASE leftChildren # {}
    BY <1>1, <1>3, <1>4, <1>5, <2>2 DEF RunInv, Reaping, There
  <2> QED BY <2>1, <2>2
<1> QED BY <1>1, <1>2, <1>3, <1>6, ReaperKeeps DEF RunInv, ProcessTypeOK

LEMMA KillChildrenInv ==
  ASSUME RunInv, KillChildren
  PROVE  RunInv'
<1>1. /\ reaper = "kill" /\ reaper' = "reap" /\ Die(children \cap Alive)
      /\ cgroup' = cgroup /\ main' = main /\ tail' = tail /\ context' = context
      /\ listed' = listed /\ children' = children /\ rounds' = rounds
      /\ budget' = budget /\ ended' = ended /\ called' = called /\ timer' = timer
  BY DEF KillChildren, stopper
<1>2. ProcessesOK' /\ Quieter
  BY <1>1, InvProcesses, DieKeeps
<1>3. children \subseteq Child /\ Child \subseteq Proc /\ Agent \in Proc
  BY DEF RunInv, ProcessTypeOK, Proc
<1>4. \A c \in children : proc'[c] = "zombie"
  BY <1>1, <1>3 DEF Die, RunInv, Reaping, There, Alive
<1>5. Reaping'
  <2>1. Gone' = Gone
    BY <1>2 DEF Quieter, Gone
  <2> QED BY <1>1, <1>2, <1>3, <1>4, <2>1 DEF Quieter, RunInv, Reaping
<1> QED BY <1>1, <1>2, <1>5, ReaperKeeps DEF RunInv, ProcessTypeOK

(* A round takes at least one process away for good. *)
LEMMA ReapInv ==
  ASSUME RunInv, Reap
  PROVE  RunInv'
<1>1. /\ reaper = "reap" /\ reaper' = "list" /\ rounds' = rounds + 1
      /\ parent' = parent /\ group' = group /\ out' = out
      /\ cgroup' = cgroup /\ main' = main /\ tail' = tail /\ context' = context
      /\ listed' = listed /\ children' = children
      /\ budget' = budget /\ ended' = ended /\ called' = called /\ timer' = timer
  BY DEF Reap, stopper
<1>2. children \subseteq Child /\ Child \subseteq Proc /\ Agent \in Proc /\ Agent \notin Child
  BY AgentProcessAssumption DEF RunInv, ProcessTypeOK, Proc
<1>3. /\ proc' \in [Proc -> {"none", "alive", "zombie", "gone"}]
      /\ \A p \in Proc : proc'[p] = IF p \in children THEN "gone" ELSE proc[p]
  BY DEF Reap, RunInv, ProcessTypeOK
<1>4. children # {} /\ \A c \in children : proc[c] = "zombie"
  BY <1>1 DEF RunInv, Reaping
<1>5. Alive' = Alive
  BY <1>3, <1>4 DEF Alive
<1>6. ProcessesOK'
  <2>1. \A c \in Child : parent[c] = Run \/ proc'[parent[c]] = "alive"
    BY <1>3, <1>4, AgentProcessAssumption DEF RunInv, ProcessTypeOK, Proc
  <2> QED BY <1>1, <1>3, <1>5, <2>1 DEF RunInv, ProcessTypeOK, ProcessesOK, Acyclic
<1>7. Cardinality(Gone') >= Cardinality(Gone) + 1 /\ Cardinality(Gone') \in Nat
  <2>1. PICK c \in children : TRUE
    BY <1>4
  <2>2. c \notin Gone /\ Gone \cup {c} \subseteq Gone'
    BY <1>2, <1>3, <1>4, <2>1 DEF Gone
  <2>3. IsFiniteSet(Gone \cup {c}) /\ Cardinality(Gone \cup {c}) = Cardinality(Gone) + 1
    BY <2>2, GoneIsFinite, FS_AddElement
  <2>4. IsFiniteSet(Gone')
    <3>1. Gone' \in SUBSET Child
      BY DEF Gone
    <3> QED BY <3>1, FS_Subset, AgentProcessAssumption
  <2>5. Cardinality(Gone \cup {c}) <= Cardinality(Gone')
    BY <2>2, <2>4, FS_Subset
  <2>6. Cardinality(Gone') \in Nat
    BY <2>4, FS_CardinalityType
  <2> QED BY <2>3, <2>5, <2>6, GoneIsFinite
<1>8. rounds \in Nat /\ rounds <= Cardinality(Gone) /\ proc[Agent] # "alive"
  BY <1>1 DEF RunInv, ProcessTypeOK, Reaping
<1>9. Reaping'
  <2>1. rounds' <= Cardinality(Gone)'
    BY <1>1, <1>7, <1>8, GoneIsFinite
  <2> QED BY <1>1, <1>2, <1>3, <1>8, <2>1 DEF Reaping
<1>10. rounds' \in 0 .. MaxReapRounds
  BY <1>1, <1>8, GoneIsFinite, AgentProcessAssumption
<1> QED BY <1>1, <1>6, <1>9, <1>10, ReaperKeeps DEF RunInv, ProcessTypeOK

-----------------------------------------------------------------------------
(* execute. *)
LEMMA ExecuteInv ==
  ASSUME RunInv, OutputEnds \/ CopyFails \/ AgentDone \/ End \/ FinishTail \/ Return \/ Returned
  PROVE  RunInv'
<1>1. /\ proc' = proc /\ parent' = parent /\ group' = group /\ out' = out
      /\ reaper' = reaper /\ listed' = listed /\ children' = children /\ rounds' = rounds
      /\ cgroup' = cgroup /\ budget' = budget /\ called' = called
  BY DEF OutputEnds, CopyFails, AgentDone, End, FinishTail, Return, Returned, processVars, processes,
         reaping, stopper
<1>2. ProcessesOK' /\ Quieter
  BY <1>1, InvProcesses, NoDeaths DEF processes
<1>3. Reaping'
  BY <1>1, <1>2, QuieterKeepsReaping DEF RunInv, ProcessTypeOK
<1>4. /\ main' \in {"read", "done", "end", "wait", "tail", "return", "returned"}
      /\ tail' \in {"watch", "stopping", "ended"} /\ context' \in {"live", "firing", "done", "off"}
      /\ ended' \in BOOLEAN /\ timer' \in {"none", "armed", "fired", "stopped"}
  BY DEF OutputEnds, CopyFails, AgentDone, End, FinishTail, Return, Returned, processVars, stopper, To,
         RunInv, ProcessTypeOK
<1>5. ProcessTypeOK'
  BY <1>1, <1>2, <1>4 DEF RunInv, ProcessTypeOK, ProcessesOK
<1>6. Executing'
  BY <1>1 DEF RunInv, Executing, OutputEnds, CopyFails, AgentDone, End, FinishTail, Return, Returned,
              processVars, To
<1>7. Stopping'
  BY <1>1 DEF RunInv, Stopping, OutputEnds, CopyFails, AgentDone, End, FinishTail, Return, Returned,
              processVars, To, stopper
<1> QED BY <1>2, <1>3, <1>5, <1>6, <1>7 DEF RunInv, ProcessesOK

LEMMA WaitInv ==
  ASSUME RunInv, Wait
  PROVE  RunInv'
<1>1. /\ main = "wait" /\ main' = "tail" /\ proc[Agent] = "zombie" /\ reaper = "done" /\ Alive = {}
      /\ parent' = parent /\ group' = group /\ out' = out /\ cgroup' = cgroup
      /\ reaper' = reaper /\ listed' = listed /\ children' = children /\ rounds' = rounds
      /\ tail' = tail /\ context' = context
      /\ budget' = budget /\ ended' = ended /\ called' = called /\ timer' = timer
  BY DEF Wait, To, RunInv, Executing, Reaping, reaping, stopper
<1>2. Agent \in Proc /\ Child \subseteq Proc /\ Agent \notin Child
  BY AgentProcessAssumption DEF Proc
<1>3. /\ proc' \in [Proc -> {"none", "alive", "zombie", "gone"}] /\ proc'[Agent] = "gone"
      /\ \A p \in Proc \ {Agent} : proc'[p] = proc[p]
  BY <1>2 DEF Wait, RunInv, ProcessTypeOK
<1>4. Quieter
  BY <1>1, <1>2, <1>3 DEF Quieter
<1>5. Alive' = {}
  BY <1>1, <1>3 DEF Alive
<1>6. ProcessesOK'
  <2>1. \A c \in Child : parent[c] = Run
    <3>1. \A c \in Child : parent[c] \in Proc => proc[parent[c]] # "alive"
      BY <1>1 DEF Alive
    <3> QED BY <3>1 DEF RunInv, ProcessTypeOK
  <2> QED BY <1>1, <1>3, <1>5, <2>1 DEF RunInv, ProcessTypeOK, ProcessesOK, Acyclic
<1>7. Reaping'
  BY <1>1, <1>4, QuieterKeepsReaping DEF RunInv, ProcessTypeOK
<1>8. ProcessTypeOK' /\ Executing' /\ Stopping'
  BY <1>1, <1>6 DEF RunInv, ProcessTypeOK, ProcessesOK, Executing, Stopping
<1> QED BY <1>6, <1>7, <1>8 DEF RunInv, ProcessesOK

LEMMA ProcessNextInv == RunInv /\ [ProcessNext]_processVars => RunInv'
<1> SUFFICES ASSUME RunInv, [ProcessNext]_processVars PROVE RunInv'
  OBVIOUS
<1>1. CASE System
  BY <1>1, TailAndContextInv, AgentExitedInv, ListProcessesInv, ReadStatsInv, KillChildrenInv,
     ReapInv, ExecuteInv, WaitInv DEF System
<1>2. CASE Environment
  BY <1>2, ForkInv, ProcessInv, TailAndContextInv, ExecuteInv DEF Environment
<1>3. CASE Returned
  BY <1>3, ExecuteInv
<1>4. CASE UNCHANGED processVars
  <2>1. ProcessesOK' /\ Quieter
    BY <1>4, InvProcesses, NoDeaths DEF processVars, processes
  <2> QED BY <1>4, <2>1, StopperKeeps DEF processVars, RunInv, ProcessTypeOK, Stopping
<1> QED BY <1>1, <1>2, <1>3, <1>4 DEF ProcessNext

(* The invariant the other theorems rest on. *)
THEOREM SpecRunInv == ProcessSpec => []RunInv
  BY ProcessInitInv, ProcessNextInv, PTL DEF ProcessSpec

(* The kernel's rules hold of the processes of a run, and the reaper never *)
(* needs more rounds than it has (stopDescendants).                        *)
THEOREM SpecProcessTypeOK == ProcessSpec => []ProcessTypeOK
<1>1. RunInv => ProcessTypeOK
  BY DEF RunInv
<1> QED BY <1>1, SpecRunInv, PTL

(* Whatever the agent's tree forks, leaves behind or ignores, nothing of   *)
(* it is alive once execute waits for the agent, for every tree of fewer   *)
(* processes than the reaper has rounds (stopDescendants, leftChildren).   *)
THEOREM SpecNothingOutlives == ProcessSpec => []NothingOutlives
<1>1. RunInv => NothingOutlives
  BY DEF RunInv, Executing, Reaping, NothingOutlives
<1> QED BY <1>1, SpecRunInv, PTL

(* A run reported as stopped at its cap was signalled before execute       *)
(* returned, and leaves no timer behind (byBudget, finishTail, release).   *)
THEOREM SpecStopReported == ProcessSpec => []StopReported
<1>1. RunInv => StopReported
  BY DEF RunInv, Stopping, StopReported
<1> QED BY <1>1, SpecRunInv, PTL

-----------------------------------------------------------------------------
(* The gateway's key.                                                      *)

GwType ==
  [key : {"absent", "live", "deleted"}, up : BOOLEAN, inFlight : Nat, ended : Nat,
   counted : Nat, stored : Nat, since : Nat]
ReadType == [due : BOOLEAN, last : Nat \cup {None}, age : Nat, waited : Nat]
RunType ==
  [step : {"request", "await", "watch", "running", "ended", "finish", "spend"} \cup Ended,
   artifact : {"none", "ours", "other"}, answered : Nat, cancelled : BOOLEAN, failed : BOOLEAN,
   grade : {"none", "gateway-precheck"}, gap : BOOLEAN, read : ReadType]
CloseType ==
  [step : {"blocked", "read", "delete", "pause", "attest"} \cup Ended, again : BOOLEAN,
   count : Nat \cup {None}, unread : BOOLEAN, read : ReadType]
LedgerType == [minted : BOOLEAN, spend : Nat \cup {None}]

Types ==
  /\ setup \in SetupType /\ gw \in GwType /\ run \in RunType /\ close \in CloseType
  /\ mint \in {"wait", "register", "attest"} \cup Ended
  /\ ledger \in LedgerType /\ outage \in BOOLEAN

(* The store follows the count and the count the requests. *)
Counted ==
  /\ gw.stored <= gw.counted /\ gw.counted <= gw.ended /\ run.answered <= gw.ended
  /\ gw.inFlight <= MaxParallel /\ gw.since <= Batch

(* The key lives from mint's call to close's. *)
KeyLife ==
  /\ gw.key # "absent" => mint \notin {"wait", "register"}
  /\ close.step \in {"blocked", "read", "delete", "pause"} => gw.key # "deleted"

(* When close has deleted what there was, nothing mints any more. *)
CloseOrder ==
  /\ ~setup.beside /\ close.step # "blocked" => mint \in Ended /\ run.step \in Ended
  /\ close.again /\ (setup.beside => setup.patient) => mint \in Ended
  /\ close.step \in {"attest", "done"} /\ (setup.beside => setup.patient) =>
       gw.key # "live" /\ (gw.key = "deleted" \/ mint \in Ended)

Graded ==
  run.grade = "gateway-precheck" =>
    /\ run.step \in {"spend", "done"}
    /\ run.answered * Cost <= setup.budget + overshootBound /\ setup.budget <= RunBudget

Bounded == (~outage => gw.up) /\ BoundSuffices

(* While a reader polls, the store is behind its run only for as long as   *)
(* it has not been written since the first tick.                           *)
CaughtUp(read) ==
  /\ run.answered <= gw.stored \/ read.waited <= gw.since
  /\ read.waited >= 1 => run.answered <= gw.counted

RunReads ==
  /\ run.read.age <= run.read.waited /\ run.read.waited <= Settle + 1
  /\ run.step # "spend" => run.read.waited = 0 /\ run.read.due
  /\ run.step = "spend" => CaughtUp(run.read)
  /\ run.step = "spend" /\ ~run.read.due => gw.up /\ run.read.waited <= Settle

CloseReads ==
  /\ close.read.age <= close.read.waited /\ close.read.waited <= Settle
  /\ close.step # "read" => close.read.waited = 0 /\ close.read.due
  /\ close.step = "read" /\ ~close.read.due => close.read.waited < Settle
  /\ close.step = "read" /\ ~setup.beside =>
       CaughtUp(close.read) /\ (~close.read.due => gw.up)

(* What close read and attested, and what run warned of. *)
Reported ==
  /\ run.gap => run.step \in Ended /\ gw.ended > run.answered
  /\ close.step = "attest" => close.count # None
  /\ ~setup.beside =>
       /\ close.count # None => close.step # "blocked" /\ close.count >= run.answered
       /\ ledger.spend # None => close.step # "blocked" /\ ledger.spend >= run.answered
  /\ ~setup.beside /\ setup.ledger =>
       /\ close.step = "delete" /\ ~close.unread /\ gw.key = "live" => close.count # None
       /\ close.step = "done" /\ gw.key = "deleted" => ledger.spend # None

Inv ==
  /\ Types /\ Counted /\ KeyLife /\ CloseOrder /\ Graded /\ Bounded
  /\ RunReads /\ CloseReads /\ Reported

-----------------------------------------------------------------------------
(* Arithmetic, and the fields of the records.                              *)

LEMMA TimesDistributes ==
  ASSUME NEW a \in Nat, NEW b \in Nat, NEW c \in Nat
  PROVE  (a + b) * c = a * c + b * c /\ a * c \in Nat
  OBVIOUS

LEMMA TimesMonotone ==
  ASSUME NEW a \in Nat, NEW b \in Nat, NEW c \in Nat, a <= b
  PROVE  a * c <= b * c
<1>1. (b - a) \in Nat /\ a + (b - a) = b
  OBVIOUS
<1>2. b * c = a * c + (b - a) * c /\ (b - a) * c \in Nat /\ a * c \in Nat
  BY <1>1, TimesDistributes
<1>. QED  BY <1>2

(* What each record holds, field by field. *)
ReadFields(r) == r.due \in BOOLEAN /\ r.last \in Nat \cup {None} /\ r.age \in Nat /\ r.waited \in Nat
Fields ==
  /\ setup.beside \in BOOLEAN /\ setup.patient \in BOOLEAN /\ setup.ledger \in BOOLEAN
  /\ setup.budget \in Nat /\ setup.late \in Nat
  /\ gw.key \in {"absent", "live", "deleted"} /\ gw.up \in BOOLEAN /\ gw.inFlight \in Nat
  /\ gw.ended \in Nat /\ gw.counted \in Nat /\ gw.stored \in Nat /\ gw.since \in Nat
  /\ run.step \in {"request", "await", "watch", "running", "ended", "finish", "spend", "done", "failed"}
  /\ run.answered \in Nat /\ run.cancelled \in BOOLEAN /\ run.failed \in BOOLEAN /\ run.gap \in BOOLEAN
  /\ run.grade \in {"none", "gateway-precheck"} /\ ReadFields(run.read)
  /\ close.step \in {"blocked", "read", "delete", "pause", "attest", "done", "failed"}
  /\ close.again \in BOOLEAN /\ close.count \in Nat \cup {None} /\ close.unread \in BOOLEAN
  /\ ReadFields(close.read)
  /\ mint \in {"wait", "register", "attest", "done", "failed"}
  /\ ledger.minted \in BOOLEAN /\ ledger.spend \in Nat \cup {None} /\ outage \in BOOLEAN

LEMMA TypesFields ==
  ASSUME Types
  PROVE  Fields
<1>1. /\ setup.beside \in BOOLEAN /\ setup.patient \in BOOLEAN /\ setup.ledger \in BOOLEAN
      /\ setup.budget \in Nat /\ setup.late \in Nat
  BY DEF Types, SetupType
<1>2. /\ gw.key \in {"absent", "live", "deleted"} /\ gw.up \in BOOLEAN /\ gw.inFlight \in Nat
      /\ gw.ended \in Nat /\ gw.counted \in Nat /\ gw.stored \in Nat /\ gw.since \in Nat
  BY DEF Types, GwType
<1>3. /\ run.step \in {"request", "await", "watch", "running", "ended", "finish", "spend", "done", "failed"}
      /\ run.answered \in Nat /\ run.cancelled \in BOOLEAN /\ run.failed \in BOOLEAN /\ run.gap \in BOOLEAN
      /\ run.grade \in {"none", "gateway-precheck"} /\ run.read \in ReadType
  BY DEF Types, RunType, Ended
<1>4. /\ close.step \in {"blocked", "read", "delete", "pause", "attest", "done", "failed"}
      /\ close.again \in BOOLEAN /\ close.count \in Nat \cup {None} /\ close.unread \in BOOLEAN
      /\ close.read \in ReadType
  BY DEF Types, CloseType, Ended
<1>5. ReadFields(run.read) /\ ReadFields(close.read)
  BY <1>3, <1>4 DEF ReadType, ReadFields
<1>6. /\ mint \in {"wait", "register", "attest", "done", "failed"}
      /\ ledger.minted \in BOOLEAN /\ ledger.spend \in Nat \cup {None} /\ outage \in BOOLEAN
  BY DEF Types, LedgerType, Ended
<1>. QED  BY <1>1, <1>2, <1>3, <1>4, <1>5, <1>6 DEF Fields

(* The initial state satisfies the invariant. *)
LEMMA InitInv == Init => Inv
<1>. SUFFICES ASSUME Init PROVE Inv
  OBVIOUS
<1>. USE GatewayKeyAssumption
<1>1. Types
  BY DEF Init, Types, SetupType, GwType, RunType, CloseType, ReadType, NewRead, LedgerType, Ended
<1>2. Fields
  BY <1>1, TypesFields
<1>3. /\ gw.key = "absent" /\ gw.up /\ gw.inFlight = 0 /\ gw.ended = 0 /\ gw.counted = 0
      /\ gw.stored = 0 /\ gw.since = 0
      /\ run.step = "request" /\ run.answered = 0 /\ run.grade = "none" /\ ~run.gap
      /\ run.read.age = 0 /\ run.read.waited = 0 /\ run.read.due
      /\ close.step = "blocked" /\ ~close.again /\ close.count = None
      /\ close.read.age = 0 /\ close.read.waited = 0 /\ close.read.due
      /\ ledger.spend = None /\ mint = "wait"
  BY DEF Init, NewRead
<1>4. Counted /\ KeyLife /\ CloseOrder /\ Graded
  BY <1>3 DEF Counted, KeyLife, CloseOrder, Graded, Ended
<1>5. Bounded
  <2>1. (gw.ended + gw.inFlight) * Cost = 0
    BY <1>3
  <2>2. setup.budget + overshootBound \in Nat
    BY <1>2 DEF Fields, overshootBound
  <2>. QED  BY <1>3, <2>1, <2>2 DEF Bounded, BoundSuffices
<1>6. RunReads /\ CloseReads /\ Reported
  BY <1>3 DEF RunReads, CloseReads, Reported
<1>. QED  BY <1>1, <1>4, <1>5, <1>6 DEF Inv

-----------------------------------------------------------------------------
(* The gateway's steps.                                                    *)

LEMMA AdmitInv ==
  ASSUME Inv, Admit
  PROVE  Inv'
<1>. USE GatewayKeyAssumption
<1>1. Fields /\ gw \in GwType
  BY TypesFields DEF Inv, Types
<1>2. setup' = setup /\ run' = run /\ mint' = mint /\ close' = close /\ ledger' = ledger /\ outage' = outage
  BY DEF Admit
<1>3. /\ gw' \in GwType /\ gw'.key = gw.key /\ gw'.up = gw.up /\ gw'.inFlight = gw.inFlight + 1
      /\ gw'.ended = gw.ended /\ gw'.counted = gw.counted /\ gw'.stored = gw.stored /\ gw'.since = gw.since
  BY <1>1 DEF Admit, GwType
<1>4. Types'
  BY <1>2, <1>3 DEF Inv, Types
<1>5. Counted' /\ KeyLife' /\ CloseOrder' /\ Graded'
  <2>1. gw.inFlight + 1 <= MaxParallel
    BY <1>1 DEF Admit, Fields
  <2>2. Counted'
    BY <1>1, <1>2, <1>3, <2>1 DEF Inv, Counted, Fields
  <2>3. KeyLife' /\ CloseOrder' /\ Graded'
    BY <1>2, <1>3 DEF Inv, KeyLife, CloseOrder, Graded, overshootBound
  <2>. QED  BY <2>2, <2>3
<1>6. Bounded'
  <2>1. ~outage => gw.up
    BY DEF Inv, Bounded
  <2>2. SUFFICES ASSUME setup.late <= 1, ~outage
                 PROVE  (gw.ended + gw.inFlight + 1) * Cost <= setup.budget + overshootBound
    BY <1>1, <1>2, <1>3, <2>1 DEF Bounded, BoundSuffices, overshootBound, Fields
  <2>3. /\ gw.counted * Cost < setup.budget /\ gw.ended - gw.counted <= setup.late
        /\ gw.inFlight < MaxParallel
    BY <2>1, <2>2 DEF Admit
  <2>4. gw.ended + gw.inFlight + 1 <= gw.counted + (MaxParallel + 1)
    BY <1>1, <2>2, <2>3 DEF Fields
  <2>5. (gw.ended + gw.inFlight + 1) * Cost <= (gw.counted + (MaxParallel + 1)) * Cost
    BY <1>1, <2>4, TimesMonotone DEF Fields
  <2>6. (gw.counted + (MaxParallel + 1)) * Cost = gw.counted * Cost + overshootBound
    BY <1>1, TimesDistributes DEF Fields, overshootBound
  <2>7. /\ (gw.ended + gw.inFlight + 1) * Cost \in Nat /\ gw.counted * Cost \in Nat
        /\ overshootBound \in Nat /\ setup.budget \in Nat
    BY <1>1, TimesDistributes DEF Fields, overshootBound
  <2>. QED  BY <2>3, <2>5, <2>6, <2>7
<1>7. RunReads' /\ CloseReads' /\ Reported'
  BY <1>2, <1>3 DEF Inv, RunReads, CloseReads, CaughtUp, Reported
<1>. QED  BY <1>4, <1>5, <1>6, <1>7 DEF Inv

LEMMA EndRequestInv ==
  ASSUME Inv, EndRequest
  PROVE  Inv'
<1>. USE GatewayKeyAssumption
<1>1. Fields /\ gw \in GwType /\ run \in RunType
  BY TypesFields DEF Inv, Types
<1>2. setup' = setup /\ mint' = mint /\ close' = close /\ ledger' = ledger /\ outage' = outage
  BY DEF EndRequest
<1>3. /\ gw' \in GwType /\ gw'.key = gw.key /\ gw'.up = gw.up /\ gw'.inFlight = gw.inFlight - 1
      /\ gw'.ended = gw.ended + 1 /\ gw'.counted = gw.counted /\ gw'.stored = gw.stored /\ gw'.since = gw.since
  <2>. DEFINE p == [gw EXCEPT !.inFlight = gw.inFlight - 1]
              t == [p EXCEPT !.ended = gw.ended + 1]
  <2>1. gw' = t
    BY <1>1 DEF EndRequest, GwType
  <2>2. gw.inFlight - 1 \in Nat
    BY <1>1 DEF EndRequest, Fields
  <2>3. /\ p \in GwType /\ p.key = gw.key /\ p.up = gw.up /\ p.inFlight = gw.inFlight - 1
        /\ p.ended = gw.ended /\ p.counted = gw.counted /\ p.stored = gw.stored /\ p.since = gw.since
    BY <1>1, <2>2 DEF GwType
  <2>. HIDE DEF p
  <2>4. /\ t \in GwType /\ t.key = p.key /\ t.up = p.up /\ t.inFlight = p.inFlight
        /\ t.ended = gw.ended + 1 /\ t.counted = p.counted /\ t.stored = p.stored /\ t.since = p.since
    BY <1>1, <2>3 DEF GwType
  <2>. QED  BY <2>1, <2>3, <2>4
<1>4. /\ run' \in RunType /\ run'.step = run.step /\ run'.read = run.read /\ run'.grade = run.grade
      /\ run'.gap = run.gap /\ run'.answered \in Nat
      /\ run'.answered = IF run.step = "running" THEN run.answered + 1 ELSE run.answered
  BY <1>1 DEF EndRequest, RunType
<1>5. Types'
  BY <1>2, <1>3, <1>4 DEF Inv, Types
<1>6. Counted' /\ KeyLife' /\ CloseOrder'
  <2>1. Counted'
    BY <1>1, <1>3, <1>4 DEF Inv, Counted, Fields
  <2>2. KeyLife' /\ CloseOrder'
    BY <1>2, <1>3, <1>4 DEF Inv, KeyLife, CloseOrder
  <2>. QED  BY <2>1, <2>2
<1>7. Graded'
  BY <1>2, <1>4 DEF Inv, Graded, overshootBound
<1>8. Bounded'
  <2>1. gw'.ended + gw'.inFlight = gw.ended + gw.inFlight
    BY <1>1, <1>3 DEF Fields
  <2>. QED  BY <1>2, <1>3, <2>1 DEF Inv, Bounded, BoundSuffices, overshootBound
<1>9. RunReads' /\ CloseReads'
  <2>1. close.step = "read" /\ ~setup.beside => run'.answered = run.answered
    BY <1>4 DEF Inv, CloseOrder, Ended
  <2>2. run.step = "spend" => run'.answered = run.answered
    BY <1>4
  <2>. QED  BY <1>2, <1>3, <1>4, <2>1, <2>2 DEF Inv, RunReads, CloseReads, CaughtUp
<1>10. Reported'
  <2>1. ~setup.beside /\ close.step # "blocked" => run'.answered = run.answered
    BY <1>4 DEF Inv, CloseOrder, Ended
  <2>2. run.step \in Ended => run'.answered = run.answered
    BY <1>4 DEF Ended
  <2>. QED  BY <1>1, <1>2, <1>3, <1>4, <2>1, <2>2 DEF Inv, Reported, Fields
<1>. QED  BY <1>5, <1>6, <1>7, <1>8, <1>9, <1>10 DEF Inv

LEMMA CountRequestInv ==
  ASSUME Inv, CountRequest
  PROVE  Inv'
<1>. USE GatewayKeyAssumption
<1>1. Fields /\ gw \in GwType
  BY TypesFields DEF Inv, Types
<1>2. setup' = setup /\ run' = run /\ mint' = mint /\ close' = close /\ ledger' = ledger /\ outage' = outage
  BY DEF CountRequest
<1>3. /\ gw' \in GwType /\ gw'.key = gw.key /\ gw'.up = gw.up /\ gw'.inFlight = gw.inFlight
      /\ gw'.ended = gw.ended /\ gw'.counted = gw.counted + 1 /\ gw'.stored = gw.stored /\ gw'.since = gw.since
  BY <1>1 DEF CountRequest, GwType
<1>4. Types' /\ KeyLife' /\ CloseOrder' /\ Graded'
  BY <1>2, <1>3 DEF Inv, Types, KeyLife, CloseOrder, Graded, overshootBound
<1>5. Counted'
  BY <1>1, <1>2, <1>3 DEF Inv, Counted, CountRequest, Fields
<1>6. Bounded'
  BY <1>2, <1>3 DEF Inv, Bounded, BoundSuffices, overshootBound
<1>7. RunReads' /\ CloseReads' /\ Reported'
  <2>1. run.answered <= gw.counted => run.answered <= gw.counted + 1
    BY <1>1 DEF Fields
  <2>. QED  BY <1>2, <1>3, <2>1 DEF Inv, RunReads, CloseReads, CaughtUp, Reported
<1>. QED  BY <1>4, <1>5, <1>6, <1>7 DEF Inv

LEMMA WriteStoreInv ==
  ASSUME Inv, WriteStore
  PROVE  Inv'
<1>. USE GatewayKeyAssumption
<1>1. Fields /\ gw \in GwType
  BY TypesFields DEF Inv, Types
<1>2. setup' = setup /\ run' = run /\ mint' = mint /\ close' = close /\ ledger' = ledger /\ outage' = outage
  BY DEF WriteStore
<1>3. /\ gw' \in GwType /\ gw'.key = gw.key /\ gw'.up = gw.up /\ gw'.inFlight = gw.inFlight
      /\ gw'.ended = gw.ended /\ gw'.counted = gw.counted /\ gw'.stored = gw.counted /\ gw'.since = 0
  <2>. DEFINE p == [gw EXCEPT !.stored = gw.counted]
              t == [p EXCEPT !.since = 0]
  <2>1. gw' = t
    BY <1>1 DEF WriteStore, GwType
  <2>2. /\ p \in GwType /\ p.key = gw.key /\ p.up = gw.up /\ p.inFlight = gw.inFlight
        /\ p.ended = gw.ended /\ p.counted = gw.counted /\ p.stored = gw.counted /\ p.since = gw.since
    BY <1>1 DEF GwType
  <2>. HIDE DEF p
  <2>3. /\ t \in GwType /\ t.key = p.key /\ t.up = p.up /\ t.inFlight = p.inFlight
        /\ t.ended = p.ended /\ t.counted = p.counted /\ t.stored = p.stored /\ t.since = 0
    BY <2>2 DEF GwType
  <2>. QED  BY <2>1, <2>2, <2>3
<1>4. Types' /\ KeyLife' /\ CloseOrder' /\ Graded'
  BY <1>2, <1>3 DEF Inv, Types, KeyLife, CloseOrder, Graded, overshootBound
<1>5. Counted'
  BY <1>1, <1>2, <1>3 DEF Inv, Counted, Fields
<1>6. Bounded'
  BY <1>2, <1>3 DEF Inv, Bounded, BoundSuffices, overshootBound
<1>7. RunReads' /\ CloseReads'
  <2>1. /\ run.read.waited <= 0 \/ run.read.waited >= 1
        /\ close.read.waited <= 0 \/ close.read.waited >= 1
    BY <1>1 DEF Fields, ReadFields
  <2>. QED  BY <1>2, <1>3, <2>1 DEF Inv, RunReads, CloseReads, CaughtUp
<1>8. Reported'
  BY <1>2, <1>3 DEF Inv, Reported
<1>. QED  BY <1>4, <1>5, <1>6, <1>7, <1>8 DEF Inv

LEMMA StoreFailsInv ==
  ASSUME Inv, StoreFails
  PROVE  Inv'
<1>. USE GatewayKeyAssumption
<1>1. Fields /\ gw \in GwType
  BY TypesFields DEF Inv, Types
<1>2. /\ setup' = setup /\ run' = run /\ mint' = mint /\ close' = close /\ ledger' = ledger
      /\ outage' = TRUE /\ run.step = "running"
  BY DEF StoreFails
<1>3. /\ gw' \in GwType /\ gw'.key = gw.key /\ gw'.up = FALSE /\ gw'.inFlight = gw.inFlight
      /\ gw'.ended = gw.ended /\ gw'.counted = gw.counted /\ gw'.stored = gw.stored /\ gw'.since = gw.since
  BY <1>1 DEF StoreFails, GwType
<1>4. Types' /\ Counted' /\ KeyLife' /\ CloseOrder' /\ Graded'
  BY <1>2, <1>3 DEF Inv, Types, Counted, KeyLife, CloseOrder, Graded, overshootBound
<1>5. Bounded'
  BY <1>2 DEF Bounded, BoundSuffices
<1>6. RunReads' /\ CloseReads' /\ Reported'
  <2>1. ~(close.step = "read" /\ ~setup.beside)
    BY <1>2 DEF Inv, CloseOrder, Ended
  <2>. QED  BY <1>2, <1>3, <2>1 DEF Inv, RunReads, CloseReads, CaughtUp, Reported
<1>. QED  BY <1>4, <1>5, <1>6 DEF Inv

LEMMA StoreReturnsInv ==
  ASSUME Inv, StoreReturns
  PROVE  Inv'
<1>1. Fields /\ gw \in GwType
  BY TypesFields DEF Inv, Types
<1>2. setup' = setup /\ run' = run /\ mint' = mint /\ close' = close /\ ledger' = ledger /\ outage' = outage
  BY DEF StoreReturns
<1>3. /\ gw' \in GwType /\ gw'.key = gw.key /\ gw'.up = TRUE /\ gw'.inFlight = gw.inFlight
      /\ gw'.ended = gw.ended /\ gw'.counted = gw.counted /\ gw'.stored = gw.stored /\ gw'.since = gw.since
  BY <1>1 DEF StoreReturns, GwType
<1>4. Types' /\ Counted' /\ KeyLife' /\ CloseOrder' /\ Graded'
  BY <1>2, <1>3 DEF Inv, Types, Counted, KeyLife, CloseOrder, Graded, overshootBound
<1>5. Bounded'
  BY <1>2, <1>3 DEF Inv, Bounded, BoundSuffices, overshootBound
<1>6. RunReads' /\ CloseReads' /\ Reported'
  BY <1>2, <1>3 DEF Inv, RunReads, CloseReads, CaughtUp, Reported
<1>. QED  BY <1>4, <1>5, <1>6 DEF Inv

(* A poll interval that passes leaves a reader one tick older. *)
LEMMA LaterFields ==
  ASSUME NEW r \in ReadType
  PROVE  /\ Later(r) \in ReadType /\ Later(r).due = TRUE /\ Later(r).last = r.last
         /\ Later(r).age = r.age + 1 /\ Later(r).waited = r.waited + 1
<1>. DEFINE p == [r EXCEPT !.due = TRUE]
            q == [p EXCEPT !.age = r.age + 1]
            t == [q EXCEPT !.waited = r.waited + 1]
<1>1. Later(r) = t
  BY DEF Later, ReadType
<1>2. p \in ReadType /\ p.due = TRUE /\ p.last = r.last /\ p.age = r.age /\ p.waited = r.waited
  BY DEF ReadType
<1>. HIDE DEF p
<1>3. r.age + 1 \in Nat /\ r.waited + 1 \in Nat
  BY DEF ReadType
<1>4. q \in ReadType /\ q.due = TRUE /\ q.last = r.last /\ q.age = r.age + 1 /\ q.waited = r.waited
  BY <1>2, <1>3 DEF ReadType
<1>. HIDE DEF q
<1>5. t \in ReadType /\ t.due = TRUE /\ t.last = r.last /\ t.age = r.age + 1 /\ t.waited = r.waited + 1
  BY <1>3, <1>4 DEF ReadType
<1>. QED  BY <1>1, <1>5

LEMMA TickInv ==
  ASSUME Inv, Tick
  PROVE  Inv'
<1>. USE GatewayKeyAssumption
<1>1. Fields /\ gw \in GwType /\ run \in RunType /\ close \in CloseType
  BY TypesFields DEF Inv, Types
<1>2. setup' = setup /\ mint' = mint /\ ledger' = ledger /\ outage' = outage
  BY DEF Tick
<1>3. /\ gw' \in GwType /\ gw'.key = gw.key /\ gw'.up = gw.up /\ gw'.inFlight = gw.inFlight
      /\ gw'.ended = gw.ended /\ gw'.counted = gw.counted /\ gw'.stored = gw.stored
      /\ gw'.since = IF gw.up THEN gw.since + 1 ELSE gw.since
  BY <1>1 DEF Tick, GwType
<1>4. /\ run' \in RunType /\ run'.step = run.step /\ run'.answered = run.answered
      /\ run'.grade = run.grade /\ run'.gap = run.gap
      /\ run'.read = IF run.step = "spend" THEN Later(run.read) ELSE run.read
  <2>1. run.read \in ReadType
    BY <1>1 DEF RunType
  <2>2. Later(run.read) \in ReadType
    BY <2>1, LaterFields
  <2>. QED  BY <1>1, <2>2 DEF Tick, RunType
<1>5. /\ close' \in CloseType /\ close'.step = close.step /\ close'.again = close.again
      /\ close'.count = close.count /\ close'.unread = close.unread
      /\ close'.read = IF close.step = "read" THEN Later(close.read) ELSE close.read
  <2>1. close.read \in ReadType
    BY <1>1 DEF CloseType
  <2>2. Later(close.read) \in ReadType
    BY <2>1, LaterFields
  <2>. QED  BY <1>1, <2>2 DEF Tick, CloseType
<1>6. Types'
  BY <1>2, <1>3, <1>4, <1>5 DEF Inv, Types
<1>7. Counted'
  BY <1>1, <1>3, <1>4 DEF Inv, Counted, Tick, Fields
<1>8. KeyLife' /\ CloseOrder' /\ Graded'
  BY <1>2, <1>3, <1>4, <1>5 DEF Inv, KeyLife, CloseOrder, Graded, overshootBound
<1>9. Bounded'
  BY <1>2, <1>3 DEF Inv, Bounded, BoundSuffices, overshootBound
<1>10. run.answered <= gw.counted
  BY DEF Tick, Inv, Counted
<1>11. RunReads'
  <2>1. CASE run.step = "spend"
    <3>1. ~run.read.due /\ gw.up /\ run.read.waited <= Settle
      BY <2>1 DEF Inv, RunReads, Tick
    <3>2. run.read \in ReadType
      BY <1>1 DEF RunType
    <3>3. /\ run'.read.due = TRUE /\ run'.read.age = run.read.age + 1
          /\ run'.read.waited = run.read.waited + 1
      BY <1>4, <2>1, <3>2, LaterFields
    <3>. QED  BY <1>1, <1>3, <1>4, <1>10, <2>1, <3>1, <3>3
              DEF Inv, RunReads, CaughtUp, Fields, ReadFields
  <2>2. CASE run.step # "spend"
    BY <1>4, <2>2 DEF Inv, RunReads
  <2>. QED  BY <2>1, <2>2
<1>12. CloseReads'
  <2>1. CASE close.step = "read"
    <3>1. /\ ~close.read.due /\ close.read.waited < Settle
          /\ ~setup.beside => gw.up
      BY <2>1 DEF Inv, CloseReads, Tick
    <3>2. close.read \in ReadType
      BY <1>1 DEF CloseType
    <3>3. /\ close'.read.due = TRUE /\ close'.read.age = close.read.age + 1
          /\ close'.read.waited = close.read.waited + 1
      BY <1>5, <2>1, <3>2, LaterFields
    <3>. QED  BY <1>1, <1>2, <1>3, <1>4, <1>5, <1>10, <2>1, <3>1, <3>3
              DEF Inv, CloseReads, CaughtUp, Fields, ReadFields
  <2>2. CASE close.step # "read"
    BY <1>5, <2>2 DEF Inv, CloseReads
  <2>. QED  BY <2>1, <2>2
<1>13. Reported'
  BY <1>2, <1>3, <1>4, <1>5 DEF Inv, Reported
<1>. QED  BY <1>6, <1>7, <1>8, <1>9, <1>11, <1>12, <1>13 DEF Inv

-----------------------------------------------------------------------------
(* The agent's job. Up to the rows its steps only move run.step and the    *)
(* marks beside it, so they share one argument.                            *)

RunMoves(to) ==
  /\ run' \in RunType /\ run'.step = to /\ run'.answered = run.answered
  /\ run'.grade = run.grade /\ run'.gap = run.gap /\ run'.read = run.read
OthersStay ==
  gw' = gw /\ setup' = setup /\ mint' = mint /\ close' = close /\ ledger' = ledger /\ outage' = outage

LEMMA RunMovesInv ==
  ASSUME Inv, OthersStay, NEW to, RunMoves(to),
         run.step \notin {"spend", "done", "failed"}, to # "spend"
  PROVE  Inv'
<1>1. gw' = gw /\ setup' = setup /\ mint' = mint /\ close' = close /\ ledger' = ledger /\ outage' = outage
  BY DEF OthersStay
<1>2. /\ run' \in RunType /\ run'.step = to /\ run'.answered = run.answered
      /\ run'.grade = run.grade /\ run'.gap = run.gap /\ run'.read = run.read
  BY DEF RunMoves
<1>3. run.grade # "gateway-precheck" /\ ~(~setup.beside /\ close.step # "blocked") /\ ~run.gap
  BY DEF Inv, Graded, CloseOrder, Reported, Ended
<1>4. Types' /\ Counted' /\ KeyLife' /\ CloseOrder' /\ Graded'
  BY <1>1, <1>2, <1>3 DEF Inv, Types, Counted, KeyLife, CloseOrder, Graded
<1>5. Bounded' /\ RunReads' /\ CloseReads' /\ Reported'
  BY <1>1, <1>2, <1>3 DEF Inv, Bounded, BoundSuffices, overshootBound, RunReads, CloseReads, CaughtUp, Reported
<1>. QED  BY <1>4, <1>5 DEF Inv

LEMMA RequestInv ==
  ASSUME Inv, Request
  PROVE  Inv'
<1>1. run \in RunType /\ run.step = "request"
  BY DEF Inv, Types, Request
<1>2. OthersStay
  BY DEF Request, OthersStay
<1>3. PICK sealed \in {"none", "ours", "other"} :
        run' = [run EXCEPT !.artifact = sealed, !.step = IF sealed = "none" THEN "failed" ELSE "await"]
  BY DEF Request
<1>. DEFINE to == IF sealed = "none" THEN "failed" ELSE "await"
            p == [run EXCEPT !.artifact = sealed]
<1>4. /\ p \in RunType /\ p.step = run.step /\ p.answered = run.answered
      /\ p.grade = run.grade /\ p.gap = run.gap /\ p.read = run.read
  BY <1>1 DEF RunType
<1>5. run' = [p EXCEPT !.step = to]
  BY <1>1, <1>3 DEF RunType
<1>6. to \in {"failed", "await"}
  OBVIOUS
<1>. HIDE DEF p, to
<1>7. RunMoves(to)
  BY <1>4, <1>5, <1>6 DEF RunType, RunMoves, Ended
<1>. QED  BY <1>1, <1>2, <1>6, <1>7, RunMovesInv

(* Await, AwaitEnds and AgentEnds. *)
LEMMA RunStepInv ==
  ASSUME Inv, OthersStay, NEW from, NEW to \in {"watch", "failed", "ended"}, RunStep(from, to),
         from \notin {"spend", "done", "failed"}
  PROVE  Inv'
<1>1. run \in RunType /\ run.step = from
  BY DEF Inv, Types, RunStep
<1>2. RunMoves(to)
  BY <1>1 DEF RunStep, RunType, RunMoves, Ended
<1>. QED  BY <1>1, <1>2, RunMovesInv

LEMMA ProbeInv ==
  ASSUME Inv, NEW from, NEW to \in {"running", "finish"}, Probe(from, to),
         from \notin {"spend", "done", "failed"}
  PROVE  Inv'
<1>1. run \in RunType /\ run.step = from /\ gw.up \in BOOLEAN /\ run.failed \in BOOLEAN /\ run.cancelled \in BOOLEAN
  BY TypesFields DEF Inv, Types, Probe, Fields
<1>2. OthersStay
  BY DEF Probe, OthersStay
<1>3. PICK bad \in {~gw.up, TRUE} :
        run' = [run EXCEPT !.step = to, !.failed = @ \/ (bad /\ ~run.cancelled)]
  BY DEF Probe
<1>. DEFINE p == [run EXCEPT !.step = to]
            f == run.failed \/ (bad /\ ~run.cancelled)
<1>4. f \in BOOLEAN
  BY <1>1
<1>5. /\ p \in RunType /\ p.step = to /\ p.answered = run.answered
      /\ p.grade = run.grade /\ p.gap = run.gap /\ p.read = run.read
  BY <1>1 DEF RunType
<1>6. run' = [p EXCEPT !.failed = f]
  BY <1>1, <1>3 DEF RunType
<1>. HIDE DEF p, f
<1>7. RunMoves(to)
  BY <1>4, <1>5, <1>6 DEF RunType, RunMoves
<1>. QED  BY <1>1, <1>2, <1>7, RunMovesInv

LEMMA CancelInv ==
  ASSUME Inv, Cancel
  PROVE  Inv'
<1>1. run \in RunType /\ run.step \in {"running", "ended"}
  BY DEF Inv, Types, Cancel
<1>2. OthersStay
  BY DEF Cancel, OthersStay
<1>3. RunMoves(run.step)
  BY <1>1 DEF Cancel, RunType, RunMoves
<1>. QED  BY <1>1, <1>2, <1>3, RunMovesInv

LEMMA FinishInv ==
  ASSUME Inv, Finish
  PROVE  Inv'
<1>. USE GatewayKeyAssumption
<1>1. run \in RunType /\ Fields
  BY TypesFields DEF Inv, Types
<1>2. OthersStay
  BY DEF Finish, OthersStay
<1>3. CASE RunStep("finish", "failed")
  BY <1>2, <1>3, RunStepInv
<1>4. ASSUME run.step = "finish",
             run' = [run EXCEPT !.step = "spend",
                       !.grade = IF Inspect /\ ~run.failed /\ ~checkOvershoot THEN "gateway-precheck" ELSE "none"]
      PROVE  Inv'
  <2>. DEFINE g == IF Inspect /\ ~run.failed /\ ~checkOvershoot THEN "gateway-precheck" ELSE "none"
              p == [run EXCEPT !.step = "spend"]
  <2>1. /\ p \in RunType /\ p.step = "spend" /\ p.answered = run.answered
        /\ p.gap = run.gap /\ p.read = run.read
    BY <1>1 DEF RunType
  <2>2. run' = [p EXCEPT !.grade = g]
    BY <1>1, <1>4 DEF RunType
  <2>3. g \in {"none", "gateway-precheck"}
    OBVIOUS
  <2>4. g = "gateway-precheck" => Inspect /\ ~checkOvershoot
    OBVIOUS
  <2>. HIDE DEF p, g
  <2>5. /\ run' \in RunType /\ run'.step = "spend" /\ run'.answered = run.answered
        /\ run'.gap = run.gap /\ run'.read = run.read /\ run'.grade = g
    BY <2>1, <2>2, <2>3 DEF RunType
  <2>6. gw' = gw /\ setup' = setup /\ mint' = mint /\ close' = close /\ ledger' = ledger /\ outage' = outage
    BY <1>2 DEF OthersStay
  <2>7. ~(~setup.beside /\ close.step # "blocked") /\ ~run.gap
    BY <1>4 DEF Inv, CloseOrder, Reported, Ended
  <2>8. Types' /\ Counted' /\ KeyLife' /\ CloseOrder'
    BY <2>5, <2>6, <2>7 DEF Inv, Types, Counted, KeyLife, CloseOrder
  <2>9. Graded'
    <3>1. run.answered * Cost \in Nat /\ setup.budget + overshootBound \in Nat
      BY <1>1, TimesDistributes DEF Fields, overshootBound
    <3>2. g = "gateway-precheck" =>
            run.answered * Cost <= setup.budget + overshootBound /\ setup.budget <= RunBudget
      BY <2>4, <3>1 DEF Inspect, checkOvershoot
    <3>. QED  BY <2>5, <2>6, <3>2 DEF Graded, overshootBound
  <2>10. Bounded'
    BY <2>6 DEF Inv, Bounded, BoundSuffices, overshootBound
  <2>11. RunReads'
    <3>1. run.read.waited = 0 /\ run.read.due
      BY <1>4 DEF Inv, RunReads
    <3>. QED  BY <1>1, <2>5, <2>6, <3>1 DEF Inv, RunReads, CaughtUp, Fields
  <2>12. CloseReads' /\ Reported'
    BY <2>5, <2>6, <2>7 DEF Inv, CloseReads, CaughtUp, Reported
  <2>. QED  BY <2>8, <2>9, <2>10, <2>11, <2>12 DEF Inv
<1>. QED  BY <1>3, <1>4 DEF Finish

(* A poll that does not settle leaves the reader waiting for the next. *)
LEMMA UnsettledFields ==
  ASSUME NEW r \in ReadType, NEW figure \in Nat
  PROVE  /\ Unsettled(r, figure) \in ReadType /\ Unsettled(r, figure).due = FALSE
         /\ Unsettled(r, figure).age <= r.age /\ Unsettled(r, figure).waited = r.waited
<1>. DEFINE a == IF figure = r.last THEN r.age ELSE 0
            p == [r EXCEPT !.due = FALSE]
            q == [p EXCEPT !.age = a]
            t == [q EXCEPT !.last = figure]
<1>1. Unsettled(r, figure) = t
  BY DEF Unsettled, ReadType
<1>2. a \in Nat /\ a <= r.age
  BY DEF ReadType
<1>. HIDE DEF a
<1>3. p \in ReadType /\ p.due = FALSE /\ p.age = r.age /\ p.waited = r.waited
  BY DEF ReadType
<1>. HIDE DEF p
<1>4. q \in ReadType /\ q.due = FALSE /\ q.age = a /\ q.waited = r.waited
  BY <1>2, <1>3 DEF ReadType
<1>. HIDE DEF q
<1>5. t \in ReadType /\ t.due = FALSE /\ t.age = a /\ t.waited = r.waited
  BY <1>4 DEF ReadType
<1>. QED  BY <1>1, <1>2, <1>5

LEMMA NewReadFields ==
  ASSUME NEW last \in Nat \cup {None}
  PROVE  /\ NewRead(last) \in ReadType /\ NewRead(last).due = TRUE
         /\ NewRead(last).age = 0 /\ NewRead(last).waited = 0
  BY DEF NewRead, ReadType

(* A figure that settles has been read for longer than a batch lasts, so   *)
(* the store was written since the first poll.                             *)
LEMMA SettledCaughtUp ==
  ASSUME Inv, NEW r, ReadFields(r), CaughtUp(r), r.age <= r.waited,
         NEW figure, NEW limit \in Nat, limit >= Batch, Settled(r, figure, limit)
  PROVE  run.answered <= gw.stored
<1>1. Fields /\ gw.since <= Batch
  BY TypesFields DEF Inv, Counted
<1>2. r.waited > gw.since
  BY <1>1, GatewayKeyAssumption DEF Settled, ReadFields, Fields
<1>. QED  BY <1>1, <1>2 DEF CaughtUp, ReadFields, Fields

(* Session.Spend stops: with no gap, or with a gap that is there. *)
LEMMA SpendEndsInv ==
  ASSUME Inv, OthersStay, run.step = "spend",
         run' \in RunType, run'.step = "done", run'.answered = run.answered, run'.grade = run.grade,
         run'.read = NewRead(0), run'.gap => run.gap \/ gw.ended > run.answered
  PROVE  Inv'
<1>. USE GatewayKeyAssumption
<1>1. gw' = gw /\ setup' = setup /\ mint' = mint /\ close' = close /\ ledger' = ledger /\ outage' = outage
  BY DEF OthersStay
<1>2. /\ run'.read.due = TRUE /\ run'.read.age = 0 /\ run'.read.waited = 0
  BY NewReadFields
<1>3. ~(~setup.beside /\ close.step # "blocked")
  BY DEF Inv, CloseOrder, Ended
<1>4. Types' /\ Counted' /\ KeyLife' /\ CloseOrder' /\ Graded'
  BY <1>1, <1>3 DEF Inv, Types, Counted, KeyLife, CloseOrder, Graded, overshootBound
<1>5. Bounded' /\ RunReads' /\ CloseReads'
  BY <1>1, <1>2, <1>3 DEF Inv, Bounded, BoundSuffices, overshootBound, RunReads, CloseReads, CaughtUp
<1>6. Reported'
  BY <1>1, <1>3 DEF Inv, Reported, Ended
<1>. QED  BY <1>4, <1>5, <1>6 DEF Inv

LEMMA SpendInv ==
  ASSUME Inv, Spend
  PROVE  Inv'
<1>. USE GatewayKeyAssumption
<1>1. run \in RunType /\ Fields /\ run.step = "spend"
  BY TypesFields DEF Inv, Types, Spend
<1>2. OthersStay
  BY DEF Spend, OthersStay
<1>3. run.read \in ReadType /\ ReadFields(run.read) /\ NewRead(0) \in ReadType
  BY <1>1, NewReadFields DEF RunType, Fields
<1>. DEFINE p == [run EXCEPT !.step = "done"]
            q == [p EXCEPT !.read = NewRead(0)]
            t == [q EXCEPT !.gap = TRUE]
<1>4. /\ p \in RunType /\ p.step = "done" /\ p.answered = run.answered /\ p.grade = run.grade
      /\ p.gap = run.gap
  BY <1>1 DEF RunType, Ended
<1>5. /\ q \in RunType /\ q.step = "done" /\ q.answered = run.answered /\ q.grade = run.grade
      /\ q.gap = run.gap /\ q.read = NewRead(0)
  <2>. HIDE DEF p
  <2>. QED  BY <1>3, <1>4 DEF RunType
<1>6. /\ t \in RunType /\ t.step = "done" /\ t.answered = run.answered /\ t.grade = run.grade
      /\ t.gap = TRUE /\ t.read = NewRead(0)
  <2>. HIDE DEF q
  <2>. QED  BY <1>5 DEF RunType
<1>7. CASE run' = [run EXCEPT !.step = "done", !.read = NewRead(0)]
  <2>1. run' = q
    BY <1>1, <1>7 DEF RunType
  <2>. HIDE DEF q
  <2>. QED  BY <1>1, <1>2, <1>5, <2>1, SpendEndsInv
<1>8. ASSUME gw.stored # run.answered, Settled(run.read, gw.stored, Settle),
             run' = [run EXCEPT !.step = "done", !.read = NewRead(0), !.gap = TRUE]
      PROVE  Inv'
  <2>1. run' = t
    BY <1>1, <1>8 DEF RunType
  <2>2. CaughtUp(run.read) /\ run.read.age <= run.read.waited
    BY <1>1 DEF Inv, RunReads
  <2>3. Settle >= Batch
    OBVIOUS
  <2>4. run.answered <= gw.stored
    BY <1>3, <1>8, <2>2, <2>3, SettledCaughtUp
  <2>5. gw.ended > run.answered
    BY <1>1, <1>8, <2>4 DEF Inv, Counted, Fields
  <2>. HIDE DEF t
  <2>. QED  BY <1>1, <1>2, <1>6, <2>1, <2>5, SpendEndsInv
<1>9. ASSUME gw.up, ~Settled(run.read, gw.stored, Settle),
             run' = [run EXCEPT !.read = Unsettled(@, gw.stored)]
      PROVE  Inv'
  <2>1. gw.stored \in Nat
    BY <1>1 DEF Fields
  <2>2. /\ Unsettled(run.read, gw.stored) \in ReadType /\ Unsettled(run.read, gw.stored).due = FALSE
        /\ Unsettled(run.read, gw.stored).age <= run.read.age
        /\ Unsettled(run.read, gw.stored).waited = run.read.waited
    BY <1>3, <2>1, UnsettledFields
  <2>3. /\ run' \in RunType /\ run'.step = "spend" /\ run'.answered = run.answered
        /\ run'.grade = run.grade /\ run'.gap = run.gap /\ run'.read = Unsettled(run.read, gw.stored)
    BY <1>1, <1>9, <2>2 DEF RunType
  <2>4. gw' = gw /\ setup' = setup /\ mint' = mint /\ close' = close /\ ledger' = ledger /\ outage' = outage
    BY <1>2 DEF OthersStay
  <2>5. run.read.waited <= Settle
    BY <1>3, <1>9 DEF Settled, ReadFields
  <2>6. Types' /\ Counted' /\ KeyLife' /\ CloseOrder' /\ Graded'
    BY <1>1, <2>3, <2>4 DEF Inv, Types, Counted, KeyLife, CloseOrder, Graded, overshootBound
  <2>7. Bounded' /\ CloseReads' /\ Reported'
    BY <1>1, <2>3, <2>4 DEF Inv, Bounded, BoundSuffices, overshootBound, CloseReads, CaughtUp, Reported
  <2>8. RunReads'
    <3>1. /\ run'.read.due = FALSE /\ run'.read.waited = run.read.waited /\ run'.read.age <= run.read.waited
      <4>1. Unsettled(run.read, gw.stored).age \in Nat
        BY <2>2 DEF ReadType
      <4>. QED  BY <1>3, <2>2, <2>3, <4>1 DEF Inv, RunReads, ReadFields
    <3>. QED  BY <1>1, <1>9, <2>3, <2>4, <2>5, <3>1 DEF Inv, RunReads, CaughtUp
  <2>. QED  BY <2>6, <2>7, <2>8 DEF Inv
<1>10. \/ run' = [run EXCEPT !.step = "done", !.read = NewRead(0)]
       \/ /\ gw.stored # run.answered /\ Settled(run.read, gw.stored, Settle)
          /\ run' = [run EXCEPT !.step = "done", !.read = NewRead(0), !.gap = TRUE]
       \/ /\ gw.up /\ ~Settled(run.read, gw.stored, Settle)
          /\ run' = [run EXCEPT !.read = Unsettled(@, gw.stored)]
  BY DEF Spend
<1>. QED  BY <1>7, <1>8, <1>9, <1>10

-----------------------------------------------------------------------------
(* The minting job.                                                        *)

LEMMA MintWaitsInv ==
  ASSUME Inv, MintWaits
  PROVE  Inv'
<1>1. gw' = gw /\ setup' = setup /\ run' = run /\ close' = close /\ ledger' = ledger /\ outage' = outage
  BY DEF MintWaits
<1>2. mint = "wait" /\ mint' \in {"failed", "register"}
  BY DEF MintWaits
<1>3. gw.key = "absent"
  <2>1. gw.key \in {"absent", "live", "deleted"}
    BY TypesFields DEF Inv, Fields
  <2>. QED  BY <1>2, <2>1 DEF Inv, KeyLife
<1>4. Types' /\ Counted' /\ KeyLife' /\ CloseOrder' /\ Graded'
  BY <1>1, <1>2, <1>3 DEF Inv, Types, Counted, KeyLife, CloseOrder, Graded, overshootBound, Ended
<1>5. Bounded' /\ RunReads' /\ CloseReads' /\ Reported'
  BY <1>1 DEF Inv, Bounded, BoundSuffices, overshootBound, RunReads, CloseReads, CaughtUp, Reported
<1>. QED  BY <1>4, <1>5 DEF Inv

LEMMA RegisterInv ==
  ASSUME Inv, Register
  PROVE  Inv'
<1>1. Fields /\ gw \in GwType
  BY TypesFields DEF Inv, Types
<1>2. setup' = setup /\ run' = run /\ close' = close /\ ledger' = ledger /\ outage' = outage
  BY DEF Register
<1>3. mint = "register" /\ mint' \in {"failed", "attest"} /\ gw.key = "absent"
  BY <1>1 DEF Register, Inv, KeyLife, Fields
<1>4. /\ gw' \in GwType /\ gw'.key \in {"absent", "live"} /\ gw'.up = gw.up /\ gw'.inFlight = gw.inFlight
      /\ gw'.ended = gw.ended /\ gw'.counted = gw.counted /\ gw'.stored = gw.stored /\ gw'.since = gw.since
  <2>1. gw' \in {gw, Generate}
    BY DEF Register, Failed
  <2>2. /\ Generate \in GwType /\ Generate.key = "live" /\ Generate.up = gw.up
        /\ Generate.inFlight = gw.inFlight /\ Generate.ended = gw.ended
        /\ Generate.counted = gw.counted /\ Generate.stored = gw.stored /\ Generate.since = gw.since
    BY <1>1 DEF Generate, GwType
  <2>. QED  BY <1>1, <1>3, <2>1, <2>2
<1>5. ~(~setup.beside /\ close.step # "blocked")
      /\ ~(close.again /\ (setup.beside => setup.patient))
      /\ ~(close.step \in {"attest", "done"} /\ (setup.beside => setup.patient))
  BY <1>3 DEF Inv, CloseOrder, Ended
<1>6. Types' /\ Counted' /\ Graded'
  BY <1>2, <1>3, <1>4 DEF Inv, Types, Counted, Graded, overshootBound, Ended
<1>7. KeyLife' /\ CloseOrder'
  BY <1>2, <1>3, <1>4, <1>5 DEF Inv, KeyLife, CloseOrder
<1>8. Bounded' /\ RunReads' /\ CloseReads'
  BY <1>2, <1>4 DEF Inv, Bounded, BoundSuffices, overshootBound, RunReads, CloseReads, CaughtUp
<1>9. Reported'
  BY <1>2, <1>4, <1>5 DEF Inv, Reported
<1>. QED  BY <1>6, <1>7, <1>8, <1>9 DEF Inv

LEMMA attestKeyInv ==
  ASSUME Inv, attestKey
  PROVE  Inv'
<1>1. Fields /\ ledger \in LedgerType
  BY TypesFields DEF Inv, Types
<1>2. gw' = gw /\ setup' = setup /\ run' = run /\ close' = close /\ outage' = outage
  BY DEF attestKey
<1>3. mint = "attest" /\ mint' \in {"failed", "done"}
  BY DEF attestKey
<1>4. ledger' \in LedgerType /\ ledger'.spend = ledger.spend
  BY <1>1 DEF attestKey, post, LedgerType
<1>5. Types' /\ Counted' /\ Graded' /\ KeyLife' /\ CloseOrder'
  BY <1>2, <1>3, <1>4 DEF Inv, Types, Counted, Graded, overshootBound, KeyLife, CloseOrder, Ended
<1>6. Bounded' /\ RunReads' /\ CloseReads' /\ Reported'
  BY <1>2, <1>4 DEF Inv, Bounded, BoundSuffices, overshootBound, RunReads, CloseReads, CaughtUp, Reported
<1>. QED  BY <1>5, <1>6 DEF Inv

-----------------------------------------------------------------------------
(* The closing job. Its steps leave what it read alone, or read anew.      *)

LEMMA StartCloseInv ==
  ASSUME Inv, StartClose
  PROVE  Inv'
<1>1. Fields /\ close \in CloseType
  BY TypesFields DEF Inv, Types
<1>2. gw' = gw /\ setup' = setup /\ run' = run /\ mint' = mint /\ ledger' = ledger /\ outage' = outage
  BY DEF StartClose
<1>3. close.step = "blocked" /\ (setup.beside \/ (run.step \in Ended /\ mint \in Ended))
  BY DEF StartClose
<1>4. /\ close' \in CloseType /\ close'.step = Reading /\ close'.again = close.again
      /\ close'.count = close.count /\ close'.unread = close.unread /\ close'.read = close.read
  BY <1>1 DEF StartClose, CloseStep, CloseType, Reading
<1>5. Reading \in {"read", "delete"} /\ (setup.ledger => Reading = "read")
  BY DEF Reading
<1>6. Types' /\ Counted' /\ Graded' /\ KeyLife' /\ CloseOrder'
  BY <1>2, <1>3, <1>4, <1>5 DEF Inv, Types, Counted, Graded, overshootBound, KeyLife, CloseOrder
<1>7. Bounded' /\ RunReads'
  BY <1>2 DEF Inv, Bounded, BoundSuffices, overshootBound, RunReads, CaughtUp
<1>8. CloseReads'
  <2>1. close.read.waited = 0 /\ close.read.due
    BY <1>3 DEF Inv, CloseReads
  <2>. QED  BY <1>1, <1>2, <1>4, <2>1 DEF Inv, CloseReads, CaughtUp, Fields
<1>9. Reported'
  BY <1>2, <1>3, <1>4, <1>5 DEF Inv, Reported
<1>. QED  BY <1>6, <1>7, <1>8, <1>9 DEF Inv

LEMMA AgainInv ==
  ASSUME Inv, Again
  PROVE  Inv'
<1>1. Fields /\ close \in CloseType
  BY TypesFields DEF Inv, Types
<1>2. gw' = gw /\ setup' = setup /\ run' = run /\ mint' = mint /\ ledger' = ledger /\ outage' = outage
  BY DEF Again
<1>3. close.step = "pause" /\ (setup.patient => mint \in Ended)
  BY DEF Again
<1>4. Reading \in {"read", "delete"} /\ (setup.ledger => Reading = "read")
  BY DEF Reading
<1>5. /\ close' \in CloseType /\ close'.step = Reading /\ close'.again = TRUE
      /\ close'.count = close.count /\ close'.unread = close.unread /\ close'.read = close.read
  <2>. DEFINE p == [close EXCEPT !.step = Reading]
  <2>1. /\ p \in CloseType /\ p.step = Reading /\ p.count = close.count
        /\ p.unread = close.unread /\ p.read = close.read
    BY <1>1, <1>4 DEF CloseType
  <2>2. close' = [p EXCEPT !.again = TRUE]
    BY <1>1 DEF Again, CloseType
  <2>. HIDE DEF p
  <2>. QED  BY <2>1, <2>2 DEF CloseType
<1>6. ~setup.beside => mint \in Ended
  BY <1>3 DEF Inv, CloseOrder
<1>7. Types' /\ Counted' /\ Graded' /\ KeyLife' /\ CloseOrder'
  BY <1>1, <1>2, <1>3, <1>4, <1>5, <1>6
     DEF Inv, Types, Counted, Graded, overshootBound, KeyLife, CloseOrder, Fields
<1>8. Bounded' /\ RunReads'
  BY <1>2 DEF Inv, Bounded, BoundSuffices, overshootBound, RunReads, CaughtUp
<1>9. CloseReads'
  <2>1. close.read.waited = 0 /\ close.read.due
    BY <1>3 DEF Inv, CloseReads
  <2>. QED  BY <1>1, <1>2, <1>5, <2>1 DEF Inv, CloseReads, CaughtUp, Fields
<1>10. Reported'
  BY <1>2, <1>3, <1>4, <1>5 DEF Inv, Reported
<1>. QED  BY <1>7, <1>8, <1>9, <1>10 DEF Inv

(* Counter.Settled stops: with no count, or with one that covers the run.  *)
LEMMA ReadEndsInv ==
  ASSUME Inv, close.step = "read",
         gw' = gw, setup' = setup, run' = run, mint' = mint, ledger' = ledger, outage' = outage,
         NEW unread \in BOOLEAN, NEW count \in Nat \cup {None},
         close' = [close EXCEPT !.step = "delete", !.read = NewRead(None), !.unread = unread, !.count = count],
         ~setup.beside => (count # None => count >= run.answered),
         ~unread /\ gw.key = "live" => count # None
  PROVE  Inv'
<1>. USE GatewayKeyAssumption
<1>1. close \in CloseType /\ Fields
  BY TypesFields DEF Inv, Types
<1>2. /\ NewRead(None) \in ReadType /\ NewRead(None).due = TRUE
      /\ NewRead(None).age = 0 /\ NewRead(None).waited = 0
  BY NewReadFields
<1>3. /\ close' \in CloseType /\ close'.step = "delete" /\ close'.again = close.again
      /\ close'.count = count /\ close'.unread = unread /\ close'.read = NewRead(None)
  <2>. DEFINE p == [close EXCEPT !.step = "delete"]
              q == [p EXCEPT !.read = NewRead(None)]
              t == [q EXCEPT !.unread = unread]
  <2>1. p \in CloseType /\ p.step = "delete" /\ p.again = close.again
    BY <1>1 DEF CloseType
  <2>2. close' = [t EXCEPT !.count = count]
    BY <1>1 DEF CloseType
  <2>. HIDE DEF p
  <2>3. q \in CloseType /\ q.step = "delete" /\ q.again = close.again /\ q.read = NewRead(None)
    BY <1>2, <2>1 DEF CloseType
  <2>. HIDE DEF q
  <2>4. /\ t \in CloseType /\ t.step = "delete" /\ t.again = close.again /\ t.read = NewRead(None)
        /\ t.unread = unread
    BY <2>3 DEF CloseType
  <2>. HIDE DEF t
  <2>. QED  BY <2>2, <2>4 DEF CloseType
<1>4. Types' /\ Counted' /\ Graded' /\ KeyLife' /\ CloseOrder'
  BY <1>3 DEF Inv, Types, Counted, Graded, overshootBound, KeyLife, CloseOrder
<1>5. Bounded' /\ RunReads'
  BY DEF Inv, Bounded, BoundSuffices, overshootBound, RunReads, CaughtUp
<1>6. CloseReads'
  BY <1>2, <1>3 DEF CloseReads
<1>7. Reported'
  BY <1>3 DEF Inv, Reported
<1>. QED  BY <1>4, <1>5, <1>6, <1>7 DEF Inv

LEMMA readCountInv ==
  ASSUME Inv, readCount
  PROVE  Inv'
<1>. USE GatewayKeyAssumption
<1>1. close \in CloseType /\ Fields /\ close.step = "read"
  BY TypesFields DEF Inv, Types, readCount
<1>2. gw' = gw /\ setup' = setup /\ run' = run /\ mint' = mint /\ ledger' = ledger /\ outage' = outage
  BY DEF readCount
<1>3. close.read \in ReadType /\ ReadFields(close.read)
  BY <1>1 DEF CloseType, Fields
<1>4. Count \in Nat \cup {None} /\ (Count # None => Count = gw.stored) /\ (gw.key = "live" => Count # None)
  BY <1>1 DEF Count, Fields
<1>5. CASE close' = [close EXCEPT !.step = "delete", !.read = NewRead(None), !.unread = TRUE, !.count = None]
  BY <1>1, <1>2, <1>5, ReadEndsInv
<1>6. ASSUME Count = None \/ Settled(close.read, Count, Settle - 1),
             close' = [close EXCEPT !.step = "delete", !.read = NewRead(None), !.unread = FALSE, !.count = Count]
      PROVE  Inv'
  <2>1. ASSUME ~setup.beside, Count # None
        PROVE  Count >= run.answered
    <3>1. CaughtUp(close.read) /\ close.read.age <= close.read.waited
      BY <1>1, <2>1 DEF Inv, CloseReads
    <3>2. Settle - 1 \in Nat /\ Settle - 1 >= Batch
      OBVIOUS
    <3>3. Settled(close.read, Count, Settle - 1)
      BY <1>6, <2>1
    <3>4. run.answered <= gw.stored
      BY <1>3, <3>1, <3>2, <3>3, SettledCaughtUp
    <3>. QED  BY <1>1, <1>4, <2>1, <3>4 DEF Fields
  <2>. QED  BY <1>1, <1>2, <1>4, <1>6, <2>1, ReadEndsInv
<1>7. ASSUME gw.up, Count # None, ~Settled(close.read, Count, Settle - 1),
             close' = [close EXCEPT !.read = Unsettled(@, Count)]
      PROVE  Inv'
  <2>1. Count \in Nat
    BY <1>4, <1>7
  <2>2. /\ Unsettled(close.read, Count) \in ReadType /\ Unsettled(close.read, Count).due = FALSE
        /\ Unsettled(close.read, Count).age <= close.read.age
        /\ Unsettled(close.read, Count).waited = close.read.waited
    BY <1>3, <2>1, UnsettledFields
  <2>3. /\ close' \in CloseType /\ close'.step = "read" /\ close'.again = close.again
        /\ close'.count = close.count /\ close'.unread = close.unread
        /\ close'.read = Unsettled(close.read, Count)
    BY <1>1, <1>7, <2>2 DEF CloseType
  <2>4. close.read.waited < Settle
    BY <1>3, <1>7 DEF Settled, ReadFields
  <2>5. Types' /\ Counted' /\ Graded' /\ KeyLife' /\ CloseOrder'
    BY <1>1, <1>2, <2>3 DEF Inv, Types, Counted, Graded, overshootBound, KeyLife, CloseOrder
  <2>6. Bounded' /\ RunReads' /\ Reported'
    BY <1>1, <1>2, <2>3 DEF Inv, Bounded, BoundSuffices, overshootBound, RunReads, CaughtUp, Reported
  <2>7. CloseReads'
    <3>1. /\ close'.read.due = FALSE /\ close'.read.waited = close.read.waited
          /\ close'.read.age <= close.read.waited
      <4>1. Unsettled(close.read, Count).age \in Nat
        BY <2>2 DEF ReadType
      <4>. QED  BY <1>3, <2>2, <2>3, <4>1 DEF Inv, CloseReads, ReadFields
    <3>. QED  BY <1>1, <1>2, <1>7, <2>3, <2>4, <3>1 DEF Inv, CloseReads, CaughtUp
  <2>. QED  BY <2>5, <2>6, <2>7 DEF Inv
<1>. QED  BY <1>5, <1>6, <1>7 DEF readCount

LEMMA closeKeyInv ==
  ASSUME Inv, closeKey
  PROVE  Inv'
<1>. USE GatewayKeyAssumption
<1>1. Fields /\ gw \in GwType /\ close \in CloseType /\ close.step = "delete"
  BY TypesFields DEF Inv, Types, closeKey
<1>2. setup' = setup /\ run' = run /\ mint' = mint /\ ledger' = ledger /\ outage' = outage
  BY DEF closeKey
<1>3. /\ Deleted \in GwType /\ Deleted.up = gw.up /\ Deleted.inFlight = gw.inFlight
      /\ Deleted.ended = gw.ended /\ Deleted.counted = gw.counted
      /\ Deleted.stored = gw.stored /\ Deleted.since = gw.since
      /\ Deleted.key = IF gw.key = "live" THEN "deleted" ELSE gw.key
  BY <1>1 DEF Deleted, GwType
<1>4. /\ gw' \in GwType /\ gw'.up = gw.up /\ gw'.inFlight = gw.inFlight
      /\ gw'.ended = gw.ended /\ gw'.counted = gw.counted
      /\ gw'.stored = gw.stored /\ gw'.since = gw.since
      /\ gw'.key # gw.key => gw.key = "live" /\ gw'.key = "deleted"
  BY <1>1, <1>3 DEF closeKey, Failed
<1>5. Told \in {"failed", "done", "attest"}
      /\ (Told = "attest" => close.count # None) /\ (Told = "done" => ~close.unread /\ close.count = None)
  BY DEF Told
<1>6. PICK to : close' = [close EXCEPT !.step = to]
        /\ \/ to = "failed"
           \/ to = Told /\ gw.key = "live" /\ gw'.key = "deleted"
           \/ to = Told /\ gw.key # "live" /\ gw' = gw /\ close.again
           \/ to = "pause" /\ gw.key # "live" /\ gw' = gw
  BY <1>1, <1>3 DEF closeKey, CloseStep
<1>7. to \in {"failed", "done", "attest", "pause"}
  BY <1>5, <1>6
<1>8. /\ close' \in CloseType /\ close'.step = to /\ close'.again = close.again
      /\ close'.count = close.count /\ close'.unread = close.unread /\ close'.read = close.read
  BY <1>1, <1>6, <1>7 DEF CloseType, Ended
<1>9. gw.key # "deleted"
  BY <1>1 DEF Inv, KeyLife
<1>10. Types' /\ Counted' /\ Graded'
  BY <1>2, <1>4, <1>8 DEF Inv, Types, Counted, Graded, overshootBound
<1>11. KeyLife'
  <2>1. gw'.key # "absent" => gw.key # "absent"
    BY <1>4
  <2>2. to = "pause" => gw'.key # "deleted"
    BY <1>5, <1>6, <1>9
  <2>. QED  BY <1>2, <1>7, <1>8, <2>1, <2>2 DEF Inv, KeyLife
<1>12. CloseOrder'
  <2>1. to \in {"attest", "done"} =>
          gw'.key = "deleted" \/ (gw'.key # "live" /\ close.again)
    BY <1>6
  <2>. QED  BY <1>1, <1>2, <1>8, <2>1 DEF Inv, CloseOrder
<1>13. Bounded' /\ RunReads'
  BY <1>2, <1>4 DEF Inv, Bounded, BoundSuffices, overshootBound, RunReads, CaughtUp
<1>14. CloseReads'
  BY <1>1, <1>2, <1>7, <1>8 DEF Inv, CloseReads
<1>15. Reported'
  <2>1. to = "attest" => close.count # None
    BY <1>5, <1>6
  <2>2. ~setup.beside /\ setup.ledger /\ to = "done" => gw'.key # "deleted"
    BY <1>1, <1>5, <1>6, <1>9 DEF Inv, Reported
  <2>. QED  BY <1>1, <1>2, <1>4, <1>7, <1>8, <2>1, <2>2 DEF Inv, Reported
<1>. QED  BY <1>10, <1>11, <1>12, <1>13, <1>14, <1>15 DEF Inv

LEMMA attestSpendInv ==
  ASSUME Inv, attestSpend
  PROVE  Inv'
<1>1. Fields /\ close \in CloseType /\ ledger \in LedgerType /\ close.step = "attest"
  BY TypesFields DEF Inv, Types, attestSpend
<1>2. gw' = gw /\ setup' = setup /\ run' = run /\ mint' = mint /\ outage' = outage
  BY DEF attestSpend
<1>. DEFINE taken == IF ledger.minted THEN [ledger EXCEPT !.spend = close.count] ELSE ledger
<1>3. taken \in LedgerType /\ (taken.spend = ledger.spend \/ taken.spend = close.count)
      /\ (ledger.minted => taken.spend = close.count)
  BY <1>1 DEF LedgerType, Fields
<1>4. \/ close' = [close EXCEPT !.step = "failed"] /\ ledger' \in {ledger, taken}
      \/ ledger.minted /\ close' = [close EXCEPT !.step = "done"] /\ ledger' = taken
  BY DEF attestSpend, post, CloseStep
<1>. HIDE DEF taken
<1>5. /\ close' \in CloseType /\ close'.step \in {"failed", "done"} /\ close'.again = close.again
      /\ close'.count = close.count /\ close'.unread = close.unread /\ close'.read = close.read
  BY <1>1, <1>4 DEF CloseType, Ended
<1>6. /\ ledger' \in LedgerType /\ (ledger'.spend = ledger.spend \/ ledger'.spend = close.count)
      /\ close'.step = "done" => ledger'.spend = close.count
  BY <1>1, <1>3, <1>4 DEF CloseType
<1>7. Types' /\ Counted' /\ Graded' /\ KeyLife' /\ CloseOrder'
  BY <1>1, <1>2, <1>5, <1>6 DEF Inv, Types, Counted, Graded, overshootBound, KeyLife, CloseOrder
<1>8. Bounded' /\ RunReads' /\ CloseReads'
  BY <1>1, <1>2, <1>5 DEF Inv, Bounded, BoundSuffices, overshootBound, RunReads, CloseReads, CaughtUp
<1>9. Reported'
  BY <1>1, <1>2, <1>5, <1>6 DEF Inv, Reported
<1>. QED  BY <1>7, <1>8, <1>9 DEF Inv

-----------------------------------------------------------------------------
(* The theorems.                                                           *)

LEMMA NextInv == Inv /\ [Next]_vars => Inv'
<1>. SUFFICES ASSUME Inv, [Next]_vars PROVE Inv'
  OBVIOUS
<1>1. CASE Gateway
  BY <1>1, AdmitInv, EndRequestInv, CountRequestInv, WriteStoreInv, StoreFailsInv, StoreReturnsInv DEF Gateway
<1>2. CASE Tick
  BY <1>2, TickInv
<1>3. CASE AgentJob
  <2>1. CASE Await
    BY <2>1, RunStepInv DEF Await, OthersStay
  <2>2. CASE AwaitEnds
    BY <2>2, RunStepInv DEF AwaitEnds, OthersStay
  <2>3. CASE AgentEnds
    BY <2>3, RunStepInv DEF AgentEnds, OthersStay
  <2>4. CASE Watch
    BY <2>4, ProbeInv DEF Watch
  <2>5. CASE stopWatch
    BY <2>5, ProbeInv DEF stopWatch
  <2>. QED  BY <1>3, <2>1, <2>2, <2>3, <2>4, <2>5, RequestInv, FinishInv, SpendInv DEF AgentJob
<1>4. CASE Cancel
  BY <1>4, CancelInv
<1>5. CASE MintJob
  BY <1>5, MintWaitsInv, RegisterInv, attestKeyInv DEF MintJob
<1>6. CASE CloseJob
  BY <1>6, StartCloseInv, readCountInv, closeKeyInv, AgainInv, attestSpendInv DEF CloseJob
<1>7. CASE UNCHANGED vars
  <2>1. /\ setup' = setup /\ gw' = gw /\ run' = run /\ mint' = mint /\ close' = close
        /\ ledger' = ledger /\ outage' = outage
    BY <1>7 DEF vars
  <2>2. Types' /\ Counted' /\ KeyLife' /\ CloseOrder' /\ Graded' /\ Bounded'
    BY <2>1 DEF Inv, Types, Counted, KeyLife, CloseOrder, Graded, overshootBound, Bounded, BoundSuffices
  <2>3. RunReads' /\ CloseReads' /\ Reported'
    BY <2>1 DEF Inv, RunReads, CloseReads, CaughtUp, Reported
  <2>. QED  BY <2>2, <2>3 DEF Inv
<1>. QED  BY <1>1, <1>2, <1>3, <1>4, <1>5, <1>6, <1>7 DEF Next, Finished

(* The invariant holds in every state. *)
THEOREM SpecInv == Spec => []Inv
BY InitInv, NextInv, PTL DEF Spec

(* The state has its type: the store never runs ahead of the count nor the *)
(* count of the requests, and neither wait for the spend outlasts          *)
(* gatewaySpendSettle by more than one poll (Session.Spend, readCount).    *)
THEOREM SpecTypeOK == Spec => []TypeOK
<1>1. Inv => TypeOK
  <2>. SUFFICES ASSUME Inv PROVE TypeOK
    OBVIOUS
  <2>1. Fields
    BY TypesFields DEF Inv
  <2>2. /\ gw.stored \in 0..gw.counted /\ gw.counted \in 0..gw.ended /\ run.answered \in 0..gw.ended
        /\ gw.inFlight \in 0..MaxParallel /\ gw.since \in 0..Batch
    BY <2>1, GatewayKeyAssumption DEF Inv, Counted, Fields
  <2>3. run.read.waited \in 0..Settle + 1 /\ close.read.waited \in 0..Settle
    BY <2>1, GatewayKeyAssumption DEF Inv, RunReads, CloseReads, Fields, ReadFields
  <2>. QED  BY <2>1, <2>2, <2>3 DEF TypeOK, Fields, Ended
<1>. QED  BY <1>1, SpecInv, PTL

(* A closing job that succeeds leaves no key behind, whatever part of the  *)
(* minting failed: it runs after mint, or waits for it (closeKey).         *)
THEOREM SpecClosedIsGone == Spec => []ClosedIsGone
<1>1. Inv => ClosedIsGone
  BY DEF Inv, CloseOrder, ClosedIsGone
<1>. QED  BY <1>1, SpecInv, PTL

(* Close attests no less than the agent was answered, and run warns of no  *)
(* gap that is not there, however late and in whatever batches the gateway *)
(* writes its count (readCount, Settled, Session.Spend).                   *)
THEOREM SpecCountIsSettled == Spec => []CountIsSettled
<1>1. Inv => CountIsSettled
  BY DEF Inv, Reported, CountIsSettled, AttestedCovers, GapIsReal
<1>. QED  BY <1>1, SpecInv, PTL

(* A run graded gateway-precheck stayed within its budget and the bound    *)
(* its rows state, and no run on a gateway whose store is up and that      *)
(* counts at most one request late passes that bound (overshootBound,      *)
(* checkOvershoot).                                                        *)
THEOREM SpecOvershootIsBounded == Spec => []OvershootIsBounded
<1>1. Inv => OvershootIsBounded
  BY DEF Inv, Graded, Bounded, OvershootIsBounded, PrecheckHolds
<1>. QED  BY <1>1, SpecInv, PTL
=============================================================================
