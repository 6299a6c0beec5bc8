---------------------------- MODULE SessionProofs ---------------------------
(***************************************************************************)
(* Theorems about module ClaudeSession, for any runs, sessions, starters,  *)
(* directories and setups, and any number of requests and lines: whose the *)
(* rows of a run are (Inv), and that they state no more of a session than  *)
(* it spent (Counts).                                                      *)
(***************************************************************************)
EXTENDS ClaudeSession, TLAPS, FiniteSetTheorems, WellFoundedInduction

-----------------------------------------------------------------------------
(* The invariant.                                                          *)

LineType ==
  [kind : {"user", "usage", "bad", "past", "cut"}, id : Session \X Nat, units : Nat, names : Session, at : Nat]
Steps == {"idle", "claimed", "running", "exited", "nested", "recorded", "refused", "crashed"}

Types ==
  /\ setup \in Setups /\ now \in Nat
  /\ proc \in [Session -> {"none", "live", "dead"}]
  /\ begun \in [Session -> Nat]
  /\ run \in [Run -> Steps]
  /\ window \in [Run -> [from : Nat, to : Nat]]
  /\ todo \in [Run -> SUBSET Session]
  /\ DOMAIN report = Run /\ \A r \in Run : "rows" \in DOMAIN report[r]

(* Whose requests a session's files state: a copy is its starter's. *)
Own(s) == IF s \in Run THEN {s} ELSE {s, Starter[s]}

(* What s wrote in one of its files, until t. *)
Written(s, lines, t) ==
  lines \in Seq(LineType) /\ \A i \in 1 .. Len(lines) : lines[i].at <= t /\ lines[i].id[1] \in Own(s)

(* A main file begins with the session's opening line. *)
Headed(lines) ==
  lines # <<>> => lines[1].kind = "user" /\ \A i \in 1 .. Len(lines) : lines[1].at <= lines[i].at

FilesOK ==
  /\ file \in [Session -> [Files -> Seq(LineType)]]
  /\ \A s \in Session : Headed(file[s]["main"]) /\ \A f \in Files : Written(s, file[s][f], now)

(* A session exists for its readers once its main file does, and began     *)
(* when the first line says.                                               *)
Opened(s) == file[s]["main"] # <<>>
Begins(s) == file[s]["main"][1].at

(* In CI, with no costroid killed: what the order of the runs needs. *)
Whole == setup.oneJob /\ \A q \in Run : run[q] # "crashed"

(* A run that costroid started holds the lock until its rows are written. *)
Alone(r) ==
  /\ run[r] \in {"idle", "claimed"} => proc[r] = "none"
  /\ run[r] = "running" <=> proc[r] = "live"
  /\ run[r] \in {"exited", "nested", "recorded"} => proc[r] = "dead"
  /\ run[r] \in {"claimed", "running", "exited", "nested"} /\ r \notin setup.byAction => lock = r
  /\ run[r] = "claimed" => r \notin setup.byAction
  /\ proc[r] # "none" => window[r].from <= now

(* The run and its hooks. *)
Tree(q) == {q} \cup {s \in Other : Starter[s] = q}

(* Nothing of a tree begins before its run or after the run ended. *)
TreeBegins(q) ==
  \A s \in Tree(q) : Opened(s) => proc[q] # "none" /\ (proc[q] = "dead" => Begins(s) <= window[q].to)

(* Run q and all of its tree began when r had ended. *)
After(r, q) ==
  /\ proc[r] = "dead" /\ window[r].to < window[q].from
  /\ \A s \in Tree(q) : Opened(s) => window[r].to < Begins(s)

Apart == \A r, q \in Run : r # q /\ proc[r] # "none" /\ proc[q] # "none" => After(r, q) \/ After(q, r)

(* In CI every other session is a run's. *)
NoOrphan == \A s \in Other : Starter[s] \notin Run => ~Opened(s)

(* What OwnTreeOnly says of a recorded run, of every report so far. *)
OwnRow(r, row) == row.of = r \/ (row.of \in Other /\ Starter[row.of] = r)

OwnRows == \A r \in Run : \A row \in report[r].rows : OwnRow(r, row)

Orderly == (\A r \in Run : Alone(r) /\ TreeBegins(r)) /\ Apart /\ NoOrphan /\ OwnRows

Inv == Types /\ FilesOK /\ (Whole => Orderly)

-----------------------------------------------------------------------------
(* Files.                                                                  *)

(* Every session's files state its own requests, and no run is a hook. *)
LEMMA OwnFacts ==
  ASSUME NEW s \in Session
  PROVE  /\ s \in Own(s) /\ (s \in Run => Own(s) = {s})
         /\ s \in Other => s \notin Run /\ Own(s) = {s, Starter[s]}
BY ClaudeSessionAssumption DEF Own, Session

(* A line written now keeps a file what it is. *)
LEMMA AppendWritten ==
  ASSUME NEW s, NEW lines, NEW t \in Nat, Written(s, lines, t),
         NEW line \in LineType, line.at = t, line.id[1] \in Own(s)
  PROVE  Written(s, Append(lines, line), t)
<1>1. lines \in Seq(LineType) /\ \A i \in 1 .. Len(lines) : lines[i].at <= t /\ lines[i].id[1] \in Own(s)
  BY DEF Written
<1> DEFINE longer == Append(lines, line)
<1>2. longer \in Seq(LineType) /\ Len(longer) = Len(lines) + 1 /\ Len(lines) \in Nat
  BY <1>1
<1>3. \A i \in 1 .. Len(longer) : longer[i] = IF i <= Len(lines) THEN lines[i] ELSE line
  BY <1>1
<1>4. \A i \in 1 .. Len(longer) : longer[i].at <= t /\ longer[i].id[1] \in Own(s)
  BY <1>1, <1>2, <1>3
<1> QED BY <1>2, <1>4 DEF Written

(* And its beginning. *)
LEMMA AppendHeaded ==
  ASSUME NEW s, NEW lines, NEW t \in Nat, Written(s, lines, t), Headed(lines), lines # <<>>,
         NEW line \in LineType, line.at = t
  PROVE  Headed(Append(lines, line)) /\ Append(lines, line) # <<>> /\ Append(lines, line)[1] = lines[1]
<1>1. lines \in Seq(LineType) /\ \A i \in 1 .. Len(lines) : lines[i].at <= t
  BY DEF Written
<1>2. lines[1].kind = "user" /\ \A i \in 1 .. Len(lines) : lines[1].at <= lines[i].at
  BY DEF Headed
<1> DEFINE longer == Append(lines, line)
<1>3. longer \in Seq(LineType) /\ Len(longer) = Len(lines) + 1 /\ Len(lines) \in Nat \ {0} /\ longer # <<>>
  BY <1>1
<1>4. \A i \in 1 .. Len(longer) : longer[i] = IF i <= Len(lines) THEN lines[i] ELSE line
  BY <1>1
<1>5. longer[1] = lines[1]
  BY <1>3, <1>4
<1>6. \A i \in 1 .. Len(longer) : lines[1].at <= longer[i].at
  BY <1>1, <1>2, <1>3, <1>4
<1> HIDE DEF longer
<1> QED BY <1>2, <1>3, <1>5, <1>6 DEF Headed, longer

(* What was written until t was written until any later time. *)
LEMMA WrittenLater ==
  ASSUME NEW s, NEW lines, NEW t \in Nat, NEW u \in Nat, t <= u, Written(s, lines, t)
  PROVE  Written(s, lines, u)
<1>1. lines \in Seq(LineType) /\ \A i \in 1 .. Len(lines) : lines[i].at <= t /\ lines[i].id[1] \in Own(s)
  BY DEF Written
<1>2. \A i \in 1 .. Len(lines) : lines[i] \in LineType
  BY <1>1
<1>3. \A i \in 1 .. Len(lines) : lines[i].at \in Nat
  BY <1>2 DEF LineType
<1>4. \A i \in 1 .. Len(lines) : lines[i].at <= u
  BY <1>1, <1>3
<1> QED BY <1>1, <1>4 DEF Written

(* A file holds what the session wrote, and no session's beginning moves. *)
Writes ==
  /\ FilesOK'
  /\ \A s \in Session : (Opened(s)' <=> Opened(s)) /\ (Opened(s) => Begins(s)' = Begins(s))

(* A line is what it was made of. *)
LEMMA LineFacts ==
  ASSUME Types, NEW kind \in {"user", "usage", "bad", "past", "cut"}, NEW s \in Session,
         NEW n \in Nat, NEW units \in Nat
  PROVE  /\ Line(kind, s, n, units) \in LineType /\ Line(kind, s, n, units).at = now
         /\ Line(kind, s, n, units).id[1] = s /\ Line(kind, s, n, units).kind = kind
BY DEF Types, Line, LineType

(* Time may pass. *)
LEMMA SameFiles ==
  ASSUME FilesOK, Types, file' = file, now' \in Nat, now <= now'
  PROVE  Writes
<1>1. now \in Nat
  BY DEF Types
<1>2. \A s \in Session : \A f \in Files : Written(s, file[s][f], now')
  BY <1>1, WrittenLater DEF FilesOK
<1>3. FilesOK'
  BY <1>2 DEF FilesOK, Written, Own
<1> QED BY <1>3 DEF Writes, Opened, Begins

(* The files of the next state, one condition at a time. *)
LEMMA NewFiles ==
  ASSUME now' = now, file' \in [Session -> [Files -> Seq(LineType)]],
         \A s \in Session, f \in Files : Written(s, file'[s][f], now),
         \A s \in Session : Headed(file'[s]["main"])
  PROVE  FilesOK'
<1>1. ASSUME NEW s \in Session PROVE Headed(file[s]["main"])'
  BY DEF Headed
<1>2. ASSUME NEW s \in Session, NEW f \in Files PROVE Written(s, file[s][f], now)'
  <2>1. Written(s, file'[s][f], now)
    OBVIOUS
  <2> QED BY <2>1 DEF Written, Own
<1> QED BY <1>1, <1>2 DEF FilesOK

(* A line is added to a begun session's file. *)
LEMMA KeepWrites ==
  ASSUME Types, FilesOK, now' = now, NEW s \in Session, NEW f \in Files,
         NEW line \in LineType, line.at = now, line.id[1] \in Own(s), Keep(s, f, line)
  PROVE  Writes
<1>1. now \in Nat /\ "main" \in Files
  BY DEF Types, Files
<1>2. /\ file \in [Session -> [Files -> Seq(LineType)]]
      /\ \A t \in Session : Headed(file[t]["main"]) /\ \A g \in Files : Written(t, file[t][g], now)
  BY DEF FilesOK
<1> DEFINE old == file[s][f]
           new == IF file[s]["main"] = <<>> THEN old ELSE Append(old, line)
<1>3. file' = [file EXCEPT ![s][f] = new]
  BY DEF Keep
<1>4. new \in Seq(LineType) /\ Written(s, new, now)
  <2>1. Written(s, Append(old, line), now) /\ Written(s, old, now)
    BY <1>1, <1>2, AppendWritten
  <2> QED BY <2>1 DEF Written
<1>5. f = "main" => Headed(new) /\ (new # <<>> <=> Opened(s)) /\ (Opened(s) => new[1] = file[s]["main"][1])
  <2>1. CASE Opened(s)
    BY <1>1, <1>2, <2>1, AppendHeaded DEF Opened
  <2>2. CASE ~Opened(s)
    BY <1>2, <2>2 DEF Opened
  <2> QED BY <2>1, <2>2
<1> HIDE DEF new
<1>6. /\ file' \in [Session -> [Files -> Seq(LineType)]]
      /\ \A t \in Session, g \in Files : file'[t][g] = IF t = s /\ g = f THEN new ELSE file[t][g]
  BY <1>2, <1>3, <1>4
<1>7. \A t \in Session, g \in Files : Written(t, file'[t][g], now)
  BY <1>2, <1>4, <1>6
<1>8. \A t \in Session : Headed(file'[t]["main"])
  BY <1>1, <1>2, <1>5, <1>6
<1>9. FilesOK'
  BY <1>6, <1>7, <1>8, NewFiles
<1>10. \A t \in Session : (file'[t]["main"] # <<>> <=> Opened(t)) /\ (Opened(t) => file'[t]["main"][1] = file[t]["main"][1])
  BY <1>1, <1>5, <1>6 DEF Opened
<1> QED BY <1>9, <1>10 DEF Writes, Opened, Begins

(* A process's end cuts a line of a file that is begun. *)
LEMMA DieWrites ==
  ASSUME Types, FilesOK, now' = now, NEW D \in SUBSET Session, NEW cut,
         \A s \in D : cut[s] \in Cuts(s), Die(D, cut)
  PROVE  Writes /\ begun' \in [Session -> Nat]
<1>1. now \in Nat /\ "main" \in Files /\ setup.files \subseteq Files /\ begun \in [Session -> Nat]
  BY ClaudeSessionAssumption DEF Types, Files, SetupType
<1>2. /\ file \in [Session -> [Files -> Seq(LineType)]]
      /\ \A t \in Session : Headed(file[t]["main"]) /\ \A g \in Files : Written(t, file[t][g], now)
  BY DEF FilesOK
<1>3. \A s \in D : cut[s] \subseteq Files /\ (cut[s] # {} => Opened(s))
  BY <1>1 DEF Cuts, Opened
<1> DEFINE new(s, f) == IF s \in D /\ f \in cut[s] THEN Append(file[s][f], Line("cut", s, 0, 0)) ELSE file[s][f]
<1>4. file' = [s \in Session |-> [f \in Files |-> new(s, f)]]
  BY DEF Die
<1>5. ASSUME NEW s \in Session, NEW f \in Files
      PROVE  /\ Written(s, new(s, f), now)
             /\ f = "main" => /\ Headed(new(s, f)) /\ (new(s, f) # <<>> <=> Opened(s))
                              /\ Opened(s) => new(s, f)[1] = file[s]["main"][1]
  <2> DEFINE line == Line("cut", s, 0, 0)
  <2>1. line \in LineType /\ line.at = now /\ line.id[1] \in Own(s)
    BY LineFacts, OwnFacts
  <2>2. Written(s, file[s][f], now) /\ Written(s, Append(file[s][f], line), now)
    <3> HIDE DEF line
    <3> QED BY <1>1, <1>2, <2>1, AppendWritten
  <2>3. f = "main" /\ Opened(s) =>
          /\ Headed(file[s][f]) /\ Headed(Append(file[s][f], line)) /\ Append(file[s][f], line) # <<>>
          /\ Append(file[s][f], line)[1] = file[s]["main"][1]
    <3> HIDE DEF line
    <3> QED BY <1>1, <1>2, <2>1, AppendHeaded DEF Opened
  <2>4. f = "main" /\ ~Opened(s) => ~(s \in D /\ f \in cut[s])
    BY <1>3
  <2>5. new(s, f) = IF s \in D /\ f \in cut[s] THEN Append(file[s][f], line) ELSE file[s][f]
    OBVIOUS
  <2> HIDE DEF new, line
  <2> QED BY <1>2, <2>2, <2>3, <2>4, <2>5 DEF Opened
<1>6. \A s \in Session, f \in Files : new(s, f) \in Seq(LineType)
  BY <1>5 DEF Written
<1> HIDE DEF new
<1>7. /\ file' \in [Session -> [Files -> Seq(LineType)]]
      /\ \A s \in Session, f \in Files : file'[s][f] = new(s, f)
  BY <1>4, <1>6
<1>8. FilesOK'
  <2>1. \A s \in Session, f \in Files : Written(s, file'[s][f], now)
    BY <1>5, <1>7
  <2>2. \A s \in Session : Headed(file'[s]["main"])
    BY <1>1, <1>5, <1>7
  <2> QED BY <1>7, <2>1, <2>2, NewFiles
<1>9. \A s \in Session : (file'[s]["main"] # <<>> <=> Opened(s)) /\ (Opened(s) => file'[s]["main"][1] = file[s]["main"][1])
  BY <1>1, <1>5, <1>7
<1>10. Writes
  BY <1>8, <1>9 DEF Writes, Opened, Begins
<1>11. \A s \in D : Cardinality(cut[s] \ OpenFiles(s)) \in Nat
  <2> SUFFICES ASSUME NEW s \in D PROVE Cardinality(cut[s] \ OpenFiles(s)) \in Nat
    OBVIOUS
  <2>1. IsFiniteSet(Files)
    <3>1. IsFiniteSet({"main"}) /\ IsFiniteSet({"sub"}) /\ Files = {"main"} \cup {"sub"}
      BY FS_Singleton DEF Files
    <3> QED BY <3>1, FS_Union
  <2>2. cut[s] \ OpenFiles(s) \subseteq Files
    BY <1>3
  <2>3. IsFiniteSet(cut[s] \ OpenFiles(s))
    BY <2>1, <2>2, FS_Subset
  <2> QED BY <2>3, FS_CardinalityType
<1>12. begun' \in [Session -> Nat]
  <2>1. \A s \in Session : (IF s \in D THEN begun[s] + Cardinality(cut[s] \ OpenFiles(s)) ELSE begun[s]) \in Nat
    BY <1>1, <1>11
  <2>2. begun' = [s \in Session |-> IF s \in D THEN begun[s] + Cardinality(cut[s] \ OpenFiles(s)) ELSE begun[s]]
    BY DEF Die
  <2> QED BY <2>1, <2>2, Zenon
<1> QED BY <1>10, <1>12

-----------------------------------------------------------------------------
(* Steps of the agents.                                                    *)

(* What the runs and their agents are at. *)
Settled == /\ setup' = setup /\ run' = run /\ window' = window /\ lock' = lock /\ report' = report
           /\ \A r \in Run : proc'[r] = proc[r]

(* A step that only adds to begun files leaves the order of the runs. *)
LEMMA Quietly ==
  ASSUME Inv, Types', now <= now', Settled, Writes
  PROVE  Inv'
<1>1. Types /\ FilesOK /\ now \in Nat /\ now' \in Nat /\ \A q \in Run : window[q].from \in Nat
  BY DEF Inv, Types
<1>2. setup' = setup /\ run' = run /\ window' = window /\ lock' = lock /\ report' = report
  BY DEF Settled
<1>3. \A r \in Run : proc'[r] = proc[r]
  BY DEF Settled
<1>4. \A s \in Session : (Opened(s)' <=> Opened(s)) /\ (Opened(s) => Begins(s)' = Begins(s))
  BY DEF Writes
<1>5. \A q \in Run : Tree(q) \subseteq Session
  BY DEF Tree, Session
<1> SUFFICES ASSUME Whole' PROVE Orderly'
  BY DEF Inv, Writes
<1>6. Orderly
  BY <1>2 DEF Inv, Whole
<1>7. \A r \in Run : Alone(r)'
  <2> SUFFICES ASSUME NEW r \in Run PROVE Alone(r)'
    OBVIOUS
  <2>1. Alone(r)
    BY <1>6 DEF Orderly
  <2> QED BY <1>1, <1>2, <1>3, <2>1 DEF Alone
<1>8. \A r \in Run : TreeBegins(r)'
  BY <1>2, <1>3, <1>4, <1>5, <1>6 DEF Orderly, TreeBegins, Tree
<1>9. ASSUME NEW r \in Run, NEW q \in Run, After(r, q) PROVE After(r, q)'
  BY <1>2, <1>3, <1>4, <1>5, <1>9 DEF After, Tree
<1>10. Apart'
  BY <1>3, <1>6, <1>9 DEF Orderly, Apart
<1>11. NoOrphan'
  BY <1>4, <1>6 DEF Orderly, NoOrphan, Session
<1>12. OwnRows'
  BY <1>2, <1>6 DEF Orderly, OwnRows, OwnRow
<1> QED BY <1>7, <1>8, <1>10, <1>11, <1>12 DEF Orderly

LEMMA TickInv ==
  ASSUME Inv, Tick PROVE Inv'
<1>1. now' = now + 1 /\ UNCHANGED <<setup, agentVars, runVars>>
  BY DEF Tick
<1>2. /\ setup' = setup /\ proc' = proc /\ begun' = begun /\ file' = file /\ lock' = lock
      /\ run' = run /\ window' = window /\ report' = report /\ todo' = todo
  BY <1>1 DEF agentVars, runVars
<1>3. Types /\ FilesOK /\ Types' /\ now \in Nat /\ now' \in Nat /\ now <= now'
  BY <1>1, <1>2 DEF Inv, Types
<1>4. Writes
  BY <1>2, <1>3, SameFiles
<1>5. Settled
  BY <1>2 DEF Settled
<1> QED BY <1>3, <1>4, <1>5, Quietly

LEMMA StreamInv ==
  ASSUME Inv, NEW r \in Run, EmitInit(r) \/ EmitResult(r) \/ \E m \in Model : SideRequest(r, m)
  PROVE  Inv'
<1>1. /\ setup' = setup /\ now' = now /\ proc' = proc /\ begun' = begun /\ file' = file /\ lock' = lock
      /\ run' = run /\ window' = window /\ report' = report /\ todo' = todo
  BY DEF EmitInit, EmitResult, SideRequest, runVars
<1>2. Types /\ FilesOK /\ Types' /\ now \in Nat /\ now' \in Nat /\ now <= now'
  BY <1>1 DEF Inv, Types
<1>3. Writes
  BY <1>1, <1>2, SameFiles
<1>4. Settled
  BY <1>1 DEF Settled
<1> QED BY <1>2, <1>3, <1>4, Quietly

LEMMA BeginRequestInv ==
  ASSUME Inv, NEW s \in Session, NEW f \in Files, BeginRequest(s, f)
  PROVE  Inv'
<1>1. /\ setup' = setup /\ now' = now /\ proc' = proc /\ lock' = lock
      /\ run' = run /\ window' = window /\ report' = report /\ todo' = todo
      /\ begun' = [begun EXCEPT ![s] = @ + 1]
  BY DEF BeginRequest, runVars
<1>2. Types /\ FilesOK /\ now \in Nat /\ now <= now' /\ begun[s] + 1 \in Nat
  BY <1>1 DEF Inv, Types
<1>3. Types'
  BY <1>1, <1>2 DEF Types
<1> DEFINE line == Line("usage", s, begun[s] + 1, IF file[s]["main"] = <<>> THEN 2 ELSE 1)
<1>4. line \in LineType /\ line.at = now /\ line.id[1] \in Own(s)
  BY <1>2, LineFacts, OwnFacts
<1>5. Keep(s, f, line)
  BY DEF BeginRequest
<1> HIDE DEF line
<1>6. Writes
  BY <1>1, <1>2, <1>4, <1>5, KeepWrites
<1>7. Settled
  BY <1>1 DEF Settled
<1> QED BY <1>2, <1>3, <1>6, <1>7, Quietly

LEMMA EndRequestInv ==
  ASSUME Inv, NEW s \in Session, NEW f \in Files, EndRequest(s, f)
  PROVE  Inv'
<1>1. /\ setup' = setup /\ now' = now /\ proc' = proc /\ lock' = lock /\ begun' = begun
      /\ run' = run /\ window' = window /\ report' = report /\ todo' = todo
  BY DEF EndRequest, runVars
<1>2. Types /\ FilesOK /\ now \in Nat /\ now <= now'
  BY <1>1 DEF Inv, Types
<1>3. Types'
  BY <1>1, <1>2 DEF Types
<1>4. PICK kind \in {"usage", "bad", "past"} : Keep(s, f, Line(kind, s, Last(file[s][f]).id[2], 2))
  BY DEF EndRequest
<1>5. Last(file[s][f]) \in LineType
  <2>1. file[s][f] \in Seq(LineType) /\ file[s][f] # <<>>
    BY <1>2 DEF FilesOK, EndRequest, Open
  <2> QED BY <2>1 DEF Last
<1>6. Last(file[s][f]).id[2] \in Nat
  BY <1>5 DEF LineType
<1> DEFINE n == Last(file[s][f]).id[2]
           line == Line(kind, s, n, 2)
<1>7. n \in Nat
  BY <1>6
<1>8. Keep(s, f, line)
  BY <1>4
<1> HIDE DEF n
<1>9. line \in LineType /\ line.at = now /\ line.id[1] \in Own(s)
  BY <1>2, <1>7, LineFacts, OwnFacts
<1> HIDE DEF line
<1>10. Writes
  BY <1>1, <1>2, <1>8, <1>9, KeepWrites
<1>11. Settled
  BY <1>1 DEF Settled
<1> QED BY <1>2, <1>3, <1>10, <1>11, Quietly

LEMMA CopyRequestInv ==
  ASSUME Inv, NEW s \in Other, CopyRequest(s)
  PROVE  Inv'
<1>1. /\ setup' = setup /\ now' = now /\ proc' = proc /\ lock' = lock /\ begun' = begun
      /\ run' = run /\ window' = window /\ report' = report /\ todo' = todo
  BY DEF CopyRequest, runVars
<1>2. Types /\ FilesOK /\ now \in Nat /\ now <= now' /\ s \in Session
  BY <1>1 DEF Inv, Types, Session
<1>3. Types'
  BY <1>1, <1>2 DEF Types
<1> DEFINE r == Starter[s]
<1>4. r \in Run /\ r \in Session /\ Len(file[r]["main"]) > 2
  BY DEF CopyRequest, Session
<1>5. PICK names \in {s, r} : Keep(s, "main", [file[r]["main"][3] EXCEPT !.names = names, !.at = now])
  BY DEF CopyRequest
<1> DEFINE old == file[r]["main"][3]
           line == [old EXCEPT !.names = names, !.at = now]
<1>6. old \in LineType /\ old.id[1] \in Own(r)
  <2>1. "main" \in Files
    BY DEF Files
  <2>2. file[r]["main"] \in Seq(LineType) /\ \A i \in 1 .. Len(file[r]["main"]) : file[r]["main"][i].id[1] \in Own(r)
    BY <1>2, <1>4, <2>1 DEF FilesOK, Written
  <2> HIDE DEF r
  <2> QED BY <1>4, <2>2
<1>7. names \in Session
  BY <1>2, <1>4
<1>8. line \in LineType /\ line.at = now /\ line.id = old.id
  <2> HIDE DEF old, r
  <2> QED BY <1>2, <1>6, <1>7 DEF LineType
<1>9. line.id[1] \in Own(s)
  <2>1. Own(r) = {r} /\ Own(s) = {s, Starter[s]}
    BY <1>2, <1>4, OwnFacts
  <2> QED BY <1>6, <1>8, <2>1
<1>10. Keep(s, "main", line)
  BY <1>5
<1>11. "main" \in Files
  BY DEF Files
<1> HIDE DEF line
<1>12. Writes
  BY <1>1, <1>2, <1>8, <1>9, <1>10, <1>11, KeepWrites
<1>13. Settled
  BY <1>1 DEF Settled
<1> QED BY <1>2, <1>3, <1>12, <1>13, Quietly

LEMMA EndOtherInv ==
  ASSUME Inv, NEW s \in Other, EndOther(s)
  PROVE  Inv'
<1>1. /\ setup' = setup /\ now' = now /\ lock' = lock
      /\ run' = run /\ window' = window /\ report' = report /\ todo' = todo
  BY DEF EndOther, runVars
<1>2. Types /\ FilesOK /\ now \in Nat /\ now <= now' /\ s \in Session /\ s \notin Run
  BY <1>1, ClaudeSessionAssumption DEF Inv, Types, Session
<1>3. PICK C \in Cuts(s) : Die({s}, [t \in {s} |-> C])
  BY DEF EndOther
<1> DEFINE cut == [t \in {s} |-> C]
<1>4. \A t \in {s} : cut[t] \in Cuts(t)
  BY <1>3
<1>5. Die({s}, cut) /\ {s} \in SUBSET Session
  BY <1>2, <1>3
<1> HIDE DEF cut
<1>6. Writes /\ begun' \in [Session -> Nat]
  BY <1>1, <1>2, <1>4, <1>5, DieWrites
<1>7. proc' = [t \in Session |-> IF t \in {s} THEN "dead" ELSE proc[t]]
  BY <1>5 DEF Die
<1>8. Types'
  BY <1>1, <1>2, <1>6, <1>7 DEF Types
<1>9. Settled
  BY <1>1, <1>2, <1>7 DEF Settled, Session
<1> QED BY <1>2, <1>6, <1>8, <1>9, Quietly

(* A hook starts while its run is live: its file begins now. *)
LEMMA StartOtherInv ==
  ASSUME Inv, NEW s \in Other, StartOther(s)
  PROVE  Inv'
<1>1. /\ setup' = setup /\ now' = now /\ lock' = lock /\ begun' = begun
      /\ run' = run /\ window' = window /\ report' = report /\ todo' = todo
      /\ proc' = [proc EXCEPT ![s] = "live"] /\ file' = [file EXCEPT ![s]["main"] = Opening(s)]
      /\ setup.requests[s] > 0
      /\ Starter[s] \in Run => proc[Starter[s]] = "live"
  BY DEF StartOther, runVars
<1>2. /\ Types /\ FilesOK /\ now \in Nat /\ now <= now' /\ s \in Session /\ s \notin Run /\ "main" \in Files
      /\ \A r \in Run : r \in Session
  BY <1>1, ClaudeSessionAssumption DEF Inv, Types, Session, Files
<1>3. Types'
  BY <1>1, <1>2 DEF Types
<1> DEFINE line == Line("user", s, 0, 0)
<1>4. line \in LineType /\ line.at = now /\ line.id[1] \in Own(s) /\ line.kind = "user"
  <2>1. line \in LineType /\ line.at = now /\ line.id[1] = s /\ line.kind = "user"
    BY <1>2, LineFacts
  <2> QED BY <1>2, <2>1, OwnFacts
<1>5. Opening(s) = <<line>>
  BY <1>2 DEF Opening
<1> HIDE DEF line
<1>6. /\ file' \in [Session -> [Files -> Seq(LineType)]] /\ file'[s]["main"] = <<line>>
      /\ \A t \in Session, f \in Files : t # s \/ f # "main" => file'[t][f] = file[t][f]
  BY <1>1, <1>2, <1>4, <1>5 DEF FilesOK
<1>7. FilesOK'
  <2>1. Written(s, <<line>>, now) /\ Headed(<<line>>)
    BY <1>2, <1>4 DEF Written, Headed
  <2>2. \A t \in Session, f \in Files : Written(t, file'[t][f], now)
    BY <1>2, <1>6, <2>1 DEF FilesOK
  <2>3. \A t \in Session : Headed(file'[t]["main"])
    BY <1>2, <1>6, <2>1 DEF FilesOK
  <2> QED BY <1>1, <1>6, <2>2, <2>3, NewFiles
<1>8. Begins(s)' = now /\ \A t \in Session \ {s} : (Opened(t)' <=> Opened(t)) /\ Begins(t)' = Begins(t)
  BY <1>2, <1>4, <1>6 DEF Begins, Opened
<1> SUFFICES ASSUME Whole' PROVE Orderly'
  BY <1>3, <1>7 DEF Inv
<1>9. Orderly /\ setup.oneJob
  BY <1>1 DEF Inv, Whole
<1> DEFINE q == Starter[s]
<1>10. q \in Run /\ proc[q] = "live"
  BY <1>1, <1>2, <1>9, ClaudeSessionAssumption DEF Types
<1>11. \A r \in Run : proc'[r] = proc[r] /\ Tree(r) \subseteq Session /\ (s \in Tree(r) => r = q)
  BY <1>1, <1>2 DEF Types, Tree, Session
<1> HIDE DEF q
<1>12. \A r \in Run : Alone(r)'
  BY <1>1, <1>9, <1>11 DEF Orderly, Alone
<1>13. \A r \in Run : TreeBegins(r)'
  <2> SUFFICES ASSUME NEW r \in Run, NEW t \in Tree(r), Opened(t)'
               PROVE  proc[r] # "none" /\ (proc[r] = "dead" => Begins(t)' <= window[r].to)
    BY <1>1, <1>11 DEF TreeBegins, Tree
  <2>1. CASE t = s
    BY <1>10, <1>11, <2>1
  <2>2. CASE t # s
    BY <1>8, <1>9, <1>11, <2>2 DEF Orderly, TreeBegins
  <2> QED BY <2>1, <2>2
<1>14. ASSUME NEW a \in Run, NEW b \in Run, After(a, b) PROVE After(a, b)'
  <2>1. window[a].to < window[b].from /\ proc[a] = "dead" /\ \A t \in Tree(b) : Opened(t) => window[a].to < Begins(t)
    BY <1>14 DEF After
  <2>2. s \in Tree(b) => window[a].to < now
    <3>1. window[b].from <= now \/ b # q
      BY <1>9, <1>10 DEF Orderly, Alone
    <3>2. window[a].to \in Nat /\ window[b].from \in Nat
      BY <1>2 DEF Types
    <3> QED BY <1>2, <1>11, <2>1, <3>1, <3>2
  <2>3. \A t \in Tree(b) : Opened(t)' => window[a].to < Begins(t)'
    BY <1>8, <1>11, <2>1, <2>2
  <2> QED BY <1>1, <1>11, <2>1, <2>3 DEF After, Tree
<1>15. Apart'
  BY <1>9, <1>11, <1>14 DEF Orderly, Apart
<1>16. NoOrphan'
  BY <1>8, <1>9, <1>10 DEF Orderly, NoOrphan, Session, q
<1>17. OwnRows'
  BY <1>1, <1>9 DEF Orderly, OwnRows, OwnRow
<1> QED BY <1>12, <1>13, <1>15, <1>16, <1>17 DEF Orderly

-----------------------------------------------------------------------------
(* Steps of the runs.                                                      *)

(* A step of costroid beside the agents: the order of the runs stays. *)
LEMMA Beside ==
  ASSUME Inv, setup' = setup, now' = now, UNCHANGED agentVars, window' = window,
         run' \in [Run -> Steps], todo' \in [Run -> SUBSET Session],
         Types' , Whole' => Whole, Whole' => (\A r \in Run : Alone(r)') /\ OwnRows'
  PROVE  Inv'
<1>1. proc' = proc /\ begun' = begun /\ file' = file
  BY DEF agentVars
<1>2. FilesOK'
  BY <1>1 DEF Inv, FilesOK, Written, Own, Headed
<1> SUFFICES ASSUME Whole' PROVE Orderly'
  BY <1>2 DEF Inv
<1>3. Orderly
  BY DEF Inv
<1>4. \A r \in Run : TreeBegins(r)'
  BY <1>1, <1>3 DEF Orderly, TreeBegins, Tree, Opened, Begins
<1>5. Apart' /\ NoOrphan'
  BY <1>1, <1>3 DEF Orderly, Apart, After, NoOrphan, Tree, Opened, Begins
<1> QED BY <1>4, <1>5 DEF Orderly

LEMMA ClaimInv ==
  ASSUME Inv, NEW r \in Run, Claim(r)
  PROVE  Inv'
<1>1. /\ setup' = setup /\ now' = now /\ UNCHANGED agentVars /\ window' = window /\ report' = report /\ todo' = todo
      /\ run[r] = "idle" /\ r \notin setup.byAction
      /\ \/ lock = Nobody /\ lock' = r /\ run' = [run EXCEPT ![r] = "claimed"]
         \/ lock # Nobody /\ lock' = lock /\ run' = [run EXCEPT ![r] = "refused"]
  BY DEF Claim
<1>2. proc' = proc /\ begun' = begun
  BY <1>1 DEF agentVars
<1>3. Types /\ Types'
  BY <1>1, <1>2 DEF Inv, Types, Steps
<1>4. run'[r] \in {"claimed", "refused"} /\ \A q \in Run : q # r => run'[q] = run[q]
  BY <1>1, <1>3 DEF Types
<1>5. Whole' => Whole
  BY <1>1, <1>4 DEF Whole
<1>6. ASSUME Whole' PROVE (\A q \in Run : Alone(q)') /\ OwnRows'
  <2>1. Orderly
    BY <1>5, <1>6 DEF Inv
  <2>2. OwnRows'
    BY <1>1, <2>1 DEF Orderly, OwnRows, OwnRow
  <2>3. ASSUME NEW q \in Run PROVE Alone(q)'
    <3>1. Alone(q) /\ Alone(r) /\ Nobody \notin Run
      BY <2>1, ClaudeSessionAssumption DEF Orderly, Session
    <3>2. CASE q = r
      BY <1>1, <1>2, <1>3, <3>1, <3>2 DEF Alone, Types
    <3>3. CASE q # r
      BY <1>1, <1>2, <1>3, <1>4, <3>1, <3>3 DEF Alone
    <3> QED BY <3>2, <3>3
  <2> QED BY <2>2, <2>3
<1> QED BY <1>1, <1>3, <1>5, <1>6, Beside DEF Types

(* What a run's last steps do to the lock and to its step. *)
LEMMA LeaveAlone ==
  ASSUME Types, NEW r \in Run, NEW step \in {"nested", "recorded", "refused"},
         run[r] \in {"exited", "nested"}, run' = [run EXCEPT ![r] = step],
         proc' = proc, window' = window, now' = now, setup' = setup,
         \/ lock' = lock
         \/ step \in {"recorded", "refused"} /\ lock' = IF lock = r THEN Nobody ELSE lock,
         \A q \in Run : Alone(q)
  PROVE  \A q \in Run : Alone(q)'
<1> SUFFICES ASSUME NEW q \in Run PROVE Alone(q)'
  OBVIOUS
<1>1. Alone(q) /\ Alone(r)
  OBVIOUS
<1>2. run'[r] = step /\ (q # r => run'[q] = run[q])
  BY DEF Types
<1>3. CASE q = r
  BY <1>1, <1>2, <1>3 DEF Alone
<1>4. CASE q # r
  BY <1>1, <1>2, <1>4 DEF Alone
<1> QED BY <1>3, <1>4

LEMMA RecordInv ==
  ASSUME Inv, NEW r \in Run, Record(r) \/ RefuseTruncated(r)
  PROVE  Inv'
<1>1. /\ setup' = setup /\ now' = now /\ UNCHANGED agentVars /\ window' = window /\ report' = report /\ todo' = todo
      /\ run[r] \in {"exited", "nested"}
  BY DEF Record, RefuseTruncated
<1>2. PICK step \in {"recorded", "refused"} :
        /\ run' = [run EXCEPT ![r] = step]
        /\ lock' = lock \/ lock' = IF lock = r THEN Nobody ELSE lock
  BY DEF Record, RefuseTruncated, Release
<1>3. proc' = proc /\ begun' = begun
  BY <1>1 DEF agentVars
<1>4. Types /\ Types'
  BY <1>1, <1>2, <1>3 DEF Inv, Types, Steps
<1>5. \A q \in Run : run[q] = "crashed" => run'[q] = "crashed"
  BY <1>1, <1>2, <1>4 DEF Types
<1>6. Whole' => Whole
  BY <1>1, <1>5 DEF Whole
<1>7. ASSUME Whole' PROVE (\A q \in Run : Alone(q)') /\ OwnRows'
  <2>1. Orderly
    BY <1>6, <1>7 DEF Inv
  <2>2. OwnRows'
    BY <1>1, <2>1 DEF Orderly, OwnRows, OwnRow
  <2>3. \A q \in Run : Alone(q)
    BY <2>1 DEF Orderly
  <2>4. \A q \in Run : Alone(q)'
    BY <1>1, <1>2, <1>3, <1>4, <2>3, LeaveAlone
  <2> QED BY <2>2, <2>4
<1> QED BY <1>1, <1>4, <1>6, <1>7, Beside DEF Types

(* After a crash nothing is claimed of the rows. *)
LEMMA CrashInv ==
  ASSUME Inv, NEW r \in Run, Crash(r)
  PROVE  Inv'
<1>1. /\ setup' = setup /\ now' = now /\ UNCHANGED agentVars /\ window' = window /\ report' = report /\ todo' = todo
      /\ run' = [run EXCEPT ![r] = "crashed"]
  BY DEF Crash
<1>2. proc' = proc /\ begun' = begun
  BY <1>1 DEF agentVars
<1>3. Types /\ Types'
  BY <1>1, <1>2 DEF Inv, Types, Steps
<1>4. ~Whole'
  BY <1>1, <1>3 DEF Whole, Types
<1> QED BY <1>1, <1>3, <1>4, Beside DEF Types

(* A run starts alone, after every run that ended. *)
LEMMA LaunchInv ==
  ASSUME Inv, NEW r \in Run, Launch(r)
  PROVE  Inv'
<1>1. /\ setup' = setup /\ now' = now /\ begun' = begun /\ lock' = lock /\ report' = report /\ todo' = todo
      /\ run' = [run EXCEPT ![r] = "running"] /\ window' = [window EXCEPT ![r].from = now]
      /\ proc' = [proc EXCEPT ![r] = "live"] /\ file' = [file EXCEPT ![r]["main"] = Opening(r)]
  BY DEF Launch
<1>2. /\ run[r] = "claimed" \/ (run[r] = "idle" /\ r \in setup.byAction /\ \A q \in Run : run[q] \notin {"claimed", "running"})
      /\ \A q \in Run \ {r} : /\ proc[q] = "dead" => window[q].to < now
                              /\ q \in setup.byAction => run[q] # "running"
  BY DEF Launch
<1>3. /\ Types /\ FilesOK /\ now \in Nat /\ r \in Session /\ r \notin Other /\ "main" \in Files
      /\ \A q \in Run : window[q].from \in Nat /\ window[q].to \in Nat
  BY ClaudeSessionAssumption DEF Inv, Types, Session, Files
<1>4. /\ window' \in [Run -> [from : Nat, to : Nat]] /\ window'[r].from = now
      /\ \A q \in Run \ {r} : window'[q] = window[q]
  BY <1>1, <1>3 DEF Types
<1>5. /\ run'[r] = "running" /\ proc'[r] = "live" /\ \A q \in Run \ {r} : run'[q] = run[q] /\ proc'[q] = proc[q]
      /\ \A s \in Other : proc'[s] = proc[s]
  BY <1>1, <1>3 DEF Types, Session
<1>6. Types'
  BY <1>1, <1>3, <1>4 DEF Types, Steps
<1> DEFINE line == Line("user", r, 0, 0)
<1>7. line \in LineType /\ line.at = now /\ line.id[1] \in Own(r) /\ line.kind = "user"
  <2>1. line \in LineType /\ line.at = now /\ line.id[1] = r /\ line.kind = "user"
    BY <1>3, LineFacts
  <2> QED BY <1>3, <2>1, OwnFacts
<1>8. Opening(r) \in {<<>>, <<line>>}
  BY DEF Opening
<1> HIDE DEF line
<1>9. /\ file' \in [Session -> [Files -> Seq(LineType)]] /\ file'[r]["main"] \in {<<>>, <<line>>}
      /\ \A t \in Session, f \in Files : t # r \/ f # "main" => file'[t][f] = file[t][f]
  <2>1. Opening(r) \in Seq(LineType)
    <3>1. <<line>> \in Seq(LineType) /\ <<>> \in Seq(LineType)
      BY <1>7
    <3> QED BY <1>8, <3>1
  <2> QED BY <1>1, <1>3, <1>8, <2>1 DEF FilesOK
<1>10. FilesOK'
  <2>1. Written(r, file'[r]["main"], now) /\ Headed(file'[r]["main"])
    <3>1. Written(r, <<line>>, now) /\ Headed(<<line>>)
      BY <1>3, <1>7 DEF Written, Headed
    <3>2. Written(r, <<>>, now) /\ Headed(<<>>)
      BY DEF Written, Headed
    <3> QED BY <1>9, <3>1, <3>2
  <2>2. \A t \in Session, f \in Files : Written(t, file'[t][f], now)
    BY <1>3, <1>9, <2>1 DEF FilesOK
  <2>3. \A t \in Session : Headed(file'[t]["main"])
    BY <1>3, <1>9, <2>1 DEF FilesOK
  <2> QED BY <1>1, <1>9, <2>2, <2>3, NewFiles
<1>11. /\ Opened(r)' => Begins(r)' = now
       /\ \A t \in Session \ {r} : (Opened(t)' <=> Opened(t)) /\ Begins(t)' = Begins(t)
  BY <1>3, <1>7, <1>9 DEF Begins, Opened
<1> SUFFICES ASSUME Whole' PROVE Orderly'
  BY <1>6, <1>10 DEF Inv
<1>12. Orderly /\ setup.oneJob
  <2>1. \A q \in Run : run[q] # "crashed"
    BY <1>2, <1>5 DEF Whole
  <2> QED BY <1>1, <2>1 DEF Inv, Whole
<1>13. \A q \in Run : Alone(q) /\ TreeBegins(q) /\ Tree(q) \subseteq Session /\ (r \in Tree(q) => q = r)
  BY <1>3, <1>12 DEF Orderly, Tree, Session
<1>14. proc[r] = "none" /\ \A s \in Tree(r) : ~Opened(s)
  <2>1. proc[r] = "none"
    BY <1>2, <1>13 DEF Alone
  <2> QED BY <1>13, <2>1 DEF TreeBegins
<1>15. \A q \in Run \ {r} : proc[q] # "live"
  <2> SUFFICES ASSUME NEW q \in Run \ {r}, proc[q] = "live" PROVE FALSE
    OBVIOUS
  <2>1. run[q] = "running" /\ q \notin setup.byAction
    BY <1>2, <1>13 DEF Alone
  <2>2. lock = q
    BY <1>13, <2>1 DEF Alone
  <2>3. run[r] = "claimed"
    BY <1>2, <2>1
  <2>4. lock = r
    BY <1>13, <2>3 DEF Alone
  <2> QED BY <2>2, <2>4
<1>16. ASSUME NEW q \in Run PROVE Alone(q)'
  <2>1. CASE q = r
    <3>1. r \notin setup.byAction => lock = r
      BY <1>2, <1>13 DEF Alone
    <3> QED BY <1>1, <1>3, <1>4, <1>5, <2>1, <3>1 DEF Alone
  <2>2. CASE q # r
    BY <1>1, <1>4, <1>5, <1>13, <2>2 DEF Alone
  <2> QED BY <2>1, <2>2
<1>17. ASSUME NEW q \in Run PROVE TreeBegins(q)'
  <2> SUFFICES ASSUME NEW t \in Tree(q), Opened(t)'
               PROVE  proc'[q] # "none" /\ (proc'[q] = "dead" => Begins(t)' <= window'[q].to)
    BY DEF TreeBegins, Tree
  <2>1. CASE q = r
    BY <1>5, <2>1
  <2>2. CASE q # r
    BY <1>4, <1>5, <1>11, <1>13, <2>2 DEF TreeBegins
  <2> QED BY <2>1, <2>2
<1>18. ASSUME NEW q \in Run, q # r, proc[q] # "none" PROVE After(q, r)'
  <2>1. proc[q] = "dead"
    BY <1>3, <1>15, <1>18 DEF Types, Session
  <2>2. window[q].to < now
    BY <1>2, <1>18, <2>1
  <2>3. \A t \in Tree(r) : Opened(t)' => window'[q].to < Begins(t)'
    BY <1>4, <1>11, <1>13, <1>14, <1>18, <2>2
  <2> QED BY <1>4, <1>5, <1>18, <2>1, <2>2, <2>3 DEF After, Tree
<1>19. ASSUME NEW a \in Run, NEW b \in Run, a # r, b # r, After(a, b) PROVE After(a, b)'
  <2>1. proc[a] = "dead" /\ window[a].to < window[b].from /\ \A t \in Tree(b) : Opened(t) => window[a].to < Begins(t)
    BY <1>19 DEF After
  <2>2. \A t \in Tree(b) : Opened(t)' => window'[a].to < Begins(t)'
    BY <1>4, <1>11, <1>13, <1>19, <2>1
  <2> QED BY <1>4, <1>5, <1>19, <2>1, <2>2 DEF After, Tree
<1>20. Apart'
  <2> SUFFICES ASSUME NEW a \in Run, NEW b \in Run, a # b, proc'[a] # "none", proc'[b] # "none"
               PROVE  After(a, b)' \/ After(b, a)'
    BY DEF Apart
  <2>1. CASE a = r
    BY <1>5, <1>18, <2>1
  <2>2. CASE b = r
    BY <1>5, <1>18, <2>2
  <2>3. CASE a # r /\ b # r
    BY <1>5, <1>12, <1>19, <2>3 DEF Orderly, Apart
  <2> QED BY <2>1, <2>2, <2>3
<1>21. NoOrphan'
  BY <1>3, <1>11, <1>12 DEF Orderly, NoOrphan, Session
<1>22. OwnRows'
  BY <1>1, <1>12 DEF Orderly, OwnRows, OwnRow
<1> QED BY <1>16, <1>17, <1>20, <1>21, <1>22 DEF Orderly

(* A run ends: all that it and its hooks wrote began by now. *)
LEMMA ExitInv ==
  ASSUME Inv, NEW r \in Run, Exit(r)
  PROVE  Inv'
<1> DEFINE D == {r} \cup {s \in Other : setup.contained /\ Starter[s] = r /\ proc[s] = "live"}
<1>1. /\ setup' = setup /\ now' = now /\ lock' = lock /\ report' = report /\ todo' = todo
      /\ run[r] = "running" /\ run' = [run EXCEPT ![r] = "exited"]
  BY DEF Exit
<1>2. PICK cut : (\A s \in D : cut[s] \in Cuts(s)) /\ Die(D, cut)
  BY DEF Exit
<1>3. PICK from : /\ from \in IF r \in setup.byAction THEN window[r].from .. now ELSE {window[r].from}
                  /\ window' = [window EXCEPT ![r] = [from |-> from, to |-> now]]
  BY DEF Exit
<1>4. D \in SUBSET Session /\ r \in D /\ \A q \in Run \ {r} : q \notin D
  BY ClaudeSessionAssumption DEF Session
<1> HIDE DEF D
<1>5. /\ Types /\ FilesOK /\ now \in Nat /\ \A q \in Run : q \in Session /\ q \notin Other
      /\ \A q \in Run : window[q].from \in Nat /\ window[q].to \in Nat
  BY ClaudeSessionAssumption DEF Inv, Types, Session
<1>6. Writes /\ begun' \in [Session -> Nat]
  BY <1>1, <1>2, <1>4, <1>5, DieWrites
<1>7. proc' = [s \in Session |-> IF s \in D THEN "dead" ELSE proc[s]]
  BY <1>2 DEF Die
<1>8. proc' \in [Session -> {"none", "live", "dead"}] /\ proc'[r] = "dead" /\ \A q \in Run \ {r} : proc'[q] = proc[q]
  BY <1>4, <1>5, <1>7 DEF Types
<1>9. from \in Nat /\ window[r].from <= from
  BY <1>3, <1>5
<1>10. /\ window' \in [Run -> [from : Nat, to : Nat]] /\ window'[r].from = from /\ window'[r].to = now
       /\ \A q \in Run \ {r} : window'[q] = window[q]
  BY <1>3, <1>5, <1>9 DEF Types
<1>11. Types'
  BY <1>1, <1>5, <1>6, <1>8, <1>10 DEF Types, Steps
<1>12. run'[r] = "exited" /\ \A q \in Run \ {r} : run'[q] = run[q]
  BY <1>1, <1>5 DEF Types
<1> SUFFICES ASSUME Whole' PROVE Orderly'
  BY <1>6, <1>11 DEF Inv, Writes
<1>13. Orderly
  BY <1>1, <1>12 DEF Inv, Whole
<1>14. \A q \in Run : Alone(q) /\ TreeBegins(q) /\ Tree(q) \subseteq Session
  BY <1>13 DEF Orderly, Tree, Session
<1>15. proc[r] = "live"
  BY <1>1, <1>14 DEF Alone
<1>16. \A s \in Session : (Opened(s)' <=> Opened(s)) /\ (Opened(s) => Begins(s)' = Begins(s) /\ Begins(s) <= now)
  <2>1. ASSUME NEW s \in Session, Opened(s) PROVE Begins(s) <= now
    <3>1. /\ file[s]["main"] \in Seq(LineType) /\ file[s]["main"] # <<>>
          /\ \A i \in 1 .. Len(file[s]["main"]) : file[s]["main"][i].at <= now
      BY <1>5, <2>1 DEF FilesOK, Written, Opened, Files
    <3>2. 1 \in 1 .. Len(file[s]["main"])
      BY <3>1
    <3> QED BY <3>1, <3>2 DEF Begins
  <2> QED BY <1>6, <2>1 DEF Writes
<1>17. ASSUME NEW q \in Run PROVE Alone(q)'
  <2>1. CASE q = r
    <3>1. r \notin setup.byAction => lock = r
      BY <1>1, <1>14 DEF Alone
    <3>2. from <= now
      BY <1>3, <1>5, <1>14, <1>15 DEF Alone
    <3> QED BY <1>1, <1>8, <1>10, <1>12, <2>1, <3>1, <3>2 DEF Alone
  <2>2. CASE q # r
    BY <1>1, <1>8, <1>10, <1>12, <1>14, <2>2 DEF Alone
  <2> QED BY <2>1, <2>2
<1>18. ASSUME NEW q \in Run PROVE TreeBegins(q)'
  <2> SUFFICES ASSUME NEW t \in Tree(q), Opened(t)'
               PROVE  proc'[q] # "none" /\ (proc'[q] = "dead" => Begins(t)' <= window'[q].to)
    BY DEF TreeBegins, Tree
  <2>1. Opened(t) /\ Begins(t)' = Begins(t) /\ Begins(t) <= now
    BY <1>14, <1>16
  <2>2. CASE q = r
    BY <1>8, <1>10, <2>1, <2>2
  <2>3. CASE q # r
    BY <1>8, <1>10, <1>14, <2>1, <2>3 DEF TreeBegins
  <2> QED BY <2>2, <2>3
<1>19. ASSUME NEW a \in Run, NEW b \in Run, a # b, After(a, b) PROVE After(a, b)'
  <2>1. proc[a] = "dead" /\ window[a].to < window[b].from /\ \A t \in Tree(b) : Opened(t) => window[a].to < Begins(t)
    BY <1>19 DEF After
  <2>2. a # r
    BY <1>15, <2>1
  <2>3. window'[a].to < window'[b].from
    BY <1>5, <1>9, <1>10, <2>1, <2>2
  <2>4. \A t \in Tree(b) : Opened(t)' => window'[a].to < Begins(t)'
    BY <1>10, <1>14, <1>16, <2>1, <2>2
  <2> QED BY <1>8, <2>1, <2>2, <2>3, <2>4 DEF After, Tree
<1>20. \A q \in Run : proc'[q] # "none" => proc[q] # "none"
  BY <1>8, <1>15
<1>21. Apart'
  BY <1>13, <1>19, <1>20 DEF Orderly, Apart
<1>22. NoOrphan'
  BY <1>13, <1>16 DEF Orderly, NoOrphan, Session
<1>23. OwnRows'
  BY <1>1, <1>13 DEF Orderly, OwnRows, OwnRow
<1> QED BY <1>17, <1>18, <1>21, <1>22, <1>23 DEF Orderly

-----------------------------------------------------------------------------
(* What the rows come from.                                                *)

(* A nonempty set of numbers has a least one. *)
LEMMA LeastNumber ==
  ASSUME NEW T, T \subseteq Nat, T # {}
  PROVE  Min(T) \in T /\ \A y \in T : Min(T) <= y
<1> DEFINE R == OpToRel(<, Nat)
<1>1. IsWellFoundedOn(R, Nat)
  BY NatLessThanWellFounded
<1>2. \A a, b \in Nat : a < b => <<a, b>> \in R
  BY DEF OpToRel
<1> HIDE DEF R
<1>3. PICK x \in T : \A y \in T : ~ (<<y, x>> \in R)
  BY <1>1, WFMin
<1>4. \A y \in T : ~(y < x)
  BY <1>2, <1>3
<1>5. \A y \in T : x <= y
  BY <1>3, <1>4
<1> QED BY <1>3, <1>5 DEF Min

(* A session's lines, of both files, state its own requests. *)
LEMMA LinesFacts ==
  ASSUME Types, FilesOK, NEW s \in Session
  PROVE  /\ Lines(s) \in Seq(LineType) /\ file[s]["main"] \in Seq(LineType)
         /\ \A i \in DOMAIN Lines(s) : Lines(s)[i].id[1] \in Own(s)
         /\ \A i \in DOMAIN file[s]["main"] : i \in DOMAIN Lines(s) /\ Lines(s)[i] = file[s]["main"][i]
<1> DEFINE a == file[s]["main"]
           b == file[s]["sub"]
<1>1. /\ a \in Seq(LineType) /\ \A i \in 1 .. Len(a) : a[i].id[1] \in Own(s)
      /\ b \in Seq(LineType) /\ \A i \in 1 .. Len(b) : b[i].id[1] \in Own(s)
  BY DEF FilesOK, Written, Files
<1>2. Lines(s) = a \o b
  BY DEF Lines
<1> HIDE DEF a, b
<1> DEFINE both == a \o b
<1>3. /\ both \in Seq(LineType) /\ Len(both) = Len(a) + Len(b) /\ Len(a) \in Nat /\ Len(b) \in Nat
      /\ DOMAIN both = 1 .. Len(both) /\ DOMAIN a = 1 .. Len(a)
      /\ \A i \in 1 .. Len(both) : both[i] = IF i <= Len(a) THEN a[i] ELSE b[i - Len(a)]
  BY <1>1
<1>4. \A i \in 1 .. Len(both) : i > Len(a) => i - Len(a) \in 1 .. Len(b)
  BY <1>3
<1>5. \A i \in 1 .. Len(both) : both[i].id[1] \in Own(s)
  BY <1>1, <1>3, <1>4
<1>6. \A i \in 1 .. Len(a) : i \in 1 .. Len(both) /\ both[i] = a[i]
  BY <1>3
<1> QED BY <1>1, <1>2, <1>3, <1>5, <1>6 DEF a

(* The requests of a session's lines are its own or its starter's. *)
LEMMA RequestsOwned ==
  ASSUME Types, FilesOK, NEW s \in Session, NEW id \in DOMAIN requestsOf(Lines(s))
  PROVE  id[1] \in Own(s)
<1> DEFINE lines == Lines(s)
           usage == {i \in DOMAIN lines : lines[i].kind = "usage"}
<1>1. DOMAIN requestsOf(lines) = {lines[i].id : i \in usage}
  BY DEF requestsOf
<1>2. PICK i \in usage : id = lines[i].id
  BY <1>1
<1> QED BY <1>2, LinesFacts

(* What stops the reading of a main file stops that of the session's files. *)
LEMMA StopsToo ==
  ASSUME Types, FilesOK, NEW s \in Session, Problem(Lines(s)) = "none"
  PROVE  Problem(file[s]["main"]) = "none"
<1> DEFINE stops == {i \in DOMAIN Lines(s) : Lines(s)[i].kind \in {"bad", "past"}}
           first == {i \in DOMAIN file[s]["main"] : file[s]["main"][i].kind \in {"bad", "past"}}
<1>1. first \subseteq stops
  BY LinesFacts
<1>2. stops = {}
  <2> SUFFICES ASSUME stops # {} PROVE FALSE
    OBVIOUS
  <2>1. stops \subseteq Nat
    BY LinesFacts
  <2>2. Min(stops) \in stops
    <3> HIDE DEF stops
    <3> QED BY <2>1, LeastNumber
  <2>3. Problem(Lines(s)) = Lines(s)[Min(stops)].kind
    BY DEF Problem
  <2>4. Lines(s)[Min(stops)].kind \in {"bad", "past"}
    BY <2>2
  <2> QED BY <2>3, <2>4
<1>3. first = {}
  BY <1>1, <1>2
<1> QED BY <1>3 DEF Problem

(* A session's main file begins with its earliest time. *)
LEMMA BeginsFirst ==
  ASSUME Types, FilesOK, NEW s \in Session, Times(file[s]["main"]) # {}
  PROVE  Opened(s) /\ Min(Times(file[s]["main"])) = Begins(s)
<1> DEFINE lines == file[s]["main"]
           times == Times(lines)
<1>1. lines \in Seq(LineType) /\ Headed(lines)
  BY LinesFacts DEF FilesOK
<1> HIDE DEF lines
<1>2. times = {lines[i].at : i \in {i \in DOMAIN lines : lines[i].kind # "cut"}}
  BY DEF Times
<1>3. lines # <<>>
  BY <1>1, <1>2 DEF lines
<1>4. lines[1].kind = "user" /\ \A i \in 1 .. Len(lines) : lines[1].at <= lines[i].at
  BY <1>1, <1>3 DEF Headed
<1>5. \A i \in DOMAIN lines : lines[i] \in LineType
  BY <1>1
<1>6. \A i \in DOMAIN lines : lines[i].at \in Nat
  BY <1>5 DEF LineType
<1>7. DOMAIN lines = 1 .. Len(lines) /\ 1 \in DOMAIN lines
  BY <1>1, <1>3
<1>8. lines[1].at \in times /\ times \subseteq Nat /\ \A x \in times : lines[1].at <= x
  BY <1>2, <1>4, <1>6, <1>7
<1> HIDE DEF times
<1>9. Min(times) \in times /\ \A y \in times : Min(times) <= y
  BY <1>8, LeastNumber
<1>10. Min(times) = lines[1].at
  <2> DEFINE a == Min(times)
             b == lines[1].at
  <2>1. a \in Nat /\ b \in Nat /\ a <= b /\ b <= a
    BY <1>8, <1>9
  <2> HIDE DEF a, b
  <2>2. a = b
    BY <2>1
  <2> QED BY <2>2 DEF a, b
<1> QED BY <1>3, <1>10 DEF Opened, Begins, lines, times

(* In CI a session that started inside a run's window is the run's or its  *)
(* hook's: no other run, and no other run's hook, began at such a time.    *)
LEMMA InsideIsOwn ==
  ASSUME Types, FilesOK, Orderly, NEW r \in Run, proc[r] = "dead", NEW s \in Session, startedInside(r, s)
  PROVE  s \in Tree(r)
<1>1. Opened(s) /\ Begins(s) \in window[r].from .. window[r].to
  BY BeginsFirst DEF startedInside
<1>2. PICK q \in Run : s \in Tree(q)
  <2>1. CASE s \in Run
    BY <2>1 DEF Tree
  <2>2. CASE s \in Other
    BY <1>1, <2>2 DEF Orderly, NoOrphan, Tree
  <2> QED BY <2>1, <2>2 DEF Session
<1>3. proc[q] # "none" /\ (proc[q] = "dead" => Begins(s) <= window[q].to)
  BY <1>1, <1>2 DEF Orderly, TreeBegins
<1>4. CASE q = r
  BY <1>2, <1>4
<1>5. CASE q # r
  <2>1. After(r, q) \/ After(q, r)
    BY <1>3, <1>5 DEF Orderly, Apart
  <2>2. /\ window[r].from \in Nat /\ window[r].to \in Nat /\ window[q].to \in Nat
    BY DEF Types
  <2>3. Begins(s) \in Nat /\ window[r].from <= Begins(s) /\ Begins(s) <= window[r].to
    BY <1>1, <2>2
  <2>4. ~After(r, q)
    BY <1>1, <1>2, <2>2, <2>3 DEF After
  <2>5. ~After(q, r)
    BY <1>3, <2>2, <2>3 DEF After
  <2> QED BY <2>1, <2>4, <2>5
<1> QED BY <1>4, <1>5

(* The run's own rows are of the run. *)
LEMMA FinishRows ==
  ASSUME Types, FilesOK, NEW r \in Run, NEW s, NEW row \in finishRun(r, s, readSessionFiles(r, s)).report.rows
  PROVE  row.of = r
<1> DEFINE t == readSessionFiles(r, s)
<1>1. r \in Session /\ Own(r) = {r}
  BY OwnFacts DEF Session
<1>2. \A id \in DOMAIN t.requests : id[1] = r
  <2>1. DOMAIN requestsOf(<<>>) = {}
    BY DEF requestsOf
  <2>2. t.requests = requestsOf(<<>>) \/ t.requests = requestsOf(Lines(r))
    BY DEF readSessionFiles, Empty
  <2> QED BY <1>1, <2>1, <2>2, RequestsOwned
<1> HIDE DEF t
<1>3. \A only : \A x \in perModel(r, s, only) : x.of = r
  BY DEF perModel, Row
<1>4. \A id \in DOMAIN t.requests : Row(id, t.requests[id]).of = r
  BY <1>2 DEF Row
<1>5. \/ row \in {Row(id, t.requests[id]) : id \in DOMAIN t.requests}
      \/ row \in perModel(r, s, sideModels(s, t.requests)) \/ row \in perModel(r, s, Model)
  BY DEF finishRun, t
<1> QED BY <1>3, <1>4, <1>5

-----------------------------------------------------------------------------
(* Steps of the reading.                                                   *)

LEMMA FinishInv ==
  ASSUME Inv, NEW r \in Run, Finish(r)
  PROVE  Inv'
<1> DEFINE s == Fed(r)
           t == readSessionFiles(r, s)
           finished == finishRun(r, s, t)
<1>1. setup' = setup /\ now' = now /\ UNCHANGED agentVars /\ window' = window /\ run[r] = "exited"
  BY DEF Finish
<1>2. \/ run' = [run EXCEPT ![r] = "refused"] /\ Release(r) /\ report' = report /\ todo' = todo
      \/ /\ run' = [run EXCEPT ![r] = "nested"] /\ lock' = lock
         /\ report' = [report EXCEPT ![r] = finished.report]
         /\ todo' = [todo EXCEPT ![r] = IF t.found THEN candidates(r) ELSE {}]
  BY DEF Finish
<1>3. \A row \in finished.report.rows : row.of = r
  BY FinishRows DEF Inv
<1>4. "rows" \in DOMAIN finished.report
  BY DEF finishRun
<1>5. proc' = proc /\ begun' = begun
  BY <1>1 DEF agentVars
<1>6. Types
  BY DEF Inv
<1>7. (IF t.found THEN candidates(r) ELSE {}) \in SUBSET Session
  BY DEF candidates
<1> HIDE DEF finished, t, s
<1>8. todo' \in [Run -> SUBSET Session]
  BY <1>2, <1>6, <1>7 DEF Types
<1>9. PICK step \in {"nested", "recorded", "refused"} :
        /\ run' = [run EXCEPT ![r] = step]
        /\ lock' = lock \/ (step \in {"recorded", "refused"} /\ lock' = IF lock = r THEN Nobody ELSE lock)
  BY <1>2 DEF Release
<1>10. DOMAIN report' = Run /\ \A q \in Run : "rows" \in DOMAIN report'[q]
  BY <1>2, <1>4, <1>6 DEF Types
<1>11. run' \in [Run -> Steps]
  BY <1>6, <1>9 DEF Types, Steps
<1>12. Types'
  BY <1>1, <1>5, <1>6, <1>8, <1>10, <1>11 DEF Types
<1>13. \A q \in Run : run[q] = "crashed" => run'[q] = "crashed"
  BY <1>1, <1>6, <1>9 DEF Types
<1>14. Whole' => Whole
  BY <1>1, <1>13 DEF Whole
<1>15. \A q \in Run : \A row \in report'[q].rows : row \in report[q].rows \/ (q = r /\ row.of = r)
  BY <1>2, <1>3, <1>6 DEF Types
<1>16. ASSUME Whole' PROVE (\A q \in Run : Alone(q)') /\ OwnRows'
  <2>1. Orderly
    BY <1>14, <1>16 DEF Inv
  <2>2. OwnRows'
    BY <1>15, <2>1 DEF Orderly, OwnRows, OwnRow
  <2>3. \A q \in Run : Alone(q)
    BY <2>1 DEF Orderly
  <2>4. \A q \in Run : Alone(q)'
    BY <1>1, <1>5, <1>6, <1>9, <2>3, LeaveAlone
  <2> QED BY <2>2, <2>4
<1> QED BY <1>1, <1>8, <1>11, <1>12, <1>14, <1>16, Beside

LEMMA NestedInv ==
  ASSUME Inv, NEW r \in Run, NEW s \in Session, nestedSession(r, s)
  PROVE  Inv'
<1> DEFINE requests == requestsOf(Lines(s))
           fresh == DOMAIN requests \ report[r].counted
           more == {Row(id, requests[id]) : id \in fresh}
<1>1. /\ setup' = setup /\ now' = now /\ UNCHANGED agentVars /\ lock' = lock /\ run' = run /\ window' = window
      /\ run[r] = "nested" /\ todo' = [todo EXCEPT ![r] = @ \ {s}]
  BY DEF nestedSession
<1>2. \/ report' = report
      \/ report' = [report EXCEPT ![r].warned = TRUE]
      \/ /\ report' = [report EXCEPT ![r].rows = @ \cup more, ![r].counted = @ \cup fresh]
         /\ Problem(file[s]["main"]) = "none" => startedInside(r, s)
         /\ Problem(Lines(s)) = "none"
  BY DEF nestedSession
<1>3. proc' = proc /\ begun' = begun
  BY <1>1 DEF agentVars
<1>4. Types /\ FilesOK
  BY DEF Inv
<1>5. \A id \in fresh : id[1] \in Own(s)
  BY <1>4, RequestsOwned
<1>6. \A row \in more : row.of \in Own(s)
  BY <1>5 DEF Row
<1> HIDE DEF requests, fresh, more
<1> DEFINE inside == Problem(Lines(s)) = "none" /\ (Problem(file[s]["main"]) = "none" => startedInside(r, s))
           old == report[r]
<1>7. DOMAIN report = Run /\ \A q \in Run : "rows" \in DOMAIN report[q]
  BY <1>4 DEF Types
<1>8. ASSUME NEW new, report' = [report EXCEPT ![r] = new], "rows" \in DOMAIN new
      PROVE  /\ DOMAIN report' = Run /\ \A q \in Run : "rows" \in DOMAIN report'[q]
             /\ report'[r] = new /\ \A q \in Run : q # r => report'[q] = report[q]
  BY <1>7, <1>8
<1>9. /\ DOMAIN report' = Run /\ \A q \in Run : "rows" \in DOMAIN report'[q]
      /\ \A q \in Run : q # r => report'[q].rows = report[q].rows
      /\ report'[r].rows = old.rows \/ (report'[r].rows = old.rows \cup more /\ inside)
  <2>1. CASE report' = report
    BY <1>7, <2>1
  <2>2. CASE report' = [report EXCEPT ![r].warned = TRUE]
    <3> DEFINE new == [old EXCEPT !.warned = TRUE]
    <3>1. report' = [report EXCEPT ![r] = new]
      BY <1>7, <2>2
    <3>2. "rows" \in DOMAIN new /\ new.rows = old.rows
      BY <1>7
    <3> HIDE DEF new, inside, old
    <3> QED BY <1>8, <3>1, <3>2
  <2>3. CASE report' = [report EXCEPT ![r].rows = @ \cup more, ![r].counted = @ \cup fresh] /\ inside
    <3> DEFINE new == [old EXCEPT !.rows = @ \cup more, !.counted = @ \cup fresh]
    <3>1. report' = [report EXCEPT ![r] = new]
      BY <1>7, <2>3
    <3>2. "rows" \in DOMAIN new /\ new.rows = old.rows \cup more
      BY <1>7
    <3> HIDE DEF new, inside, old
    <3> QED BY <1>8, <2>3, <3>1, <3>2
  <2> QED BY <1>2, <2>1, <2>2, <2>3
<1> HIDE DEF inside
<1>10. Types'
  BY <1>1, <1>3, <1>4, <1>9 DEF Types
<1>11. \A q \in Run : Alone(q) => Alone(q)'
  BY <1>1, <1>3 DEF Alone
<1>12. Whole' => Whole
  BY <1>1 DEF Whole
<1>13. ASSUME Whole' PROVE (\A q \in Run : Alone(q)') /\ OwnRows'
  <2>1. Orderly
    BY <1>12, <1>13 DEF Inv
  <2>2. \A q \in Run : \A row \in report'[q].rows : OwnRow(q, row)
    <3>1. CASE report'[r].rows = old.rows
      BY <1>9, <2>1, <3>1 DEF Orderly, OwnRows
    <3>2. CASE report'[r].rows = old.rows \cup more /\ inside
      <4>1. startedInside(r, s)
        BY <1>4, <3>2, StopsToo DEF inside
      <4>2. proc[r] = "dead"
        BY <1>1, <2>1 DEF Orderly, Alone
      <4>3. s \in Tree(r)
        BY <1>4, <2>1, <4>1, <4>2, InsideIsOwn
      <4>4. \A x \in Own(s) : x = r \/ (x \in Other /\ Starter[x] = r)
        BY <4>3, OwnFacts DEF Tree
      <4>5. \A row \in more : OwnRow(r, row)
        BY <1>6, <4>4 DEF OwnRow
      <4> QED BY <1>9, <2>1, <3>2, <4>5 DEF Orderly, OwnRows
    <3> QED BY <1>9, <3>1, <3>2
  <2>3. OwnRows'
    BY <2>2 DEF OwnRows, OwnRow
  <2> QED BY <1>11, <2>1, <2>3 DEF Orderly
<1> QED BY <1>1, <1>4, <1>10, <1>12, <1>13, Beside DEF Types

-----------------------------------------------------------------------------
(* The invariant holds.                                                    *)

LEMMA InitInv == Init => Inv
<1> SUFFICES ASSUME Init PROVE Inv
  OBVIOUS
<1>1. Types
  BY DEF Init, Types, Steps, NoReport
<1>2. \A s \in Session, f \in Files : file[s][f] = <<>>
  BY DEF Init
<1>3. FilesOK
  <2>1. \A s \in Session, f \in Files : Written(s, file[s][f], now)
    <3>1. \A s : Written(s, <<>>, now)
      BY DEF Written
    <3> QED BY <1>2, <3>1
  <2>2. \A s \in Session : Headed(file[s]["main"])
    BY <1>2 DEF Headed, Files
  <2>3. file \in [Session -> [Files -> Seq(LineType)]]
    BY DEF Init
  <2> QED BY <2>1, <2>2, <2>3 DEF FilesOK
<1>4. /\ \A r \in Run : r \in Session /\ proc[r] = "none" /\ run[r] = "idle" /\ report[r].rows = {}
      /\ \A s \in Session : ~Opened(s)
  BY <1>2 DEF Init, Session, Opened, Files, NoReport
<1>5. \A r \in Run : Alone(r) /\ TreeBegins(r)
  BY <1>4 DEF Alone, TreeBegins, Tree, Session
<1>6. Apart /\ NoOrphan /\ OwnRows
  BY <1>4 DEF Apart, NoOrphan, OwnRows, Session
<1> QED BY <1>1, <1>3, <1>5, <1>6 DEF Inv, Orderly

LEMMA NextInv == Inv /\ [Next]_vars => Inv'
<1> SUFFICES ASSUME Inv, [Next]_vars PROVE Inv'
  OBVIOUS
<1>1. CASE Tick
  BY <1>1, TickInv
<1>2. CASE Agents
  <2>1. ASSUME NEW s \in Session, NEW f \in Files, BeginRequest(s, f) \/ EndRequest(s, f) PROVE Inv'
    BY <2>1, BeginRequestInv, EndRequestInv
  <2>2. ASSUME NEW s \in Other, StartOther(s) \/ CopyRequest(s) \/ EndOther(s) PROVE Inv'
    BY <2>2, StartOtherInv, CopyRequestInv, EndOtherInv
  <2>3. ASSUME NEW r \in Run, EmitInit(r) \/ EmitResult(r) \/ \E m \in Model : SideRequest(r, m) PROVE Inv'
    BY <2>3, StreamInv
  <2> QED BY <1>2, <2>1, <2>2, <2>3 DEF Agents
<1>3. CASE Runs
  <2> SUFFICES ASSUME NEW r \in Run,
                      \/ Claim(r) \/ Launch(r) \/ Exit(r) \/ Finish(r) \/ RefuseTruncated(r)
                      \/ Record(r) \/ Crash(r) \/ \E s \in Session : nestedSession(r, s)
               PROVE  Inv'
    BY <1>3 DEF Runs
  <2> QED BY ClaimInv, LaunchInv, ExitInv, FinishInv, RecordInv, CrashInv, NestedInv
<1>4. CASE UNCHANGED vars
  <2>1. /\ setup' = setup /\ now' = now /\ proc' = proc /\ begun' = begun /\ file' = file /\ lock' = lock
        /\ run' = run /\ window' = window /\ report' = report /\ todo' = todo
    BY <1>4 DEF vars
  <2>2. Types /\ FilesOK /\ Types' /\ now \in Nat /\ now' \in Nat /\ now <= now'
    BY <2>1 DEF Inv, Types
  <2>3. Writes
    BY <2>1, <2>2, SameFiles
  <2>4. Settled
    BY <2>1 DEF Settled
  <2> QED BY <2>2, <2>3, <2>4, Quietly
<1> QED BY <1>1, <1>2, <1>3, <1>4 DEF Next

LEMMA InvOwnTreeOnly == Inv => OwnTreeOnly
<1> SUFFICES ASSUME Inv, setup.oneJob, NEW r \in Run, NEW row \in report[r].rows,
                    \A q \in Run : run[q] # "crashed"
             PROVE  row.of = r \/ (row.of \in Other /\ Starter[row.of] = r)
  BY DEF OwnTreeOnly
<1>1. OwnRows
  BY DEF Inv, Whole, Orderly
<1> QED BY <1>1 DEF OwnRows, OwnRow

(* Inside CI a run's rows are its own and its hooks', however many runs    *)
(* follow each other in the directory, unless a costroid was killed and    *)
(* left its agent behind (Claim, startedInside, nestedSession).            *)
THEOREM SpecOwnTreeOnly == Spec => []OwnTreeOnly
BY InitInv, NextInv, InvOwnTreeOnly, PTL DEF Spec

-----------------------------------------------------------------------------
(* What the rows state of a session: each request once, and no more than   *)
(* the requests and the totals that were there to count.                   *)

(* The requests that a session's main file states. *)
MainIds(s) == {file[s]["main"][i].id : i \in {i \in DOMAIN file[s]["main"] : file[s]["main"][i].kind = "usage"}}

(* A usage line states a request that was sent, of the session itself, or  *)
(* of its starter, whose own file has it.                                  *)
Sound(s, line) ==
  line.kind = "usage" =>
    /\ line.units \in {1, 2} /\ line.id[2] \in 1 .. begun[line.id[1]]
    /\ line.units = 1 => line.id[1] = s
    /\ line.id[1] # s => line.id \in MainIds(Starter[s])

SoundFiles == \A s \in Session, f \in Files : \A i \in 1 .. Len(file[s][f]) : Sound(s, file[s][f][i])

(* A run's main file opens, then begins a request and ends it: what a hook *)
(* copies is a request's last line.                                        *)
Third(r) ==
  LET lines == file[r]["main"]
  IN /\ Len(lines) > 2 /\ lines[3].kind = "usage" => lines[3].units = 2
     /\ Len(lines) = 2 /\ proc[r] = "live" => lines[2].kind = "usage" /\ lines[2].units = 1

(* A process writes while it lives, and the rows are made when it is dead. *)
Lives ==
  /\ \A s \in Session : proc[s] = "none" => file[s]["main"] = <<>>
  /\ \A r \in Run : /\ run[r] \in {"idle", "claimed"} => proc[r] = "none"
                    /\ run[r] \in {"exited", "nested", "recorded"} => proc[r] = "dead"

(* What a result may say. *)
Stated(r, t) ==
  /\ t \in [Model -> Int]
  /\ t["main"] <= 2 * begun[r] + sides[r]["main"] /\ t["side"] <= sides[r]["side"]

OutLine ==
  [kind : {"init", "assistant"}]
    \cup [kind : {"result"}, says : {"totals", "unread", "usageAlone", "none"}, totals : [Model -> Int]]

Streams ==
  /\ sides \in [Run -> [Model -> Nat]] /\ out \in [Run -> Seq(OutLine)]
  /\ \A r \in Run : \A i \in 1 .. Len(out[r]) : out[r][i].kind = "result" => Stated(r, out[r][i].totals)

(* A request that was sent, and what a line states of it. *)
Sent(id, n) == id \in Session \X Nat /\ id[2] \in 1 .. begun[id[1]] /\ n \in {1, 2}

(* A run's rows are one for each of ids, none of which is of the run when  *)
(* a total of its conversation's model is in the rows, and totals of ms.   *)
MadeOf(r, made, ids, u, ms, t) ==
  /\ made.rows = {Row(id, u[id]) : id \in ids} \cup {Row(<<r, m>>, t[m]) : m \in ms}
  /\ ids \subseteq made.counted /\ \A id \in ids : Sent(id, u[id])
  /\ ms \subseteq Model /\ Stated(r, t) /\ \A m \in ms : t[m] > 0
  /\ "main" \in ms => \A id \in ids : id[1] # r

Booked(r) == \E ids, u, ms, t : MadeOf(r, report[r], ids, u, ms, t)

(* While files are to be read, the run's own requests are counted. *)
Knows(r) == r \notin todo[r] /\ (todo[r] # {} => MainIds(r) \subseteq report[r].counted)

Books ==
  \A r \in Run :
    /\ {"rows", "counted"} \subseteq DOMAIN report[r]
    /\ run[r] \in {"nested", "recorded"} => Booked(r) /\ Knows(r)

Counts == SoundFiles /\ (\A r \in Run : Third(r)) /\ Lives /\ Streams /\ Books

-----------------------------------------------------------------------------
(* Folds.                                                                  *)

(* Some subset of a finite set with a property has no smaller one with it. *)
LEMMA SmallestSet ==
  ASSUME NEW K, IsFiniteSet(K), NEW B, B \subseteq SUBSET K, B # {}
  PROVE  \E s \in B : \A t \in SUBSET s : t # s => t \notin B
<1> DEFINE Sizes == {Cardinality(s) : s \in B}
<1>1. \A s \in B : IsFiniteSet(s) /\ Cardinality(s) \in Nat
  BY FS_Subset, FS_CardinalityType
<1>2. Sizes \subseteq Nat /\ Sizes # {}
  BY <1>1
<1>3. PICK n \in Sizes : \A m \in Sizes : n <= m
  <2> HIDE DEF Sizes
  <2> QED BY <1>2, LeastNumber
<1>4. PICK s \in B : n = Cardinality(s)
  OBVIOUS
<1>5. ASSUME NEW t \in SUBSET s, t # s, t \in B PROVE FALSE
  <2>1. Cardinality(t) < Cardinality(s)
    BY <1>1, <1>5, FS_Subset
  <2>2. Cardinality(s) <= Cardinality(t)
    BY <1>3, <1>4, <1>5
  <2> QED BY <2>1, <2>2, <1>1, <1>5
<1> QED BY <1>5

(* A fold of h over the subsets of K, which takes next[s] out of a set s.  *)
Folds(h, base0, next, K, p) ==
  /\ DOMAIN p = SUBSET K
  /\ \A s \in SUBSET K : p[s] = IF s = {} THEN base0 ELSE h[next[s]][p[s \ {next[s]}]]

(* Two such folds agree where both are. *)
LEMMA FoldsAgree ==
  ASSUME NEW h, NEW base0, NEW next, NEW A, NEW B, NEW p, NEW q,
         Folds(h, base0, next, A, p), Folds(h, base0, next, B, q),
         NEW u, u \subseteq A, u \subseteq B, IsFiniteSet(u),
         \A s \in SUBSET u : s # {} => next[s] \in s
  PROVE  p[u] = q[u]
<1> DEFINE Bad == {s \in SUBSET u : p[s] # q[s]}
<1> SUFFICES ASSUME u \in Bad PROVE FALSE
  OBVIOUS
<1>1. PICK s \in Bad : \A t \in SUBSET s : t # s => t \notin Bad
  <2>1. Bad \subseteq SUBSET u /\ Bad # {}
    OBVIOUS
  <2> HIDE DEF Bad
  <2> QED BY <2>1, SmallestSet
<1>2. s # {}
  BY DEF Folds
<1>3. next[s] \in s
  BY <1>2
<1>4. p[s \ {next[s]}] = q[s \ {next[s]}]
  BY <1>1, <1>3
<1> QED BY <1>2, <1>4 DEF Folds

(* There is one for every finite set. *)
LEMMA FoldExists ==
  ASSUME NEW K, IsFiniteSet(K), NEW V, NEW base0 \in V, NEW h \in [K -> [V -> V]],
         NEW next, \A s \in SUBSET K : s # {} => next[s] \in s
  PROVE  \E p \in [SUBSET K -> V] : Folds(h, base0, next, K, p)
<1> DEFINE Good(s, p) == p \in [SUBSET s -> V] /\ Folds(h, base0, next, s, p)
           Bad == {s \in SUBSET K : ~\E p : Good(s, p)}
<1> SUFFICES ASSUME K \in Bad PROVE FALSE
  OBVIOUS
<1>1. PICK s \in Bad : \A t \in SUBSET s : t # s => t \notin Bad
  <2>1. Bad \subseteq SUBSET K /\ Bad # {}
    OBVIOUS
  <2> HIDE DEF Bad
  <2> QED BY <2>1, SmallestSet
<1>2. s # {}
  <2> SUFFICES ASSUME s = {} PROVE FALSE
    OBVIOUS
  <2> DEFINE z == [t \in SUBSET s |-> base0]
  <2>1. z \in [SUBSET s -> V]
    OBVIOUS
  <2>2. Folds(h, base0, next, s, z)
    BY DEF Folds
  <2> HIDE DEF z
  <2> QED BY <2>1, <2>2, <1>1
<1> DEFINE P == [x \in s |-> CHOOSE p : Good(s \ {x}, p)]
<1>3. \A x \in s : P[x] \in [SUBSET (s \ {x}) -> V] /\ Folds(h, base0, next, s \ {x}, P[x])
  <2> TAKE x \in s
  <2>1. s \ {x} \in SUBSET K /\ s \ {x} \notin Bad
    <3>1. s \ {x} \in SUBSET s /\ s \ {x} # s
      OBVIOUS
    <3>2. s \ {x} \notin Bad
      BY <1>1, <3>1
    <3>3. s \in SUBSET K
      BY <1>1
    <3> QED BY <3>1, <3>2, <3>3
  <2>2. \E p : Good(s \ {x}, p)
    BY <2>1
  <2> HIDE DEF Good
  <2>3. Good(s \ {x}, CHOOSE p : Good(s \ {x}, p))
    BY <2>2
  <2>4. Good(s \ {x}, P[x])
    BY <2>3
  <2> QED BY <2>4 DEF Good
<1> HIDE DEF P
<1>4. IsFiniteSet(s)
  BY FS_Subset
<1>5. \A x, y \in s : \A u \in SUBSET s : x \notin u /\ y \notin u => P[x][u] = P[y][u]
  <2> TAKE x \in s, y \in s
  <2> TAKE u \in SUBSET s
  <2> HAVE x \notin u /\ y \notin u
  <2>1. IsFiniteSet(u) /\ \A v \in SUBSET u : v # {} => next[v] \in v
    BY <1>4, FS_Subset
  <2>2. u \subseteq s \ {x} /\ u \subseteq s \ {y}
    OBVIOUS
  <2>3. Folds(h, base0, next, s \ {x}, P[x]) /\ Folds(h, base0, next, s \ {y}, P[y])
    BY <1>3
  <2> QED BY <2>1, <2>2, <2>3, FoldsAgree
<1> DEFINE n == next[s]
           Left(t) == CHOOSE x \in s : x \notin t
           q == [t \in SUBSET s |-> IF t = s THEN h[n][P[n][s \ {n}]] ELSE P[Left(t)][t]]
<1>6. n \in s
  BY <1>2
<1>7. \A t \in SUBSET s : t # s => Left(t) \in s /\ Left(t) \notin t
  OBVIOUS
<1> HIDE DEF Left, n
<1>8. q \in [SUBSET s -> V]
  <2>1. ASSUME NEW t \in SUBSET s, t # s PROVE P[Left(t)][t] \in V
    <3>1. Left(t) \in s /\ t \in SUBSET (s \ {Left(t)})
      BY <1>7, <2>1
    <3>2. P[Left(t)] \in [SUBSET (s \ {Left(t)}) -> V]
      BY <1>3, <3>1
    <3> QED BY <3>1, <3>2
  <2>2. P[n][s \ {n}] \in V
    <3>1. P[n] \in [SUBSET (s \ {n}) -> V]
      BY <1>3, <1>6
    <3> QED BY <3>1
  <2>3. h[n][P[n][s \ {n}]] \in V
    BY <2>2, <1>6
  <2> QED BY <2>1, <2>3
<1>9. \A x \in s : \A u \in SUBSET s : x \notin u => q[u] = P[x][u]
  <2> TAKE x \in s
  <2> TAKE u \in SUBSET s
  <2> HAVE x \notin u
  <2>1. q[u] = P[Left(u)][u]
    OBVIOUS
  <2>2. Left(u) \in s /\ Left(u) \notin u
    BY <1>7
  <2> QED BY <2>1, <2>2, <1>5
<1>10. q[s] = h[n][q[s \ {n}]]
  <2>1. q[s] = h[n][P[n][s \ {n}]]
    OBVIOUS
  <2> HIDE DEF q
  <2> QED BY <2>1, <1>6, <1>9
<1>11. DOMAIN q = SUBSET s
  OBVIOUS
<1> HIDE DEF q
<1>12. Folds(h, base0, next, s, q)
  <2> SUFFICES ASSUME NEW t \in SUBSET s
               PROVE  q[t] = IF t = {} THEN base0 ELSE h[next[t]][q[t \ {next[t]}]]
    BY <1>11 DEF Folds
  <2>1. CASE t = s
    BY <2>1, <1>2, <1>10 DEF n
  <2>2. CASE t # s
    <3>1. PICK x \in s : x \notin t
      BY <2>2
    <3>2. P[x][t] = IF t = {} THEN base0 ELSE h[next[t]][P[x][t \ {next[t]}]]
      <4>1. Folds(h, base0, next, s \ {x}, P[x])
        BY <1>3
      <4>2. t \in SUBSET (s \ {x})
        BY <3>1
      <4> QED BY <4>1, <4>2 DEF Folds
    <3>3. q[t] = P[x][t] /\ q[t \ {next[t]}] = P[x][t \ {next[t]}]
      BY <1>9, <3>1
    <3> QED BY <3>2, <3>3
  <2> QED BY <2>1, <2>2
<1>13. Good(s, q)
  BY <1>8, <1>12
<1> QED BY <1>1, <1>13

(* A nonempty set of numbers up to n has a greatest one. *)
LEMMA GreatestNumber ==
  ASSUME NEW n \in Nat, NEW T, T \subseteq 1 .. n, T # {}
  PROVE  Max(T) \in T /\ \A y \in T : Max(T) >= y
<1> DEFINE D == {n - i : i \in T}
<1>1. D \subseteq Nat /\ D # {}
  <2>1. \A i \in T : n - i \in Nat
    OBVIOUS
  <2> QED BY <2>1
<1>2. PICK x \in D : \A y \in D : x <= y
  <2> HIDE DEF D
  <2> QED BY <1>1, LeastNumber
<1>3. PICK m \in T : x = n - m
  OBVIOUS
<1>4. \A i \in T : n - m <= n - i
  BY <1>2, <1>3
<1>5. \A i \in T : m >= i
  <2> HIDE DEF D
  <2>1. \A i \in T : i \in 1 .. n
    OBVIOUS
  <2>2. \A i \in 1 .. n : i \in Nat
    OBVIOUS
  <2>3. \A i \in T : i \in Nat
    BY <2>1, <2>2
  <2> QED BY <1>4, <2>3
<1> QED BY <1>3, <1>5 DEF Max

(* The units of rows are at most W, when each row adds to W its own. *)
LEMMA SumBound ==
  ASSUME NEW K, IsFiniteSet(K), \A x \in K : x[2].units \in Int,
         NEW W \in [SUBSET K -> Int], W[{}] = 0,
         \A s \in SUBSET K : \A x \in s : x[2].units + W[s \ {x}] <= W[s]
  PROVE  RowUnits(K) <= W[K] /\ RowUnits(K) \in Int
<1> DEFINE h == [x \in K |-> [v \in Int |-> x[2].units + v]]
           one(s) == CHOOSE x \in s : TRUE
           next == [s \in SUBSET K |-> one(s)]
<1>1. h \in [K -> [Int -> Int]] /\ \A x \in K : \A v \in Int : h[x][v] = x[2].units + v
  OBVIOUS
<1>2. \A s \in SUBSET K : s # {} => next[s] \in s
  OBVIOUS
<1>3. PICK p \in [SUBSET K -> Int] : Folds(h, 0, next, K, p)
  <2> HIDE DEF h, next
  <2> QED BY <1>1, <1>2, FoldExists
<1>4. \A s \in SUBSET K : p[s] = IF s = {} THEN 0 ELSE one(s)[2].units + p[s \ {one(s)}]
  <2> TAKE s \in SUBSET K
  <2>1. p[s] = IF s = {} THEN 0 ELSE h[next[s]][p[s \ {next[s]}]]
    BY <1>3 DEF Folds
  <2>2. p[s \ {next[s]}] \in Int /\ next[s] = one(s)
    OBVIOUS
  <2> HIDE DEF h, next
  <2> QED BY <2>1, <2>2, <1>1, <1>2
<1>5. RowUnits(K) = p[K]
  <2> DEFINE F(it) == [s \in SUBSET K |-> IF s = {} THEN 0 ELSE one(s)[2].units + it[s \ {one(s)}]]
             g == CHOOSE it : it = F(it)
  <2>1. RowUnits(K) = g[K]
    BY DEF RowUnits, MapThenSumSet, MapThenFoldSet
  <2>2. p = F(p)
    BY <1>4
  <2>3. g = F(g)
    <3> HIDE DEF F
    <3> QED BY <2>2
  <2> HIDE DEF g
  <2> DEFINE Bad == {s \in SUBSET K : g[s] # p[s]}
  <2>4. Bad = {}
    <3> SUFFICES ASSUME Bad # {} PROVE FALSE
      OBVIOUS
    <3>1. PICK s \in Bad : \A t \in SUBSET s : t # s => t \notin Bad
      <4>1. Bad \subseteq SUBSET K
        OBVIOUS
      <4> HIDE DEF Bad
      <4> QED BY <4>1, SmallestSet
    <3>2. g[s] = IF s = {} THEN 0 ELSE one(s)[2].units + g[s \ {one(s)}]
      BY <2>3
    <3>3. p[s] = IF s = {} THEN 0 ELSE one(s)[2].units + p[s \ {one(s)}]
      BY <1>4
    <3>4. s # {} => g[s \ {one(s)}] = p[s \ {one(s)}]
      BY <3>1
    <3> QED BY <3>1, <3>2, <3>3, <3>4
  <2> QED BY <2>1, <2>4
<1> HIDE DEF one, h, next
<1> DEFINE Bad == {s \in SUBSET K : ~(p[s] <= W[s])}
<1>6. Bad = {}
  <2> SUFFICES ASSUME Bad # {} PROVE FALSE
    OBVIOUS
  <2>1. PICK s \in Bad : \A t \in SUBSET s : t # s => t \notin Bad
    <3>1. Bad \subseteq SUBSET K
      OBVIOUS
    <3> HIDE DEF Bad
    <3> QED BY <3>1, SmallestSet
  <2>2. s # {}
    <3>1. p[{}] = 0
      BY <1>4
    <3>2. {} \notin Bad
      BY <3>1
    <3> HIDE DEF Bad
    <3> QED BY <3>2
  <2>3. one(s) \in s
    BY <2>2 DEF one
  <2>4. p[s \ {one(s)}] <= W[s \ {one(s)}]
    BY <2>1, <2>3
  <2>5. one(s)[2].units + W[s \ {one(s)}] <= W[s] /\ p[s] = one(s)[2].units + p[s \ {one(s)}]
    BY <1>4, <2>2, <2>3
  <2>6. one(s)[2].units \in Int /\ W[s] \in Int /\ p[s] \in Int /\ W[s \ {one(s)}] \in Int /\ p[s \ {one(s)}] \in Int
    BY <2>3
  <2> QED BY <2>1, <2>4, <2>5, <2>6
<1>7. K \in SUBSET K /\ K \notin Bad
  BY <1>6
<1> QED BY <1>5, <1>7

-----------------------------------------------------------------------------
(* What the stream says.                                                   *)

(* What a run's reader has after a line. *)
LEMMA FeedType ==
  ASSUME NEW T, NEW line \in OutLine, line.kind = "result" => line.totals \in T,
         NEW s \in [id : BOOLEAN, sawResult : BOOLEAN, unread : BOOLEAN, usageAlone : BOOLEAN,
                    totals : T, answered : SUBSET Model]
  PROVE  Feed(s, line) \in [id : BOOLEAN, sawResult : BOOLEAN, unread : BOOLEAN, usageAlone : BOOLEAN,
                            totals : T, answered : SUBSET Model]
<1>1. line.kind \in {"init", "assistant", "result"}
  BY DEF OutLine
<1>2. CASE line.kind = "init"
  BY <1>2 DEF Feed
<1>3. CASE line.kind = "assistant"
  BY <1>3 DEF Feed, Model
<1>4. CASE line.kind = "result"
  <2>1. Feed(s, line) = readResult(s, line)
    BY <1>4 DEF Feed
  <2>2. CASE line.says = "unread"
    BY <2>1, <2>2 DEF readResult
  <2>3. CASE line.says # "unread"
    BY <1>4, <2>1, <2>3 DEF readResult
  <2> QED BY <2>2, <2>3
<1> QED BY <1>1, <1>2, <1>3, <1>4

(* Finish has the totals of one of the run's results, or none. *)
LEMMA FedStated ==
  ASSUME Streams, NEW r \in Run, begun[r] \in Nat
  PROVE  Stated(r, Fed(r).totals)
<1> DEFINE T == {t \in [Model -> Int] : Stated(r, t)}
           V == [id : BOOLEAN, sawResult : BOOLEAN, unread : BOOLEAN, usageAlone : BOOLEAN,
                 totals : T, answered : SUBSET Model]
           lines == out[r]
           n == Len(lines)
           K == 1 .. n
           h == [i \in K |-> [v \in V |-> Feed(v, lines[i])]]
           next == [t \in SUBSET K |-> Max(t)]
<1>1. /\ lines \in Seq(OutLine) /\ sides[r] \in [Model -> Nat]
      /\ \A i \in 1 .. Len(lines) : lines[i].kind = "result" => Stated(r, lines[i].totals)
  BY DEF Streams
<1>2. NewSession \in V
  <2>1. NoTotals \in [Model -> Int] /\ NoTotals["main"] = 0 /\ NoTotals["side"] = 0
    BY DEF NoTotals, Model
  <2>2. 0 <= 2 * begun[r] + sides[r]["main"] /\ 0 <= sides[r]["side"]
    <3>1. sides[r]["main"] \in Nat /\ sides[r]["side"] \in Nat
      BY <1>1 DEF Model
    <3> QED BY <3>1
  <2>3. NoTotals \in T
    BY <2>1, <2>2 DEF Stated
  <2> HIDE DEF T
  <2> QED BY <2>3 DEF NewSession
<1>3. n \in Nat /\ IsFiniteSet(K) /\ DOMAIN lines = K
  <2>1. n \in Nat /\ DOMAIN lines = K
    BY <1>1
  <2> HIDE DEF n
  <2> QED BY <2>1, FS_Interval
<1>4. \A i \in K : lines[i] \in OutLine /\ (lines[i].kind = "result" => lines[i].totals \in T)
  <2> TAKE i \in K
  <2>1. lines[i] \in OutLine
    BY <1>1
  <2>2. lines[i].kind = "result" => Stated(r, lines[i].totals)
    BY <1>1
  <2> QED BY <2>1, <2>2 DEF Stated
<1> HIDE DEF T, lines, n
<1>5. h \in [K -> [V -> V]] /\ \A i \in K : \A v \in V : h[i][v] = Feed(v, lines[i])
  <2>1. \A i \in K : \A v \in V : Feed(v, lines[i]) \in V
    BY <1>4, FeedType
  <2> HIDE DEF V, K
  <2> QED BY <2>1
<1>6. \A t \in SUBSET K : t # {} => Max(t) \in t
  BY <1>3, GreatestNumber
<1>7. \A t \in SUBSET K : t # {} => next[t] \in t
  BY <1>6
<1>8. PICK p \in [SUBSET K -> V] : Folds(h, NewSession, next, K, p)
  <2> HIDE DEF K, h, next, V
  <2> QED BY <1>2, <1>3, <1>5, <1>7, FoldExists
<1> HIDE DEF h, V
<1>9. \A t \in SUBSET K : p[t] = IF t = {} THEN NewSession ELSE Feed(p[t \ {Max(t)}], lines[Max(t)])
  <2> TAKE t \in SUBSET K
  <2>1. p[t] = IF t = {} THEN NewSession ELSE h[Max(t)][p[t \ {Max(t)}]]
    BY <1>8 DEF Folds
  <2>2. p[t \ {Max(t)}] \in V
    OBVIOUS
  <2> QED BY <2>1, <2>2, <1>5, <1>6
<1>10. Fed(r) = p[K]
  <2> DEFINE F(it) == [t \in SUBSET K |-> IF t = {} THEN NewSession ELSE Feed(it[t \ {Max(t)}], lines[Max(t)])]
             g == CHOOSE it : it = F(it)
  <2>1. Fed(r) = g[K]
    BY <1>3 DEF Fed, FoldLeft, MapThenFoldSet, lines
  <2>2. p = F(p)
    BY <1>9
  <2>3. g = F(g)
    <3> HIDE DEF F
    <3> QED BY <2>2
  <2> HIDE DEF g
  <2> DEFINE Bad == {t \in SUBSET K : g[t] # p[t]}
  <2>4. Bad = {}
    <3> SUFFICES ASSUME Bad # {} PROVE FALSE
      OBVIOUS
    <3>1. PICK t \in Bad : \A u \in SUBSET t : u # t => u \notin Bad
      <4>1. Bad \subseteq SUBSET K
        OBVIOUS
      <4> HIDE DEF Bad, K
      <4> QED BY <1>3, <4>1, SmallestSet
    <3>2. g[t] = IF t = {} THEN NewSession ELSE Feed(g[t \ {Max(t)}], lines[Max(t)])
      BY <2>3
    <3>3. p[t] = IF t = {} THEN NewSession ELSE Feed(p[t \ {Max(t)}], lines[Max(t)])
      BY <1>9
    <3>4. t # {} => g[t \ {Max(t)}] = p[t \ {Max(t)}]
      BY <3>1, <1>6
    <3> QED BY <3>2, <3>3, <3>4
  <2> QED BY <2>1, <2>4
<1>11. p[K] \in V
  <2> HIDE DEF K
  <2> QED OBVIOUS
<1> QED BY <1>10, <1>11 DEF V, T

-----------------------------------------------------------------------------
(* Files that grow.                                                        *)

LEMMA FileFacts ==
  ASSUME FilesOK, NEW s \in Session, NEW f \in Files
  PROVE  /\ file[s][f] \in Seq(LineType) /\ Len(file[s][f]) \in Nat
         /\ \A i \in 1 .. Len(file[s][f]) : file[s][f][i] \in LineType /\ file[s][f][i].id[1] \in Own(s)
<1> DEFINE lines == file[s][f]
<1>1. lines \in Seq(LineType) /\ \A i \in 1 .. Len(lines) : lines[i].id[1] \in Own(s)
  BY DEF FilesOK, Written
<1> HIDE DEF lines
<1>2. Len(lines) \in Nat /\ \A i \in 1 .. Len(lines) : lines[i] \in LineType
  BY <1>1
<1> QED BY <1>1, <1>2 DEF lines

(* No request is forgotten. *)
Grows == begun' \in [Session -> Nat] /\ \A s \in Session : begun[s] <= begun'[s]

(* A file is what it was, or has one line more. *)
Longer(s, f, line) == file'[s][f] = Append(file[s][f], line)

LEMMA MainIdsGrow ==
  ASSUME FilesOK, NEW s \in Session,
         file'[s]["main"] = file[s]["main"] \/ \E line \in LineType : Longer(s, "main", line)
  PROVE  MainIds(s) \subseteq MainIds(s)'
<1> DEFINE old == file[s]["main"]
           new == file'[s]["main"]
<1>1. old \in Seq(LineType) /\ "main" \in Files
  BY FileFacts DEF Files
<1>2. DOMAIN old \subseteq DOMAIN new /\ \A i \in DOMAIN old : new[i] = old[i]
  <2>1. CASE new = old
    BY <2>1
  <2>2. CASE \E line \in LineType : Longer(s, "main", line)
    <3>1. PICK line \in LineType : new = Append(old, line)
      BY <2>2 DEF Longer
    <3> HIDE DEF new, old
    <3> QED BY <1>1, <3>1
  <2> QED BY <2>1, <2>2
<1> QED BY <1>2 DEF MainIds

(* What was sound stays so. *)
LEMMA SoundLater ==
  ASSUME Types, Grows, NEW s \in Session, NEW line \in LineType, line.id[1] \in Own(s), Sound(s, line),
         \A t \in Session : MainIds(t) \subseteq MainIds(t)'
  PROVE  Sound(s, line)'
<1> SUFFICES ASSUME line.kind = "usage"
             PROVE  /\ line.units \in {1, 2} /\ line.id[2] \in 1 .. begun'[line.id[1]]
                    /\ line.units = 1 => line.id[1] = s
                    /\ line.id[1] # s => line.id \in MainIds(Starter[s])'
  BY DEF Sound
<1>1. /\ line.units \in {1, 2} /\ line.id[2] \in 1 .. begun[line.id[1]]
      /\ line.units = 1 => line.id[1] = s
      /\ line.id[1] # s => line.id \in MainIds(Starter[s])
  BY DEF Sound
<1>2. line.id[1] \in Session
  BY DEF LineType
<1>3. begun[line.id[1]] \in Nat /\ begun'[line.id[1]] \in Nat /\ begun[line.id[1]] <= begun'[line.id[1]]
  BY <1>2 DEF Grows, Types
<1>4. line.id[2] \in 1 .. begun'[line.id[1]]
  BY <1>1, <1>3
<1>5. line.id[1] # s => Starter[s] = line.id[1]
  BY OwnFacts DEF Own
<1> QED BY <1>1, <1>2, <1>4, <1>5

(* A line added to a run's main file goes on from its first ones. *)
GoesOn(s, line) ==
  /\ Len(file[s]["main"]) = 2 /\ line.kind = "usage" => line.units = 2
  /\ Len(file[s]["main"]) = 1 /\ proc'[s] = "live" => line.kind = "usage" /\ line.units = 1

Adds ==
  \A s \in Session, f \in Files :
    \/ file'[s][f] = file[s][f]
    \/ \E line \in LineType : /\ Longer(s, f, line) /\ Sound(s, line)'
                              /\ s \in Run /\ f = "main" => GoesOn(s, line)

(* No agent comes to life but in a new file. *)
NoneRises == \A r \in Run : proc'[r] = "live" => proc[r] = "live" \/ file[r]["main"] = <<>>

LEMMA LongerFile ==
  ASSUME NEW old \in Seq(LineType), NEW line \in LineType
  PROVE  /\ Len(Append(old, line)) = Len(old) + 1 /\ Len(old) \in Nat
         /\ \A i \in 1 .. Len(Append(old, line)) :
              Append(old, line)[i] = IF i = Len(old) + 1 THEN line ELSE old[i]
OBVIOUS

LEMMA AddsKeeps ==
  ASSUME Types, FilesOK, Grows, Adds, SoundFiles
  PROVE  SoundFiles' /\ \A s \in Session : MainIds(s) \subseteq MainIds(s)'
<1>1. \A s \in Session : MainIds(s) \subseteq MainIds(s)'
  <2> TAKE s \in Session
  <2>1. "main" \in Files
    BY DEF Files
  <2>2. file'[s]["main"] = file[s]["main"] \/ \E line \in LineType : Longer(s, "main", line)
    BY <2>1 DEF Adds
  <2> QED BY <2>2, MainIdsGrow
<1>2. ASSUME NEW s \in Session, NEW f \in Files, NEW i \in 1 .. Len(file'[s][f]),
             NEW x, x = file'[s][f][i]
      PROVE  Sound(s, x)'
  <2> DEFINE old == file[s][f]
             new == file'[s][f]
  <2>1. /\ old \in Seq(LineType) /\ Len(old) \in Nat
        /\ \A j \in 1 .. Len(old) : old[j] \in LineType /\ old[j].id[1] \in Own(s) /\ Sound(s, old[j])
    BY FileFacts DEF SoundFiles
  <2>2. ASSUME NEW j \in 1 .. Len(old), x = old[j] PROVE Sound(s, x)'
    <3>1. x \in LineType /\ x.id[1] \in Own(s) /\ Sound(s, x)
      BY <2>1, <2>2
    <3> QED BY <1>1, <3>1, SoundLater
  <2>3. CASE new = old
    <3>1. i \in 1 .. Len(old) /\ x = old[i]
      BY <1>2, <2>3
    <3> QED BY <2>2, <3>1
  <2>4. CASE \E line \in LineType : Longer(s, f, line) /\ Sound(s, line)'
    <3>1. PICK line \in LineType : new = Append(old, line) /\ Sound(s, line)'
      BY <2>4 DEF Longer
    <3>2. x = Append(old, line)[i] /\ i \in 1 .. Len(Append(old, line))
      BY <1>2, <3>1
    <3> HIDE DEF old, new
    <3>3. x = (IF i = Len(old) + 1 THEN line ELSE old[i]) /\ i \in 1 .. Len(old) + 1
      BY <2>1, <3>2, LongerFile
    <3>4. CASE i = Len(old) + 1
      BY <3>1, <3>3, <3>4
    <3>5. CASE i # Len(old) + 1
      <4>1. i \in 1 .. Len(old) /\ x = old[i]
        BY <2>1, <3>3, <3>5
      <4> QED BY <2>2, <4>1
    <3> QED BY <3>4, <3>5
  <2> QED BY <2>3, <2>4 DEF Adds
<1>3. ASSUME NEW s \in Session, NEW f \in Files, NEW i \in 1 .. Len(file'[s][f])
      PROVE  Sound(s, file[s][f][i])'
  BY <1>2 DEF Sound
<1> QED BY <1>1, <1>3 DEF SoundFiles

LEMMA AddsThird ==
  ASSUME Types, FilesOK, Adds, NoneRises, NEW r \in Run, Third(r)
  PROVE  Third(r)'
<1> DEFINE old == file[r]["main"]
           new == file'[r]["main"]
<1>1. /\ old \in Seq(LineType) /\ Len(old) \in Nat /\ "main" \in Files /\ r \in Session
      /\ old # <<>> => Len(old) > 0
  BY FileFacts DEF Files, Session
<1>2. /\ Len(old) > 2 /\ old[3].kind = "usage" => old[3].units = 2
      /\ Len(old) = 2 /\ proc[r] = "live" => old[2].kind = "usage" /\ old[2].units = 1
  BY DEF Third
<1>3. proc'[r] = "live" => proc[r] = "live" \/ old = <<>>
  BY DEF NoneRises
<1>4. CASE new = old
  <2>1. /\ Len(new) > 2 /\ new[3].kind = "usage" => new[3].units = 2
        /\ Len(new) = 2 /\ proc'[r] = "live" => new[2].kind = "usage" /\ new[2].units = 1
    <3>1. old = <<>> => Len(old) = 0
      OBVIOUS
    <3> HIDE DEF old, new
    <3> QED BY <1>1, <1>2, <1>3, <1>4, <3>1
  <2> QED BY <2>1 DEF Third
<1>5. CASE \E line \in LineType : Longer(r, "main", line) /\ GoesOn(r, line)
  <2>1. PICK line \in LineType : /\ new = Append(old, line)
                                 /\ Len(old) = 2 /\ line.kind = "usage" => line.units = 2
                                 /\ Len(old) = 1 /\ proc'[r] = "live" => line.kind = "usage" /\ line.units = 1
    BY <1>5 DEF Longer, GoesOn
  <2> HIDE DEF old
  <2>2. /\ Len(Append(old, line)) = Len(old) + 1
        /\ \A i \in 1 .. Len(Append(old, line)) :
              Append(old, line)[i] = IF i = Len(old) + 1 THEN line ELSE old[i]
    BY <1>1, LongerFile
  <2>3. /\ Len(new) = Len(old) + 1
        /\ \A i \in 1 .. Len(old) + 1 : new[i] = IF i = Len(old) + 1 THEN line ELSE old[i]
    BY <2>1, <2>2
  <2> HIDE DEF new
  <2> DEFINE n == Len(old)
  <2>6. n \in Nat /\ Len(new) = n + 1
    BY <1>1, <2>3
  <2> HIDE DEF n
  <2>7. (Len(new) > 2 <=> n = 2 \/ n > 2) /\ (Len(new) = 2 <=> n = 1)
    BY <2>6
  <2>4. Len(new) > 2 /\ new[3].kind = "usage" => new[3].units = 2
    <3>1. CASE Len(old) = 2
      BY <1>1, <2>1, <2>3, <3>1
    <3>2. CASE Len(old) > 2
      <4>1. new[3] = old[3]
        BY <1>1, <2>3, <3>2
      <4> QED BY <1>2, <3>2, <4>1
    <3> QED BY <2>7, <3>1, <3>2 DEF n
  <2>5. Len(new) = 2 /\ proc'[r] = "live" => new[2].kind = "usage" /\ new[2].units = 1
    <3> HAVE Len(new) = 2 /\ proc'[r] = "live"
    <3>1. Len(old) = 1
      BY <2>7 DEF n
    <3>2. new[2] = line
      BY <2>3, <3>1
    <3> QED BY <2>1, <3>1, <3>2
  <2> QED BY <2>4, <2>5 DEF Third, new
<1> QED BY <1>1, <1>4, <1>5 DEF Adds

(* A line that a process writes. *)
LEMMA KeepAdds ==
  ASSUME FilesOK, NEW s \in Session, NEW f \in Files, NEW line \in LineType, Keep(s, f, line),
         Sound(s, line)', s \in Run /\ f = "main" /\ Opened(s) => GoesOn(s, line)
  PROVE  Adds
<1>1. file \in [Session -> [Files -> Seq(LineType)]] /\ "main" \in Files
  BY DEF FilesOK, Files
<1>2. \A t \in Session, g \in Files :
        file'[t][g] = IF t = s /\ g = f
                      THEN IF file[s]["main"] = <<>> THEN file[s][f] ELSE Append(file[s][f], line)
                      ELSE file[t][g]
  BY <1>1 DEF Keep
<1>3. ASSUME NEW t \in Session, NEW g \in Files, file'[t][g] # file[t][g]
      PROVE  Longer(t, g, line) /\ t = s /\ g = f /\ Opened(s)
  BY <1>2, <1>3 DEF Longer, Opened
<1> QED BY <1>3 DEF Adds

LEMMA KeepMain ==
  ASSUME FilesOK, NEW s \in Session, NEW f \in Files, NEW line, Keep(s, f, line)
  PROVE  /\ \A t \in Session : Opened(t)' => Opened(t)
         /\ \A t \in Session : t # s => file'[t]["main"] = file[t]["main"]
<1>1. file \in [Session -> [Files -> Seq(LineType)]] /\ "main" \in Files
  BY DEF FilesOK, Files
<1>2. \A t \in Session :
        file'[t]["main"] = IF t = s /\ f = "main"
                      THEN IF file[s]["main"] = <<>> THEN file[s][f] ELSE Append(file[s][f], line)
                      ELSE file[t]["main"]
  BY <1>1 DEF Keep
<1> QED BY <1>2 DEF Opened

(* The lines that killed processes cut. *)
LEMMA DieAdds ==
  ASSUME Types, FilesOK, now' = now, NEW D \in SUBSET Session, NEW cut,
         \A s \in D : cut[s] \in Cuts(s), Die(D, cut)
  PROVE  /\ Grows /\ Adds /\ NoneRises
         /\ \A s \in Session : (Opened(s)' => Opened(s)) /\ (s \notin D => file'[s]["main"] = file[s]["main"])
<1>1. /\ \A s \in Session : Opened(s)' <=> Opened(s)
      /\ begun' \in [Session -> Nat]
  BY DieWrites DEF Writes
<1>2. begun \in [Session -> Nat] /\ setup.files \subseteq Files /\ "main" \in Files
  BY ClaudeSessionAssumption DEF Types, SetupType, Files
<1>3. \A s \in D : cut[s] \subseteq Files
  BY <1>2 DEF Cuts
<1>4. \A s \in D : Cardinality(cut[s] \ OpenFiles(s)) \in Nat
  <2> TAKE s \in D
  <2>1. IsFiniteSet(Files)
    <3>1. IsFiniteSet({"main"}) /\ IsFiniteSet({"sub"}) /\ Files = {"main"} \cup {"sub"}
      BY FS_Singleton DEF Files
    <3> QED BY <3>1, FS_Union
  <2>2. cut[s] \ OpenFiles(s) \subseteq Files
    BY <1>3
  <2>3. IsFiniteSet(cut[s] \ OpenFiles(s))
    BY <2>1, <2>2, FS_Subset
  <2> QED BY <2>3, FS_CardinalityType
<1>5. Grows
  <2>1. begun' = [s \in Session |-> IF s \in D THEN begun[s] + Cardinality(cut[s] \ OpenFiles(s)) ELSE begun[s]]
    BY DEF Die
  <2>2. \A s \in Session : begun[s] <= begun'[s]
    BY <1>2, <1>4, <2>1
  <2> QED BY <1>1, <2>2 DEF Grows
<1>6. proc' = [s \in Session |-> IF s \in D THEN "dead" ELSE proc[s]]
  BY DEF Die
<1>7. NoneRises
  BY <1>6 DEF NoneRises, Session
<1>8. file' = [s \in Session |-> [f \in Files |->
                 IF s \in D /\ f \in cut[s] THEN Append(file[s][f], Line("cut", s, 0, 0)) ELSE file[s][f]]]
  BY DEF Die
<1>9. \A s \in Session, f \in Files :
        file'[s][f] = IF s \in D /\ f \in cut[s] THEN Append(file[s][f], Line("cut", s, 0, 0)) ELSE file[s][f]
  BY <1>8
<1>10. \A s \in Session : s \notin D => file'[s]["main"] = file[s]["main"]
  BY <1>2, <1>9
<1>11. ASSUME NEW s \in Session, NEW f \in Files, file'[s][f] # file[s][f]
       PROVE  \E line \in LineType : /\ Longer(s, f, line) /\ Sound(s, line)'
                                     /\ s \in Run /\ f = "main" => GoesOn(s, line)
  <2>1. PICK line : line = Line("cut", s, 0, 0)
    OBVIOUS
  <2>2. s \in D /\ file'[s][f] = Append(file[s][f], line)
    BY <1>9, <1>11, <2>1
  <2>3. line \in LineType /\ line.kind = "cut"
    BY <2>1, LineFacts
  <2>4. Sound(s, line)'
    BY <2>3 DEF Sound
  <2>5. proc'[s] = "dead"
    BY <1>6, <2>2
  <2>6. GoesOn(s, line)
    BY <2>3, <2>5 DEF GoesOn
  <2> QED BY <2>2, <2>3, <2>4, <2>6 DEF Longer
<1>12. Adds
  BY <1>11 DEF Adds
<1> QED BY <1>1, <1>5, <1>7, <1>10, <1>12

(* A session's first line. *)
LEMMA OpenAdds ==
  ASSUME Types, FilesOK, now' = now, NEW s \in Session, file[s]["main"] = <<>>,
         file' = [file EXCEPT ![s]["main"] = Opening(s)]
  PROVE  Adds /\ \A t \in Session : t # s => file'[t]["main"] = file[t]["main"]
<1>1. file \in [Session -> [Files -> Seq(LineType)]] /\ "main" \in Files
  BY DEF FilesOK, Files
<1>2. PICK line : line = Line("user", s, 0, 0)
  OBVIOUS
<1>3. line \in LineType /\ line.kind = "user"
  BY <1>2, LineFacts
<1>4. file'[s]["main"] \in {<<>>, <<line>>} /\ \A t \in Session, f \in Files : t # s \/ f # "main" => file'[t][f] = file[t][f]
  BY <1>1, <1>2 DEF Opening
<1>5. Append(<<>>, line) = <<line>> /\ Len(<<>>) = 0
  OBVIOUS
<1>6. Sound(s, line)' /\ GoesOn(s, line)
  BY <1>3, <1>5 DEF Sound, GoesOn
<1>7. ASSUME NEW t \in Session, NEW f \in Files, file'[t][f] # file[t][f]
      PROVE  t = s /\ f = "main" /\ Longer(t, f, line)
  BY <1>4, <1>5, <1>7 DEF Longer
<1>8. Adds
  BY <1>3, <1>6, <1>7 DEF Adds
<1> QED BY <1>1, <1>4, <1>8

-----------------------------------------------------------------------------
(* What stays of streams, processes and rows.                              *)

SidesGrow == sides' \in [Run -> [Model -> Nat]] /\ \A r \in Run, m \in Model : sides[r][m] <= sides'[r][m]

LEMMA StatedLater ==
  ASSUME Types, Grows, sides \in [Run -> [Model -> Nat]], SidesGrow, NEW r \in Run, NEW t, Stated(r, t)
  PROVE  Stated(r, t)'
<1>1. "main" \in Model /\ "side" \in Model /\ r \in Session
  BY DEF Model, Session
<1>2. t \in [Model -> Int] /\ t["main"] <= 2 * begun[r] + sides[r]["main"] /\ t["side"] <= sides[r]["side"]
  BY DEF Stated
<1>3. /\ t["main"] \in Int /\ t["side"] \in Int /\ begun[r] \in Nat /\ begun'[r] \in Nat /\ begun[r] <= begun'[r]
  BY <1>1, <1>2 DEF Types, Grows
<1>4. /\ sides[r]["main"] \in Nat /\ sides'[r]["main"] \in Nat /\ sides[r]["main"] <= sides'[r]["main"]
      /\ sides[r]["side"] \in Nat /\ sides'[r]["side"] \in Nat /\ sides[r]["side"] <= sides'[r]["side"]
  BY <1>1 DEF SidesGrow
<1>5. t["main"] <= 2 * begun'[r] + sides'[r]["main"] /\ t["side"] <= sides'[r]["side"]
  BY <1>2, <1>3, <1>4
<1> QED BY <1>2, <1>5 DEF Stated

(* A stream is what it was, or says one thing more. *)
SaysMore ==
  \A r \in Run : \/ out'[r] = out[r]
                 \/ \E line \in OutLine : /\ out'[r] = Append(out[r], line)
                                          /\ line.kind = "result" => Stated(r, line.totals)'

LEMMA LongerStream ==
  ASSUME NEW old \in Seq(OutLine), NEW line \in OutLine
  PROVE  /\ Append(old, line) \in Seq(OutLine) /\ Len(Append(old, line)) = Len(old) + 1 /\ Len(old) \in Nat
         /\ \A i \in 1 .. Len(Append(old, line)) :
              Append(old, line)[i] = IF i = Len(old) + 1 THEN line ELSE old[i]
<1> HIDE DEF OutLine
<1> QED OBVIOUS

LEMMA StreamsMore ==
  ASSUME Types, Grows, SidesGrow, Streams, SaysMore, out' = [r \in Run |-> out'[r]]
  PROVE  Streams'
<1>1. /\ sides \in [Run -> [Model -> Nat]]
      /\ \A r \in Run : out[r] \in Seq(OutLine)
      /\ \A r \in Run : \A i \in 1 .. Len(out[r]) : out[r][i].kind = "result" => Stated(r, out[r][i].totals)
  BY DEF Streams
<1>2. ASSUME NEW r \in Run
      PROVE  /\ out'[r] \in Seq(OutLine)
             /\ \A i \in 1 .. Len(out'[r]) : out'[r][i].kind = "result" =>
                  \A t : t = out'[r][i].totals => Stated(r, t)'
  <2> DEFINE old == out[r]
             new == out'[r]
  <2>1. /\ old \in Seq(OutLine)
        /\ \A i \in 1 .. Len(old) : old[i].kind = "result" => \A t : t = old[i].totals => Stated(r, t)'
    BY <1>1, StatedLater
  <2>2. CASE new = old
    <3> HIDE DEF old, new
    <3>1. /\ new \in Seq(OutLine)
          /\ \A i \in 1 .. Len(new) : new[i].kind = "result" => \A t : t = new[i].totals => Stated(r, t)'
      BY <2>1, <2>2
    <3> QED BY <3>1 DEF new
  <2>3. CASE new # old
    <3>1. PICK line \in OutLine : new = Append(old, line) /\ (line.kind = "result" => Stated(r, line.totals)')
      BY <2>3 DEF SaysMore
    <3> HIDE DEF old
    <3>2. /\ Append(old, line) \in Seq(OutLine) /\ Len(Append(old, line)) = Len(old) + 1 /\ Len(old) \in Nat
          /\ \A i \in 1 .. Len(Append(old, line)) :
              Append(old, line)[i] = IF i = Len(old) + 1 THEN line ELSE old[i]
      BY <2>1, LongerStream
    <3> HIDE DEF new
    <3>3. /\ new \in Seq(OutLine) /\ Len(new) = Len(old) + 1
          /\ \A i \in 1 .. Len(new) : new[i] = IF i = Len(old) + 1 THEN line ELSE old[i]
      BY <3>1, <3>2
    <3>4. ASSUME NEW i \in 1 .. Len(new), new[i].kind = "result", NEW t, t = new[i].totals PROVE Stated(r, t)'
      <4>1. CASE i = Len(old) + 1
        BY <3>1, <3>3, <3>4, <4>1
      <4>2. CASE i # Len(old) + 1
        <5>1. i \in 1 .. Len(old) /\ new[i] = old[i]
          BY <3>2, <3>3, <4>2
        <5> QED BY <2>1, <3>4, <5>1
      <4> QED BY <4>1, <4>2
    <3>5. \A i \in 1 .. Len(new) : new[i].kind = "result" => \A t : t = new[i].totals => Stated(r, t)'
      BY <3>4
    <3> QED BY <3>3, <3>5 DEF new
  <2> QED BY <2>2, <2>3
<1>3. \A r \in Run : \A i \in 1 .. Len(out'[r]) : out'[r][i].kind = "result" => Stated(r, out[r][i].totals)'
  <2> SUFFICES ASSUME NEW r \in Run, NEW i \in 1 .. Len(out'[r]), out'[r][i].kind = "result"
               PROVE  Stated(r, out[r][i].totals)'
    OBVIOUS
  <2>1. \A t : t = out'[r][i].totals => Stated(r, t)'
    BY <1>2
  <2> QED BY <2>1 DEF Stated
<1>4. out' \in [Run -> Seq(OutLine)]
  BY <1>2
<1> QED BY <1>3, <1>4 DEF Streams, SidesGrow

(* A session is live or dead only once it began. *)
LEMMA LivesStay ==
  ASSUME Lives, \A s \in Session : Opened(s)' => Opened(s), proc' = proc,
         \A r \in Run : /\ run'[r] \in {"idle", "claimed"} => run[r] \in {"idle", "claimed"}
                        /\ run'[r] \in {"exited", "nested", "recorded"} => run[r] \in {"exited", "nested", "recorded"}
  PROVE  Lives'
BY DEF Lives, Opened

LEMMA SentLater ==
  ASSUME Types, Grows, NEW id, NEW n, Sent(id, n)
  PROVE  Sent(id, n)'
<1>1. id \in Session \X Nat /\ id[2] \in 1 .. begun[id[1]] /\ n \in {1, 2}
  BY DEF Sent
<1>2. begun[id[1]] \in Nat /\ begun'[id[1]] \in Nat /\ begun[id[1]] <= begun'[id[1]]
  BY <1>1 DEF Types, Grows
<1>3. id[2] \in 1 .. begun'[id[1]]
  BY <1>1, <1>2
<1> QED BY <1>1, <1>3 DEF Sent

(* What was made stays so. *)
LEMMA MadeLater ==
  ASSUME Types, Grows, SidesGrow, sides \in [Run -> [Model -> Nat]], NEW r \in Run,
         NEW ids, NEW u, NEW ms, NEW t, NEW made, made = report'[r], MadeOf(r, made, ids, u, ms, t)
  PROVE  Booked(r)'
<1>1. /\ report'[r].rows = {Row(id, u[id]) : id \in ids} \cup {Row(<<r, m>>, t[m]) : m \in ms}
      /\ ids \subseteq report'[r].counted
      /\ ms \subseteq Model /\ \A m \in ms : t[m] > 0
      /\ "main" \in ms => \A id \in ids : id[1] # r
  BY DEF MadeOf
<1>2. \A id \in ids : Sent(id, u[id])'
  BY SentLater DEF MadeOf
<1>3. Stated(r, t)'
  BY StatedLater DEF MadeOf
<1>4. MadeOf(r, report[r], ids, u, ms, t)'
  BY <1>1, <1>2, <1>3 DEF MadeOf
<1> QED BY <1>4 DEF Booked

(* A report that is left alone stays what it was. *)
LEMMA BookStays ==
  ASSUME Types, Grows, SidesGrow, sides \in [Run -> [Model -> Nat]], NEW r \in Run,
         report'[r] = report[r], todo'[r] = todo[r], file'[r]["main"] = file[r]["main"],
         Booked(r), Knows(r)
  PROVE  Booked(r)' /\ Knows(r)'
<1>1. PICK made : made = report[r]
  OBVIOUS
<1>2. PICK ids, u, ms, t : MadeOf(r, made, ids, u, ms, t)
  BY <1>1 DEF Booked
<1>3. Booked(r)'
  BY <1>1, <1>2, MadeLater
<1>4. Knows(r)'
  BY DEF Knows, MainIds
<1> QED BY <1>3, <1>4

LEMMA BooksStay ==
  ASSUME Types, Streams, Books, Grows, SidesGrow, report' = report, todo' = todo,
         \A r \in Run : run'[r] \in {"nested", "recorded"} =>
           run[r] \in {"nested", "recorded"} /\ file'[r]["main"] = file[r]["main"]
  PROVE  Books'
<1>1. ASSUME NEW r \in Run, run'[r] \in {"nested", "recorded"}
      PROVE  Booked(r)' /\ Knows(r)'
  <2>1. Booked(r) /\ Knows(r)
    BY <1>1 DEF Books
  <2>2. file'[r]["main"] = file[r]["main"] /\ report'[r] = report[r] /\ todo'[r] = todo[r]
    BY <1>1
  <2>3. sides \in [Run -> [Model -> Nat]]
    BY DEF Streams
  <2> QED BY <2>1, <2>2, <2>3, BookStays
<1>2. \A r \in Run : {"rows", "counted"} \subseteq DOMAIN report'[r]
  BY DEF Books
<1> QED BY <1>1, <1>2 DEF Books

-----------------------------------------------------------------------------
(* Steps that make no rows.                                                *)

(* The parts of a step that neither reads nor writes a report. *)
LEMMA CountsStay ==
  ASSUME Types, FilesOK, Counts, Grows, SidesGrow, Adds, NoneRises, Lives', Streams',
         report' = report, todo' = todo,
         \A r \in Run : run'[r] \in {"nested", "recorded"} =>
           run[r] \in {"nested", "recorded"} /\ file'[r]["main"] = file[r]["main"]
  PROVE  Counts'
<1>1. SoundFiles'
  BY AddsKeeps DEF Counts
<1>2. \A r \in Run : Third(r)'
  BY AddsThird DEF Counts
<1>3. Books'
  BY BooksStay DEF Counts
<1> QED BY <1>1, <1>2, <1>3 DEF Counts

(* A step that writes no file and no stream. *)
LEMMA NothingWritten ==
  ASSUME Types, FilesOK, Counts, begun' = begun, sides' = sides, file' = file, proc' = proc, out' = out
  PROVE  /\ Grows /\ SidesGrow /\ Adds /\ NoneRises /\ Streams'
         /\ SoundFiles' /\ \A r \in Run : Third(r)'
<1>1. begun \in [Session -> Nat] /\ sides \in [Run -> [Model -> Nat]]
  BY DEF Types, Counts, Streams
<1>2. Grows
  BY <1>1 DEF Grows
<1>3. SidesGrow
  <2>1. \A r \in Run, m \in Model : sides[r][m] \in Nat
    BY <1>1
  <2> QED BY <1>1, <2>1 DEF SidesGrow
<1>4. Adds /\ NoneRises
  BY DEF Adds, NoneRises
<1>5. Streams'
  BY DEF Streams, Counts, Stated
<1>6. SoundFiles'
  BY <1>2, <1>4, AddsKeeps DEF Counts
<1>7. \A r \in Run : Third(r)'
  BY <1>4, AddsThird DEF Counts
<1> QED BY <1>2, <1>3, <1>4, <1>5, <1>6, <1>7

LEMMA TickCounts ==
  ASSUME Inv, Counts, Tick \/ UNCHANGED vars
  PROVE  Counts'
<1>1. /\ proc' = proc /\ begun' = begun /\ file' = file /\ sides' = sides /\ out' = out
      /\ run' = run /\ report' = report /\ todo' = todo
  BY DEF Tick, agentVars, runVars, vars
<1>2. Types /\ FilesOK /\ Lives
  BY DEF Inv, Counts
<1>3. Lives'
  BY <1>1, <1>2 DEF Lives
<1> QED BY <1>1, <1>2, <1>3, NothingWritten, CountsStay

(* A run's own process is dead when its rows are made. *)
LEMMA DeadThen ==
  ASSUME Counts, NEW r \in Run, run[r] \in {"exited", "nested", "recorded"}
  PROVE  proc[r] = "dead"
BY DEF Counts, Lives

LEMMA StreamCounts ==
  ASSUME Inv, Counts, NEW r \in Run, EmitInit(r) \/ EmitResult(r) \/ \E m \in Model : SideRequest(r, m)
  PROVE  Counts'
<1>1. /\ proc' = proc /\ begun' = begun /\ file' = file /\ run' = run /\ report' = report /\ todo' = todo
  BY DEF EmitInit, EmitResult, SideRequest, runVars
<1>2. /\ Types /\ FilesOK /\ Lives /\ Streams /\ r \in Session
      /\ begun \in [Session -> Nat] /\ sides \in [Run -> [Model -> Nat]] /\ out \in [Run -> Seq(OutLine)]
  BY DEF Inv, Counts, Types, Streams, Session
<1>3. Lives'
  BY <1>1, <1>2 DEF Lives
<1>4. Grows
  BY <1>1, <1>2 DEF Grows
<1>5. Adds /\ NoneRises
  BY <1>1 DEF Adds, NoneRises
<1>6. SidesGrow
  <2>1. \A q \in Run, m \in Model : sides[q][m] \in Nat
    BY <1>2
  <2>2. CASE sides' = sides
    BY <1>2, <2>1, <2>2 DEF SidesGrow
  <2>3. CASE \E m \in Model : sides' = [sides EXCEPT ![r][m] = @ + 1]
    <3>1. PICK m \in Model : sides' = [sides EXCEPT ![r][m] = @ + 1]
      BY <2>3
    <3>2. sides' \in [Run -> [Model -> Nat]]
      BY <1>2, <2>1, <3>1
    <3>3. \A q \in Run, k \in Model : sides'[q][k] = IF q = r /\ k = m THEN sides[q][k] + 1 ELSE sides[q][k]
      BY <1>2, <3>1
    <3> QED BY <2>1, <3>2, <3>3 DEF SidesGrow
  <2> QED BY <2>2, <2>3 DEF EmitInit, EmitResult, SideRequest
<1>7. \E line \in OutLine : /\ out'[r] = out[r] \/ out'[r] = Append(out[r], line)
                            /\ line.kind = "result" => Stated(r, line.totals)'
  <2>1. CASE EmitInit(r)
    <3>1. PICK line : line = [kind |-> "init"]
      OBVIOUS
    <3>2. out'[r] = <<line>> /\ out[r] = <<>>
      BY <1>2, <2>1, <3>1 DEF EmitInit
    <3>3. out'[r] = Append(out[r], line)
      BY <3>2
    <3>4. line \in OutLine /\ line.kind = "init"
      BY <3>1 DEF OutLine
    <3> QED BY <3>3, <3>4
  <2>2. CASE EmitResult(r)
    <3> DEFINE all == [sides[r] EXCEPT !["main"] = @ + 2 * (begun[r] - Cardinality(OpenFiles(r)))]
    <3>1. PICK says \in {"totals", "unread", "usageAlone", "none"} :
            out' = [out EXCEPT ![r] = Append(@, [kind |-> "result", says |-> says,
                                                 totals |-> IF says = "totals" THEN all ELSE NoTotals])]
      BY <2>2 DEF EmitResult
    <3>2. PICK t : t = IF says = "totals" THEN all ELSE NoTotals
      OBVIOUS
    <3>3. PICK line : line = [kind |-> "result", says |-> says, totals |-> t]
      OBVIOUS
    <3>4. out'[r] = Append(out[r], line)
      BY <1>2, <3>1, <3>2, <3>3
    <3>5. Cardinality(OpenFiles(r)) \in Nat
      <4>1. IsFiniteSet({"main"}) /\ IsFiniteSet({"sub"}) /\ Files = {"main"} \cup {"sub"}
        BY FS_Singleton DEF Files
      <4>2. IsFiniteSet(Files)
        BY <4>1, FS_Union
      <4>3. OpenFiles(r) \subseteq Files
        BY DEF OpenFiles
      <4>4. IsFiniteSet(OpenFiles(r))
        BY <4>2, <4>3, FS_Subset
      <4> QED BY <4>4, FS_CardinalityType
    <3>6. sides[r] \in [Model -> Nat] /\ "main" \in Model /\ "side" \in Model /\ begun[r] \in Nat
      BY <1>2 DEF Model
    <3>7. all \in [Model -> Int] /\ all["main"] <= 2 * begun[r] + sides[r]["main"] /\ all["side"] <= sides[r]["side"]
      <4>1. sides[r]["main"] \in Nat /\ sides[r]["side"] \in Nat
        BY <3>6
      <4>2. all["main"] = sides[r]["main"] + 2 * (begun[r] - Cardinality(OpenFiles(r))) /\ all["side"] = sides[r]["side"]
        BY <3>6
      <4>3. all \in [Model -> Int]
        BY <3>5, <3>6, <4>1
      <4>4. all["main"] <= 2 * begun[r] + sides[r]["main"]
        BY <3>5, <3>6, <4>1, <4>2
      <4>5. all["side"] <= sides[r]["side"]
        BY <4>1, <4>2
      <4> QED BY <4>3, <4>4, <4>5
    <3>8. NoTotals \in [Model -> Int] /\ NoTotals["main"] <= 2 * begun[r] + sides[r]["main"] /\ NoTotals["side"] <= sides[r]["side"]
      <4>1. NoTotals \in [Model -> Int] /\ NoTotals["main"] = 0 /\ NoTotals["side"] = 0
        BY DEF NoTotals, Model
      <4>2. sides[r]["main"] \in Nat /\ sides[r]["side"] \in Nat
        BY <3>6
      <4> QED BY <3>6, <4>1, <4>2
    <3> HIDE DEF all
    <3>9. Stated(r, t)
      BY <3>2, <3>7, <3>8 DEF Stated
    <3>10. t \in [Model -> Int]
      BY <3>9 DEF Stated
    <3>11. line \in OutLine /\ line.totals = t
      BY <3>3, <3>10 DEF OutLine
    <3>12. Stated(r, t)'
      BY <1>2, <1>4, <1>6, <3>9, StatedLater
    <3>13. Stated(r, line.totals)'
      BY <3>11, <3>12
    <3> QED BY <3>4, <3>11, <3>13
  <2>3. CASE \E m \in Model : SideRequest(r, m)
    <3>1. PICK line : line = [kind |-> "init"]
      OBVIOUS
    <3>2. line \in OutLine /\ line.kind = "init"
      BY <3>1 DEF OutLine
    <3>3. out' = out
      BY <2>3 DEF SideRequest
    <3> QED BY <3>2, <3>3
  <2> QED BY <2>1, <2>2, <2>3
<1>8. \A q \in Run : q # r => out'[q] = out[q]
  BY <1>2 DEF EmitInit, EmitResult, SideRequest
<1>9. SaysMore
  BY <1>7, <1>8 DEF SaysMore
<1>10. out' = [q \in Run |-> out'[q]]
  BY <1>2 DEF EmitInit, EmitResult, SideRequest
<1>11. Streams'
  BY <1>2, <1>4, <1>6, <1>9, <1>10, StreamsMore
<1> QED BY <1>1, <1>2, <1>3, <1>4, <1>5, <1>6, <1>11, CountsStay

LEMMA SidesSame ==
  ASSUME Streams, sides' = sides
  PROVE  SidesGrow
<1>1. sides \in [Run -> [Model -> Nat]]
  BY DEF Streams
<1>2. \A r \in Run, m \in Model : sides[r][m] \in Nat
  BY <1>1
<1> QED BY <1>1, <1>2 DEF SidesGrow

LEMMA StreamsSame ==
  ASSUME Types, Grows, Streams, sides' = sides, out' = out
  PROVE  SidesGrow /\ Streams'
<1>1. SidesGrow
  BY SidesSame
<1>2. SaysMore /\ out' = [r \in Run |-> out'[r]]
  BY DEF SaysMore, Streams
<1> QED BY <1>1, <1>2, StreamsMore

LEMMA BeginRequestCounts ==
  ASSUME Inv, Counts, NEW s \in Session, NEW f \in Files, BeginRequest(s, f)
  PROVE  Counts'
<1>1. /\ now' = now /\ proc' = proc /\ begun' = [begun EXCEPT ![s] = @ + 1]
      /\ sides' = sides /\ out' = out /\ run' = run /\ report' = report /\ todo' = todo
      /\ proc[s] = "live" /\ ~Open(s, f)
  BY DEF BeginRequest, runVars
<1>2. /\ Types /\ FilesOK /\ Lives /\ Streams /\ SoundFiles /\ begun \in [Session -> Nat]
      /\ \A r \in Run : Third(r)
  BY DEF Inv, Counts, Types
<1>3. PICK line : line = Line("usage", s, begun[s] + 1, IF file[s]["main"] = <<>> THEN 2 ELSE 1)
  OBVIOUS
<1>4. line \in LineType /\ line.id[1] = s /\ line.kind = "usage"
  <2>1. PICK n, units : n = begun[s] + 1 /\ units = IF file[s]["main"] = <<>> THEN 2 ELSE 1
    OBVIOUS
  <2>2. n \in Nat /\ units \in Nat
    BY <1>2, <2>1
  <2>3. Line("usage", s, n, units) \in LineType /\ Line("usage", s, n, units).id[1] = s
        /\ Line("usage", s, n, units).kind = "usage"
    BY <1>2, <2>2, LineFacts
  <2> QED BY <1>3, <2>1, <2>3
<1>5. line.id = <<s, begun[s] + 1>> /\ line.units = IF file[s]["main"] = <<>> THEN 2 ELSE 1
  BY <1>3 DEF Line
<1>6. Keep(s, f, line)
  BY <1>3 DEF BeginRequest
<1>7. Grows
  BY <1>1, <1>2 DEF Grows
<1>8. Sound(s, line)'
  <2>1. begun'[s] = begun[s] + 1 /\ begun[s] \in Nat
    BY <1>1, <1>2
  <2>2. line.id[1] = s /\ line.id[2] \in 1 .. begun'[line.id[1]] /\ line.units \in {1, 2}
    BY <1>5, <2>1
  <2> QED BY <2>2 DEF Sound
<1>9. ASSUME s \in Run, f = "main", Opened(s) PROVE GoesOn(s, line)
  <2>1. line.units = 1
    BY <1>5, <1>9 DEF Opened
  <2>2. Len(file[s]["main"]) # 2
    <3> SUFFICES ASSUME Len(file[s]["main"]) = 2 PROVE FALSE
      OBVIOUS
    <3>1. file[s]["main"][2].kind = "usage" /\ file[s]["main"][2].units = 1
      BY <1>1, <1>2, <1>9 DEF Third
    <3>2. Last(file[s]["main"]) = file[s]["main"][2]
      BY DEF Last
    <3> QED BY <1>1, <1>9, <3>1, <3>2 DEF Open, Opened
  <2> QED BY <1>4, <2>1, <2>2 DEF GoesOn
<1>10. Adds
  BY <1>2, <1>4, <1>6, <1>8, <1>9, KeepAdds
<1>11. /\ \A t \in Session : Opened(t)' => Opened(t)
       /\ \A t \in Session : t # s => file'[t]["main"] = file[t]["main"]
  BY <1>2, <1>6, KeepMain
<1>12. Lives'
  BY <1>1, <1>2, <1>11, LivesStay
<1>13. NoneRises
  BY <1>1 DEF NoneRises
<1>14. SidesGrow /\ Streams'
  BY <1>1, <1>2, <1>7, StreamsSame
<1>15. \A r \in Run : run'[r] \in {"nested", "recorded"} =>
         run[r] \in {"nested", "recorded"} /\ file'[r]["main"] = file[r]["main"]
  BY <1>1, <1>11, DeadThen DEF Session
<1> QED BY <1>1, <1>2, <1>7, <1>10, <1>12, <1>13, <1>14, <1>15, CountsStay

LEMMA EndRequestCounts ==
  ASSUME Inv, Counts, NEW s \in Session, NEW f \in Files, EndRequest(s, f)
  PROVE  Counts'
<1>1. /\ now' = now /\ proc' = proc /\ begun' = begun
      /\ sides' = sides /\ run' = run /\ report' = report /\ todo' = todo
      /\ proc[s] = "live" /\ Open(s, f)
      /\ out' = IF s \in Run /\ f = "main" THEN [out EXCEPT ![s] = Append(@, [kind |-> "assistant"])] ELSE out
  BY DEF EndRequest, runVars
<1>2. /\ Types /\ FilesOK /\ Lives /\ Streams /\ SoundFiles /\ begun \in [Session -> Nat]
      /\ out \in [Run -> Seq(OutLine)] /\ "main" \in Files
  BY DEF Inv, Counts, Types, Streams, Files
<1>3. PICK kind \in {"usage", "bad", "past"} : Keep(s, f, Line(kind, s, Last(file[s][f]).id[2], 2))
  BY DEF EndRequest
<1>4. /\ Last(file[s][f]) \in LineType /\ Last(file[s][f]).kind = "usage" /\ Last(file[s][f]).units = 1
      /\ Sound(s, Last(file[s][f])) /\ file[s][f] # <<>>
  <2> DEFINE lines == file[s][f]
  <2>1. lines \in Seq(LineType) /\ lines # <<>> /\ \A i \in 1 .. Len(lines) : lines[i] \in LineType /\ Sound(s, lines[i])
    BY <1>1, <1>2, FileFacts DEF SoundFiles, Open
  <2>2. Last(lines).kind = "usage" /\ Last(lines).units = 1
    BY <1>1 DEF Open
  <2> HIDE DEF lines
  <2>3. Len(lines) \in 1 .. Len(lines) /\ Last(lines) = lines[Len(lines)]
    BY <2>1 DEF Last
  <2> QED BY <2>1, <2>2, <2>3 DEF lines
<1>5. PICK n : n = Last(file[s][f]).id[2]
  OBVIOUS
<1>6. n \in Nat /\ n \in 1 .. begun[s]
  BY <1>4, <1>5 DEF Sound, LineType
<1>7. PICK line : line = Line(kind, s, n, 2)
  OBVIOUS
<1>8. line \in LineType /\ line.id[1] = s /\ line.kind = kind
  BY <1>2, <1>6, <1>7, LineFacts
<1>9. line.id = <<s, n>> /\ line.units = 2
  BY <1>7 DEF Line
<1>10. Keep(s, f, line)
  BY <1>3, <1>5, <1>7
<1>11. Grows
  BY <1>1, <1>2 DEF Grows
<1>12. Sound(s, line)'
  BY <1>1, <1>6, <1>9 DEF Sound
<1>13. ASSUME s \in Run, f = "main", Opened(s) PROVE GoesOn(s, line)
  <2>1. Len(file[s]["main"]) # 1
    <3> SUFFICES ASSUME Len(file[s]["main"]) = 1 PROVE FALSE
      OBVIOUS
    <3>1. file[s]["main"][1].kind = "user"
      BY <1>2, <1>13 DEF FilesOK, Headed, Opened
    <3>2. Last(file[s]["main"]) = file[s]["main"][1]
      BY DEF Last
    <3> QED BY <1>4, <1>13, <3>1, <3>2
  <2> QED BY <1>9, <2>1 DEF GoesOn
<1>14. Adds
  BY <1>2, <1>8, <1>10, <1>12, <1>13, KeepAdds
<1>15. /\ \A t \in Session : Opened(t)' => Opened(t)
       /\ \A t \in Session : t # s => file'[t]["main"] = file[t]["main"]
  BY <1>2, <1>10, KeepMain
<1>16. Lives'
  BY <1>1, <1>2, <1>15, LivesStay
<1>17. NoneRises
  BY <1>1 DEF NoneRises
<1>18. SidesGrow
  BY <1>1, <1>2, SidesSame
<1>19. Streams'
  <2>1. PICK says : says = [kind |-> "assistant"]
    OBVIOUS
  <2>2. says \in OutLine /\ says.kind = "assistant"
    BY <2>1 DEF OutLine
  <2>3. \A r \in Run : out'[r] = out[r] \/ out'[r] = Append(out[r], says)
    BY <1>1, <1>2, <2>1
  <2>4. SaysMore
    BY <2>2, <2>3 DEF SaysMore
  <2>5. out' = [r \in Run |-> out'[r]]
    BY <1>1, <1>2
  <2> QED BY <1>2, <1>11, <1>18, <2>4, <2>5, StreamsMore
<1>20. \A r \in Run : run'[r] \in {"nested", "recorded"} =>
         run[r] \in {"nested", "recorded"} /\ file'[r]["main"] = file[r]["main"]
  BY <1>1, <1>15, DeadThen DEF Session
<1> QED BY <1>1, <1>2, <1>11, <1>14, <1>16, <1>17, <1>18, <1>19, <1>20, CountsStay

(* A hook copies a request's last line from the run's file. *)
LEMMA CopyRequestCounts ==
  ASSUME Inv, Counts, NEW s \in Other, CopyRequest(s)
  PROVE  Counts'
<1> DEFINE r == Starter[s]
<1>1. /\ now' = now /\ proc' = proc /\ begun' = begun /\ sides' = sides /\ out' = out
      /\ run' = run /\ report' = report /\ todo' = todo
      /\ r \in Run /\ Len(file[r]["main"]) > 2
  BY DEF CopyRequest, runVars
<1>2. /\ Types /\ FilesOK /\ Lives /\ Streams /\ SoundFiles /\ begun \in [Session -> Nat]
      /\ "main" \in Files /\ s \in Session /\ s \notin Run /\ now \in Nat
  BY ClaudeSessionAssumption DEF Inv, Counts, Types, Streams, Files, Session
<1>3. r \in Session /\ Third(r)
  BY <1>1 DEF Counts, Session
<1>4. PICK names \in {s, r} : Keep(s, "main", [file[r]["main"][3] EXCEPT !.names = names, !.at = now])
  BY DEF CopyRequest
<1>5. PICK old : old = file[r]["main"][3]
  OBVIOUS
<1> HIDE DEF r
<1>6. 3 \in 1 .. Len(file[r]["main"]) /\ 3 \in DOMAIN file[r]["main"]
  <2>1. file[r]["main"] \in Seq(LineType)
    BY <1>2, <1>3, FileFacts
  <2> QED BY <1>1, <2>1
<1>7. old \in LineType /\ old.id[1] = r /\ Sound(r, old) /\ (old.kind = "usage" => old.units = 2)
  <2>1. old \in LineType /\ old.id[1] \in Own(r) /\ Sound(r, old)
    BY <1>2, <1>3, <1>5, <1>6, FileFacts DEF SoundFiles
  <2>2. Own(r) = {r}
    BY <1>1, <1>3, OwnFacts
  <2> QED BY <1>1, <1>3, <1>5, <2>1, <2>2 DEF Third
<1>8. PICK line : line = [old EXCEPT !.names = names, !.at = now]
  OBVIOUS
<1>9. line \in LineType /\ line.id = old.id /\ line.kind = old.kind /\ line.units = old.units
  BY <1>2, <1>3, <1>7, <1>8 DEF LineType
<1>10. Keep(s, "main", line)
  BY <1>4, <1>5, <1>8
<1>11. Grows
  BY <1>1, <1>2 DEF Grows
<1>12. /\ \A t \in Session : Opened(t)' => Opened(t)
       /\ \A t \in Session : t # s => file'[t]["main"] = file[t]["main"]
  BY <1>2, <1>10, KeepMain
<1>13. r # s /\ file'[r]["main"] = file[r]["main"]
  BY <1>1, <1>2, <1>3, <1>12
<1>14. Sound(s, line)'
  <2> SUFFICES ASSUME line.kind = "usage"
               PROVE  /\ line.units = 2 /\ line.id[2] \in 1 .. begun'[line.id[1]]
                      /\ line.id \in MainIds(Starter[s])'
    BY DEF Sound
  <2>1. old.kind = "usage" /\ line.units = 2 /\ line.id[2] \in 1 .. begun'[line.id[1]]
    BY <1>1, <1>7, <1>9 DEF Sound
  <2>2. line.id \in MainIds(r)
    BY <1>5, <1>6, <1>9, <2>1 DEF MainIds
  <2>3. line.id \in MainIds(r)'
    BY <1>13, <2>2 DEF MainIds
  <2> QED BY <2>1, <2>3 DEF r
<1>15. Adds
  BY <1>2, <1>9, <1>10, <1>14, KeepAdds
<1>16. Lives'
  BY <1>1, <1>2, <1>12, LivesStay
<1>17. NoneRises
  BY <1>1 DEF NoneRises
<1>18. SidesGrow /\ Streams'
  BY <1>1, <1>2, <1>11, StreamsSame
<1>19. \A q \in Run : run'[q] \in {"nested", "recorded"} =>
         run[q] \in {"nested", "recorded"} /\ file'[q]["main"] = file[q]["main"]
  BY <1>1, <1>2, <1>12 DEF Session
<1> QED BY <1>1, <1>2, <1>11, <1>15, <1>16, <1>17, <1>18, <1>19, CountsStay

LEMMA EndOtherCounts ==
  ASSUME Inv, Counts, NEW s \in Other, EndOther(s)
  PROVE  Counts'
<1>1. /\ now' = now /\ sides' = sides /\ out' = out /\ run' = run /\ report' = report /\ todo' = todo
      /\ proc[s] = "live"
  BY DEF EndOther, runVars
<1>2. Types /\ FilesOK /\ Lives /\ Streams /\ s \in Session /\ s \notin Run
  BY ClaudeSessionAssumption DEF Inv, Counts, Session
<1>3. PICK C \in Cuts(s) : Die({s}, [t \in {s} |-> C])
  BY DEF EndOther
<1> DEFINE cut == [t \in {s} |-> C]
<1>4. Die({s}, cut) /\ {s} \in SUBSET Session /\ \A t \in {s} : cut[t] \in Cuts(t)
  BY <1>2, <1>3
<1> HIDE DEF cut
<1>5. /\ Grows /\ Adds /\ NoneRises
      /\ \A t \in Session : (Opened(t)' => Opened(t)) /\ (t # s => file'[t]["main"] = file[t]["main"])
  BY <1>1, <1>2, <1>4, DieAdds
<1>6. proc' = [t \in Session |-> IF t \in {s} THEN "dead" ELSE proc[t]]
  BY <1>4 DEF Die
<1>7. Lives'
  BY <1>1, <1>2, <1>5, <1>6 DEF Lives, Opened, Session
<1>8. SidesGrow /\ Streams'
  BY <1>1, <1>2, <1>5, StreamsSame
<1>9. \A q \in Run : run'[q] \in {"nested", "recorded"} =>
        run[q] \in {"nested", "recorded"} /\ file'[q]["main"] = file[q]["main"]
  BY <1>1, <1>2, <1>5 DEF Session
<1> QED BY <1>1, <1>2, <1>5, <1>7, <1>8, <1>9, CountsStay

LEMMA StartOtherCounts ==
  ASSUME Inv, Counts, NEW s \in Other, StartOther(s)
  PROVE  Counts'
<1>1. /\ now' = now /\ begun' = begun /\ sides' = sides /\ out' = out
      /\ run' = run /\ report' = report /\ todo' = todo
      /\ proc[s] = "none" /\ proc' = [proc EXCEPT ![s] = "live"] /\ file' = [file EXCEPT ![s]["main"] = Opening(s)]
  BY DEF StartOther, runVars
<1>2. /\ Types /\ FilesOK /\ Lives /\ Streams /\ s \in Session /\ s \notin Run
      /\ begun \in [Session -> Nat] /\ proc \in [Session -> {"none", "live", "dead"}]
  BY ClaudeSessionAssumption DEF Inv, Counts, Types, Session
<1>3. file[s]["main"] = <<>>
  BY <1>1, <1>2 DEF Lives
<1>4. Adds /\ \A t \in Session : t # s => file'[t]["main"] = file[t]["main"]
  BY <1>1, <1>2, <1>3, OpenAdds
<1>5. Grows
  BY <1>1, <1>2 DEF Grows
<1>6. NoneRises
  BY <1>1, <1>2 DEF NoneRises, Session
<1>7. Lives'
  <2>1. ASSUME NEW t \in Session, proc'[t] = "none" PROVE file'[t]["main"] = <<>>
    <3>1. t # s /\ proc[t] = "none"
      BY <1>1, <1>2, <2>1
    <3> QED BY <1>2, <1>4, <3>1 DEF Lives
  <2>2. \A r \in Run : proc'[r] = proc[r]
    BY <1>1, <1>2 DEF Session
  <2> QED BY <1>1, <1>2, <2>1, <2>2 DEF Lives
<1>8. SidesGrow /\ Streams'
  BY <1>1, <1>2, <1>5, StreamsSame
<1>9. \A q \in Run : run'[q] \in {"nested", "recorded"} =>
        run[q] \in {"nested", "recorded"} /\ file'[q]["main"] = file[q]["main"]
  BY <1>1, <1>2, <1>4 DEF Session
<1> QED BY <1>1, <1>2, <1>4, <1>5, <1>6, <1>7, <1>8, <1>9, CountsStay

LEMMA LaunchCounts ==
  ASSUME Inv, Counts, NEW r \in Run, Launch(r)
  PROVE  Counts'
<1>1. /\ now' = now /\ begun' = begun /\ sides' = sides /\ out' = out /\ report' = report /\ todo' = todo
      /\ run[r] \in {"claimed", "idle"} /\ run' = [run EXCEPT ![r] = "running"]
      /\ proc' = [proc EXCEPT ![r] = "live"] /\ file' = [file EXCEPT ![r]["main"] = Opening(r)]
  BY DEF Launch
<1>2. /\ Types /\ FilesOK /\ Lives /\ Streams /\ r \in Session
      /\ begun \in [Session -> Nat] /\ proc \in [Session -> {"none", "live", "dead"}] /\ run \in [Run -> Steps]
  BY DEF Inv, Counts, Types, Session
<1>3. proc[r] = "none" /\ file[r]["main"] = <<>>
  BY <1>1, <1>2 DEF Lives
<1>4. Adds /\ \A t \in Session : t # r => file'[t]["main"] = file[t]["main"]
  BY <1>1, <1>2, <1>3, OpenAdds
<1>5. Grows
  BY <1>1, <1>2 DEF Grows
<1>6. NoneRises
  BY <1>1, <1>2, <1>3 DEF NoneRises, Session
<1>7. run'[r] = "running" /\ \A q \in Run : q # r => run'[q] = run[q] /\ proc'[q] = proc[q] /\ q \in Session
  BY <1>1, <1>2 DEF Session
<1>8. Lives'
  <2>1. ASSUME NEW t \in Session, proc'[t] = "none" PROVE file'[t]["main"] = <<>>
    <3>1. t # r /\ proc[t] = "none"
      BY <1>1, <1>2, <2>1
    <3> QED BY <1>2, <1>4, <3>1 DEF Lives
  <2>2. \A q \in Run : /\ run'[q] \in {"idle", "claimed"} => proc'[q] = "none"
                       /\ run'[q] \in {"exited", "nested", "recorded"} => proc'[q] = "dead"
    BY <1>2, <1>7 DEF Lives
  <2> QED BY <2>1, <2>2 DEF Lives
<1>9. SidesGrow /\ Streams'
  BY <1>1, <1>2, <1>5, StreamsSame
<1>10. \A q \in Run : run'[q] \in {"nested", "recorded"} =>
         run[q] \in {"nested", "recorded"} /\ file'[q]["main"] = file[q]["main"]
  BY <1>4, <1>7
<1> QED BY <1>1, <1>2, <1>4, <1>5, <1>6, <1>8, <1>9, <1>10, CountsStay

LEMMA ExitCounts ==
  ASSUME Inv, Counts, NEW r \in Run, Exit(r)
  PROVE  Counts'
<1> DEFINE D == {r} \cup {s \in Other : setup.contained /\ Starter[s] = r /\ proc[s] = "live"}
<1>1. /\ now' = now /\ sides' = sides /\ out' = out /\ report' = report /\ todo' = todo
      /\ run[r] = "running" /\ run' = [run EXCEPT ![r] = "exited"]
  BY DEF Exit
<1>2. PICK cut : (\A s \in D : cut[s] \in Cuts(s)) /\ Die(D, cut)
  BY DEF Exit
<1>3. D \in SUBSET Session /\ r \in D /\ \A q \in Run \ {r} : q \notin D
  BY ClaudeSessionAssumption DEF Session
<1> HIDE DEF D
<1>4. /\ Types /\ FilesOK /\ Lives /\ Streams /\ \A q \in Run : q \in Session
      /\ proc \in [Session -> {"none", "live", "dead"}] /\ run \in [Run -> Steps]
  BY DEF Inv, Counts, Types, Session
<1>5. /\ Grows /\ Adds /\ NoneRises
      /\ \A t \in Session : (Opened(t)' => Opened(t)) /\ (t \notin D => file'[t]["main"] = file[t]["main"])
  BY <1>1, <1>2, <1>3, <1>4, DieAdds
<1>6. \A t \in Session : proc'[t] = IF t \in D THEN "dead" ELSE proc[t]
  BY <1>2 DEF Die
<1>7. run'[r] = "exited" /\ proc'[r] = "dead" /\ \A q \in Run : q # r => run'[q] = run[q] /\ proc'[q] = proc[q]
  BY <1>1, <1>3, <1>4, <1>6
<1>8. Lives'
  <2>1. \A t \in Session : proc'[t] = "none" => file'[t]["main"] = <<>>
    BY <1>4, <1>5, <1>6 DEF Lives, Opened
  <2>2. \A q \in Run : /\ run'[q] \in {"idle", "claimed"} => proc'[q] = "none"
                       /\ run'[q] \in {"exited", "nested", "recorded"} => proc'[q] = "dead"
    BY <1>4, <1>7 DEF Lives
  <2> QED BY <2>1, <2>2 DEF Lives
<1>9. SidesGrow /\ Streams'
  BY <1>1, <1>4, <1>5, StreamsSame
<1>10. \A q \in Run : run'[q] \in {"nested", "recorded"} =>
         run[q] \in {"nested", "recorded"} /\ file'[q]["main"] = file[q]["main"]
  BY <1>3, <1>4, <1>5, <1>7
<1> QED BY <1>1, <1>4, <1>5, <1>8, <1>9, <1>10, CountsStay

(* The steps of costroid that read no file. *)
LEMMA StepCounts ==
  ASSUME Inv, Counts, NEW r \in Run, Claim(r) \/ RefuseTruncated(r) \/ Record(r) \/ Crash(r)
  PROVE  Counts'
<1>1. /\ proc' = proc /\ begun' = begun /\ file' = file /\ sides' = sides /\ out' = out
      /\ report' = report /\ todo' = todo
  BY DEF Claim, RefuseTruncated, Record, Crash, agentVars
<1>2. /\ Types /\ FilesOK /\ Lives /\ run \in [Run -> Steps]
  BY DEF Inv, Counts, Types
<1>3. PICK step \in {"claimed", "refused", "recorded", "crashed"} :
        /\ run' = [run EXCEPT ![r] = step]
        /\ step = "claimed" => run[r] = "idle"
        /\ step = "recorded" => run[r] = "nested"
  BY DEF Claim, RefuseTruncated, Record, Crash
<1>4. run'[r] = step /\ \A q \in Run : q # r => run'[q] = run[q]
  BY <1>2, <1>3
<1>5. \A q \in Run : /\ run'[q] \in {"idle", "claimed"} => run[q] \in {"idle", "claimed"}
                     /\ run'[q] \in {"exited", "nested", "recorded"} => run[q] \in {"exited", "nested", "recorded"}
                     /\ run'[q] \in {"nested", "recorded"} => run[q] \in {"nested", "recorded"}
  BY <1>3, <1>4
<1>6. Lives'
  BY <1>1, <1>2, <1>5, LivesStay DEF Opened
<1> QED BY <1>1, <1>2, <1>5, <1>6, NothingWritten, CountsStay

-----------------------------------------------------------------------------
(* Steps that make rows.                                                   *)

LEMMA LinesSound ==
  ASSUME Types, FilesOK, SoundFiles, NEW s \in Session
  PROVE  /\ Lines(s) \in Seq(LineType) /\ Len(Lines(s)) \in Nat /\ DOMAIN Lines(s) = 1 .. Len(Lines(s))
         /\ \A i \in DOMAIN Lines(s) : Lines(s)[i] \in LineType /\ Lines(s)[i].id[1] \in Own(s) /\ Sound(s, Lines(s)[i])
<1> DEFINE a == file[s]["main"]
           b == file[s]["sub"]
<1>1. /\ a \in Seq(LineType) /\ \A i \in 1 .. Len(a) : a[i] \in LineType /\ a[i].id[1] \in Own(s) /\ Sound(s, a[i])
      /\ b \in Seq(LineType) /\ \A i \in 1 .. Len(b) : b[i] \in LineType /\ b[i].id[1] \in Own(s) /\ Sound(s, b[i])
  <2>1. "main" \in Files /\ "sub" \in Files
    BY DEF Files
  <2> QED BY <2>1, FileFacts DEF SoundFiles
<1>2. Lines(s) = a \o b
  BY DEF Lines
<1> HIDE DEF a, b
<1> DEFINE both == a \o b
<1>3. /\ both \in Seq(LineType) /\ Len(both) = Len(a) + Len(b) /\ Len(a) \in Nat /\ Len(b) \in Nat
      /\ DOMAIN both = 1 .. Len(both) /\ Len(both) \in Nat
      /\ \A i \in 1 .. Len(both) : both[i] = IF i <= Len(a) THEN a[i] ELSE b[i - Len(a)]
  BY <1>1
<1>4. \A i \in 1 .. Len(both) : i > Len(a) => i - Len(a) \in 1 .. Len(b)
  BY <1>3
<1>5. \A i \in 1 .. Len(both) : both[i] \in LineType /\ both[i].id[1] \in Own(s) /\ Sound(s, both[i])
  <2> TAKE i \in 1 .. Len(both)
  <2>1. CASE i <= Len(a)
    <3>1. i \in 1 .. Len(a) /\ both[i] = a[i]
      BY <1>3, <2>1
    <3> QED BY <1>1, <3>1
  <2>2. CASE ~(i <= Len(a))
    <3>1. i - Len(a) \in 1 .. Len(b) /\ both[i] = b[i - Len(a)]
      BY <1>3, <1>4, <2>2
    <3> QED BY <1>1, <3>1
  <2> QED BY <2>1, <2>2
<1> QED BY <1>2, <1>3, <1>5

(* What a reader makes of a session's files: requests that were sent, of   *)
(* the session or of its starter, whose own file has them.                 *)
LEMMA RequestsSound ==
  ASSUME Types, FilesOK, SoundFiles, NEW s \in Session, NEW id \in DOMAIN requestsOf(Lines(s))
  PROVE  /\ Sent(id, requestsOf(Lines(s))[id]) /\ id[1] \in Own(s)
         /\ id[1] # s => id[1] = Starter[s] /\ id \in MainIds(Starter[s])
<1> DEFINE lines == Lines(s)
           usage == {i \in DOMAIN lines : lines[i].kind = "usage"}
           T == {i \in usage : lines[i].id = id}
<1>1. DOMAIN requestsOf(lines) = {lines[i].id : i \in usage} /\ requestsOf(lines)[id] = lines[Max(T)].units
  BY DEF requestsOf
<1>2. T # {}
  BY <1>1
<1>3. /\ Len(lines) \in Nat /\ DOMAIN lines = 1 .. Len(lines)
      /\ \A i \in DOMAIN lines : lines[i] \in LineType /\ lines[i].id[1] \in Own(s) /\ Sound(s, lines[i])
  BY LinesSound
<1>4. Max(T) \in T
  <2>1. T \subseteq 1 .. Len(lines)
    BY <1>3
  <2> HIDE DEF T
  <2> QED BY <1>2, <1>3, <2>1, GreatestNumber
<1>5. PICK line : line = lines[Max(T)]
  OBVIOUS
<1>6. /\ line.kind = "usage" /\ line.id = id /\ line \in LineType /\ line.id[1] \in Own(s) /\ Sound(s, line)
      /\ requestsOf(lines)[id] = line.units
  BY <1>1, <1>3, <1>4, <1>5
<1> HIDE DEF lines, T, usage
<1>7. id \in Session \X Nat /\ id[2] \in 1 .. begun[id[1]] /\ line.units \in {1, 2}
  BY <1>6 DEF Sound, LineType
<1>8. id[1] # s => id[1] = Starter[s] /\ id \in MainIds(Starter[s])
  BY <1>6 DEF Sound, Own
<1> QED BY <1>6, <1>7, <1>8 DEF Sent, lines

LEMMA MainIdsRead ==
  ASSUME Types, FilesOK, NEW s \in Session
  PROVE  MainIds(s) \subseteq DOMAIN requestsOf(Lines(s))
<1>1. \A i \in DOMAIN file[s]["main"] : i \in DOMAIN Lines(s) /\ Lines(s)[i] = file[s]["main"][i]
  BY LinesFacts
<1>2. DOMAIN requestsOf(Lines(s)) = {Lines(s)[i].id : i \in {i \in DOMAIN Lines(s) : Lines(s)[i].kind = "usage"}}
  BY DEF requestsOf
<1> QED BY <1>1, <1>2 DEF MainIds

(* What Finish makes of the stream and the files is a book. *)
LEMMA FinishBook ==
  ASSUME Inv, Counts, NEW r \in Run, NEW s, s = Fed(r), NEW t, t = readSessionFiles(r, s),
         NEW new, new = finishRun(r, s, t).report
  PROVE  /\ {"rows", "counted"} \subseteq DOMAIN new
         /\ \E ids, u, ms, tot : MadeOf(r, new, ids, u, ms, tot)
         /\ t.found => MainIds(r) \subseteq new.counted
<1>1. Types /\ FilesOK /\ SoundFiles /\ Streams /\ r \in Session /\ begun[r] \in Nat
  BY DEF Inv, Counts, Session, Types
<1>2. Stated(r, s.totals)
  BY <1>1, FedStated
<1>3. /\ t.requests = requestsOf(<<>>) \/ t.requests = requestsOf(Lines(r))
      /\ t.found => t.requests = requestsOf(Lines(r))
  BY DEF readSessionFiles, Empty
<1>4. \A id \in DOMAIN t.requests : Sent(id, t.requests[id])
  <2>1. DOMAIN requestsOf(<<>>) = {}
    BY DEF requestsOf
  <2> QED BY <1>1, <1>3, <2>1, RequestsSound
<1>5. {"rows", "counted"} \subseteq DOMAIN new /\ new.counted = DOMAIN t.requests
  BY DEF finishRun
<1>6. t.found => MainIds(r) \subseteq new.counted
  BY <1>1, <1>3, <1>5, MainIdsRead
<1> DEFINE side == {m \in sideModels(s, t.requests) : s.totals[m] > 0}
           all == {m \in Model : s.totals[m] > 0}
           ids == DOMAIN t.requests
<1>7. \/ /\ ids # {}
         /\ new.rows = {Row(id, t.requests[id]) : id \in ids} \cup {Row(<<r, m>>, s.totals[m]) : m \in side}
      \/ new.rows = {Row(<<r, m>>, s.totals[m]) : m \in all}
  BY DEF finishRun, perModel
<1>8. side \subseteq Model /\ all \subseteq Model /\ \A m \in side \cup all : s.totals[m] > 0
  BY DEF sideModels
<1>9. ids # {} => "main" \notin side
  BY DEF sideModels
<1>10. CASE /\ ids # {}
            /\ new.rows = {Row(id, t.requests[id]) : id \in ids} \cup {Row(<<r, m>>, s.totals[m]) : m \in side}
  <2>1. MadeOf(r, new, ids, t.requests, side, s.totals)
    BY <1>2, <1>4, <1>5, <1>8, <1>9, <1>10 DEF MadeOf
  <2> QED BY <1>5, <1>6, <2>1
<1>11. CASE new.rows = {Row(<<r, m>>, s.totals[m]) : m \in all}
  <2>1. MadeOf(r, new, {}, t.requests, all, s.totals)
    BY <1>2, <1>5, <1>8, <1>11 DEF MadeOf
  <2> QED BY <1>5, <1>6, <2>1
<1> QED BY <1>7, <1>10, <1>11

LEMMA FinishCounts ==
  ASSUME Inv, Counts, NEW r \in Run, Finish(r)
  PROVE  Counts'
<1>1. PICK s : s = Fed(r)
  OBVIOUS
<1>2. PICK t : t = readSessionFiles(r, s)
  OBVIOUS
<1>3. PICK new : new = finishRun(r, s, t).report
  OBVIOUS
<1>4. /\ proc' = proc /\ begun' = begun /\ file' = file /\ sides' = sides /\ out' = out
      /\ run[r] = "exited"
  BY DEF Finish, agentVars
<1>5. \/ run' = [run EXCEPT ![r] = "refused"] /\ report' = report /\ todo' = todo
      \/ /\ run' = [run EXCEPT ![r] = "nested"]
         /\ report' = [report EXCEPT ![r] = new]
         /\ todo' = [todo EXCEPT ![r] = IF t.found THEN candidates(r) ELSE {}]
  BY <1>1, <1>2, <1>3 DEF Finish
<1>6. /\ Types /\ FilesOK /\ Lives /\ Streams /\ Books /\ run \in [Run -> Steps]
      /\ DOMAIN report = Run /\ todo \in [Run -> SUBSET Session] /\ sides \in [Run -> [Model -> Nat]]
  BY DEF Inv, Counts, Types, Streams
<1>7. \A q \in Run : q # r => run'[q] = run[q]
  BY <1>5, <1>6
<1>8. run'[r] \in {"refused", "nested"}
  BY <1>5, <1>6
<1>9. Lives'
  <2>1. \A q \in Run : /\ run'[q] \in {"idle", "claimed"} => run[q] \in {"idle", "claimed"}
                       /\ run'[q] \in {"exited", "nested", "recorded"} => run[q] \in {"exited", "nested", "recorded"}
    BY <1>4, <1>7, <1>8
  <2> QED BY <1>4, <1>6, <2>1, LivesStay DEF Opened
<1>10. /\ Grows /\ SidesGrow /\ Streams' /\ SoundFiles' /\ \A q \in Run : Third(q)'
  BY <1>4, <1>6, NothingWritten
<1>11. Books'
  <2>1. CASE run' = [run EXCEPT ![r] = "refused"] /\ report' = report /\ todo' = todo
    <3>1. \A q \in Run : run'[q] \in {"nested", "recorded"} => run[q] \in {"nested", "recorded"}
      BY <1>6, <2>1
    <3> QED BY <1>4, <1>6, <1>10, <2>1, <3>1, BooksStay
  <2>2. CASE /\ report' = [report EXCEPT ![r] = new]
             /\ todo' = [todo EXCEPT ![r] = IF t.found THEN candidates(r) ELSE {}]
    <3>1. /\ new = report'[r] /\ todo'[r] = (IF t.found THEN candidates(r) ELSE {})
          /\ \A q \in Run : q # r => report'[q] = report[q] /\ todo'[q] = todo[q]
      BY <1>6, <2>2
    <3>2. /\ {"rows", "counted"} \subseteq DOMAIN new
          /\ \E ids, u, ms, tot : MadeOf(r, new, ids, u, ms, tot)
          /\ t.found => MainIds(r) \subseteq new.counted
      BY <1>1, <1>2, <1>3, FinishBook
    <3>3. Booked(r)'
      BY <1>6, <1>10, <3>1, <3>2, MadeLater
    <3>4. Knows(r)'
      <4>1. r \notin candidates(r)
        BY DEF candidates
      <4>2. r \notin todo'[r] /\ (todo'[r] # {} => MainIds(r) \subseteq report'[r].counted)
        BY <3>1, <3>2, <4>1
      <4> QED BY <1>4, <4>2 DEF Knows, MainIds
    <3>5. ASSUME NEW q \in Run, q # r, run'[q] \in {"nested", "recorded"}
          PROVE  Booked(q)' /\ Knows(q)'
      <4>1. Booked(q) /\ Knows(q)
        BY <1>6, <1>7, <3>5 DEF Books
      <4>2. report'[q] = report[q] /\ todo'[q] = todo[q] /\ file'[q]["main"] = file[q]["main"]
        BY <1>4, <3>1, <3>5
      <4> QED BY <1>6, <1>10, <4>1, <4>2, BookStays
    <3>6. \A q \in Run : {"rows", "counted"} \subseteq DOMAIN report'[q]
      BY <1>6, <3>1, <3>2 DEF Books
    <3> QED BY <3>3, <3>4, <3>5, <3>6 DEF Books
  <2> QED BY <1>5, <2>1, <2>2
<1> QED BY <1>9, <1>10, <1>11 DEF Counts

(* A session read whole adds what is not counted, none of it the run's     *)
(* own: the run's requests are counted while files are to be read.         *)
LEMMA NestedBook ==
  ASSUME Inv, Counts, NEW r \in Run, NEW s \in Session, run[r] = "nested", s \in todo[r],
         NEW old, old = report[r], NEW new,
         NEW requests, requests = requestsOf(Lines(s)),
         new.rows = old.rows \cup {Row(id, requests[id]) : id \in DOMAIN requests \ old.counted},
         new.counted = old.counted \cup (DOMAIN requests \ old.counted)
  PROVE  \E ids, u, ms, t : MadeOf(r, new, ids, u, ms, t)
<1>1. Types /\ FilesOK /\ SoundFiles /\ Booked(r) /\ Knows(r)
  BY DEF Inv, Counts, Books
<1>2. PICK ids, u, ms, t : MadeOf(r, old, ids, u, ms, t)
  BY <1>1 DEF Booked
<1> DEFINE fresh == DOMAIN requests \ old.counted
           more == ids \cup fresh
           v == [id \in more |-> IF id \in ids THEN u[id] ELSE requests[id]]
<1>3. \A id \in fresh : id \notin ids /\ Sent(id, requests[id]) /\ id[1] # r
  <2> TAKE id \in fresh
  <2>1. id \in DOMAIN requestsOf(Lines(s))
    OBVIOUS
  <2>2. /\ Sent(id, requests[id]) /\ id[1] \in Own(s)
        /\ id[1] # s => id[1] = Starter[s] /\ id \in MainIds(Starter[s])
    BY <1>1, <2>1, RequestsSound
  <2>3. s # r /\ MainIds(r) \subseteq old.counted
    BY <1>1 DEF Knows
  <2>4. id[1] # r
    BY <2>2, <2>3
  <2>5. id \notin ids
    BY <1>2 DEF MadeOf
  <2> QED BY <2>2, <2>4, <2>5
<1>4. \A id \in ids : v[id] = u[id]
  OBVIOUS
<1>5. \A id \in fresh : v[id] = requests[id]
  BY <1>3
<1>6. {Row(id, v[id]) : id \in more} = {Row(id, u[id]) : id \in ids} \cup {Row(id, requests[id]) : id \in fresh}
  <2> HIDE DEF v, fresh
  <2> QED BY <1>4, <1>5
<1>7. new.rows = {Row(id, v[id]) : id \in more} \cup {Row(<<r, m>>, t[m]) : m \in ms}
  <2>1. old.rows = {Row(id, u[id]) : id \in ids} \cup {Row(<<r, m>>, t[m]) : m \in ms}
    BY <1>2 DEF MadeOf
  <2>2. new.rows = old.rows \cup {Row(id, requests[id]) : id \in fresh}
    OBVIOUS
  <2> DEFINE A == {Row(id, v[id]) : id \in more}
             B == {Row(id, u[id]) : id \in ids}
             C == {Row(id, requests[id]) : id \in fresh}
             E == {Row(<<r, m>>, t[m]) : m \in ms}
  <2>3. A = B \cup C /\ old.rows = B \cup E /\ new.rows = old.rows \cup C
    BY <1>6, <2>1, <2>2
  <2> HIDE DEF A, B, C, E
  <2>4. new.rows = A \cup E
    BY <2>3
  <2> QED BY <2>4 DEF A, E
<1>8. more \subseteq new.counted /\ \A id \in more : Sent(id, v[id])
  BY <1>2, <1>3, <1>4, <1>5 DEF MadeOf
<1>9. "main" \in ms => \A id \in more : id[1] # r
  BY <1>2, <1>3 DEF MadeOf
<1>10. ms \subseteq Model /\ Stated(r, t) /\ \A m \in ms : t[m] > 0
  BY <1>2 DEF MadeOf
<1> HIDE DEF v, more
<1>11. MadeOf(r, new, more, v, ms, t)
  BY <1>7, <1>8, <1>9, <1>10 DEF MadeOf
<1> QED BY <1>11

LEMMA NestedCounts ==
  ASSUME Inv, Counts, NEW r \in Run, NEW s \in Session, nestedSession(r, s)
  PROVE  Counts'
<1>1. PICK requests : requests = requestsOf(Lines(s))
  OBVIOUS
<1>2. PICK old : old = report[r]
  OBVIOUS
<1> DEFINE fresh == DOMAIN requests \ old.counted
           more == {Row(id, requests[id]) : id \in fresh}
<1>3. /\ proc' = proc /\ begun' = begun /\ file' = file /\ sides' = sides /\ out' = out /\ run' = run
      /\ run[r] = "nested" /\ s \in todo[r] /\ todo' = [todo EXCEPT ![r] = @ \ {s}]
  BY DEF nestedSession, agentVars
<1>4. \/ report' = report
      \/ report' = [report EXCEPT ![r].warned = TRUE]
      \/ report' = [report EXCEPT ![r].rows = @ \cup more, ![r].counted = @ \cup fresh]
  BY <1>1, <1>2 DEF nestedSession
<1>5. /\ Types /\ FilesOK /\ Lives /\ Streams /\ Books
      /\ DOMAIN report = Run /\ todo \in [Run -> SUBSET Session] /\ sides \in [Run -> [Model -> Nat]]
      /\ {"rows", "counted"} \subseteq DOMAIN old /\ Booked(r) /\ Knows(r)
  BY <1>2, <1>3 DEF Inv, Counts, Types, Streams, Books
<1> HIDE DEF fresh, more
<1>6. PICK new :
        /\ new = report'[r] /\ \A q \in Run : q # r => report'[q] = report[q]
        /\ {"rows", "counted"} \subseteq DOMAIN new
        /\ \/ new.rows = old.rows /\ new.counted = old.counted
           \/ new.rows = old.rows \cup more /\ new.counted = old.counted \cup fresh
  <2>1. CASE report' = report
    BY <1>2, <1>5, <2>1
  <2>2. CASE report' = [report EXCEPT ![r].warned = TRUE]
    <3>1. PICK new : new = [old EXCEPT !.warned = TRUE]
      OBVIOUS
    <3>2. new = report'[r] /\ \A q \in Run : q # r => report'[q] = report[q]
      BY <1>2, <1>5, <2>2, <3>1
    <3>3. {"rows", "counted"} \subseteq DOMAIN new /\ new.rows = old.rows /\ new.counted = old.counted
      BY <1>5, <3>1
    <3> QED BY <3>2, <3>3
  <2>3. CASE report' = [report EXCEPT ![r].rows = @ \cup more, ![r].counted = @ \cup fresh]
    <3>1. PICK new : new = [old EXCEPT !.rows = @ \cup more, !.counted = @ \cup fresh]
      OBVIOUS
    <3>2. new = report'[r] /\ \A q \in Run : q # r => report'[q] = report[q]
      BY <1>2, <1>5, <2>3, <3>1
    <3>3. /\ {"rows", "counted"} \subseteq DOMAIN new
          /\ new.rows = old.rows \cup more /\ new.counted = old.counted \cup fresh
      BY <1>5, <3>1
    <3> QED BY <3>2, <3>3
  <2> QED BY <1>4, <2>1, <2>2, <2>3
<1>7. /\ new = report'[r] /\ todo'[r] = todo[r] \ {s}
      /\ \A q \in Run : q # r => report'[q] = report[q] /\ todo'[q] = todo[q]
  BY <1>3, <1>5, <1>6
<1>8. /\ Grows /\ SidesGrow /\ Streams' /\ SoundFiles' /\ \A q \in Run : Third(q)'
  BY <1>3, <1>5, NothingWritten
<1>9. \E ids, u, ms, t : MadeOf(r, new, ids, u, ms, t)
  <2>1. CASE new.rows = old.rows /\ new.counted = old.counted
    <3>1. PICK ids, u, ms, t : MadeOf(r, old, ids, u, ms, t)
      BY <1>2, <1>5 DEF Booked
    <3>2. MadeOf(r, new, ids, u, ms, t)
      BY <2>1, <3>1 DEF MadeOf
    <3> QED BY <3>2
  <2>2. CASE new.rows = old.rows \cup more /\ new.counted = old.counted \cup fresh
    BY <1>1, <1>2, <1>3, <2>2, NestedBook DEF more, fresh
  <2> QED BY <1>6, <2>1, <2>2
<1>10. Booked(r)'
  BY <1>5, <1>7, <1>8, <1>9, MadeLater
<1>11. Knows(r)'
  <2>1. r \notin todo'[r] /\ (todo'[r] # {} => MainIds(r) \subseteq report'[r].counted)
    BY <1>2, <1>5, <1>6, <1>7 DEF Knows
  <2> QED BY <1>3, <2>1 DEF Knows, MainIds
<1>12. ASSUME NEW q \in Run, q # r, run'[q] \in {"nested", "recorded"}
       PROVE  Booked(q)' /\ Knows(q)'
  <2>1. Booked(q) /\ Knows(q)
    BY <1>3, <1>5, <1>12 DEF Books
  <2>2. report'[q] = report[q] /\ todo'[q] = todo[q] /\ file'[q]["main"] = file[q]["main"]
    BY <1>3, <1>7, <1>12
  <2> QED BY <1>5, <1>8, <2>1, <2>2, BookStays
<1>13. \A q \in Run : {"rows", "counted"} \subseteq DOMAIN report'[q]
  BY <1>5, <1>6, <1>7 DEF Books
<1>14. Books'
  BY <1>10, <1>11, <1>12, <1>13 DEF Books
<1>15. Lives'
  BY <1>3, <1>5 DEF Lives
<1> QED BY <1>8, <1>14, <1>15 DEF Counts

-----------------------------------------------------------------------------
(* A session's rows state no more than it spent.                           *)

LEMMA InitCounts == Init => Counts
<1> SUFFICES ASSUME Init PROVE Counts
  OBVIOUS
<1>1. \A s \in Session, f \in Files : file[s][f] = <<>>
  BY DEF Init
<1>2. Len(<<>>) = 0 /\ 1 .. 0 = {}
  OBVIOUS
<1>3. SoundFiles
  BY <1>1, <1>2 DEF SoundFiles
<1>4. \A r \in Run : Third(r)
  BY <1>1, <1>2 DEF Third, Session, Files
<1>5. Lives
  BY <1>1 DEF Init, Lives, Session, Files
<1>6. Streams
  BY <1>2 DEF Init, Streams, NoTotals
<1>7. Books
  BY DEF Init, Books, NoReport
<1> QED BY <1>3, <1>4, <1>5, <1>6, <1>7 DEF Counts

LEMMA NextCounts == Inv /\ Counts /\ [Next]_vars => Counts'
<1> SUFFICES ASSUME Inv, Counts, [Next]_vars PROVE Counts'
  OBVIOUS
<1>1. CASE Tick \/ UNCHANGED vars
  BY <1>1, TickCounts
<1>2. CASE Agents
  <2>1. ASSUME NEW s \in Session, NEW f \in Files, BeginRequest(s, f) \/ EndRequest(s, f) PROVE Counts'
    BY <2>1, BeginRequestCounts, EndRequestCounts
  <2>2. ASSUME NEW s \in Other, StartOther(s) \/ CopyRequest(s) \/ EndOther(s) PROVE Counts'
    BY <2>2, StartOtherCounts, CopyRequestCounts, EndOtherCounts
  <2>3. ASSUME NEW r \in Run, EmitInit(r) \/ EmitResult(r) \/ \E m \in Model : SideRequest(r, m) PROVE Counts'
    BY <2>3, StreamCounts
  <2> QED BY <1>2, <2>1, <2>2, <2>3 DEF Agents
<1>3. CASE Runs
  <2> SUFFICES ASSUME NEW r \in Run,
                      \/ Claim(r) \/ Launch(r) \/ Exit(r) \/ Finish(r) \/ RefuseTruncated(r)
                      \/ Record(r) \/ Crash(r) \/ \E s \in Session : nestedSession(r, s)
               PROVE  Counts'
    BY <1>3 DEF Runs
  <2> QED BY LaunchCounts, ExitCounts, FinishCounts, StepCounts, NestedCounts
<1> QED BY <1>1, <1>2, <1>3 DEF Next

(* The rows of one run: each request of a session, once, at two units or   *)
(* less, and each total of the run.                                        *)
LEMMA BookBound ==
  ASSUME Types, Streams, NEW r \in Run, Booked(r), NEW s \in Session, NEW K,
         \A p \in K : p[1] = r /\ p = <<r, p[2]>> /\ p[2] \in report[r].rows /\ p[2].of = s
  PROVE  RowUnits(K) <= Spent(s)
<1>1. PICK made : made = report[r]
  OBVIOUS
<1>2. PICK ids, u, ms, t : MadeOf(r, made, ids, u, ms, t)
  BY <1>1 DEF Booked
<1> DEFINE N == {n \in 1 .. begun[s] : <<s, n>> \in ids}
           pair(n) == <<r, Row(<<s, n>>, u[<<s, n>>])>>
           A == {pair(n) : n \in N}
           total(m) == <<r, Row(<<r, m>>, t[m])>>
           weigh(m) == IF s = r /\ m \in ms THEN t[m] ELSE 0
           W == [S \in SUBSET K |-> 2 * Cardinality(S \cap A)
                                      + (IF total("main") \in S THEN weigh("main") ELSE 0)
                                      + (IF total("side") \in S THEN weigh("side") ELSE 0)]
<1>3. begun[s] \in Nat
  BY DEF Types
<1>4. /\ IsFiniteSet(A) /\ Cardinality(A) \in Nat /\ Cardinality(A) <= begun[s]
  <2> DEFINE b == begun[s]
             I == 1 .. b
  <2>1. IsFiniteSet(I) /\ Cardinality(I) = b
    <3>1. b \in Nat
      BY <1>3
    <3> HIDE DEF b
    <3> QED BY <3>1, FS_Interval
  <2>2. IsFiniteSet(N) /\ Cardinality(N) <= b
    <3>1. N \subseteq I
      OBVIOUS
    <3> HIDE DEF N, I, b
    <3> QED BY <2>1, <3>1, FS_Subset
  <2> DEFINE g == [n \in N |-> pair(n)]
  <2>3. g \in Surjection(N, A)
    <3> HIDE DEF N, pair
    <3> QED BY DEF Surjection
  <2>4. IsFiniteSet(A) /\ Cardinality(A) <= Cardinality(N)
    <3> HIDE DEF A, N, g
    <3> QED BY <2>2, <2>3, FS_Surjection
  <2>5. Cardinality(A) \in Nat /\ Cardinality(N) \in Nat
    BY <2>2, <2>4, FS_CardinalityType
  <2> HIDE DEF A, N
  <2> QED BY <1>3, <2>2, <2>4, <2>5
<1>5. /\ \A n \in N : pair(n)[2].units \in {1, 2}
      /\ \A m \in ms : m \in {"main", "side"} /\ t[m] \in Int /\ t[m] > 0 /\ total(m)[2].units = t[m] /\ total(m)[2].of = r
  <2>1. \A n \in N : u[<<s, n>>] \in {1, 2}
    BY <1>2 DEF MadeOf, Sent
  <2>2. \A m \in ms : m \in {"main", "side"} /\ t[m] \in Int /\ t[m] > 0
    BY <1>2 DEF MadeOf, Stated, Model
  <2> QED BY <2>1, <2>2 DEF Row
<1>6. ASSUME NEW p \in K PROVE p \in A \/ (s = r /\ \E m \in ms : p = total(m))
  <2>1. p = <<r, p[2]>> /\ p[2] \in made.rows /\ p[2].of = s
    BY <1>1
  <2>2. CASE \E id \in ids : p[2] = Row(id, u[id])
    <3>1. PICK id \in ids : p[2] = Row(id, u[id])
      BY <2>2
    <3>2. id \in Session \X Nat /\ id[2] \in 1 .. begun[id[1]] /\ id[1] = s
      BY <1>2, <2>1, <3>1 DEF MadeOf, Sent, Row
    <3>3. id = <<s, id[2]>> /\ id[2] \in N
      BY <3>2
    <3>4. p = pair(id[2])
      BY <2>1, <3>1, <3>3
    <3> QED BY <3>3, <3>4
  <2>3. CASE \E m \in ms : p[2] = Row(<<r, m>>, t[m])
    BY <2>1, <2>3 DEF Row
  <2> QED BY <1>2, <2>1, <2>2, <2>3 DEF MadeOf
<1>7. IsFiniteSet(K)
  <2> DEFINE B == {total("main")} \cup {total("side")}
  <2>1. IsFiniteSet(B)
    BY FS_Singleton, FS_Union
  <2>2. K \subseteq A \cup B
    BY <1>5, <1>6
  <2> HIDE DEF A, B
  <2>3. IsFiniteSet(A \cup B)
    BY <1>4, <2>1, FS_Union
  <2> QED BY <2>2, <2>3, FS_Subset
<1>8. weigh("main") \in Nat /\ weigh("side") \in Nat
  <2>1. \A m \in ms : t[m] \in Nat
    <3>1. \A m \in ms : t[m] \in Int /\ t[m] > 0
      BY <1>5
    <3> QED BY <3>1
  <2> QED BY <2>1
<1>9. ASSUME NEW S \in SUBSET K PROVE IsFiniteSet(S \cap A) /\ Cardinality(S \cap A) \in Nat
  <2> HIDE DEF A
  <2>1. S \cap A \subseteq A
    OBVIOUS
  <2> QED BY <1>4, <2>1, FS_Subset, FS_CardinalityType
<1>10. \A p \in K : p[2].units \in Int
  <2> TAKE p \in K
  <2>1. CASE p \in A
    <3>1. PICK n \in N : p = pair(n)
      BY <2>1
    <3>2. p[2].units \in {1, 2}
      BY <1>5, <3>1
    <3> QED BY <3>2
  <2>2. CASE p \notin A
    <3>1. PICK m \in ms : p = total(m)
      BY <1>6, <2>2
    <3>2. t[m] \in Int /\ p[2].units = t[m]
      BY <1>5, <3>1
    <3> QED BY <3>2
  <2> QED BY <2>1, <2>2
<1>11. W \in [SUBSET K -> Int]
  <2>1. ASSUME NEW S \in SUBSET K
        PROVE  2 * Cardinality(S \cap A) + (IF total("main") \in S THEN weigh("main") ELSE 0)
                 + (IF total("side") \in S THEN weigh("side") ELSE 0) \in Int
    <3>1. Cardinality(S \cap A) \in Nat
      BY <1>9
    <3> HIDE DEF A, total, weigh
    <3> QED BY <1>8, <3>1
  <2> HIDE DEF A, total, weigh
  <2> QED BY <2>1
<1>12. W[{}] = 0
  <2>1. {} \cap A = {} /\ Cardinality({}) = 0
    BY FS_EmptySet
  <2> HIDE DEF A, total, weigh
  <2> QED BY <2>1
<1>13. ASSUME NEW S \in SUBSET K, NEW p \in S PROVE p[2].units + W[S \ {p}] <= W[S]
  <2> DEFINE c(X) == Cardinality(X \cap A)
             a(X) == IF total("main") \in X THEN weigh("main") ELSE 0
             b(X) == IF total("side") \in X THEN weigh("side") ELSE 0
             R == S \ {p}
  <2>1. W[S] = 2 * c(S) + a(S) + b(S) /\ W[R] = 2 * c(R) + a(R) + b(R)
    OBVIOUS
  <2>2. c(S) \in Nat /\ c(R) \in Nat /\ a(S) \in Nat /\ a(R) \in Nat /\ b(S) \in Nat /\ b(R) \in Nat
    <3>1. R \in SUBSET K
      OBVIOUS
    <3> HIDE DEF A, weigh, total, R
    <3> QED BY <1>8, <1>9, <3>1
  <2>3. a(R) <= a(S) /\ b(R) <= b(S) /\ c(R) <= c(S)
    <3>1. R \cap A \subseteq S \cap A
      OBVIOUS
    <3>2. c(R) <= c(S)
      <4> HIDE DEF A, R
      <4> QED BY <1>9, <3>1, FS_Subset
    <3>3. a(R) <= a(S)
      <4>1. CASE total("main") \in S
        <5>1. a(S) = weigh("main") /\ a(R) \in {0, weigh("main")}
          BY <4>1
        <5> HIDE DEF a, weigh
        <5> QED BY <1>8, <5>1
      <4>2. CASE total("main") \notin S
        <5>1. a(S) = 0 /\ a(R) = 0
          BY <4>2
        <5> HIDE DEF a
        <5> QED BY <5>1
      <4> QED BY <4>1, <4>2
    <3>4. b(R) <= b(S)
      <4>1. CASE total("side") \in S
        <5>1. b(S) = weigh("side") /\ b(R) \in {0, weigh("side")}
          BY <4>1
        <5> HIDE DEF b, weigh
        <5> QED BY <1>8, <5>1
      <4>2. CASE total("side") \notin S
        <5>1. b(S) = 0 /\ b(R) = 0
          BY <4>2
        <5> HIDE DEF b
        <5> QED BY <5>1
      <4> QED BY <4>1, <4>2
    <3> QED BY <3>2, <3>3, <3>4
  <2>4. CASE p \in A
    <3>1. p[2].units \in {1, 2}
      BY <1>5, <2>4
    <3>2. c(R) = c(S) - 1
      <4>1. R \cap A = (S \cap A) \ {p} /\ p \in S \cap A
        BY <2>4
      <4>2. IsFiniteSet(S \cap A)
        BY <1>9
      <4> DEFINE Z == S \cap A
      <4> HIDE DEF Z
      <4>3. Cardinality(Z \ {p}) = Cardinality(Z) - 1
        BY <4>1, <4>2, FS_RemoveElement DEF Z
      <4> QED BY <4>1, <4>3 DEF Z
    <3>3. p[2].units + W[R] <= W[S]
      <4> HIDE DEF W, c, a, b, R
      <4> QED BY <2>1, <2>2, <2>3, <3>1, <3>2
    <3> QED BY <3>3
  <2>5. CASE p \notin A
    <3>1. PICK m \in ms : s = r /\ p = total(m)
      BY <1>6, <2>5
    <3>2. m \in {"main", "side"} /\ p[2].units = t[m] /\ weigh(m) = t[m] /\ t[m] \in Int
      BY <1>5, <3>1
    <3>3. (m = "main" => a(S) = a(R) + t[m]) /\ (m = "side" => b(S) = b(R) + t[m])
      <4>1. m = "main" => a(S) = weigh("main") /\ a(R) = 0
        <5> HIDE DEF weigh, total
        <5> QED BY <3>1
      <4>2. m = "side" => b(S) = weigh("side") /\ b(R) = 0
        <5> HIDE DEF weigh, total
        <5> QED BY <3>1
      <4> HIDE DEF a, b, weigh
      <4> QED BY <3>2, <4>1, <4>2
    <3>4. p[2].units + W[R] <= W[S]
      <4> HIDE DEF W, c, a, b, R, weigh
      <4> QED BY <2>1, <2>2, <2>3, <3>2, <3>3
    <3> QED BY <3>4
  <2> QED BY <2>4, <2>5
<1>14. RowUnits(K) <= W[K] /\ RowUnits(K) \in Int /\ W[K] \in Int
  <2> HIDE DEF W
  <2>1. K \in SUBSET K
    OBVIOUS
  <2> QED BY <1>7, <1>10, <1>11, <1>12, <1>13, <2>1, SumBound
<1>15. W[K] <= 2 * Cardinality(A) + weigh("main") + weigh("side")
  <2>1. Cardinality(K \cap A) <= Cardinality(A) /\ Cardinality(K \cap A) \in Nat
    <3> HIDE DEF A
    <3> QED BY <1>4, <1>9, FS_Subset
  <2> HIDE DEF A, total, weigh
  <2> QED BY <1>4, <1>8, <2>1
<1>16. 2 * Cardinality(A) + weigh("main") + weigh("side") <= Spent(s)
  <2>1. CASE s # r
    <3>1. weigh("main") = 0 /\ weigh("side") = 0
      BY <2>1
    <3>2. 2 * begun[s] <= Spent(s)
      <4>1. s \in Run => sides[s]["main"] \in Nat /\ sides[s]["side"] \in Nat
        BY DEF Streams, Model
      <4> QED BY <1>3, <4>1 DEF Spent
    <3>3. Spent(s) \in Int
      <4>1. s \in Run => sides[s]["main"] \in Nat /\ sides[s]["side"] \in Nat
        BY DEF Streams, Model
      <4> QED BY <1>3, <4>1 DEF Spent
    <3> HIDE DEF A, weigh
    <3> QED BY <1>3, <1>4, <3>1, <3>2, <3>3
  <2>2. CASE s = r
    <3>1. /\ Spent(s) = 2 * begun[s] + (sides[s]["main"] + sides[s]["side"])
          /\ sides[s]["main"] \in Nat /\ sides[s]["side"] \in Nat
      BY <2>2 DEF Spent, Streams, Model
    <3>2. /\ t["main"] <= 2 * begun[s] + sides[s]["main"] /\ t["side"] <= sides[s]["side"]
          /\ t["main"] \in Int /\ t["side"] \in Int
      BY <1>2, <2>2 DEF MadeOf, Stated, Model
    <3>3. weigh("side") <= sides[s]["side"] /\ weigh("side") \in Nat
      BY <1>8, <3>1, <3>2
    <3>4. Cardinality(A) \in Nat /\ Cardinality(A) <= begun[s]
      BY <1>4
    <3>5. CASE "main" \in ms
      <4>1. N = {}
        BY <1>2, <2>2, <3>5 DEF MadeOf
      <4>2. A = {}
        BY <4>1
      <4>3. Cardinality(A) = 0
        BY <4>2, FS_EmptySet
      <4>4. weigh("main") = t["main"]
        BY <2>2, <3>5
      <4> HIDE DEF A, weigh
      <4> QED BY <1>3, <3>1, <3>2, <3>3, <4>3, <4>4
    <3>6. CASE "main" \notin ms
      <4>1. weigh("main") = 0
        BY <3>6
      <4> HIDE DEF A, weigh
      <4> QED BY <1>3, <3>1, <3>3, <3>4, <4>1
    <3> QED BY <3>5, <3>6
  <2> QED BY <2>1, <2>2
<1>17. Spent(s) \in Int
  <2>1. s \in Run => sides[s]["main"] \in Nat /\ sides[s]["side"] \in Nat
    BY DEF Streams, Model
  <2> QED BY <1>3, <2>1 DEF Spent
<1> HIDE DEF W, A, weigh
<1> QED BY <1>4, <1>8, <1>14, <1>15, <1>16, <1>17

(* Nothing is counted of a session that no recorded run has rows of.       *)
LEMMA NoRows == RowUnits({}) <= 0 /\ RowUnits({}) \in Int
<1> DEFINE W == [S \in SUBSET {} |-> 0]
<1>1. IsFiniteSet({}) /\ W \in [SUBSET {} -> Int] /\ W[{}] = 0
  BY FS_EmptySet
<1>2. RowUnits({}) <= W[{}] /\ RowUnits({}) \in Int
  <2> HIDE DEF W
  <2> QED BY <1>1, SumBound
<1> QED BY <1>1, <1>2

LEMMA InvCountedOnce == Inv /\ Counts => (Whole => CountedOnce)
<1> SUFFICES ASSUME Inv, Counts, Whole, NEW s \in Session
             PROVE  RowUnits(RowsOf(s)) <= Spent(s)
  BY DEF CountedOnce
<1>1. Types /\ Streams /\ Books /\ OwnRows
  BY DEF Inv, Counts, Orderly
<1>2. CASE RowsOf(s) = {}
  <2>1. begun[s] \in Nat /\ (s \in Run => sides[s]["main"] \in Nat /\ sides[s]["side"] \in Nat)
    BY <1>1 DEF Types, Streams, Model
  <2>2. Spent(s) \in Nat
    BY <2>1 DEF Spent
  <2>3. RowUnits({}) <= 0 /\ RowUnits({}) \in Int
    BY NoRows
  <2> QED BY <1>2, <2>2, <2>3
<1>3. CASE RowsOf(s) # {}
  <2> DEFINE owner == IF s \in Run THEN s ELSE Starter[s]
  <2>1. ASSUME NEW p \in RowsOf(s)
        PROVE  /\ owner \in Run /\ run[owner] = "recorded"
               /\ p[1] = owner /\ p = <<owner, p[2]>> /\ p[2] \in report[owner].rows /\ p[2].of = s
    <3>1. PICK r \in Run : run[r] = "recorded" /\ p \in {r} \X report[r].rows /\ p[2].of = s
      BY DEF RowsOf
    <3>2. p[1] = r /\ p = <<r, p[2]>> /\ p[2] \in report[r].rows
      BY <3>1
    <3>3. s = r \/ (s \in Other /\ Starter[s] = r)
      BY <1>1, <3>1, <3>2 DEF OwnRows, OwnRow
    <3>4. owner = r
      BY <3>3, ClaudeSessionAssumption
    <3> QED BY <3>1, <3>2, <3>4
  <2>2. PICK r : r = owner
    OBVIOUS
  <2>3. r \in Run /\ run[r] = "recorded"
    BY <1>3, <2>1, <2>2
  <2>4. Booked(r)
    BY <1>1, <2>3 DEF Books
  <2>5. \A p \in RowsOf(s) : p[1] = r /\ p = <<r, p[2]>> /\ p[2] \in report[r].rows /\ p[2].of = s
    BY <2>1, <2>2
  <2> QED BY <1>1, <2>3, <2>4, <2>5, BookBound
<1> QED BY <1>2, <1>3

(* Inside CI, over all the runs that share the directory, the rows never   *)
(* state more of a session than it spent: no request is counted by two     *)
(* runs, by a run and as nested, by file and by result, or once for each   *)
(* of its lines (Claim, addResponse, sideModels, nestedSessions' counted), *)
(* unless a costroid was killed: its agent may outlive the lock, so that   *)
(* the next run begins while the files of the first are being written.     *)
THEOREM SpecCountedOnce == Spec => [](Whole => CountedOnce)
<1>1. Inv /\ Counts /\ [Next]_vars => Inv' /\ Counts'
  BY NextInv, NextCounts
<1>2. Init => Inv /\ Counts
  BY InitInv, InitCounts
<1> QED BY <1>1, <1>2, InvCountedOnce, PTL DEF Spec
=============================================================================
