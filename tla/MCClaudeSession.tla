--------------------------- MODULE MCClaudeSession --------------------------
(* Constants of the TLC run of module ClaudeSession. A behaviour has one   *)
(* run on its own, with every kind of line; two runs and a hook of one of  *)
(* them, in CI; a run of claude-code-action beside a run of costroid; or a *)
(* run on a developer's machine beside a session of the developer's.       *)
EXTENDS ClaudeSession

CONSTANTS r1, r2, hook, dev

Places ==
  [s \in Session |-> CASE s = hook -> [project |-> "tmp", cwd |-> "tmp"]
                       [] s = dev -> [project |-> "p", cwd |-> "elsewhere"]
                       [] OTHER -> [project |-> "p", cwd |-> "c"]]
Starters == [s \in Other |-> IF s = hook THEN r1 ELSE Nobody]

Few(a, b, h, d) == [s \in Session |-> CASE s = r1 -> a [] s = r2 -> b [] s = hook -> h [] s = dev -> d]

Alone ==
  [oneJob |-> FALSE, contained |-> TRUE, persist |-> TRUE, odd |-> TRUE, files |-> Files, byAction |-> {},
   requests |-> Few(2, 0, 0, 0), results |-> 2, side |-> 1, time |-> 0]
Unfiled == [Alone EXCEPT !.persist = FALSE, !.side = 2]
Hooked ==
  [Alone EXCEPT !.oneJob = TRUE, !.files = {"main"}, !.requests = Few(1, 0, 1, 0), !.results = 1, !.side = 0, !.time = 1]
Shared == [Hooked EXCEPT !.odd = FALSE, !.requests = Few(1, 1, 1, 0), !.results = 0, !.time = 2]
Action == [Shared EXCEPT !.byAction = {r1}]
Developer ==
  [Hooked EXCEPT !.oneJob = FALSE, !.contained = FALSE, !.odd = FALSE, !.requests = Few(1, 0, 1, 1), !.results = 0]
AllSetups == {Alone, Unfiled, Hooked, Shared, Action, Developer}
=============================================================================
