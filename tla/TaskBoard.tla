------------------------------- MODULE TaskBoard -------------------------------
(***************************************************************************)
(* What a team run promises about the tasks of its plan: a task is begun   *)
(* when its dependencies are done and its member is free, it is settled    *)
(* once and for good, what depends on a failure fails, and the supervisor  *)
(* sums up when all tasks are settled and not before.                      *)
(***************************************************************************)
EXTENDS Naturals, FiniteSets

CONSTANTS Tasks, MaxParallel, NoPlan

VARIABLES
  plan,   \* the member and the dependencies of each task, NoPlan at first
  st,     \* what became of each task
  phase   \* where the run is

board == <<plan, st, phase>>

Are(s) == {t \in Tasks : st[t] = s}
Now(s) == {t \in Tasks : st'[t] = s}

(* A set of tasks each of which waits for another one of them. *)
Cycle(p, S) == S # {} /\ \A t \in S : p[t].deps \cap S # {}

Init == plan = NoPlan /\ st = [t \in Tasks |-> "todo"] /\ phase = "planning"

Publish ==
  /\ phase = "planning" /\ phase' = "executing"
  /\ plan' # NoPlan
  /\ \A S \in SUBSET Tasks : ~Cycle(plan', S)
  /\ UNCHANGED st

Start ==
  /\ phase = "executing"
  /\ Are("running") \subseteq Now("running")
  /\ Now("done") = Are("done") /\ Now("failed") = Are("failed")
  /\ \A t \in Now("running") : plan[t].deps \subseteq Are("done")
  /\ \A t, u \in Now("running") : plan[t].by = plan[u].by => t = u
  /\ Cardinality(Now("running")) <= MaxParallel
  /\ UNCHANGED <<plan, phase>>

(* Some running tasks are settled.  A failure may put the others back. *)
Settle ==
  /\ phase = "executing"
  /\ \A t \in Tasks : st'[t] # st[t] => st[t] = "running"
  /\ Are("running") \cap Now("todo") # {} => Now("failed") # {}
  /\ UNCHANGED <<plan, phase>>

(* Tasks that depend on a failure fail.  The running ones are put back. *)
Block ==
  /\ phase = "executing"
  /\ \A t \in Tasks : st'[t] # st[t] =>
       \/ st[t] = "running" /\ st'[t] = "todo"
       \/ st'[t] = "failed" /\ plan[t].deps \cap Are("failed") # {}
            /\ st[t] \in {"todo", "running"}
  /\ UNCHANGED <<plan, phase>>

SumUp ==
  /\ phase = "executing" /\ phase' = "synthesizing"
  /\ Are("done") \cup Are("failed") = Tasks
  /\ UNCHANGED <<plan, st>>

Finish ==
  /\ phase = "synthesizing" /\ phase' = "completed"
  /\ UNCHANGED <<plan, st>>

Next == Publish \/ Start \/ Settle \/ Block \/ SumUp \/ Finish
Spec == Init /\ [][Next]_board
=============================================================================
