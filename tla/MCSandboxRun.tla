---------------------------- MODULE MCSandboxRun ----------------------------
(* Model-checking definitions for SandboxRun. *)
EXTENDS SandboxRun, TLC

(* The threads of the executor are alike, and so are the HTTP threads.  Used
   by the runs that check no liveness. *)
ThreadSymmetry == Permutations(Pool) \cup Permutations(Handlers)

(* The run has calls of one kind: a tool that needs an approval, perhaps with a
   restart; a script that needs one; or a script that needs none, perhaps with a
   restart and something that fails.  States beyond these are not explored
   further. *)
AskedFor == {c \in Calls : inv[c] # "none" \/ container.call = c \/ \E r \in inflight : r.call = c}
OneKind ==
  /\ Cardinality(AskedFor) <= 1
  /\ crashes > 0 => AskedFor \cap Scripts = {}
  /\ faults > 0 => AskedFor \subseteq FreeScripts
=============================================================================
