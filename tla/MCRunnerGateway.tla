--------------------------- MODULE MCRunnerGateway ---------------------------
(* Model-checking definitions for RunnerGateway. *)
EXTENDS RunnerGateway, TLC

(* Two keys where a second request changes what the first one did. *)
MCSlots == [op : Ops, key : {"k1"}] \cup [op : {"artifact.create", "event.append"}, key : {"k2"}]

(* Threads are alike. *)
Symmetry == Permutations(Threads)
=============================================================================
