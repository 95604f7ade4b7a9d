---------------------------- MODULE MCTeamScheduler ----------------------------
(* Plans of three tasks: nothing, one edge, a chain, a fork and a join, one edge
   and the chain against the order of the positions, and two cycles. *)
EXTENDS TeamScheduler, TLC

CONSTANTS m1, m2

Shapes == {<<{}, {}, {}>>, <<{}, {1}, {}>>, <<{3}, {}, {}>>,
           <<{2}, {3}, {}>>, <<{}, {1}, {1}>>, <<{}, {}, {1, 2}>>}
Cycles == {<<{2}, {1}, {}>>, <<{3}, {1}, {2}>>}
Plan3(bys, deps) == [t \in Tasks |-> [by |-> bys[t], deps |-> deps[t]]]

MCPlans == {Plan3(<<m1, m2, m1>>, deps) : deps \in Shapes \cup Cycles}
             \cup {Plan3(<<m1, m1, m2>>, deps) : deps \in {<<{}, {1}, {}>>, <<{}, {}, {1, 2}>>}}
=============================================================================
