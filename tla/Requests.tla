------------------------------- MODULE Requests -------------------------------
(* The requests the management API serves: a client has one request at a time,
   handled in several steps when it reads, calls out or waits in between.  The
   components of the control plane share these definitions.

   workload is the kind of requests of one behaviour and never changes: it lets
   one instance cover the components one after the other, and together where
   they meet, without the product of everything with everything. *)
EXTENDS Naturals

CONSTANTS
  Clients,      \* callers, each served by a thread of the API process
  None,         \* no row, no job, no number
  Workloads,    \* [ops, most, from, about]: operations requested together, how
                \* many requests at most, what they start from, of which agents
  MaxRequests,  \* bound on requests
  MaxFaults     \* bound on requests that break off

VARIABLES workload, busy, served, faults

requestVars == <<workload, busy, served, faults>>

ASSUME RequestAssumption ==
  /\ MaxRequests \in Nat /\ MaxFaults \in Nat
  /\ \A w \in Workloads : w.most \in 0..MaxRequests

RequestInit ==
  /\ workload \in Workloads
  /\ busy = {} /\ served = 0 /\ faults = 0

RequestTypeOK ==
  /\ workload \in Workloads /\ busy \subseteq Clients
  /\ served \in 0..workload.most /\ faults \in 0..MaxFaults

Admits(op) == op \in workload.ops /\ served < workload.most /\ served' = served + 1

(* A request that takes one transaction; one that is begun, goes on, ends. *)
AtOnce(op) == Admits(op) /\ UNCHANGED <<workload, busy, faults>>
Begins(c, op) ==
  /\ Admits(op) /\ c \notin busy /\ busy' = busy \cup {c}
  /\ UNCHANGED <<workload, faults>>
GoesOn == UNCHANGED requestVars
Ends(c) == busy' = busy \ {c} /\ UNCHANGED <<workload, served, faults>>

(* The request breaks off: an error, a lost connection, a worker process that
   dies.  Its transaction is rolled back. *)
BreaksOff(c) ==
  /\ faults < MaxFaults /\ faults' = faults + 1
  /\ busy' = busy \ {c} /\ UNCHANGED <<workload, served>>
=============================================================================
