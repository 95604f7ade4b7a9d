-------------------------- MODULE TeamScheduler_proofs --------------------------
(***************************************************************************)
(* Proofs about the team scheduler for any plans, any number of tasks,     *)
(* parallel members, faults, crashes and restarts.  What is said of the    *)
(* checkpoints and the events in general ends when a straggler stores a    *)
(* checkpoint that misses the failure of its batch (straggled).            *)
(*                                                                         *)
(* First facts about plans, batches and lists of calls.  Then the          *)
(* invariant: SchedulerInv relates the stored checkpoint, the log, the     *)
(* state in memory with the calls that are still to be made, what a member *)
(* thread may save after the main thread has given up, and what is saved   *)
(* while the batch of a failure is settled: a picture of the batch with    *)
(* some of its outcomes, each ahead of the one before.  Each action        *)
(* has a lemma of its own.  What the runs check follows from it, and so    *)
(* does the step simulation of the task board.                             *)
(***************************************************************************)
EXTENDS TeamScheduler, FiniteSetTheorems, TLAPS

LEMMA LeastNumber ==
  ASSUME NEW T, T \subseteq Nat, T # {}
  PROVE  \E n \in T : \A m \in T : n <= m
<1> PICK k \in T : TRUE
  OBVIOUS
<1> DEFINE D == {1..n : n \in {i \in T : i <= k}}
<1>1. IsFiniteSet(1..k)
  BY FS_Interval
<1>2. D \subseteq FiniteSubsetsOf(1..k) /\ D # {}
  <2>1. \A n \in T : n <= k => 1..n \in SUBSET (1..k)
    OBVIOUS
  <2>2. \A n \in T : IsFiniteSet(1..n)
    BY FS_Interval
  <2> QED
    BY <2>1, <2>2 DEF FiniteSubsetsOf
<1>3. PICK x \in D : \A y \in D : ~(<<y, x>> \in StrictSubsetOrdering(1..k))
  BY <1>2, FS_StrictSubsetOrderingWellFounded, WFMin
<1>4. PICK n \in T : n <= k /\ x = 1..n
  OBVIOUS
<1>5. ASSUME NEW m \in T
      PROVE  n <= m
  <2> SUFFICES ASSUME m < n PROVE FALSE
    OBVIOUS
  <2>1. 1..m \in D /\ 1..m \in SUBSET (1..k) /\ x \in SUBSET (1..k)
    BY <1>4
  <2>2. 1..m \subseteq x /\ 1..m # x
    <3>1. n \in x /\ n \notin 1..m
      BY <1>4
    <3> QED
      BY <1>4, <3>1
  <2> QED
    BY <1>3, <2>1, <2>2 DEF StrictSubsetOrdering
<1> QED
  BY <1>5

LEMMA NumberInduction ==
  ASSUME NEW K, NEW N \in Nat, 0 \in K,
         \A n \in Nat : n < N /\ n \in K => n + 1 \in K
  PROVE  \A n \in 0..N : n \in K
<1> SUFFICES ASSUME NEW n \in 0..N, n \notin K PROVE FALSE
  OBVIOUS
<1> DEFINE T == {m \in 0..N : m \notin K}
<1>1. PICK m \in T : \A i \in T : m <= i
  <2>1. T \subseteq Nat /\ T # {}
    OBVIOUS
  <2> QED
    BY <2>1, LeastNumber
<1>2. m \in Nat /\ m # 0 /\ m <= N /\ m - 1 \in Nat
  OBVIOUS
<1>3. m - 1 \in K
  BY <1>1, <1>2
<1> QED
  BY <1>2, <1>3

-----------------------------------------------------------------------------
(* Plans *)

(* What validate_team_plan has reached after n rounds, as a function that is
   known to exist. *)
Rounds(p, f) ==
  f = [n \in 0..NumTasks |->
         IF n = 0 THEN {} ELSE {t \in Tasks : p[t].deps \subseteq f[n - 1]}]

LEMMA RoundsExist ==
  ASSUME NEW p
  PROVE  \E f : Rounds(p, f)
<1> DEFINE Step(g, n) == IF n = 0 THEN {} ELSE {t \in Tasks : p[t].deps \subseteq g[n - 1]}
           K == {k \in Nat : \E g \in [0..k -> SUBSET Tasks] : \A n \in 0..k : g[n] = Step(g, n)}
<1>1. 0 \in K
  <2>1. [n \in 0..0 |-> {}] \in [0..0 -> SUBSET Tasks]
    OBVIOUS
  <2>2. \A n \in 0..0 : [m \in 0..0 |-> {}][n] = Step([m \in 0..0 |-> {}], n)
    OBVIOUS
  <2> QED
    BY <2>1, <2>2
<1>2. ASSUME NEW k \in Nat, k \in K
      PROVE  k + 1 \in K
  <2>1. PICK g \in [0..k -> SUBSET Tasks] : \A n \in 0..k : g[n] = Step(g, n)
    BY <1>2
  <2> DEFINE h == [n \in 0..(k + 1) |-> IF n \in 0..k THEN g[n]
                                      ELSE {t \in Tasks : p[t].deps \subseteq g[k]}]
  <2>2. h \in [0..(k + 1) -> SUBSET Tasks]
    BY <2>1
  <2>3. ASSUME NEW n \in 0..(k + 1)
        PROVE  h[n] = Step(h, n)
    <3>1. CASE n = 0
      BY <2>1, <3>1
    <3>2. CASE n # 0 /\ n \in 0..k
      <4>1. n - 1 \in 0..k /\ n - 1 \in 0..(k + 1)
        BY <3>2
      <4>2. h[n - 1] = g[n - 1] /\ h[n] = g[n]
        BY <4>1, <3>2
      <4> QED
        BY <2>1, <3>2, <4>2
    <3>3. CASE n = k + 1
      <4>1. n - 1 = k /\ k \in 0..(k + 1) /\ n # 0 /\ n \notin 0..k
        BY <3>3
      <4>2. h[n - 1] = g[k] /\ h[n] = {t \in Tasks : p[t].deps \subseteq g[k]}
        BY <4>1
      <4> QED
        BY <4>1, <4>2
    <3> QED
      BY <3>1, <3>2, <3>3
  <2>4. k + 1 \in Nat
    OBVIOUS
  <2> HIDE DEF h, Step
  <2> QED
    BY <2>2, <2>3, <2>4
<1>3. NumTasks \in Nat
  BY ConstantAssumption
<1>4. NumTasks \in K
  <2> HIDE DEF K
  <2>1. \A n \in 0..NumTasks : n \in K
    BY <1>1, <1>2, <1>3, NumberInduction
  <2>2. NumTasks \in 0..NumTasks
    BY <1>3
  <2> QED
    BY <2>1, <2>2
<1>5. PICK g \in [0..NumTasks -> SUBSET Tasks] : \A n \in 0..NumTasks : g[n] = Step(g, n)
  BY <1>4
<1>6. Rounds(p, g)
  BY <1>5 DEF Rounds
<1> QED
  BY <1>6

LEMMA ReachedInRounds ==
  ASSUME NEW p
  PROVE  \E f : Rounds(p, f) /\ Reached(p) = f[NumTasks]
<1> DEFINE f == CHOOSE g : Rounds(p, g)
<1>1. Rounds(p, f)
  BY RoundsExist
<1>2. Reached(p) = f[NumTasks]
  BY DEF Reached, Rounds
<1> QED
  BY <1>1, <1>2

(* An accepted plan has no tasks that wait for one another, and no dependencies
   outside the plan. *)
LEMMA AcceptedPlan ==
  ASSUME NEW p, Accepted(p)
  PROVE  /\ \A t \in Tasks : p[t].deps \subseteq Tasks
         /\ \A S \in SUBSET Tasks : S # {} => \E t \in S : p[t].deps \cap S = {}
<1>1. PICK f : Rounds(p, f) /\ f[NumTasks] = Tasks
  BY ReachedInRounds DEF Accepted
<1>2. NumTasks \in Nat
  BY ConstantAssumption
<1>3. /\ f[0] = {}
      /\ \A n \in 1..NumTasks : f[n] = {t \in Tasks : p[t].deps \subseteq f[n - 1]}
      /\ \A n \in 0..NumTasks : f[n] \subseteq Tasks
  <2>1. \A n \in 0..NumTasks :
          f[n] = IF n = 0 THEN {} ELSE {t \in Tasks : p[t].deps \subseteq f[n - 1]}
    BY <1>1, Zenon DEF Rounds
  <2>2. 0 \in 0..NumTasks /\ \A n \in 1..NumTasks : n \in 0..NumTasks /\ n # 0
    BY <1>2
  <2>3. f[0] = {} /\ \A n \in 1..NumTasks : f[n] = {t \in Tasks : p[t].deps \subseteq f[n - 1]}
    BY <2>1, <2>2
  <2>4. \A n \in 0..NumTasks : f[n] \subseteq Tasks
    BY <2>1
  <2> QED
    BY <2>3, <2>4
<1>4. ASSUME NEW t \in Tasks
      PROVE  p[t].deps \subseteq Tasks
  <2>1. NumTasks \in 1..NumTasks /\ NumTasks - 1 \in 0..NumTasks
    BY <1>2 DEF Tasks
  <2> QED
    BY <1>1, <1>3, <2>1
<1>5. ASSUME NEW S \in SUBSET Tasks, S # {}
      PROVE  \E t \in S : p[t].deps \cap S = {}
  <2> DEFINE N == {n \in 0..NumTasks : f[n] \cap S # {}}
  <2>1. PICK n \in N : \A m \in N : n <= m
    <3>1. NumTasks \in N /\ N \subseteq Nat
      BY <1>1, <1>2, <1>5
    <3> HIDE DEF N
    <3> QED
      BY <3>1, LeastNumber
  <2>2. n \in 1..NumTasks /\ n - 1 \in 0..NumTasks
    BY <1>2, <1>3
  <2>3. n - 1 \notin N
    BY <2>1, <2>2
  <2>4. f[n - 1] \cap S = {}
    BY <2>2, <2>3
  <2> QED
    BY <1>3, <2>1, <2>2, <2>4
<1> QED
  BY <1>4, <1>5

-----------------------------------------------------------------------------
(* Batches *)

LEMMA WorkFinite ==
  /\ Tasks \subseteq Nat /\ Work \subseteq Nat /\ Synthesis \notin Tasks
  /\ \A S \in SUBSET Work : IsFiniteSet(S) /\ Cardinality(S) \in Nat
<1>1. NumTasks \in Nat
  BY ConstantAssumption
<1>2. Tasks \subseteq Nat /\ Synthesis \notin Tasks /\ Work \subseteq Nat
  BY <1>1 DEF Tasks, Synthesis, Work
<1>3. IsFiniteSet(Work)
  <2>1. Work = 0..NumTasks
    BY <1>1 DEF Work, Tasks, Synthesis
  <2> QED
    BY <1>1, <2>1, FS_Interval
<1> QED
  BY <1>2, <1>3, FS_Subset, FS_CardinalityType

LEMMA GreatestMember ==
  ASSUME NEW S \in SUBSET Work, S # {}
  PROVE  \E m \in S : \A t \in S : t <= m
<1>1. NumTasks \in Nat /\ \A t \in Work : t \in Nat /\ t <= NumTasks
  BY ConstantAssumption DEF Work, Tasks, Synthesis
<1> DEFINE D == {NumTasks - t : t \in S}
<1>2. D \subseteq Nat /\ D # {}
  BY <1>1
<1>3. PICK d \in D : \A e \in D : d <= e
  <2> HIDE DEF D
  <2> QED
    BY <1>2, LeastNumber
<1>4. PICK m \in S : d = NumTasks - m
  OBVIOUS
<1>5. ASSUME NEW t \in S
      PROVE  t <= m
  <2>1. NumTasks - t \in D
    OBVIOUS
  <2> QED
    BY <1>1, <1>3, <1>4, <2>1
<1> QED
  BY <1>5

(* The next batch: ready tasks of different members, no more than may run in
   parallel, and at least one if there is one. *)
LEMMA NextBatch ==
  ASSUME NEW c
  PROVE  /\ ReadyTasks(c) \subseteq Ready(c)
         /\ \A t, u \in ReadyTasks(c) : c.plan[t].by = c.plan[u].by => t = u
         /\ Cardinality(ReadyTasks(c)) <= MaxParallel
         /\ Ready(c) # {} => ReadyTasks(c) # {}
<1> DEFINE First(S) == {t \in S : \A u \in S : c.plan[u].by = c.plan[t].by => t <= u}
           F == First(Ready(c))
           Before(t) == {u \in F : u < t}
<1>1. ReadyTasks(c) = {t \in F : Cardinality(Before(t)) < MaxParallel}
  BY DEF ReadyTasks
<1>2. Ready(c) \subseteq Tasks /\ F \subseteq Ready(c) /\ Tasks \subseteq Nat
  BY WorkFinite DEF Ready
<1>3. \A t, u \in F : c.plan[t].by = c.plan[u].by => t = u
  <2> TAKE t \in F, u \in F
  <2> HAVE c.plan[t].by = c.plan[u].by
  <2>1. t <= u /\ u <= t /\ t \in Nat /\ u \in Nat
    BY <1>2
  <2> QED
    BY <2>1
<1>4. MaxParallel \in Nat /\ MaxParallel >= 1
  BY ConstantAssumption
<1> DEFINE R == {t \in F : Cardinality(Before(t)) < MaxParallel}
<1>5. Cardinality(R) <= MaxParallel
  <2>1. CASE R = {}
    <3> HIDE DEF R
    <3>1. Cardinality(R) = 0
      BY <2>1, FS_EmptySet
    <3> QED
      BY <3>1, <1>4
  <2>2. CASE R # {}
    <3>1. R \in SUBSET Work
      BY <1>2 DEF Work
    <3>2. PICK m \in R : \A t \in R : t <= m
      <4> HIDE DEF R
      <4> QED
        BY <3>1, <2>2, GreatestMember
    <3>3. Before(m) \in SUBSET Work
      BY <1>2 DEF Work
    <3>4. IsFiniteSet(Before(m)) /\ Cardinality(Before(m)) \in Nat
      BY <3>3, WorkFinite
    <3>5. R \subseteq Before(m) \cup {m}
      <4>1. R \subseteq F /\ \A t \in R : t \in Nat
        BY <1>2
      <4> HIDE DEF R, F
      <4>2. \A t \in R : t < m \/ t = m
        BY <3>2, <4>1
      <4> QED
        BY <4>1, <4>2
    <3>6. IsFiniteSet(Before(m) \cup {m}) /\ Cardinality(Before(m) \cup {m}) <= Cardinality(Before(m)) + 1
      <4> HIDE DEF Before
      <4> QED
        BY <3>4, FS_AddElement, FS_CardinalityType
    <3>7. Cardinality(R) <= Cardinality(Before(m) \cup {m})
      <4> HIDE DEF R, Before
      <4> QED
        BY <3>5, <3>6, FS_Subset
    <3>8. Cardinality(R) \in Nat /\ Cardinality(Before(m) \cup {m}) \in Nat
      <4> HIDE DEF R, Before
      <4> QED
        BY <3>1, <3>6, WorkFinite, FS_CardinalityType
    <3>9. Cardinality(Before(m)) < MaxParallel
      BY <3>2
    <3> HIDE DEF R, Before
    <3> QED
      BY <3>4, <3>6, <3>7, <3>8, <3>9, <1>4
  <2> QED
    BY <2>1, <2>2
<1>6. Ready(c) # {} => R # {}
  <2> SUFFICES ASSUME Ready(c) # {} PROVE R # {}
    OBVIOUS
  <2>1. PICK t \in Ready(c) : \A u \in Ready(c) : t <= u
    <3>1. Ready(c) \subseteq Nat
      BY <1>2
    <3> QED
      BY <3>1, LeastNumber
  <2>2. t \in F
    BY <2>1
  <2>3. Before(t) = {}
    <3>1. \A u \in F : u \in Nat /\ t \in Nat /\ t <= u
      BY <2>1, <1>2
    <3> HIDE DEF F
    <3> QED
      BY <3>1
  <2>4. Cardinality(Before(t)) = 0
    <3> HIDE DEF Before
    <3> QED
      BY <2>3, FS_EmptySet
  <2> QED
    BY <2>2, <2>4, <1>4
<1> HIDE DEF F
<1> QED
  BY <1>1, <1>2, <1>3, <1>5, <1>6

-----------------------------------------------------------------------------
(* Events in the order of the positions *)

Increasing(q, S) ==
  /\ q \in [1..Cardinality(S) -> S]
  /\ \A i, j \in 1..Cardinality(S) : i < j => q[i] < q[j]

LEMMA IncreasingExists ==
  ASSUME NEW S \in SUBSET Work
  PROVE  \E q : Increasing(q, S)
<1> DEFINE K == {n \in Nat : \A R \in SUBSET Work : Cardinality(R) = n => \E q : Increasing(q, R)}
<1>1. 0 \in K
  <2> SUFFICES ASSUME NEW R \in SUBSET Work, Cardinality(R) = 0
               PROVE  \E q : Increasing(q, R)
    OBVIOUS
  <2>1. R = {}
    BY WorkFinite, FS_EmptySet
  <2>2. [i \in 1..0 |-> 0] \in [1..0 -> {}]
    OBVIOUS
  <2>3. Increasing([i \in 1..0 |-> 0], R)
    BY <2>1, <2>2 DEF Increasing
  <2> QED
    BY <2>3
<1>2. ASSUME NEW n \in Nat, n \in K
      PROVE  n + 1 \in K
  <2> SUFFICES ASSUME NEW R \in SUBSET Work, Cardinality(R) = n + 1
               PROVE  \E q : Increasing(q, R)
    OBVIOUS
  <2>1. R # {} /\ IsFiniteSet(R)
    BY WorkFinite, FS_EmptySet
  <2>2. PICK m \in R : \A t \in R : t <= m
    BY <2>1, GreatestMember
  <2>3. Cardinality(R \ {m}) = n /\ R \ {m} \in SUBSET Work
    BY <2>1, FS_RemoveElement
  <2>4. PICK q : Increasing(q, R \ {m})
    BY <1>2, <2>3
  <2> DEFINE r == [i \in 1..(n + 1) |-> IF i \in 1..n THEN q[i] ELSE m]
  <2>5. q \in [1..n -> R \ {m}] /\ \A i, j \in 1..n : i < j => q[i] < q[j]
    BY <2>3, <2>4 DEF Increasing
  <2>6. r \in [1..(n + 1) -> R]
    BY <2>5
  <2>7. ASSUME NEW i \in 1..(n + 1), NEW j \in 1..(n + 1), i < j
        PROVE  r[i] < r[j]
    <3>1. i \in 1..n /\ r[i] = q[i] /\ q[i] \in R \ {m}
      BY <2>7, <2>5
    <3>2. CASE j \in 1..n
      BY <3>1, <3>2, <2>7, <2>5
    <3>3. CASE j \notin 1..n
      <4>1. r[j] = m
        BY <3>3
      <4>2. q[i] \in Nat /\ m \in Nat /\ q[i] <= m /\ q[i] # m
        BY <3>1, <2>2, WorkFinite
      <4> QED
        BY <3>1, <4>1, <4>2
    <3> QED
      BY <3>2, <3>3
  <2>8. Increasing(r, R)
    <3> HIDE DEF r
    <3> QED
      BY <2>6, <2>7 DEF Increasing
  <2> QED
    BY <2>8
<1>3. Cardinality(S) \in Nat
  BY WorkFinite
<1>4. \A n \in 0..Cardinality(S) : n \in K
  <2> HIDE DEF K
  <2> QED
    BY <1>1, <1>2, <1>3, NumberInduction
<1>5. Cardinality(S) \in K
  BY <1>3, <1>4
<1> QED
  BY <1>5

(* Order lists a set of tasks without repetition. *)
LEMMA OrderLists ==
  ASSUME NEW S \in SUBSET Work
  PROVE  /\ Order(S) \in [1..Cardinality(S) -> S]
         /\ \A i, j \in 1..Cardinality(S) : Order(S)[i] = Order(S)[j] => i = j
         /\ \A t \in S : \E i \in 1..Cardinality(S) : Order(S)[i] = t
<1> DEFINE n == Cardinality(S)
           q == Order(S)
<1>1. PICK r : Increasing(r, S)
  BY IncreasingExists
<1>2. n \in Nat /\ IsFiniteSet(S)
  BY WorkFinite
<1>3. r \in [1..n -> S] /\ \A i, j \in DOMAIN r : i < j => r[i] < r[j]
  BY <1>1 DEF Increasing
<1>4. q \in [1..n -> S] /\ \A i, j \in DOMAIN q : i < j => q[i] < q[j]
  BY <1>3 DEF Order
<1>5. \A i \in 1..n : q[i] \in Nat
  BY <1>4, WorkFinite
<1>6. \A i, j \in 1..n : q[i] = q[j] => i = j
  <2> TAKE i \in 1..n, j \in 1..n
  <2>1. i < j \/ j < i \/ i = j
    BY <1>2
  <2> QED
    BY <1>4, <1>5, <2>1
<1>7. q \in Injection(1..n, S)
  <2> HIDE DEF q, n
  <2> QED
    BY <1>4, <1>6 DEF Injection, IsInjective
<1>8. Cardinality(1..n) = n
  BY <1>2, FS_Interval
<1>9. q \in Surjection(1..n, S)
  <2> HIDE DEF q
  <2> QED
    BY <1>2, <1>7, <1>8, FS_Injection
<1> QED
  BY <1>4, <1>6, <1>9 DEF Surjection

-----------------------------------------------------------------------------
(* The calls of the main thread *)

Kinds == {"runner.started", "plan.created", "task.started", "task.completed", "task.failed",
          "approval.required", "synthesis.started", "synthesis.completed", "runner.completed"}
EventCalls == [call : {"event"}, kind : Kinds, task : Work]
SaveCalls == [call : {"save"}, stage : Stages, active : [Work -> Invocations \cup {Inactive}]]
Calls == EventCalls \cup SaveCalls
(* Events that are sent once only. *)
Marks == {e \in EventCalls : e.kind # "approval.required"}

Els(q) == {q[i] : i \in 1..Len(q)}
Distinct(q) == \A i, j \in 1..Len(q) : q[i] = q[j] => i = j
EventList(q) == q \in Seq(EventCalls) /\ Distinct(q)
(* Different calls, a save only at the end. *)
Script(q) ==
  /\ q \in Seq(Calls) /\ Distinct(q)
  /\ \A i \in 1..Len(q) : i < Len(q) => q[i] \in EventCalls
EndsInSave(q) == q # <<>> /\ q[Len(q)] \in SaveCalls

LEMMA CallsDiffer == EventCalls \cap SaveCalls = {}
  BY DEF EventCalls, SaveCalls

ListOf(kind, S) == [i \in 1..Cardinality(S) |-> Event(kind[Order(S)[i]], Order(S)[i])]

LEMMA ListOfEvents ==
  ASSUME NEW S \in SUBSET Work, NEW kind \in [Work -> Kinds]
  PROVE  /\ EventList(ListOf(kind, S))
         /\ Els(ListOf(kind, S)) = {Event(kind[t], t) : t \in S}
<1> DEFINE n == Cardinality(S)
           q == Order(S)
           l == ListOf(kind, S)
<1>1. /\ q \in [1..n -> S]
      /\ \A i, j \in 1..n : q[i] = q[j] => i = j
      /\ \A t \in S : \E i \in 1..n : q[i] = t
  BY OrderLists
<1>2. n \in Nat
  BY WorkFinite
<1>3. l = [i \in 1..n |-> Event(kind[q[i]], q[i])]
  BY DEF ListOf
<1> HIDE DEF n, q, l
<1>4. \A i \in 1..n : l[i] \in EventCalls /\ l[i].task = q[i] /\ l[i] = Event(kind[q[i]], q[i])
  BY <1>1, <1>3 DEF Event, EventCalls
<1>5. l \in Seq(EventCalls) /\ Len(l) = n
  BY <1>2, <1>3, <1>4
<1>6. Distinct(l)
  BY <1>1, <1>4, <1>5 DEF Distinct
<1>7. Els(l) = {Event(kind[t], t) : t \in S}
  BY <1>1, <1>4, <1>5 DEF Els
<1> QED
  BY <1>5, <1>6, <1>7 DEF EventList, l

LEMMA EventsListed ==
  ASSUME NEW S \in SUBSET Work, NEW k \in Kinds
  PROVE  /\ EventList(Events(k, S))
         /\ Els(Events(k, S)) = {Event(k, t) : t \in S}
<1> DEFINE kind == [t \in Work |-> k]
<1>1. kind \in [Work -> Kinds]
  OBVIOUS
<1>2. \A t \in Work : kind[t] = k
  OBVIOUS
<1>3. Events(k, S) = ListOf(kind, S)
  <2>1. \A i \in 1..Cardinality(S) : kind[Order(S)[i]] = k
    BY OrderLists
  <2> HIDE DEF kind
  <2> QED
    BY <2>1 DEF Events, ListOf
<1>4. {Event(kind[t], t) : t \in S} = {Event(k, t) : t \in S}
  BY <1>2
<1> HIDE DEF kind
<1> QED
  BY <1>1, <1>3, <1>4, ListOfEvents

LEMMA ListsJoin ==
  ASSUME NEW p, NEW q, EventList(p), EventList(q), Els(p) \cap Els(q) = {}
  PROVE  EventList(p \o q) /\ Els(p \o q) = Els(p) \cup Els(q)
<1>1. p \in Seq(EventCalls) /\ q \in Seq(EventCalls) /\ Len(p) \in Nat /\ Len(q) \in Nat
  BY DEF EventList
<1>2. /\ p \o q \in Seq(EventCalls) /\ Len(p \o q) = Len(p) + Len(q)
      /\ \A i \in 1..(Len(p) + Len(q)) :
           (p \o q)[i] = IF i <= Len(p) THEN p[i] ELSE q[i - Len(p)]
  BY <1>1
<1> DEFINE r == p \o q
<1> HIDE DEF r
<1>3. \A i \in 1..Len(r) : \/ i \in 1..Len(p) /\ r[i] = p[i]
                           \/ i - Len(p) \in 1..Len(q) /\ r[i] = q[i - Len(p)]
  BY <1>1, <1>2 DEF r
<1>4. \A i \in 1..Len(p) : i \in 1..Len(r) /\ r[i] = p[i]
  BY <1>1, <1>2 DEF r
<1>5. \A i \in 1..Len(q) : i + Len(p) \in 1..Len(r) /\ r[i + Len(p)] = q[i]
  BY <1>1, <1>2 DEF r
<1>6. Els(r) = Els(p) \cup Els(q)
  BY <1>3, <1>4, <1>5 DEF Els
<1>7. Distinct(r)
  <2> SUFFICES ASSUME NEW i \in 1..Len(r), NEW j \in 1..Len(r), r[i] = r[j]
               PROVE  i = j
    BY DEF Distinct
  <2>1. CASE i \in 1..Len(p) /\ r[i] = p[i] /\ j \in 1..Len(p) /\ r[j] = p[j]
    BY <2>1 DEF EventList, Distinct
  <2>2. CASE i - Len(p) \in 1..Len(q) /\ r[i] = q[i - Len(p)]
             /\ j - Len(p) \in 1..Len(q) /\ r[j] = q[j - Len(p)]
    <3>1. i - Len(p) = j - Len(p)
      BY <2>2 DEF EventList, Distinct
    <3> QED
      BY <3>1, <1>1, <1>2 DEF r
  <2>3. CASE i \in 1..Len(p) /\ r[i] = p[i] /\ j - Len(p) \in 1..Len(q) /\ r[j] = q[j - Len(p)]
    BY <2>3 DEF Els
  <2>4. CASE j \in 1..Len(p) /\ r[j] = p[j] /\ i - Len(p) \in 1..Len(q) /\ r[i] = q[i - Len(p)]
    BY <2>4 DEF Els
  <2> QED
    BY <1>3, <2>1, <2>2, <2>3, <2>4
<1> QED
  BY <1>2, <1>6, <1>7 DEF EventList, r

LEMMA EventsThenSave ==
  ASSUME NEW q, EventList(q), NEW s \in SaveCalls
  PROVE  /\ Script(Append(q, s)) /\ EndsInSave(Append(q, s))
         /\ Append(q, s)[Len(Append(q, s))] = s
         /\ Els(Append(q, s)) = Els(q) \cup {s}
<1> DEFINE r == Append(q, s)
<1>1. q \in Seq(EventCalls) /\ q \in Seq(Calls) /\ s \in Calls /\ Len(q) \in Nat
  BY DEF EventList, Calls
<1>2. /\ r \in Seq(Calls) /\ Len(r) = Len(q) + 1
      /\ \A i \in 1..Len(q) : r[i] = q[i] /\ q[i] \in EventCalls
      /\ r[Len(q) + 1] = s
  BY <1>1
<1> HIDE DEF r
<1>3. r # <<>>
  BY <1>1, <1>2
<1>4. \A i \in 1..Len(r) : i \in 1..Len(q) \/ i = Len(q) + 1
  BY <1>1, <1>2
<1>5. Els(r) = Els(q) \cup {s}
  <2>1. \A i \in 1..Len(q) : i \in 1..Len(r)
    BY <1>1, <1>2
  <2>2. Len(q) + 1 \in 1..Len(r)
    BY <1>1, <1>2
  <2> QED
    BY <1>2, <1>4, <2>1, <2>2 DEF Els
<1>6. Distinct(r)
  BY <1>2, <1>4, CallsDiffer DEF Distinct, EventList
<1>7. \A i \in 1..Len(r) : i < Len(r) => r[i] \in EventCalls
  BY <1>1, <1>2, <1>4
<1> QED
  BY <1>2, <1>3, <1>5, <1>6, <1>7 DEF Script, EndsInSave, r

(* What is left when the first call is made. *)
LEMMA FirstCall ==
  ASSUME NEW q, Script(q), q # <<>>
  PROVE  /\ Head(q) \in Els(q) /\ Head(q) \in Calls
         /\ Script(Tail(q))
         /\ Els(Tail(q)) = Els(q) \ {Head(q)}
         /\ Head(q) \in SaveCalls => Tail(q) = <<>> /\ Head(q) = q[Len(q)]
         /\ EndsInSave(q) /\ Head(q) \in EventCalls =>
              /\ EndsInSave(Tail(q))
              /\ Tail(q)[Len(Tail(q))] = q[Len(q)]
<1>1. q \in Seq(Calls) /\ Len(q) \in Nat /\ Len(q) # 0 /\ Head(q) = q[1] /\ 1 \in 1..Len(q)
  BY DEF Script
<1> DEFINE r == Tail(q)
<1>2. /\ r \in Seq(Calls) /\ Len(r) = Len(q) - 1 /\ Len(r) \in Nat
      /\ \A i \in 1..Len(r) : r[i] = q[i + 1] /\ i + 1 \in 1..Len(q)
  BY <1>1
<1>3. Head(q) \in Els(q) /\ Head(q) \in Calls
  BY <1>1 DEF Els
<1> HIDE DEF r
<1>4. Len(r) = 0 => r = <<>>
  <2>1. r \in Seq(Calls)
    BY <1>2
  <2> QED
    BY <2>1
<1>5. Distinct(r)
  <2> SUFFICES ASSUME NEW i \in 1..Len(r), NEW j \in 1..Len(r), r[i] = r[j]
               PROVE  i = j
    BY DEF Distinct
  <2>1. i + 1 = j + 1
    BY <1>2 DEF Script, Distinct
  <2> QED
    BY <2>1
<1>6. \A i \in 1..Len(r) : i < Len(r) => r[i] \in EventCalls
  BY <1>1, <1>2 DEF Script
<1>7. Els(r) = Els(q) \ {Head(q)}
  <2>1. \A i \in 1..Len(r) : r[i] \in Els(q) /\ r[i] # q[1]
    <3> TAKE i \in 1..Len(r)
    <3>1. i + 1 # 1
      OBVIOUS
    <3> QED
      BY <3>1, <1>1, <1>2 DEF Els, Script, Distinct
  <2>2. \A i \in 1..Len(q) : i # 1 => i - 1 \in 1..Len(r) /\ r[i - 1] = q[i]
    BY <1>1, <1>2
  <2>3. \A e \in Els(r) : e \in Els(q) \ {q[1]}
    BY <2>1 DEF Els
  <2>4. \A e \in Els(q) \ {q[1]} : e \in Els(r)
    <3> TAKE e \in Els(q) \ {q[1]}
    <3>1. PICK i \in 1..Len(q) : q[i] = e
      BY DEF Els
    <3>2. i # 1
      BY <3>1
    <3> QED
      BY <2>2, <3>1, <3>2 DEF Els
  <2> QED
    BY <1>1, <2>3, <2>4
<1>8. ASSUME Head(q) \in SaveCalls
      PROVE  r = <<>> /\ Head(q) = q[Len(q)]
  <2>1. ~(1 < Len(q))
    BY <1>1, <1>8, CallsDiffer DEF Script
  <2>2. Len(q) = 1
    <3> DEFINE n == Len(q)
    <3>1. n \in Nat /\ n # 0 /\ ~(1 < n)
      BY <1>1, <2>1
    <3> HIDE DEF n
    <3>2. n = 1
      BY <3>1
    <3> QED
      BY <3>2 DEF n
  <2> QED
    BY <1>1, <1>2, <1>4, <2>2
<1>9. ASSUME EndsInSave(q), Head(q) \in EventCalls
      PROVE  EndsInSave(r) /\ r[Len(r)] = q[Len(q)]
  <2>1. Len(q) # 1
    BY <1>1, <1>9, CallsDiffer DEF EndsInSave
  <2>2. Len(r) \in 1..Len(r) /\ Len(r) + 1 = Len(q)
    BY <1>1, <1>2, <2>1
  <2>3. r # <<>>
    BY <2>2
  <2> QED
    BY <1>2, <1>9, <2>2, <2>3 DEF EndsInSave
<1> QED
  BY <1>2, <1>3, <1>5, <1>6, <1>7, <1>8, <1>9 DEF Script, r

-----------------------------------------------------------------------------
(* What is true of a checkpoint: the stored one, one that is about to be saved, *)
(* or the state in memory when all of it is saved.  s is the team's failure    *)
(* strategy.                                                                   *)

Fast(c, s) == c.failed # {} /\ s = "fail_fast"
Underway(c) == Active(c) \cap (Tasks \ Settled(c))

Sane(c, s) ==
  /\ c.plan \in Plans /\ Accepted(c.plan)
  /\ c.stage \in Stages
  /\ c.done \cap c.failed = {}
  /\ c.done \subseteq c.started
  /\ Active(c) \ {Synthesis} \subseteq c.started
  /\ \A t \in c.started : c.plan[t].deps \subseteq c.done
  /\ SummingUp(c) => Settled(c) = Tasks /\ ~Fast(c, s)
  /\ c.stage = "synthesizing" => Active(c) = {Synthesis}
  /\ c.stage = "completed" => Active(c) = {} /\ (c.partial <=> c.failed # {})
  /\ c.stage # "synthesizing" => Synthesis \notin Active(c)
  /\ \A t \in Tasks : c.active[t].rt = "ok" => c.active[t].st = "completed"
Fine(c, s) == Sane(c, s) /\ (Fast(c, s) \/ Loadable(c))

(* The marks a checkpoint stands for. *)
Facts(c) ==
  {e \in Marks :
     \/ e = Event("runner.started", 0)
     \/ e = Event("plan.created", 0) /\ c.plan # None
     \/ e.kind = "task.started" /\ e.task \in c.started
     \/ e.kind = "task.completed" /\ e.task \in c.done
     \/ e.kind = "task.failed" /\ e.task \in c.failed
     \/ e = Event("synthesis.started", 0) /\ SummingUp(c)
     \/ e \in {Event("synthesis.completed", 0), Event("runner.completed", 0)}
          /\ c.stage = "completed"}

(* The first n events of a log. *)
Said(l, n) == {l[i] : i \in 1..n}
Agree(c, l) == c.seq <= Len(l) /\ Said(l, c.seq) \cap Marks = Facts(c)

(* How one checkpoint may follow another. *)
Executing(a, c) == ~SummingUp(a) /\ ~SummingUp(c)
Stays(a, c) ==
  /\ Executing(a, c) \/ a.stage = c.stage
  /\ a.done = c.done /\ a.failed = c.failed /\ Underway(a) = Underway(c)
Starts(a, c) ==
  /\ Executing(a, c) /\ a.done = c.done /\ a.failed = c.failed
  /\ Underway(a) \subseteq Underway(c)
  /\ \A t, u \in Underway(c) : c.plan[t].by = c.plan[u].by => t = u
  /\ Cardinality(Underway(c)) <= MaxParallel
Settles(a, c) ==
  /\ Executing(a, c) /\ a.done \subseteq c.done /\ a.failed \subseteq c.failed
  /\ Settled(c) \ Settled(a) \subseteq Underway(a)
  /\ Underway(c) \subseteq Underway(a)
  /\ c.failed # {} \/ Underway(a) \subseteq Underway(c) \cup Settled(c)
Blocks(a, c) ==
  /\ Executing(a, c) /\ a.done = c.done /\ a.failed \subseteq c.failed
  /\ \A t \in c.failed \ a.failed : c.plan[t].deps \cap a.failed # {}
  /\ Underway(c) \subseteq Underway(a)
Sums(a, c) ==
  /\ a.done = c.done /\ a.failed = c.failed
  /\ \/ ~SummingUp(a) /\ c.stage = "synthesizing"
     \/ a.stage = "synthesizing" /\ c.stage = "completed"
Follows(a, c) ==
  \/ a = None /\ c.stage = "executing" /\ c.started = {} /\ Settled(c) = {} /\ Active(c) = {}
  \/ /\ a # None /\ c.plan = a.plan
     /\ Stays(a, c) \/ Starts(a, c) \/ Settles(a, c) \/ Blocks(a, c) \/ Sums(a, c)

Rev(c) == IF c = None THEN 0 ELSE c.rev
Announced(kind, l) == {t \in Work : Event(kind, t) \in Said(l, Len(l))}
(* A task that was begun from scratch (f) is not forgotten, unless its invocation
   was dropped (d). *)
Kept(c, f, d) == \A t \in Tasks : f[t] >= 1 => t \in Settled(c) \cup Active(c) \cup d
Begun(c, f, d) ==
  \A t \in Tasks : f[t] >= 1 =>
    \/ t \in Settled(c) \cup d
    \/ t \in Active(c) /\ c.active[t].rt # "none"

After(c, q) ==
  IF EndsInSave(q) THEN [c EXCEPT !.stage = q[Len(q)].stage, !.active = q[Len(q)].active]
  ELSE c
Pending == After(w, todo)
(* What a member thread saves, or would save if it did so now. *)
Late(t) == [w EXCEPT !.active[t] = Graph(out[t]), !.rev = NextRev(w), !.seq = seq]
LateState(t) == IF th[t] = "saving" THEN saving.state ELSE Late(t)
AtLock(t) == th[t] \in {"locked", "reading", "read", "set", "saving", "saved"}

-----------------------------------------------------------------------------
(* The inductive invariant *)

Pcs == {"load", "plan", "loop", "launch", "poll", "wait", "sum", "complete", "pause",
        "fail", "down", "dead"}
Polling == pc \in {"poll", "wait"}
Savings == [task : Work, state : States \cup {None}]
Results == [done : SUBSET Tasks, failed : SUBSET Tasks, next : {"record", "count", "call"}]

Typed ==
  /\ run \in {"running", "waiting_approval", "completed", "failed", "cancelled"}
  /\ log \in Seq(EventCalls) /\ store \in States \cup {None}
  /\ pc \in Pcs /\ w \in States /\ seq \in Nat /\ Script(todo)
  /\ th \in [Work -> {"none", "running", "locked", "reading", "read", "set", "saving",
                      "saved", "done"}]
  /\ out \in [Work -> Outcomes]
  /\ saving \in Savings \cup {None}
  /\ stopped \in BOOLEAN /\ results \in Results \cup {None}
  /\ fresh \in [Work -> Nat] /\ dropped \subseteq Work /\ straggled \in BOOLEAN
  /\ strategy \in Strategies

(* Threads, and who is at state_lock. *)
Threads ==
  /\ \A t \in Work : AtLock(t) <=> saving # None /\ saving.task = t
  /\ \A t \in Work : th[t] \in {"reading", "read", "saving", "saved"} => saving.state \in States
  /\ \A t \in Work : th[t] \in {"none", "running"} <=> out[t] = "none"
  /\ \A t \in Work : AtLock(t) => out[t] \in {"ok", "big", "pause"}
  /\ out[Synthesis] # "big"
  /\ stopped => pc = "fail" /\ (Racing \/ todo = <<>>)
  /\ Racing => stopped
  /\ \A t \in Work : th[t] \in {"reading", "read", "set", "saved"} => Racing
  /\ stopped \/ Polling \/ \A t \in Work : th[t] = "none"
  /\ Polling => todo = <<>> /\ \A t \in Work : th[t] # "none" <=> t \in Active(w)
  /\ Polling => \A t \in Work : th[t] = "done" /\ out[t] # "error" => w.active[t] = Graph(out[t])
  /\ Polling => \A t \in Work : th[t] = "saving" => saving.state = Late(t)
  /\ pc \in {"load", "down", "dead"} => w = NoState /\ seq = 0 /\ todo = <<>>

Stored ==
  /\ store # None => Sane(store, strategy) /\ store.rev > 0
  /\ Rev(store) >= w.rev
(* What has to be so until a checkpoint is stored that misses a failure. *)
Readable ==
  straggled \/ (store # None => Fast(store, strategy) \/ (Loadable(store) /\ Agree(store, log)))
Logged ==
  \/ straggled
  \/ /\ \A i, j \in 1..Len(log) : log[i] = log[j] /\ log[i] \in Marks => i = j
     /\ \A t \in Work : ~(t \in Announced("task.completed", log)
                          /\ t \in Announced("task.failed", log))

(* Where the main thread goes on with a state that is saved. *)
Fits(p, c, s) ==
  /\ IF p = "fail" THEN Fine(c, s) /\ Fast(c, s) /\ c.stage = "executing" /\ Active(c) = {}
     ELSE Sane(c, s) /\ Loadable(c) /\ ~Fast(c, s)
  /\ p = "loop" => ~SummingUp(c) /\ \A t \in Active(c) : c.active[t].rt = "paused"
  /\ p = "launch" => c.stage \in {"executing", "synthesizing"} /\ Active(c) # {}
  /\ p = "poll" => c.stage = "executing"
  /\ p = "wait" => c.stage = "synthesizing"
  /\ p = "sum" => Settled(c) = Tasks
  /\ p = "complete" => c.stage = "completed"
  /\ p = "pause" => Active(c) # {} /\ \A t \in Active(c) :
                      c.active[t] = [st |-> "interrupted", rt |-> "paused"]
Busy == ~Racing /\ (pc \notin {"load", "fail", "down", "dead"} \/ todo # <<>>)

MainFits == Busy /\ pc # "plan" => Fits(pc, Pending, strategy)
MainCalls ==
  /\ pc = "plan" => store = None /\ w = NoState /\ todo \in {<<>>, <<Event("runner.started", 0)>>}
  /\ pc # "plan" /\ todo # <<>> => EndsInSave(todo)
MainSays ==
  Busy /\ ~straggled =>
    /\ seq <= Len(log)
    /\ Said(log, seq) \cap Els(todo) \cap Marks = {}
    /\ (Said(log, seq) \cup Els(todo)) \cap Marks = Facts(Pending)
MainSaved ==
  Busy /\ pc # "plan" =>
    /\ store # None => store.plan = w.plan
    /\ IF todo # <<>> THEN Rev(store) > w.rev \/ Follows(store, Pending)
       ELSE /\ w.seq = seq /\ store # None
            /\ store = w \/ (Polling /\ Rev(store) > w.rev)

(* What a member thread may still save when the main thread has timed out. *)
GoodLate(d) ==
  /\ Fine(d, strategy) /\ d.rev > 0 /\ d.rev <= NextRev(w)
  /\ Fast(d, strategy) \/ straggled \/ Agree(d, log)
  /\ Fast(d, strategy) \/ Kept(d, fresh, dropped)
  /\ Rev(store) >= d.rev \/ Follows(store, d)
LateFits == stopped /\ ~Racing => \A t \in Work : AtLock(t) => GoodLate(LateState(t))

Fresh ==
  /\ store = None => \A t \in Tasks : fresh[t] = 0
  /\ \A t \in Tasks : fresh[t] > 1 => t \in dropped
  /\ store # None => Fast(store, strategy) \/ Kept(store, fresh, dropped)
  /\ Busy => Fast(Pending, strategy) \/ Kept(Pending, fresh, dropped)
  /\ pc \in {"loop", "launch"} => Begun(Pending, fresh, dropped)

EndFits ==
  /\ pc = "down" /\ Going => store # None /\ Fits("pause", store, strategy)
  /\ run = "completed" => store # None /\ store.stage = "completed" /\ pc = "down"

(* While a failure's batch is settled: the members of the batch; a state that is
   the batch's, with some of its outcomes; and one that has more of them. *)
Crew == {t \in Work : th[t] # "none"}
Pictured(c) ==
  /\ Sane(c, strategy) /\ c.stage = "executing" /\ c.plan = w.plan /\ c.started = w.started
  /\ c.done \subseteq results.done /\ c.failed \subseteq results.failed
  /\ results.done \subseteq c.done \cup Crew /\ results.failed \subseteq c.failed \cup Crew
  /\ Fast(c, strategy) \/ Kept(c, fresh, dropped)
  /\ \/ Active(c) = Crew
     \/ /\ Active(c) = {} /\ c.done = results.done /\ c.failed = results.failed
        /\ results.failed # {} /\ results.next # "count" /\ \A e \in Els(todo) : e.call = "save"
Leads(a, c) ==
  /\ a # None /\ Pictured(a) /\ a.done \subseteq c.done /\ a.failed \subseteq c.failed
  /\ Active(a) = Crew \/ Active(c) = {}
Ahead(c) == Rev(store) > w.rev \/ Leads(store, c)

(* The outcomes that are not recorded yet, or not told. *)
Outcome(e) == e \in EventCalls /\ e.kind \in {"task.completed", "task.failed"} /\ e.task \in Crew
Untold(kind) == {t \in Work : Event(kind, t) \in Els(todo)}
Unrecorded == {e \in Els(todo) : e.call = "event" /\ (At("record") \/ e # Head(todo))}
Finale == [w EXCEPT !.done = results.done \cup Untold("task.completed"),
                    !.failed = results.failed \cup Untold("task.failed")]
Reported == IF At("call") /\ NextCall("event") THEN seq - 1 ELSE seq

Racers ==
  /\ pc = "fail" /\ strategy = "fail_fast"
  /\ results.done \cap results.failed = {}
  /\ results.done \subseteq w.started /\ Crew \subseteq w.started
  /\ At("count") => NextCall("event")
  /\ ~At("record") /\ NextCall("event") => results = Recorded(Head(todo))
  /\ \A e \in Els(todo) : Outcome(e) \/ e = Save("executing", Nobody)
  /\ \A e, f \in Els(todo) : e.call = "event" /\ f.call = "event" /\ e.task = f.task => e = f
  /\ \A e \in Unrecorded : e.task \notin results.done \cup results.failed
  /\ results.failed # {} \/ Untold("task.failed") # {} \/ todo = <<>>
Pictures ==
  /\ Pictured(w) /\ Ahead(w)
  /\ \A t \in Work : th[t] \in {"reading", "read"} =>
       Pictured(saving.state) /\ saving.state.rev = w.rev /\ Ahead(saving.state)
  /\ \A t \in Work : th[t] = "saving" =>
       Pictured(saving.state) /\ saving.state.rev = NextRev(w) /\ Ahead(saving.state)
  /\ \A t \in Work : th[t] = "saved" =>
       Pictured(saving.state) /\ saving.state.rev = NextRev(w) /\ saving.state = store
RaceSays ==
  todo # <<>> /\ ~straggled =>
    /\ Reported \in Nat /\ Reported <= Len(log)
    /\ Said(log, Reported) \cap Els(todo) \cap Marks = {}
    /\ (Said(log, Reported) \cup Els(todo)) \cap Marks = Facts(Finale)
Settling == Racing => Racers /\ Pictures /\ RaceSays

SchedulerInv ==
  Typed /\ Threads /\ Stored /\ Readable /\ Logged /\ MainFits /\ MainCalls /\ MainSays
  /\ MainSaved /\ LateFits /\ Fresh /\ EndFits /\ Settling

-----------------------------------------------------------------------------
(* The parts an action leaves alone *)

LEMMA FieldsOfAfter ==
  ASSUME NEW c \in States, NEW q, Script(q), EndsInSave(q)
  PROVE  /\ After(c, q) \in States
         /\ After(c, q).stage = q[Len(q)].stage /\ After(c, q).active = q[Len(q)].active
         /\ After(c, q).plan = c.plan /\ After(c, q).started = c.started
         /\ After(c, q).done = c.done /\ After(c, q).failed = c.failed
         /\ After(c, q).rev = c.rev /\ After(c, q).seq = c.seq /\ After(c, q).partial = c.partial
  BY DEF After, EndsInSave, SaveCalls, States

LEMMA LateTyped ==
  ASSUME SchedulerInv, NEW t \in Work, AtLock(t)
  PROVE  /\ Late(t) \in States /\ LateState(t) \in States
         /\ \A n \in Nat : [w EXCEPT !.active[t] = Graph(out[t]), !.rev = NextRev(w), !.seq = n] \in States
<1>1. w \in States /\ seq \in Nat /\ out[t] \in {"ok", "big", "pause"}
  BY DEF SchedulerInv, Typed, Threads
<1>2. Graph(out[t]) \in Invocations
  BY <1>1 DEF Graph, Invocations
<1>3. NextRev(w) \in Nat
  BY <1>1 DEF NextRev, States
<1> DEFINE g == Graph(out[t])
           r == NextRev(w)
<1>4. \A n \in Nat : [w EXCEPT !.active[t] = g, !.rev = r, !.seq = n] \in States
  <2> HIDE DEF g, r
  <2> QED
    BY <1>1, <1>2, <1>3 DEF States, g, r
<1>5. th[t] = "saving" => saving.state \in States
  BY DEF SchedulerInv, Threads
<1> QED
  BY <1>1, <1>4, <1>5 DEF Late, LateState

LEMMA NothingLeft == ASSUME NEW c PROVE After(c, <<>>) = c
  BY DEF After, EndsInSave

LEMMA ScriptOfNothing == Script(<<>>) /\ Els(<<>>) = {}
  BY DEF Script, Distinct, Els

(* The main thread decides while no member runs. *)
LEMMA NotRacing ==
  ASSUME SchedulerInv, pc # "fail" \/ ~stopped
  PROVE  ~Racing
  BY DEF SchedulerInv, Threads

LEMMA QuietStep ==
  ASSUME SchedulerInv, UNCHANGED <<disk, threads, straggled, bounds>>,
         ~stopped, ~Polling, pc # "down", pc' \notin {"poll", "wait", "load", "down", "dead"},
         Rev(store) >= w'.rev
  PROVE  /\ Threads' /\ Stored' /\ Readable' /\ Logged' /\ LateFits' /\ EndFits' /\ Settling'
         /\ ~Racing /\ ~Racing'
<1> USE DEF SchedulerInv, disk, threads, bounds
<1>0. ~Racing /\ ~Racing'
  BY NotRacing DEF Racing
<1>1. Threads'
  BY <1>0 DEF Threads, Polling, AtLock
<1>2. Stored' /\ Readable'
  BY DEF Stored, Readable
<1>3. Logged'
  BY DEF Logged
<1>4. LateFits'
  BY DEF LateFits
<1>5. EndFits'
  BY DEF EndFits, Going
<1>6. Settling'
  BY <1>0 DEF Settling
<1> QED
  BY <1>0, <1>1, <1>2, <1>3, <1>4, <1>5, <1>6

(* It gives up. *)
LEMMA GivingUp ==
  ASSUME SchedulerInv, GiveUp
  PROVE  /\ MainFits' /\ MainCalls' /\ MainSays' /\ MainSaved' /\ ~Busy'
         /\ Script(todo') /\ pc' = "fail" /\ todo' = <<>>
<1>1. pc' = "fail" /\ todo' = <<>>
  BY DEF GiveUp, Then
<1>2. ~Busy'
  BY <1>1 DEF Busy
<1> QED
  BY <1>1, <1>2, ScriptOfNothing DEF MainFits, MainCalls, MainSays, MainSaved

LEMMA FreshKept ==
  ASSUME SchedulerInv, UNCHANGED <<store, fresh, dropped, strategy>>, ~Busy',
         pc' \notin {"loop", "launch"}
  PROVE  Fresh'
  BY DEF SchedulerInv, Fresh

LEMMA Idle ==
  ASSUME SchedulerInv, todo = <<>>
  PROVE  Pending = w /\ (Busy /\ ~straggled => seq <= Len(log) /\ Said(log, seq) \cap Marks = Facts(w))
<1>1. Pending = w
  BY NothingLeft DEF Pending
<1>2. Els(todo) = {}
  BY ScriptOfNothing
<1> QED
  BY <1>1, <1>2 DEF SchedulerInv, MainSays

(* The main thread gives up while no member runs. *)
LEMMA QuietGivingUp ==
  ASSUME SchedulerInv, GiveUp, UNCHANGED <<disk, w, threads, history, strategy>>, seq' \in Nat,
         ~stopped, ~Polling, pc # "down"
  PROVE  SchedulerInv'
<1>1. /\ MainFits' /\ MainCalls' /\ MainSays' /\ MainSaved' /\ ~Busy'
      /\ Script(todo') /\ pc' = "fail" /\ todo' = <<>>
  BY GivingUp
<1>2. Typed'
  BY <1>1 DEF SchedulerInv, Typed, disk, threads, history, Pcs
<1>3. Fresh'
  BY <1>1, FreshKept DEF disk, history
<1>0. ~Racing /\ ~Racing'
  BY NotRacing DEF Racing, threads
<1>4. Threads' /\ Stored' /\ Readable' /\ Logged' /\ LateFits' /\ EndFits' /\ Settling'
  <2>1. Threads'
    BY <1>0, <1>1 DEF SchedulerInv, Threads, Polling, AtLock, threads
  <2>2. Stored' /\ Readable' /\ Logged'
    BY DEF SchedulerInv, Stored, Readable, Logged, disk, history
  <2>3. LateFits'
    BY DEF LateFits, threads
  <2>4. EndFits'
    BY <1>1 DEF SchedulerInv, EndFits, disk
  <2>5. Settling'
    BY <1>0 DEF Settling
  <2> QED
    BY <2>1, <2>2, <2>3, <2>4, <2>5
<1> QED
  BY <1>1, <1>2, <1>3, <1>4 DEF SchedulerInv

LEMMA StartAfterLoadFails == ASSUME SchedulerInv, LoadFails PROVE SchedulerInv'
<1>1. ~stopped /\ ~Polling /\ pc # "down"
  BY DEF SchedulerInv, Threads, LoadFails, Main, Polling
<1> QED
  BY <1>1, QuietGivingUp DEF LoadFails, bounds, Fault, SchedulerInv, Typed

LEMMA StartAfterLaunchFails == ASSUME SchedulerInv, LaunchFails PROVE SchedulerInv'
<1>1. ~stopped /\ ~Polling /\ pc # "down"
  BY DEF SchedulerInv, Threads, LaunchFails, Main, Polling
<1> QED
  BY <1>1, QuietGivingUp DEF LaunchFails, bounds, Fault, SchedulerInv, Typed

-----------------------------------------------------------------------------
(* Checkpoints that differ in their numbers only *)

Alike(c, d) ==
  /\ c.stage = d.stage /\ c.plan = d.plan /\ c.started = d.started /\ c.done = d.done
  /\ c.failed = d.failed /\ c.active = d.active /\ c.partial = d.partial

LEMMA AlikeSane ==
  ASSUME NEW c, NEW d, Alike(c, d), NEW s
  PROVE  /\ Sane(c, s) = Sane(d, s) /\ Fine(c, s) = Fine(d, s) /\ Fast(c, s) = Fast(d, s)
         /\ Facts(c) = Facts(d)
         /\ \A p : Fits(p, c, s) = Fits(p, d, s)
         /\ \A f, g : Kept(c, f, g) = Kept(d, f, g) /\ Begun(c, f, g) = Begun(d, f, g)
<1>1. Active(c) = Active(d) /\ Settled(c) = Settled(d) /\ SummingUp(c) = SummingUp(d)
  BY DEF Alike, Active, Settled, SummingUp
<1>2. Fast(c, s) = Fast(d, s)
  BY DEF Alike, Fast
<1>3. Sane(c, s) = Sane(d, s)
  BY <1>1, <1>2 DEF Alike, Sane
<1>4. Loadable(c) = Loadable(d)
  BY <1>1 DEF Alike, Loadable
<1>5. Fine(c, s) = Fine(d, s)
  BY <1>2, <1>3, <1>4 DEF Fine
<1>6. Facts(c) = Facts(d)
  BY <1>1 DEF Alike, Facts
<1>7. \A p : Fits(p, c, s) = Fits(p, d, s)
  BY <1>1, <1>2, <1>3, <1>4, <1>5 DEF Alike, Fits
<1>8. \A f, g : Kept(c, f, g) = Kept(d, f, g) /\ Begun(c, f, g) = Begun(d, f, g)
  BY <1>1 DEF Alike, Kept, Begun
<1> QED
  BY <1>2, <1>3, <1>5, <1>6, <1>7, <1>8

LEMMA AlikeFollows ==
  ASSUME NEW a, NEW c, NEW d, Alike(c, d)
  PROVE  /\ Follows(a, c) => Follows(a, d)
         /\ c # None /\ d # None /\ Follows(c, a) => Follows(d, a)
<1>1. /\ Active(c) = Active(d) /\ Settled(c) = Settled(d) /\ SummingUp(c) = SummingUp(d)
      /\ Underway(c) = Underway(d)
  BY DEF Alike, Active, Settled, SummingUp, Underway
<1>2. Follows(a, c) => Follows(a, d)
  <2>1. Stays(a, c) => Stays(a, d)
    BY <1>1 DEF Alike, Stays, Executing
  <2>2. Starts(a, c) => Starts(a, d)
    BY <1>1 DEF Alike, Starts, Executing
  <2>3. Settles(a, c) => Settles(a, d)
    BY <1>1 DEF Alike, Settles, Executing
  <2>4. Blocks(a, c) => Blocks(a, d)
    BY <1>1 DEF Alike, Blocks, Executing
  <2>5. Sums(a, c) => Sums(a, d)
    BY <1>1 DEF Alike, Sums
  <2> QED
    BY <1>1, <2>1, <2>2, <2>3, <2>4, <2>5 DEF Alike, Follows
<1>3. c # None /\ d # None /\ Follows(c, a) => Follows(d, a)
  <2>1. Stays(c, a) => Stays(d, a)
    BY <1>1 DEF Alike, Stays, Executing
  <2>2. Starts(c, a) => Starts(d, a)
    BY <1>1 DEF Alike, Starts, Executing
  <2>3. Settles(c, a) => Settles(d, a)
    BY <1>1 DEF Alike, Settles, Executing
  <2>4. Blocks(c, a) => Blocks(d, a)
    BY <1>1 DEF Alike, Blocks, Executing
  <2>5. Sums(c, a) => Sums(d, a)
    BY <1>1 DEF Alike, Sums
  <2> QED
    BY <1>1, <2>1, <2>2, <2>3, <2>4, <2>5 DEF Alike, Follows
<1> QED
  BY <1>2, <1>3

-----------------------------------------------------------------------------
(* SendEvent *)

LEMMA SaidGrows ==
  ASSUME NEW l \in Seq(EventCalls), NEW e, NEW n \in Nat, n <= Len(l)
  PROVE  /\ Said(Append(l, e), n) = Said(l, n)
         /\ Said(Append(l, e), Len(l) + 1) = Said(l, Len(l)) \cup {e}
<1> DEFINE r == Append(l, e)
<1>1. Len(l) \in Nat /\ \A i \in 1..Len(l) : r[i] = l[i]
  OBVIOUS
<1>2. r[Len(l) + 1] = e
  OBVIOUS
<1> HIDE DEF r
<1>3. \A i \in 1..n : i \in 1..Len(l)
  BY <1>1
<1>4. \A i \in 1..(Len(l) + 1) : i \in 1..Len(l) \/ i = Len(l) + 1
  BY <1>1
<1>5. Said(r, n) = Said(l, n)
  BY <1>1, <1>3 DEF Said
<1>6. Said(r, Len(l) + 1) = Said(l, Len(l)) \cup {e}
  <2>1. \A i \in 1..Len(l) : i \in 1..(Len(l) + 1)
    BY <1>1
  <2>2. Len(l) + 1 \in 1..(Len(l) + 1)
    BY <1>1
  <2> QED
    BY <1>1, <1>2, <1>4, <2>1, <2>2 DEF Said
<1> QED
  BY <1>5, <1>6 DEF r

(* What the log is when the gateway has taken an event, after the n events that
   the worker has counted. *)
LEMMA EventTaken ==
  ASSUME log \in Seq(EventCalls), NEW n \in Nat, n <= Len(log), NEW e \in EventCalls,
         TakesEvent(n + 1, e)
  PROVE  /\ log' \in Seq(EventCalls) /\ Len(log') >= Len(log) /\ n + 1 <= Len(log')
         /\ \A k \in Nat : k <= Len(log) => Said(log', k) = Said(log, k)
         /\ Said(log', n + 1) = Said(log, n) \cup {e}
         /\ Said(log', Len(log')) = Said(log, Len(log)) \cup {e}
         /\ log' = log \/ (Len(log) = n /\ log' = Append(log, e))
<1>1. Len(log) \in Nat
  OBVIOUS
<1>2. CASE n + 1 = Len(log) + 1 /\ log' = Append(log, e)
  <2>1. \A k \in Nat : k <= Len(log) => Said(log', k) = Said(log, k)
    BY <1>1, <1>2, SaidGrows
  <2>2. Said(log', Len(log) + 1) = Said(log, Len(log)) \cup {e}
    BY <1>1, <1>2, SaidGrows
  <2>3. log' \in Seq(EventCalls) /\ Len(log') = Len(log) + 1 /\ n = Len(log)
    BY <1>1, <1>2
  <2> QED
    BY <1>1, <1>2, <2>1, <2>2, <2>3
<1>3. CASE n + 1 <= Len(log) /\ log[n + 1] = e /\ log' = log
  <2>1. n + 1 \in 1..Len(log)
    BY <1>1, <1>3
  <2>2. Said(log, n + 1) = Said(log, n) \cup {e}
    <3>1. \A i \in 1..(n + 1) : i \in 1..n \/ i = n + 1
      BY <1>1
    <3>2. \A i \in 1..n : i \in 1..(n + 1)
      BY <1>1
    <3>3. n + 1 \in 1..(n + 1)
      BY <1>1
    <3> QED
      BY <1>3, <3>1, <3>2, <3>3 DEF Said
  <2>3. e \in Said(log, Len(log))
    BY <1>3, <2>1 DEF Said
  <2> QED
    BY <1>1, <1>3, <2>1, <2>2, <2>3
<1> QED
  BY <1>2, <1>3 DEF TakesEvent

LEMMA LogKept ==
  ASSUME log \in Seq(EventCalls), NEW n \in Nat, NEW e \in EventCalls, TakesEvent(n + 1, e)
  PROVE  /\ log' \in Seq(EventCalls) /\ Len(log') >= Len(log)
         /\ \A c : Agree(c, log) /\ c.seq \in Nat => Agree(c, log')
<1>1. Len(log) \in Nat
  OBVIOUS
<1>2. CASE log' = log
  BY <1>1, <1>2
<1>3. CASE log' = Append(log, e)
  <2>1. log' \in Seq(EventCalls) /\ Len(log') = Len(log) + 1
    BY <1>1, <1>3
  <2>2. \A k \in Nat : k <= Len(log) => Said(log', k) = Said(log, k)
    BY <1>1, <1>3, SaidGrows
  <2> QED
    BY <1>1, <2>1, <2>2 DEF Agree
<1> QED
  BY <1>2, <1>3 DEF TakesEvent

LEMMA EarlierSaid ==
  ASSUME NEW l \in Seq(EventCalls), NEW n \in Nat, n <= Len(l)
  PROVE  Said(l, n) \subseteq Said(l, Len(l)) /\ Said(l, Len(l)) \subseteq EventCalls
<1>1. Len(l) \in Nat /\ \A i \in 1..Len(l) : l[i] \in EventCalls
  OBVIOUS
<1>2. \A i \in 1..n : i \in 1..Len(l)
  BY <1>1
<1> QED
  BY <1>1, <1>2 DEF Said

(* The calls that are left, and the state they lead to. *)
LEMMA CallsLeft ==
  ASSUME SchedulerInv, todo # <<>>, ~Racing
  PROVE  /\ Busy /\ ~Polling /\ pc \notin {"load", "poll", "wait", "down", "dead"}
         /\ Pending \in States /\ Pending.done \cap Pending.failed = {}
         /\ Pending.plan = w.plan /\ Pending.started = w.started
         /\ Pending.done = w.done /\ Pending.failed = w.failed
         /\ pc # "plan" => EndsInSave(todo) /\ Sane(Pending, strategy)
         /\ pc = "plan" => Pending = NoState /\ ~EndsInSave(todo)
<1>1. Busy /\ ~Polling /\ pc \notin {"load", "poll", "wait", "down", "dead"} /\ Script(todo) /\ w \in States
  BY DEF Busy, SchedulerInv, Threads, Polling, Typed
<1>2. CASE pc = "plan"
  <2>1. todo = <<Event("runner.started", 0)>> /\ w = NoState
    BY <1>2 DEF SchedulerInv, MainCalls
  <2>2. ~EndsInSave(todo)
    BY <2>1 DEF EndsInSave, SaveCalls, Event
  <2>3. Pending = NoState
    BY <2>1, <2>2 DEF Pending, After
  <2>4. NoState.done = {} /\ NoState.failed = {}
    BY DEF NoState
  <2> QED
    BY <1>1, <1>2, <2>1, <2>2, <2>3, <2>4
<1>3. CASE pc # "plan"
  <2>1. EndsInSave(todo)
    BY <1>3 DEF SchedulerInv, MainCalls
  <2>2. Sane(Pending, strategy)
    BY <1>1, <1>3 DEF SchedulerInv, MainFits, Fits, Fine
  <2>3. Pending.done \cap Pending.failed = {}
    BY <2>2 DEF Sane
  <2> QED
    BY <1>1, <1>3, <2>1, <2>2, <2>3, FieldsOfAfter DEF Pending
<1> QED
  BY <1>2, <1>3

(* The event that is sent is new to the log, and stands for what the state in
   memory has of its task. *)
LEMMA NextEvent ==
  ASSUME SchedulerInv, todo # <<>>, ~Racing, Head(todo).call = "event"
  PROVE  /\ Head(todo) \in EventCalls /\ Head(todo) \in Els(todo)
         /\ ~straggled /\ Head(todo) \in Marks =>
              Head(todo) \notin Said(log, seq) /\ Head(todo) \in Facts(Pending)
         /\ Script(Tail(todo)) /\ Els(Tail(todo)) = Els(todo) \ {Head(todo)}
         /\ After(w, Tail(todo)) = Pending
         /\ EndsInSave(todo) => EndsInSave(Tail(todo))
         /\ pc = "plan" => Tail(todo) = <<>>
<1> DEFINE e == Head(todo)
<1>1. Script(todo)
  BY DEF SchedulerInv, Typed
<1>2. e \in Els(todo) /\ e \in Calls
  BY <1>1, FirstCall
<1>3. e \in EventCalls
  BY <1>2 DEF Calls, SaveCalls
<1>4. Busy
  BY CallsLeft
<1>5. ~straggled /\ e \in Marks => e \notin Said(log, seq) /\ e \in Facts(Pending)
  BY <1>2, <1>4 DEF SchedulerInv, MainSays
<1>6. Script(Tail(todo)) /\ Els(Tail(todo)) = Els(todo) \ {e}
  BY <1>1, FirstCall
<1>7. CASE EndsInSave(todo)
  <2>1. EndsInSave(Tail(todo)) /\ Tail(todo)[Len(Tail(todo))] = todo[Len(todo)]
    BY <1>1, <1>3, <1>7, FirstCall
  <2>2. After(w, Tail(todo)) = Pending
    BY <2>1, <1>7 DEF After, Pending
  <2>3. pc # "plan"
    BY <1>7, CallsLeft
  <2> QED
    BY <1>2, <1>3, <1>5, <1>6, <2>1, <2>2, <2>3
<1>8. CASE ~EndsInSave(todo)
  <2>1. pc = "plan" /\ todo = <<Event("runner.started", 0)>>
    BY <1>8, CallsLeft DEF SchedulerInv, MainCalls
  <2>2. Tail(todo) = <<>>
    BY <2>1
  <2>3. After(w, Tail(todo)) = Pending
    BY <2>2, <1>8, NothingLeft DEF After, Pending
  <2> QED
    BY <1>2, <1>3, <1>5, <1>6, <1>8, <2>2, <2>3
<1> QED
  BY <1>7, <1>8

(* The log stays in order when it takes an event that is new to it and stands
   for what some state c has. *)
LEMMA LogInOrder ==
  ASSUME log \in Seq(EventCalls), NEW n \in Nat, n <= Len(log), NEW e \in EventCalls,
         TakesEvent(n + 1, e), NEW c, c.done \cap c.failed = {},
         Said(log, n) \cap Marks \subseteq Facts(c),
         e \in Marks => e \notin Said(log, n) /\ e \in Facts(c),
         Logged, ~straggled
  PROVE  Logged'
<1> DEFINE L == Said(log, Len(log))
           M == Said(log', Len(log'))
<1>1. log' \in Seq(EventCalls) /\ M = L \cup {e}
  BY EventTaken
<1>2. CASE log' = log
  BY <1>2 DEF Logged
<1>3. CASE Len(log) = n /\ log' = Append(log, e)
  <2>1. L = Said(log, n)
    BY <1>3
  <2>2. e \in Marks => e \notin L
    BY <2>1
  <2>3. M \cap Marks \subseteq Facts(c)
    BY <1>1, <2>1
  <2>4. \A t \in Work : Event("task.completed", t) \in M => t \in c.done
    <3>1. \A t \in Work : Event("task.completed", t) \in Marks
      BY DEF Event, Marks, EventCalls, Kinds
    <3> QED
      BY <2>3, <3>1 DEF Facts, Event
  <2>5. \A t \in Work : Event("task.failed", t) \in M => t \in c.failed
    <3>1. \A t \in Work : Event("task.failed", t) \in Marks
      BY DEF Event, Marks, EventCalls, Kinds
    <3> QED
      BY <2>3, <3>1 DEF Facts, Event
  <2>6. \A i, j \in 1..Len(log') : log'[i] = log'[j] /\ log'[i] \in Marks => i = j
    <3>1. Len(log') = Len(log) + 1 /\ Len(log) \in Nat
      BY <1>1, <1>3
    <3>2. \A i \in 1..Len(log') : \/ i \in 1..Len(log) /\ log'[i] = log[i] /\ log[i] \in L
                                  \/ i = Len(log) + 1 /\ log'[i] = e
      BY <1>1, <1>3, <3>1 DEF Said
    <3>3. \A i, j \in 1..Len(log) : log[i] = log[j] /\ log[i] \in Marks => i = j
      BY DEF Logged
    <3> QED
      BY <2>2, <3>2, <3>3
  <2>7. Announced("task.completed", log') \subseteq c.done
        /\ Announced("task.failed", log') \subseteq c.failed
    BY <2>4, <2>5 DEF Announced
  <2>8. \A t \in Work : ~(t \in Announced("task.completed", log')
                          /\ t \in Announced("task.failed", log'))
    BY <2>7
  <2> QED
    BY <2>6, <2>8 DEF Logged
<1> QED
  BY <1>2, <1>3, EventTaken

(* The event of the next call is taken, or not, and no batch is being settled. *)
LEMMA SentInOrder ==
  ASSUME SchedulerInv, todo # <<>>, ~Racing, Head(todo).call = "event",
         TakesEvent(seq + 1, Head(todo)) \/ UNCHANGED log,
         UNCHANGED <<store, w, straggled, strategy>>
  PROVE  log' \in Seq(EventCalls) /\ Stored' /\ Readable' /\ Logged'
<1> DEFINE e == Head(todo)
<1>1. e \in EventCalls /\ Busy /\ Typed /\ seq \in Nat /\ log \in Seq(EventCalls)
  BY NextEvent, CallsLeft DEF SchedulerInv, Typed
<1>2. log' \in Seq(EventCalls) /\ \A c : Agree(c, log) /\ c.seq \in Nat => Agree(c, log')
  BY <1>1, LogKept
<1>3. Stored'
  BY DEF SchedulerInv, Stored
<1>4. Readable'
  <2>1. store # None => store.seq \in Nat
    BY <1>1 DEF Typed, States
  <2> QED
    BY <1>2, <2>1 DEF SchedulerInv, Readable
<1>5. Logged'
  <2>1. CASE straggled
    BY <2>1 DEF Logged
  <2>2. CASE UNCHANGED log
    BY <2>2 DEF SchedulerInv, Logged
  <2>3. CASE ~straggled /\ TakesEvent(seq + 1, e)
    <3>1. seq <= Len(log) /\ Said(log, seq) \cap Marks \subseteq Facts(Pending)
      BY <1>1, <2>3 DEF SchedulerInv, MainSays
    <3>2. e \in Marks => e \notin Said(log, seq) /\ e \in Facts(Pending)
      BY <2>3, NextEvent
    <3>3. Pending.done \cap Pending.failed = {}
      BY CallsLeft
    <3> QED
      BY <1>1, <2>3, <3>1, <3>2, <3>3, LogInOrder DEF SchedulerInv
  <2> QED
    BY <2>1, <2>2, <2>3
<1> QED
  BY <1>2, <1>3, <1>4, <1>5

LEMMA SendEventInv == ASSUME SchedulerInv, SendEvent PROVE SchedulerInv'
<1> DEFINE e == Head(todo)
<1>1. /\ todo # <<>> /\ e.call = "event" /\ ~Racing /\ seq' = seq + 1
      /\ UNCHANGED <<run, store, reported, w, threads, history>>
  BY DEF SendEvent, NextCall
<1>2. /\ Busy /\ ~Polling /\ pc \notin {"load", "poll", "wait", "down", "dead"}
      /\ pc # "plan" => EndsInSave(todo) /\ Sane(Pending, strategy)
      /\ w.failed = Pending.failed
  BY <1>1, CallsLeft
<1>3. /\ e \in EventCalls /\ e \in Els(todo)
      /\ ~straggled /\ e \in Marks => e \notin Said(log, seq) /\ e \in Facts(Pending)
      /\ Script(Tail(todo)) /\ Els(Tail(todo)) = Els(todo) \ {e}
      /\ After(w, Tail(todo)) = Pending
      /\ EndsInSave(todo) => EndsInSave(Tail(todo))
      /\ pc = "plan" => Tail(todo) = <<>>
  BY <1>1, NextEvent
<1>4. Typed /\ strategy' = strategy /\ ~stopped /\ seq' \in Nat
  BY <1>1 DEF SchedulerInv, SendEvent, AppendEvent, bounds, Fault, Threads, Typed
<1>0. ~Racing'
  BY <1>1 DEF Racing, threads
<1>5. CASE run = "running" /\ TakesEvent(seq + 1, e) /\ todo' = Tail(todo) /\ pc' = pc
  <2>1. log' \in Seq(EventCalls) /\ Stored' /\ Readable' /\ Logged'
    BY <1>1, <1>4, <1>5, SentInOrder DEF history
  <2>2. Pending' = Pending
    BY <1>1, <1>3, <1>5 DEF Pending
  <2>3. Typed'
    BY <1>1, <1>3, <1>4, <1>5, <2>1 DEF Typed, threads, history
  <2>4. Threads'
    <3>1. /\ pc' = pc /\ ~Polling' /\ pc \notin {"load", "down", "dead"}
          /\ UNCHANGED <<th, out, saving, stopped>>
      BY <1>1, <1>2, <1>5 DEF Polling, threads
    <3>2. \A t \in Work : AtLock(t)' = AtLock(t)
      BY <3>1 DEF AtLock
    <3> QED
      BY <1>0, <1>1, <1>2, <1>4, <3>1, <3>2 DEF SchedulerInv, Threads
  <2>5. Busy' => Busy
    BY <1>2
  <2>6. MainFits' /\ MainCalls'
    <3>1. MainFits'
      BY <1>2, <1>4, <1>5, <2>2 DEF SchedulerInv, MainFits
    <3>2. MainCalls'
      BY <1>1, <1>2, <1>3, <1>5 DEF SchedulerInv, MainCalls
    <3> QED
      BY <3>1, <3>2
  <2>7. MainSays'
    <3> SUFFICES ASSUME ~straggled
                 PROVE  /\ seq' <= Len(log')
                        /\ Said(log', seq') \cap Els(todo') \cap Marks = {}
                        /\ (Said(log', seq') \cup Els(todo')) \cap Marks = Facts(Pending)
      BY <1>1, <2>2 DEF MainSays, history
    <3>1. seq \in Nat /\ log \in Seq(EventCalls) /\ seq <= Len(log)
      BY <1>2 DEF SchedulerInv, Typed, MainSays
    <3>2. Said(log', seq + 1) = Said(log, seq) \cup {e} /\ seq + 1 <= Len(log')
      BY <1>3, <1>5, <3>1, EventTaken
    <3>3. /\ Said(log, seq) \cap Els(todo) \cap Marks = {}
          /\ (Said(log, seq) \cup Els(todo)) \cap Marks = Facts(Pending)
      BY <1>2 DEF SchedulerInv, MainSays
    <3> QED
      BY <1>1, <1>3, <1>5, <3>2, <3>3
  <2>8. MainSaved'
    <3>1. pc # "plan" => todo' # <<>>
      BY <1>2, <1>3, <1>5 DEF EndsInSave
    <3> QED
      BY <1>1, <1>2, <1>5, <2>2, <3>1 DEF SchedulerInv, MainSaved
  <2>9. LateFits'
    BY <1>1, <1>4 DEF LateFits, threads
  <2>10. Fresh'
    BY <1>1, <1>2, <1>4, <1>5, <2>2 DEF SchedulerInv, Fresh, history
  <2>11. EndFits'
    BY <1>1, <1>2, <1>5 DEF SchedulerInv, EndFits
  <2>12. Settling'
    BY <1>0 DEF Settling
  <2> QED
    BY <2>1, <2>3, <2>4, <2>6, <2>7, <2>8, <2>9, <2>10, <2>11, <2>12 DEF SchedulerInv
<1>6. CASE GiveUp /\ (TakesEvent(seq + 1, e) \/ UNCHANGED log)
  <2>1. /\ MainFits' /\ MainCalls' /\ MainSays' /\ MainSaved' /\ ~Busy'
        /\ Script(todo') /\ pc' = "fail" /\ todo' = <<>>
    BY <1>6, GivingUp
  <2>2. log' \in Seq(EventCalls) /\ Stored' /\ Readable' /\ Logged'
    BY <1>1, <1>4, <1>6, SentInOrder DEF history
  <2>3. Typed'
    BY <1>1, <1>4, <2>1, <2>2 DEF Typed, threads, history, Pcs
  <2>4. Threads'
    <3>1. ~Polling' /\ UNCHANGED <<th, out, saving, stopped>>
      BY <1>1, <2>1 DEF Polling, threads
    <3>2. \A t \in Work : AtLock(t)' = AtLock(t)
      BY <3>1 DEF AtLock
    <3> QED
      BY <1>0, <1>1, <1>2, <1>4, <2>1, <3>1, <3>2 DEF SchedulerInv, Threads
  <2>5. Fresh'
    BY <1>1, <1>4, <2>1, FreshKept DEF history
  <2>6. LateFits'
    BY <1>1, <1>4 DEF LateFits, threads
  <2>7. EndFits'
    BY <1>1, <1>2, <2>1 DEF SchedulerInv, EndFits
  <2>8. Settling'
    BY <1>0 DEF Settling
  <2> QED
    BY <2>1, <2>2, <2>3, <2>4, <2>5, <2>6, <2>7, <2>8 DEF SchedulerInv
<1> QED
  BY <1>5, <1>6 DEF SendEvent, AppendEvent, Then

-----------------------------------------------------------------------------
(* SaveState *)

(* The state that is saved. *)
Saved == [w EXCEPT !.stage = Head(todo).stage, !.active = Head(todo).active,
                   !.rev = NextRev(w), !.seq = seq]

LEMMA SavedState ==
  ASSUME SchedulerInv, todo # <<>>, ~Racing, Head(todo).call = "save"
  PROVE  /\ Tail(todo) = <<>> /\ pc # "plan" /\ Busy /\ Els(todo) = {Head(todo)}
         /\ Saved \in States /\ Saved # None /\ Alike(Pending, Saved)
         /\ Saved.rev = w.rev + 1 /\ Saved.seq = seq
         /\ Head(todo) \in SaveCalls
<1>1. Script(todo) /\ w \in States /\ seq \in Nat
  BY DEF SchedulerInv, Typed
<1>2. Head(todo) \in Els(todo) /\ Head(todo) \in Calls
  BY <1>1, FirstCall
<1>3. Head(todo) \in SaveCalls
  BY <1>2 DEF Calls, EventCalls
<1>4. Tail(todo) = <<>> /\ Head(todo) = todo[Len(todo)]
  BY <1>1, <1>3, FirstCall
<1>5. EndsInSave(todo)
  BY <1>3, <1>4 DEF EndsInSave
<1>6. pc # "plan" /\ Busy
  BY <1>5, CallsLeft
<1>7. Els(todo) = {Head(todo)}
  BY <1>1, <1>2, <1>4, FirstCall, ScriptOfNothing
<1>8. Saved \in States /\ Saved.rev = w.rev + 1 /\ Saved.seq = seq
  <2> DEFINE h == Head(todo)
  <2>1. h.stage \in Stages /\ h.active \in [Work -> Invocations \cup {Inactive}]
    BY <1>3 DEF SaveCalls
  <2>2. w.rev + 1 \in Nat
    BY <1>1 DEF States
  <2>3. Saved = [w EXCEPT !.stage = h.stage, !.active = h.active, !.rev = w.rev + 1, !.seq = seq]
    BY DEF Saved, NextRev
  <2> HIDE DEF h
  <2> QED
    BY <1>1, <2>1, <2>2, <2>3 DEF States
<1>9. Alike(Pending, Saved)
  BY <1>1, <1>4, <1>5 DEF Alike, Pending, After, Saved, States
<1> QED
  BY <1>3, <1>4, <1>6, <1>7, <1>8, <1>9, NoneAssumption

(* It is fit to be loaded, and the log agrees with it. *)
LEMMA SavedFine ==
  ASSUME SchedulerInv, todo # <<>>, ~Racing, Head(todo).call = "save"
  PROVE  /\ Fine(Saved, strategy) /\ (straggled \/ Agree(Saved, log)) /\ Fits(pc, Saved, strategy)
         /\ store # None => store.plan = Saved.plan
         /\ Fast(Saved, strategy) \/ Kept(Saved, fresh, dropped)
         /\ pc \in {"loop", "launch"} => Begun(Saved, fresh, dropped)
<1>1. /\ pc # "plan" /\ Busy /\ Els(todo) = {Head(todo)}
      /\ Alike(Pending, Saved) /\ Saved.seq = seq /\ Head(todo) \in SaveCalls
  BY SavedState
<1>2. Fits(pc, Saved, strategy)
  BY <1>1, AlikeSane DEF SchedulerInv, MainFits
<1>3. Fine(Saved, strategy)
  BY <1>2 DEF Fits, Fine
<1>4. Head(todo) \notin EventCalls
  BY <1>1, CallsDiffer
<1>5. straggled \/ Agree(Saved, log)
  <2> SUFFICES ASSUME ~straggled PROVE Agree(Saved, log)
    OBVIOUS
  <2>1. seq <= Len(log) /\ (Said(log, seq) \cup Els(todo)) \cap Marks = Facts(Pending)
    BY <1>1 DEF SchedulerInv, MainSays
  <2>2. Said(log, seq) \cap Marks = Facts(Saved)
    BY <2>1, <1>1, <1>4, AlikeSane DEF Marks
  <2> QED
    BY <2>1, <2>2, <1>1 DEF Agree
<1>6. store # None => store.plan = Saved.plan
  <2>1. Saved.plan = w.plan
    BY <1>1, CallsLeft DEF Alike
  <2> QED
    BY <2>1, <1>1 DEF SchedulerInv, MainSaved
<1>8. Fast(Saved, strategy) \/ Kept(Saved, fresh, dropped)
  BY <1>1, AlikeSane DEF SchedulerInv, Fresh
<1>9. pc \in {"loop", "launch"} => Begun(Saved, fresh, dropped)
  BY <1>1, AlikeSane DEF SchedulerInv, Fresh
<1> QED
  BY <1>2, <1>3, <1>5, <1>6, <1>8, <1>9

(* What it means for the store. *)
LEMMA CheckpointTaken ==
  ASSUME SchedulerInv, todo # <<>>, ~Racing, Head(todo).call = "save", TakesCheckpoint(Saved),
         UNCHANGED <<log, strategy, straggled>>, w'.rev <= w.rev + 1
  PROVE  store' = Saved /\ Stored' /\ Readable' /\ Logged'
<1>1. store' = Saved
  BY DEF TakesCheckpoint
<1>2. /\ Saved.rev = w.rev + 1 /\ Saved # None /\ w.rev \in Nat
  BY SavedState DEF SchedulerInv, Typed, States
<1>3. Fine(Saved, strategy) /\ (straggled \/ Agree(Saved, log))
  BY SavedFine
<1>4. Stored' /\ Readable'
  BY <1>1, <1>2, <1>3 DEF Stored, Readable, Rev, Fine
<1>5. Logged'
  BY DEF SchedulerInv, Logged, Announced, Said
<1> QED
  BY <1>1, <1>4, <1>5

LEMMA CheckpointFresh ==
  ASSUME SchedulerInv, todo # <<>>, ~Racing, Head(todo).call = "save", store' = Saved,
         UNCHANGED <<strategy, fresh, dropped>>, ~Busy' \/ (w' = Saved /\ todo' = <<>> /\ pc' = pc),
         pc' \in {"loop", "launch"} => Busy'
  PROVE  Fresh'
<1>1. Saved # None /\ Busy
  BY SavedState
<1>2. /\ Fast(Saved, strategy) \/ Kept(Saved, fresh, dropped)
      /\ pc \in {"loop", "launch"} => Begun(Saved, fresh, dropped)
  BY SavedFine
<1>4. Busy' => Pending' = Saved
  BY NothingLeft DEF Pending
<1>6. \A t \in Tasks : fresh[t] > 1 => t \in dropped
  BY DEF SchedulerInv, Fresh
<1> QED
  BY <1>1, <1>2, <1>4, <1>6 DEF Fresh

LEMMA SaveStateInv == ASSUME SchedulerInv, SaveState PROVE SchedulerInv'
<1>1. /\ todo # <<>> /\ ~Racing /\ Head(todo).call = "save"
      /\ UNCHANGED <<run, log, reported, seq, threads, history>> /\ strategy' = strategy
  BY DEF SaveState, NextCall, bounds, Fault
<1>2. /\ Tail(todo) = <<>> /\ pc # "plan" /\ Busy /\ Saved \in States /\ Saved # None
      /\ Saved.rev = w.rev + 1 /\ Saved.seq = seq
  BY <1>1, SavedState
<1>3. /\ ~Polling /\ pc \notin {"load", "poll", "wait", "down", "dead"}
  BY <1>1, CallsLeft
<1>4. /\ Fine(Saved, strategy) /\ (straggled \/ Agree(Saved, log)) /\ Fits(pc, Saved, strategy)
  BY <1>1, SavedFine
<1>5. w.rev \in Nat /\ strategy \in Strategies /\ w \in States
  BY DEF SchedulerInv, Typed, States
<1>0. ~Racing' /\ ~stopped /\ ~stopped' /\ LateFits' /\ Settling'
  <2>1. ~stopped
    BY <1>1 DEF SchedulerInv, Threads
  <2> QED
    BY <1>1, <2>1 DEF Racing, threads, LateFits, Settling
<1>6. CASE run = "running" /\ TakesCheckpoint(Saved) /\ w' = Saved /\ todo' = <<>> /\ pc' = pc
  <2>1. store' = Saved /\ Stored' /\ Readable' /\ Logged'
    BY <1>1, <1>2, <1>5, <1>6, CheckpointTaken DEF history
  <2>2. Typed'
    BY <1>1, <1>2, <1>6, <2>1, ScriptOfNothing DEF SchedulerInv, Typed, threads, history
  <2>3. ~Polling' /\ UNCHANGED <<th, out, saving, stopped>>
    BY <1>1, <1>3, <1>6 DEF Polling, threads
  <2>4. \A t \in Work : AtLock(t)' = AtLock(t)
    BY <2>3 DEF AtLock
  <2>5. Threads'
    BY <1>0, <1>1, <1>3, <1>6, <2>3, <2>4 DEF SchedulerInv, Threads
  <2>6. Pending' = Saved
    BY <1>6, NothingLeft DEF Pending
  <2>8. MainFits' /\ MainCalls' /\ MainSays' /\ MainSaved'
    <3>1. MainFits'
      BY <1>1, <1>4, <1>6, <2>6 DEF MainFits
    <3>2. MainCalls'
      BY <1>2, <1>6 DEF MainCalls
    <3>3. MainSays'
      BY <1>1, <1>2, <1>4, <1>6, <2>6, ScriptOfNothing DEF MainSays, Agree, history
    <3>4. MainSaved'
      BY <1>1, <1>2, <1>6, <2>1 DEF MainSaved
    <3> QED
      BY <3>1, <3>2, <3>3, <3>4
  <2>10. Fresh'
    <3>1. pc' \in {"loop", "launch"} => Busy'
      BY <1>0 DEF Busy
    <3> QED
      BY <1>1, <1>6, <2>1, <3>1, CheckpointFresh DEF history
  <2>11. EndFits'
    BY <1>1, <1>3, <1>6 DEF EndFits
  <2> QED
    BY <1>0, <2>1, <2>2, <2>5, <2>8, <2>10, <2>11 DEF SchedulerInv
<1>7. CASE GiveUp /\ w' = w /\ (UNCHANGED store \/ TakesCheckpoint(Saved))
  <2>1. /\ MainFits' /\ MainCalls' /\ MainSays' /\ MainSaved' /\ ~Busy'
        /\ Script(todo') /\ pc' = "fail" /\ todo' = <<>>
    BY <1>7, GivingUp
  <2>2. ~Polling' /\ UNCHANGED <<th, out, saving, stopped>>
    BY <1>1, <2>1 DEF Polling, threads
  <2>3. \A t \in Work : AtLock(t)' = AtLock(t)
    BY <2>2 DEF AtLock
  <2>4. Threads'
    BY <1>0, <1>3, <2>1, <2>2, <2>3 DEF SchedulerInv, Threads
  <2>5. EndFits'
    BY <1>1, <1>3, <2>1 DEF SchedulerInv, EndFits
  <2>7. CASE UNCHANGED store
    <3>1. Typed'
      BY <1>1, <1>5, <1>7, <2>1, <2>7 DEF SchedulerInv, Typed, threads, history, Pcs
    <3>2. Stored' /\ Readable' /\ Logged'
      BY <1>1, <1>7, <2>7 DEF SchedulerInv, Stored, Readable, Logged, history
    <3>3. Fresh'
      BY <1>1, <2>1, <2>7, FreshKept DEF history
    <3> QED
      BY <1>0, <2>1, <2>4, <2>5, <3>1, <3>2, <3>3 DEF SchedulerInv
  <2>8. CASE TakesCheckpoint(Saved)
    <3>1. store' = Saved /\ Stored' /\ Readable' /\ Logged'
      BY <1>1, <1>2, <1>5, <1>7, <2>8, CheckpointTaken DEF history
    <3>2. Typed'
      BY <1>1, <1>2, <1>5, <1>7, <2>1, <3>1 DEF SchedulerInv, Typed, threads, history, Pcs
    <3>3. Fresh'
      BY <1>1, <2>1, <3>1, CheckpointFresh DEF history
    <3> QED
      BY <1>0, <2>1, <2>4, <2>5, <3>1, <3>2, <3>3 DEF SchedulerInv
  <2> QED
    BY <1>7, <2>7, <2>8
<1>8. \/ run = "running" /\ TakesCheckpoint(Saved) /\ w' = Saved /\ todo' = <<>> /\ pc' = pc
      \/ GiveUp /\ w' = w /\ (UNCHANGED store \/ TakesCheckpoint(Saved))
  BY <1>2 DEF SaveState, Then, Saved
<1> QED
  BY <1>6, <1>7, <1>8

-----------------------------------------------------------------------------
(* What each decision of the main thread makes of a checkpoint *)

LEMMA MarksOfTasks ==
  /\ \A t \in Work, k \in Kinds \ {"approval.required"} : Event(k, t) \in Marks
  /\ \A e \in EventCalls : e = Event(e.kind, e.task)
  /\ \A k, t : Event(k, t).kind = k /\ Event(k, t).task = t
  /\ Tasks \subseteq Work /\ Synthesis \in Work /\ 0 = Synthesis
  BY DEF Event, Marks, EventCalls, Work, Synthesis

(* The events that tell that tasks were begun, completed and failed. *)
TaskMarks(B, G, F) ==
  {Event("task.started", t) : t \in B} \cup {Event("task.completed", t) : t \in G}
    \cup {Event("task.failed", t) : t \in F}

LEMMA FactsGrow ==
  ASSUME NEW c \in States, NEW d \in States,
         NEW B \in SUBSET Tasks, NEW G \in SUBSET Tasks, NEW F \in SUBSET Tasks,
         d.plan = c.plan, d.started = c.started \cup B,
         d.done = c.done \cup G, d.failed = c.failed \cup F,
         (SummingUp(c) <=> SummingUp(d)), (c.stage = "completed" <=> d.stage = "completed"),
         B \cap c.started = {}, G \cap c.done = {}, F \cap c.failed = {}
  PROVE  /\ Facts(d) = Facts(c) \cup TaskMarks(B, G, F)
         /\ Facts(c) \cap TaskMarks(B, G, F) = {} /\ TaskMarks(B, G, F) \subseteq Marks
<1> DEFINE N == TaskMarks(B, G, F)
<1>1. N \subseteq Marks
  BY MarksOfTasks DEF Kinds, TaskMarks
<1>2. Facts(c) \cap N = {}
  BY DEF Facts, Event, TaskMarks
<1>3. \A e \in Marks : e \in N <=>
        \/ e.kind = "task.started" /\ e.task \in B
        \/ e.kind = "task.completed" /\ e.task \in G
        \/ e.kind = "task.failed" /\ e.task \in F
  <2> TAKE e \in Marks
  <2>1. e = Event(e.kind, e.task)
    BY MarksOfTasks DEF Marks
  <2>2. e \in {Event("task.started", t) : t \in B} <=> e.kind = "task.started" /\ e.task \in B
    BY <2>1, MarksOfTasks
  <2>3. e \in {Event("task.completed", t) : t \in G} <=> e.kind = "task.completed" /\ e.task \in G
    BY <2>1, MarksOfTasks
  <2>4. e \in {Event("task.failed", t) : t \in F} <=> e.kind = "task.failed" /\ e.task \in F
    BY <2>1, MarksOfTasks
  <2>5. e \in N <=> \/ e \in {Event("task.started", t) : t \in B}
                    \/ e \in {Event("task.completed", t) : t \in G}
                    \/ e \in {Event("task.failed", t) : t \in F}
    BY DEF TaskMarks
  <2> QED
    BY <2>2, <2>3, <2>4, <2>5
<1>4. \A e \in Marks : e \in Facts(d) <=> e \in Facts(c) \cup N
  <2> TAKE e \in Marks
  <2>1. /\ e.task \in d.started <=> e.task \in c.started \/ e.task \in B
        /\ e.task \in d.done <=> e.task \in c.done \/ e.task \in G
        /\ e.task \in d.failed <=> e.task \in c.failed \/ e.task \in F
        /\ SummingUp(d) <=> SummingUp(c)
        /\ d.stage = "completed" <=> c.stage = "completed"
        /\ d.plan # None <=> c.plan # None
    OBVIOUS
  <2>2. e \in Facts(d) <=>
          \/ e = Event("runner.started", 0)
          \/ e = Event("plan.created", 0) /\ d.plan # None
          \/ e.kind = "task.started" /\ e.task \in d.started
          \/ e.kind = "task.completed" /\ e.task \in d.done
          \/ e.kind = "task.failed" /\ e.task \in d.failed
          \/ e = Event("synthesis.started", 0) /\ SummingUp(d)
          \/ e \in {Event("synthesis.completed", 0), Event("runner.completed", 0)} /\ d.stage = "completed"
    BY DEF Facts
  <2>3. e \in Facts(c) <=>
          \/ e = Event("runner.started", 0)
          \/ e = Event("plan.created", 0) /\ c.plan # None
          \/ e.kind = "task.started" /\ e.task \in c.started
          \/ e.kind = "task.completed" /\ e.task \in c.done
          \/ e.kind = "task.failed" /\ e.task \in c.failed
          \/ e = Event("synthesis.started", 0) /\ SummingUp(c)
          \/ e \in {Event("synthesis.completed", 0), Event("runner.completed", 0)} /\ c.stage = "completed"
    BY DEF Facts
  <2>4. \/ e.kind = "task.started" /\ e.task \in B
        \/ e.kind = "task.completed" /\ e.task \in G
        \/ e.kind = "task.failed" /\ e.task \in F
        <=> e \in N
    BY <1>3
  <2>5. ASSUME e \in Facts(d)
        PROVE  e \in Facts(c) \cup N
    BY <2>1, <2>2, <2>3, <2>4, <2>5
  <2>6. ASSUME e \in Facts(c) \cup N
        PROVE  e \in Facts(d)
    <3>1. CASE e \in Facts(c)
      BY <2>1, <2>2, <2>3, <3>1
    <3>2. CASE e \in N
      BY <2>1, <2>2, <2>4, <3>2
    <3> QED
      BY <2>6, <3>1, <3>2
  <2> QED
    BY <2>5, <2>6
<1> QED
  BY <1>1, <1>2, <1>4 DEF Facts

LEMMA NobodyActive ==
  /\ Nobody \in [Work -> Invocations \cup {Inactive}]
  /\ \A c : c.active = Nobody => Active(c) = {}
  BY DEF Nobody, Active

LEMMA PlanStep ==
  ASSUME NEW p \in Plans, Accepted(p), NEW s, NEW d \in States,
         d.plan = p, d.stage = "executing", d.active = Nobody,
         d.started = {}, d.done = {}, d.failed = {}
  PROVE  Fits("loop", d, s) /\ Follows(None, d)
<1>1. Active(d) = {} /\ ~SummingUp(d) /\ Settled(d) = {} /\ ~Fast(d, s)
  BY NobodyActive DEF SummingUp, Settled, Fast
<1>2. \A t \in Tasks : d.active[t].rt # "ok"
  BY MarksOfTasks DEF Nobody, Inactive
<1>3. Sane(d, s)
  BY <1>1, <1>2 DEF Sane, Stages
<1>4. Loadable(d)
  BY <1>1 DEF Loadable
<1>5. Follows(None, d)
  BY <1>1 DEF Follows
<1> QED
  BY <1>1, <1>3, <1>4, <1>5 DEF Fits

(* What holds of the tasks a checkpoint that fits is working on. *)
LEMMA ActiveTasks ==
  ASSUME NEW c \in States, NEW s, Sane(c, s), Loadable(c), c.stage # "synthesizing"
  PROVE  /\ Active(c) \subseteq c.started \ Settled(c) /\ Active(c) \subseteq Tasks
         /\ Underway(c) = Active(c) /\ Synthesis \notin Active(c)
<1>1. Active(c) \subseteq c.started \ Settled(c) /\ c.started \subseteq Tasks
  BY DEF Loadable, States
<1> QED
  BY <1>1 DEF Underway, Sane

LEMMA RecoverStep ==
  ASSUME NEW c \in States, NEW s, Sane(c, s), Loadable(c), ~Fast(c, s), c # None,
         ~SummingUp(c), ~CutOff(c), NEW d \in States,
         d.plan = c.plan, d.stage = "executing", d.started = c.started, d.failed = c.failed,
         d.done = c.done \cup Ended(c), d.active = Dropping(c.active, Ended(c))
  PROVE  Fits("loop", d, s) /\ Follows(c, d) /\ Ended(c) \subseteq Tasks \ Settled(c)
<1> DEFINE S == Ended(c)
<1>1. /\ Active(c) \subseteq c.started \ Settled(c) /\ Active(c) \subseteq Tasks
      /\ Underway(c) = Active(c) /\ Synthesis \notin Active(c)
  BY ActiveTasks DEF SummingUp
<1>2. S \subseteq Active(c)
  BY DEF Ended
<1>3. Active(d) = Active(c) \ S
  BY DEF Active, Dropping
<1>4. \A t \in Work : t \notin S => d.active[t] = c.active[t]
  BY DEF Dropping
<1>5. \A t \in Active(d) : d.active[t].rt = "paused"
  <2> TAKE t \in Active(d)
  <2>1. t \in Active(c) /\ t \notin S /\ t \in Tasks /\ t \in Work /\ t # Synthesis
    BY <1>1, <1>3 DEF Active
  <2>2. c.active[t].rt \notin {"none", "big"} /\ c.active[t].st # "completed"
    BY <2>1 DEF CutOff, Ended
  <2>3. c.active[t].rt # "ok"
    BY <2>1, <2>2 DEF Sane
  <2>4. c.active[t] \in Invocations
    BY <2>1 DEF States, Active
  <2> QED
    BY <1>4, <2>1, <2>2, <2>3, <2>4 DEF Invocations
<1>6. Settled(d) = Settled(c) \cup S /\ ~SummingUp(d) /\ ~Fast(d, s)
  BY DEF Settled, SummingUp, Fast
<1>7. \A t \in Tasks : d.active[t].rt = "ok" => d.active[t].st = "completed"
  <2> TAKE t \in Tasks
  <2>1. t \in Work
    BY DEF Work
  <2>2. CASE t \in S
    BY <2>1, <2>2 DEF Dropping, Inactive
  <2>3. CASE t \notin S
    BY <1>4, <2>1, <2>3 DEF Sane
  <2> QED
    BY <2>2, <2>3
<1>8. Sane(d, s)
  <2>1. d.done \cap d.failed = {} /\ d.done \subseteq d.started
    BY <1>1, <1>2 DEF Sane, Settled
  <2>2. \A t \in d.started : d.plan[t].deps \subseteq d.done
    BY DEF Sane
  <2>3. d.plan \in Plans /\ Accepted(d.plan)
    BY DEF Sane
  <2> QED
    BY <1>1, <1>3, <1>6, <1>7, <2>1, <2>2, <2>3 DEF Sane, Stages
<1>9. Loadable(d)
  BY <1>1, <1>2, <1>3, <1>6, <1>8 DEF Loadable, Sane, States
<1>10. Follows(c, d)
  <2>1. Underway(d) = Active(c) \ S
    BY <1>1, <1>3, <1>6 DEF Underway
  <2>2. Settles(c, d)
    BY <1>1, <1>2, <1>6, <2>1 DEF Settles, Executing
  <2> QED
    BY <2>2 DEF Follows
<1> QED
  BY <1>1, <1>2, <1>5, <1>6, <1>8, <1>9, <1>10 DEF Fits

LEMMA BlockStep ==
  ASSUME NEW c \in States, NEW s, Fits("loop", c, s), c # None, NEW d \in States,
         Blocked(c) # {},
         d.plan = c.plan, d.stage = "executing", d.started = c.started, d.done = c.done,
         d.failed = c.failed \cup Blocked(c), d.active = Nobody
  PROVE  /\ Fits(IF s = "fail_fast" THEN "fail" ELSE "loop", d, s) /\ Follows(c, d)
         /\ Blocked(c) \subseteq Tasks \ Settled(c) /\ Blocked(c) \cap c.started = {}
<1> DEFINE S == Blocked(c)
<1>1. /\ Sane(c, s) /\ Loadable(c) /\ ~Fast(c, s) /\ ~SummingUp(c)
  BY DEF Fits
<1>2. S \subseteq Tasks \ Settled(c) /\ \A t \in S : c.plan[t].deps \cap c.failed # {}
  BY DEF Blocked
<1>3. S \cap c.started = {}
  BY <1>1, <1>2 DEF Sane
<1>4. Active(d) = {} /\ Underway(d) = {}
  BY NobodyActive DEF Underway
<1>5. Settled(d) = Settled(c) \cup S /\ ~SummingUp(d)
  BY DEF Settled, SummingUp
<1>6. \A t \in Tasks : d.active[t].rt # "ok"
  BY MarksOfTasks DEF Nobody, Inactive
<1>7. Sane(d, s)
  <2>1. d.done \cap d.failed = {}
    BY <1>1, <1>2 DEF Sane, Settled
  <2> QED
    BY <1>1, <1>4, <1>5, <1>6, <2>1 DEF Sane, Stages
<1>8. Loadable(d)
  BY <1>1, <1>4, <1>5, <1>7 DEF Loadable, Sane, States
<1>9. Follows(c, d)
  BY <1>1, <1>2, <1>4, <1>5 DEF Follows, Blocks, Executing
<1>10. Fast(d, s) <=> s = "fail_fast"
  BY DEF Fast
<1> QED
  BY <1>2, <1>3, <1>4, <1>5, <1>7, <1>8, <1>9, <1>10 DEF Fits, Fine

LEMMA BatchStep ==
  ASSUME NEW c \in States, NEW s, Fits("loop", c, s), c # None, NEW d \in States,
         Blocked(c) = {}, Batch(c) # {},
         d.plan = c.plan, d.stage = "executing", d.started = c.started \cup Batch(c),
         d.done = c.done, d.failed = c.failed, d.active = Running(c, Batch(c))
  PROVE  /\ Fits("launch", d, s) /\ Follows(c, d)
         /\ Batch(c) \subseteq Tasks \ Settled(c)
         /\ \A t \in Batch(c) : c.plan[t].deps \subseteq c.done
         /\ Active(d) = Batch(c) /\ (Active(c) # {} => Batch(c) = Active(c))
<1> DEFINE S == Batch(c)
<1>1. /\ Sane(c, s) /\ Loadable(c) /\ ~Fast(c, s) /\ ~SummingUp(c)
      /\ \A t \in Active(c) : c.active[t].rt = "paused"
  BY DEF Fits
<1>2. /\ Active(c) \subseteq c.started \ Settled(c) /\ Active(c) \subseteq Tasks
      /\ Underway(c) = Active(c) /\ Synthesis \notin Active(c)
  BY <1>1, ActiveTasks DEF SummingUp
<1>3. Active(c) # {} => S = Active(c)
  BY <1>2 DEF Batch
<1>4. /\ Active(c) = {} => S = ReadyTasks(c)
      /\ ReadyTasks(c) \subseteq Ready(c)
      /\ \A t, u \in ReadyTasks(c) : c.plan[t].by = c.plan[u].by => t = u
      /\ Cardinality(ReadyTasks(c)) <= MaxParallel
  BY NextBatch DEF Batch
<1>5. S \subseteq Tasks \ Settled(c) /\ \A t \in S : c.plan[t].deps \subseteq c.done
  <2>1. CASE Active(c) # {}
    BY <1>1, <1>2, <1>3, <2>1 DEF Sane
  <2>2. CASE Active(c) = {}
    BY <1>4, <2>2 DEF Ready
  <2> QED
    BY <2>1, <2>2
<1>6. Active(d) = S
  BY <1>5, MarksOfTasks DEF Active, Running, Inactive
<1>7. Settled(d) = Settled(c) /\ ~SummingUp(d) /\ ~Fast(d, s) /\ Underway(d) = S
  BY <1>1, <1>5, <1>6 DEF Settled, SummingUp, Fast, Underway
<1>8. \A t \in Tasks : d.active[t].rt # "ok"
  <2> TAKE t \in Tasks
  <2>1. t \in Work /\ d.active = [u \in Work |-> IF u \in S THEN [st |-> "running", rt |-> c.active[u].rt]
                                                ELSE Inactive]
    BY DEF Running, Work
  <2>2. CASE t \in S
    <3>1. c.active[t].rt # "ok"
      <4>1. CASE t \in Active(c)
        BY <1>1, <4>1
      <4>2. CASE t \notin Active(c)
        BY <2>1, <4>2 DEF Active, Inactive
      <4> QED
        BY <4>1, <4>2
    <3> QED
      BY <2>1, <2>2, <3>1
  <2>3. CASE t \notin S
    BY <2>1, <2>3 DEF Inactive
  <2> QED
    BY <2>2, <2>3
<1>9. Sane(d, s)
  <2>1. \A t \in d.started : d.plan[t].deps \subseteq d.done
    BY <1>1, <1>5 DEF Sane
  <2>2. Synthesis \notin S
    BY <1>5, WorkFinite
  <2> QED
    BY <1>1, <1>6, <1>7, <1>8, <2>1, <2>2 DEF Sane, Stages
<1>10. Loadable(d)
  <2>1. /\ Accepted(d.plan) /\ d.done \cap d.failed = {}
        /\ d.started \subseteq Tasks /\ Settled(d) \subseteq Tasks
    BY <1>9 DEF Sane, States, Settled
  <2>2. Active(d) \subseteq d.started \ Settled(d)
    BY <1>5, <1>6, <1>7
  <2> QED
    BY <2>1, <2>2 DEF Loadable
<1>11. Follows(c, d)
  <2>1. CASE Active(c) # {}
    <3>1. Stays(c, d)
      BY <1>1, <1>2, <1>3, <1>7, <2>1 DEF Stays, Executing
    <3> QED
      BY <3>1 DEF Follows
  <2>2. CASE Active(c) = {}
    <3>1. Starts(c, d)
      BY <1>1, <1>2, <1>4, <1>7, <2>2 DEF Starts, Executing
    <3> QED
      BY <3>1 DEF Follows
  <2> QED
    BY <2>1, <2>2
<1> QED
  BY <1>3, <1>5, <1>6, <1>7, <1>9, <1>10, <1>11 DEF Fits

(* d is c with some of the active tasks settled. *)
Joins(c, d, good, bad) ==
  /\ good \subseteq Active(c) /\ bad \subseteq Active(c) /\ good \cap bad = {}
  /\ d.plan = c.plan /\ d.stage \in {"executing", "waiting_approval"}
  /\ d.started = c.started /\ d.done = c.done \cup good /\ d.failed = c.failed \cup bad
  /\ Active(d) \subseteq Active(c) \ (good \cup bad)
  /\ \A t \in Tasks : d.active[t].rt # "ok"
  /\ bad # {} \/ Active(c) \subseteq Active(d) \cup good \cup bad

LEMMA JoinStep ==
  ASSUME NEW c \in States, NEW s, Sane(c, s), Loadable(c), c # None, c.stage = "executing",
         NEW d \in States, NEW good, NEW bad, Joins(c, d, good, bad)
  PROVE  /\ Sane(d, s) /\ Loadable(d) /\ Follows(c, d) /\ ~SummingUp(d)
         /\ good \subseteq Tasks \ Settled(c) /\ bad \subseteq Tasks \ Settled(c)
<1>0. /\ good \subseteq Active(c) /\ bad \subseteq Active(c) /\ good \cap bad = {}
      /\ d.plan = c.plan /\ d.stage \in {"executing", "waiting_approval"}
      /\ d.started = c.started /\ d.done = c.done \cup good /\ d.failed = c.failed \cup bad
      /\ Active(d) \subseteq Active(c) \ (good \cup bad)
      /\ \A t \in Tasks : d.active[t].rt # "ok"
      /\ bad # {} \/ Active(c) \subseteq Active(d) \cup good \cup bad
  BY DEF Joins
<1>1. /\ Active(c) \subseteq c.started \ Settled(c) /\ Active(c) \subseteq Tasks
      /\ Underway(c) = Active(c) /\ Synthesis \notin Active(c)
  BY ActiveTasks
<1>2. Settled(d) = Settled(c) \cup good \cup bad /\ ~SummingUp(d) /\ ~SummingUp(c)
  BY <1>0 DEF Settled, SummingUp
<1>3. Underway(d) = Active(d)
  BY <1>0, <1>1, <1>2 DEF Underway
<1>4. d.done \cap d.failed = {} /\ d.done \subseteq d.started
  <2>1. c.done \cap c.failed = {} /\ c.done \subseteq c.started
    BY DEF Sane
  <2> QED
    BY <1>0, <1>1, <2>1 DEF Settled
<1>5. Sane(d, s)
  <2>1. d.plan \in Plans /\ Accepted(d.plan) /\ \A t \in d.started : d.plan[t].deps \subseteq d.done
    BY <1>0 DEF Sane
  <2> QED
    BY <1>0, <1>1, <1>2, <1>4, <2>1 DEF Sane, Stages
<1>6. Loadable(d)
  <2>1. d.started \subseteq Tasks /\ Settled(d) \subseteq Tasks
    BY <1>0 DEF States, Settled
  <2> QED
    BY <1>0, <1>1, <1>2, <1>4, <1>5, <2>1 DEF Loadable, Sane
<1>7. Follows(c, d)
  <2>1. Settles(c, d)
    BY <1>0, <1>1, <1>2, <1>3 DEF Settles, Executing
  <2> QED
    BY <1>0, <2>1 DEF Follows
<1> QED
  BY <1>0, <1>1, <1>2, <1>5, <1>6, <1>7

LEMMA OneMark ==
  ASSUME NEW c \in States, NEW d \in States, d.plan = c.plan, d.started = c.started,
         d.done = c.done, d.failed = c.failed
  PROVE  /\ ~SummingUp(c) /\ d.stage = "synthesizing" =>
              /\ Facts(d) = Facts(c) \cup {Event("synthesis.started", 0)}
              /\ Event("synthesis.started", 0) \notin Facts(c)
              /\ Event("synthesis.started", 0) \in Marks
         /\ c.stage = "synthesizing" /\ d.stage = "completed" =>
              /\ Facts(d) = Facts(c) \cup {Event("synthesis.completed", 0), Event("runner.completed", 0)}
              /\ Event("synthesis.completed", 0) \notin Facts(c)
              /\ Event("runner.completed", 0) \notin Facts(c)
              /\ {Event("synthesis.completed", 0), Event("runner.completed", 0)} \subseteq Marks
         /\ (SummingUp(c) <=> SummingUp(d)) /\ (c.stage = "completed" <=> d.stage = "completed") =>
              Facts(d) = Facts(c)
<1>1. /\ Event("synthesis.started", 0) \in Marks
      /\ {Event("synthesis.completed", 0), Event("runner.completed", 0)} \subseteq Marks
  BY MarksOfTasks DEF Kinds
<1>2. ASSUME ~SummingUp(c), d.stage = "synthesizing"
      PROVE  /\ Facts(d) = Facts(c) \cup {Event("synthesis.started", 0)}
             /\ Event("synthesis.started", 0) \notin Facts(c)
  <2>1. SummingUp(d) /\ d.stage # "completed" /\ c.stage # "completed"
    BY <1>2 DEF SummingUp
  <2> QED
    BY <1>1, <1>2, <2>1 DEF Facts, Event
<1>3. ASSUME c.stage = "synthesizing", d.stage = "completed"
      PROVE  /\ Facts(d) = Facts(c) \cup {Event("synthesis.completed", 0), Event("runner.completed", 0)}
             /\ Event("synthesis.completed", 0) \notin Facts(c)
             /\ Event("runner.completed", 0) \notin Facts(c)
  <2>1. SummingUp(d) /\ SummingUp(c) /\ c.stage # "completed"
    BY <1>3 DEF SummingUp
  <2> QED
    BY <1>1, <1>3, <2>1 DEF Facts, Event
<1>4. ASSUME (SummingUp(c) <=> SummingUp(d)), (c.stage = "completed" <=> d.stage = "completed")
      PROVE  Facts(d) = Facts(c)
  BY <1>4 DEF Facts
<1> QED
  BY <1>1, <1>2, <1>3, <1>4

LEMMA SumStep ==
  ASSUME NEW c \in States, NEW s, Fits("sum", c, s), c # None, ~SummingUp(c),
         NEW d \in States, d.plan = c.plan, d.stage = "synthesizing", d.started = c.started,
         d.done = c.done, d.failed = c.failed, d.active = Summary
  PROVE  Fits("launch", d, s) /\ Follows(c, d) /\ Active(d) = {Synthesis}
<1>1. Sane(c, s) /\ Loadable(c) /\ ~Fast(c, s) /\ Settled(c) = Tasks
  BY DEF Fits
<1>2. Active(d) = {Synthesis}
  BY MarksOfTasks DEF Active, Summary, Nobody, Inactive
<1>3. Settled(d) = Tasks /\ ~Fast(d, s) /\ SummingUp(d)
  BY <1>1 DEF Settled, Fast, SummingUp
<1>4. \A t \in Tasks : d.active[t].rt # "ok"
  BY MarksOfTasks DEF Summary, Nobody, Inactive
<1>5. Sane(d, s)
  BY <1>1, <1>2, <1>3, <1>4 DEF Sane, Stages
<1>6. Loadable(d)
  <2>1. d.started \subseteq Tasks /\ Settled(d) \subseteq Tasks
    BY <1>3 DEF States
  <2> QED
    BY <1>2, <1>5, <2>1 DEF Loadable, Sane
<1>7. Follows(c, d)
  BY DEF Follows, Sums
<1> QED
  BY <1>2, <1>3, <1>5, <1>6, <1>7 DEF Fits

LEMMA SummedStep ==
  ASSUME NEW c \in States, NEW s, Fits("wait", c, s), c # None,
         NEW d \in States, d.plan = c.plan, d.started = c.started,
         d.done = c.done, d.failed = c.failed,
         \/ d.stage = "completed" /\ d.active = Nobody /\ (d.partial <=> d.failed # {})
         \/ d.stage = "synthesizing" /\ d.active = Interrupted(c, {Synthesis})
              /\ c.active[Synthesis] = Graph("pause")
  PROVE  Fits(IF d.stage = "completed" THEN "complete" ELSE "pause", d, s) /\ Follows(c, d)
<1>1. Sane(c, s) /\ ~Fast(c, s) /\ c.stage = "synthesizing"
  BY DEF Fits
<1>2. Settled(d) = Tasks /\ Settled(c) = Tasks /\ ~Fast(d, s)
  BY <1>1 DEF Settled, Fast, Sane, SummingUp
<1>3. d.started \subseteq Tasks /\ Settled(d) \subseteq Tasks
  BY <1>2 DEF States
<1>4. CASE d.stage = "completed" /\ d.active = Nobody /\ (d.partial <=> d.failed # {})
  <2>1. Active(d) = {} /\ \A t \in Tasks : d.active[t].rt # "ok"
    BY <1>4, MarksOfTasks, NobodyActive DEF Nobody, Inactive
  <2>2. Sane(d, s)
    BY <1>1, <1>2, <1>4, <2>1 DEF Sane, Stages
  <2>3. Loadable(d)
    BY <1>3, <2>1, <2>2 DEF Loadable, Sane
  <2>4. Follows(c, d)
    BY <1>1, <1>4 DEF Follows, Sums
  <2> QED
    BY <1>2, <1>4, <2>2, <2>3, <2>4 DEF Fits
<1>5. CASE d.stage = "synthesizing" /\ d.active = Interrupted(c, {Synthesis})
             /\ c.active[Synthesis] = Graph("pause")
  <2>1. \A t \in Work : d.active[t] = IF t = Synthesis THEN [st |-> "interrupted", rt |-> "paused"]
                                      ELSE Inactive
    BY <1>5 DEF Interrupted, Graph
  <2>2. Active(d) = {Synthesis}
    BY <2>1, MarksOfTasks DEF Active, Inactive
  <2>3. \A t \in Tasks : d.active[t].rt # "ok"
    BY <2>1, MarksOfTasks DEF Inactive
  <2>4. Sane(d, s)
    BY <1>1, <1>2, <1>5, <2>2, <2>3 DEF Sane, Stages
  <2>5. Loadable(d)
    BY <1>3, <1>5, <2>2, <2>4 DEF Loadable, Sane
  <2>6. Follows(c, d)
    <3>1. Underway(c) = {} /\ Underway(d) = {}
      BY <1>2 DEF Underway
    <3> QED
      BY <1>1, <1>5, <3>1 DEF Follows, Stays
  <2> QED
    BY <1>2, <1>5, <2>1, <2>2, <2>4, <2>5, <2>6, MarksOfTasks DEF Fits
<1> QED
  BY <1>4, <1>5

-----------------------------------------------------------------------------
(* The calls of a decision *)

LEMMA TwoCalls ==
  ASSUME NEW e, NEW v
  PROVE  Append(<<e>>, v) = <<e, v>>
<1> DEFINE r == Append(<<e>>, v)
           q == <<e, v>>
<1>1. r \in Seq({e, v}) /\ Len(r) = 2 /\ r[1] = e /\ r[2] = v
  OBVIOUS
<1>2. q \in Seq({e, v}) /\ Len(q) = 2 /\ q[1] = e /\ q[2] = v
  OBVIOUS
<1> HIDE DEF r, q
<1>3. \A i \in 1..2 : r[i] = q[i]
  BY <1>1, <1>2
<1>4. r = q
  BY <1>1, <1>2, <1>3
<1> QED
  BY <1>4 DEF r, q

LEMMA ThreeCalls ==
  ASSUME NEW e, NEW f, NEW v
  PROVE  Append(<<e, f>>, v) = <<e, f, v>>
<1> DEFINE r == Append(<<e, f>>, v)
           q == <<e, f, v>>
<1>1. r \in Seq({e, f, v}) /\ Len(r) = 3 /\ r[1] = e /\ r[2] = f /\ r[3] = v
  OBVIOUS
<1>2. q \in Seq({e, f, v}) /\ Len(q) = 3 /\ q[1] = e /\ q[2] = f /\ q[3] = v
  OBVIOUS
<1> HIDE DEF r, q
<1>3. \A i \in 1..3 : r[i] = q[i]
  BY <1>1, <1>2
<1>4. r = q
  BY <1>1, <1>2, <1>3
<1> QED
  BY <1>4 DEF r, q

LEMMA NewCalls ==
  ASSUME NEW E, EventList(E), NEW s \in SaveCalls, todo' = Append(E, s), w' \in States,
         pc' # "plan", NEW B, straggled' \/ (seq' <= Len(log') /\ Said(log', seq') \cap Marks = B),
         (Els(E) \cap Marks) \cap B = {},
         Facts(Pending') = B \cup (Els(E) \cap Marks),
         Fits(pc', Pending', strategy'),
         store' # None => store'.plan = w'.plan,
         Rev(store') > w'.rev \/ Follows(store', Pending')
  PROVE  MainFits' /\ MainCalls' /\ MainSays' /\ MainSaved' /\ Script(todo') /\ todo' # <<>>
<1>1. /\ Script(todo') /\ EndsInSave(todo') /\ Els(todo') = Els(E) \cup {s}
  BY EventsThenSave
<1>2. s \notin EventCalls
  BY CallsDiffer
<1>3. todo' # <<>>
  BY <1>1 DEF EndsInSave
<1>4. MainFits'
  BY DEF MainFits
<1>5. MainCalls'
  BY <1>1 DEF MainCalls
<1>6. MainSays'
  <2>1. Els(todo') \cap Marks = Els(E) \cap Marks
    BY <1>1, <1>2 DEF Marks
  <2> SUFFICES ASSUME ~straggled'
               PROVE  /\ seq' <= Len(log')
                      /\ Said(log', seq') \cap Els(todo') \cap Marks = {}
                      /\ (Said(log', seq') \cup Els(todo')) \cap Marks = Facts(Pending')
    BY DEF MainSays
  <2> QED
    BY <2>1
<1>7. MainSaved'
  BY <1>3 DEF MainSaved
<1> QED
  BY <1>1, <1>3, <1>4, <1>5, <1>6, <1>7

LEMMA FieldsOfPending ==
  ASSUME NEW E, EventList(E), NEW s \in SaveCalls, todo' = Append(E, s), w' \in States
  PROVE  /\ Pending' \in States
         /\ Pending'.stage = s.stage /\ Pending'.active = s.active
         /\ Pending'.plan = w'.plan /\ Pending'.started = w'.started
         /\ Pending'.done = w'.done /\ Pending'.failed = w'.failed
         /\ Pending'.rev = w'.rev /\ Pending'.seq = w'.seq /\ Pending'.partial = w'.partial
<1>1. /\ Script(todo') /\ EndsInSave(todo') /\ todo'[Len(todo')] = s
  BY EventsThenSave
<1> DEFINE c == w'
           q == todo'
<1>2. Pending' = After(c, q)
  BY DEF Pending
<1>3. c \in States /\ Script(q) /\ EndsInSave(q) /\ q[Len(q)] = s
  BY <1>1
<1>4. /\ After(c, q) \in States
      /\ After(c, q).stage = q[Len(q)].stage /\ After(c, q).active = q[Len(q)].active
      /\ After(c, q).plan = c.plan /\ After(c, q).started = c.started
      /\ After(c, q).done = c.done /\ After(c, q).failed = c.failed
      /\ After(c, q).rev = c.rev /\ After(c, q).seq = c.seq /\ After(c, q).partial = c.partial
  <2> HIDE DEF c, q
  <2> QED
    BY <1>3, FieldsOfAfter
<1> QED
  BY <1>2, <1>3, <1>4

LEMMA BegunIfPaused ==
  ASSUME NEW c \in States, NEW f, NEW d, NEW s
  PROVE  /\ Begun(c, f, d) => Kept(c, f, d)
         /\ Fits("loop", c, s) /\ Kept(c, f, d) => Begun(c, f, d)
  BY DEF Begun, Kept, Fits

(* The log up to what has been counted says what c has. *)
Heard(c) == straggled \/ (seq <= Len(log) /\ Said(log, seq) \cap Marks = Facts(c))

(* What the main thread has saved, when it has nothing left to call. *)
LEMMA AllSaved ==
  ASSUME SchedulerInv, todo = <<>>, pc \notin {"load", "plan", "fail", "down", "dead"}
  PROVE  /\ Busy /\ Pending = w /\ Heard(w)
         /\ Fits(pc, w, strategy) /\ w \in States /\ w # None /\ store # None
         /\ store \in States /\ store.plan = w.plan /\ w.seq = seq
         /\ store = w \/ (Polling /\ Rev(store) > w.rev)
         /\ Sane(w, strategy) /\ Loadable(w) /\ ~Fast(w, strategy)
         /\ ~stopped
         /\ Kept(w, fresh, dropped)
         /\ pc \in {"loop", "launch"} => Begun(w, fresh, dropped)
<1>1. Busy
  BY NotRacing DEF Busy
<1>2. Pending = w /\ Heard(w)
  BY <1>1, Idle DEF Heard
<1>3. Fits(pc, w, strategy)
  BY <1>1, <1>2 DEF SchedulerInv, MainFits
<1>4. w \in States /\ w # None
  BY NoneAssumption DEF SchedulerInv, Typed
<1>5. /\ store # None /\ store.plan = w.plan /\ w.seq = seq
      /\ store = w \/ (Polling /\ Rev(store) > w.rev)
  BY <1>1 DEF SchedulerInv, MainSaved
<1>6. store \in States
  BY <1>5 DEF SchedulerInv, Typed
<1>7. Sane(w, strategy) /\ Loadable(w) /\ ~Fast(w, strategy)
  BY <1>3 DEF Fits
<1>8. ~stopped
  BY DEF SchedulerInv, Threads
<1>9. Kept(w, fresh, dropped)
  BY <1>1, <1>2, <1>7 DEF SchedulerInv, Fresh
<1>10. pc \in {"loop", "launch"} => Begun(w, fresh, dropped)
  BY <1>2 DEF SchedulerInv, Fresh
<1> QED
  BY <1>1, <1>2, <1>3, <1>4, <1>5, <1>6, <1>7, <1>8, <1>9, <1>10

(* It goes on with what it has. *)
LEMMA GoingOn ==
  ASSUME SchedulerInv, todo = <<>>, pc \in {"loop", "sum"}, pc' \in {"sum", "launch", "complete"},
         Fits(pc', w, strategy), UNCHANGED <<disk, w, seq, todo, threads, history, bounds>>,
         pc' = "launch" => Begun(w, fresh, dropped)
  PROVE  SchedulerInv'
<1>1. /\ Busy /\ Pending = w /\ Heard(w) /\ ~stopped
      /\ Kept(w, fresh, dropped)
      /\ store # None /\ store.plan = w.plan /\ w.seq = seq /\ store = w
  BY AllSaved DEF Polling
<1>2. Rev(store) >= w'.rev /\ pc # "down" /\ ~Polling
  BY DEF SchedulerInv, Stored, Polling
<1>3. Threads' /\ Stored' /\ Readable' /\ Logged' /\ LateFits' /\ EndFits' /\ Settling'
  BY <1>1, <1>2, QuietStep DEF history
<1>4. Typed'
  BY DEF SchedulerInv, Typed, disk, threads, history, bounds, Pcs
<1>5. Pending' = w
  BY NothingLeft DEF Pending
<1>6. MainFits' /\ MainCalls'
  BY <1>5 DEF MainFits, MainCalls, bounds
<1>7. MainSays'
  BY <1>1, <1>5, ScriptOfNothing DEF MainSays, Heard, disk, history
<1>8. MainSaved'
  BY <1>1 DEF MainSaved, disk
<1>9. Fresh'
  BY <1>1, <1>5 DEF SchedulerInv, Fresh, disk, history, bounds
<1> QED
  BY <1>3, <1>4, <1>6, <1>7, <1>8, <1>9 DEF SchedulerInv

LEMMA QueueEndsInv == ASSUME SchedulerInv, QueueEnds PROVE SchedulerInv'
<1>1. pc = "loop" /\ todo = <<>> /\ UNCHANGED <<disk, w, seq, threads, history, bounds>>
  BY DEF QueueEnds, Main
<1>2. CASE Settled(w) = Tasks /\ todo' = <<>> /\ pc' = "sum"
  <2>1. Fits("sum", w, strategy)
    BY <1>1, <1>2, AllSaved DEF Fits
  <2> QED
    BY <1>1, <1>2, <2>1, GoingOn
<1>3. CASE GiveUp
  <2>1. ~stopped /\ ~Polling /\ pc # "down"
    BY <1>1, AllSaved DEF Polling
  <2> QED
    BY <1>1, <1>3, <2>1, QuietGivingUp DEF bounds, SchedulerInv, Typed
<1> QED
  BY <1>2, <1>3 DEF QueueEnds, Then

-----------------------------------------------------------------------------
(* Decisions of the main thread while no member runs *)

(* A state that is about to be saved has the type of a state. *)
LEMMA NewCallsTyped ==
  ASSUME SchedulerInv, UNCHANGED <<disk, threads, fresh, straggled, bounds>>, Script(todo'),
         w' \in States, seq' \in Nat, pc' \in Pcs, dropped' \subseteq Work
  PROVE  Typed'
  BY DEF SchedulerInv, Typed, disk, threads, bounds

LEMMA LoadNothingInv == ASSUME SchedulerInv, LoadNothing PROVE SchedulerInv'
<1>1. /\ pc = "load" /\ todo = <<>> /\ store = None /\ pc' = "plan"
      /\ todo' = <<Event("runner.started", 0)>>
      /\ UNCHANGED <<disk, w, seq, threads, history, bounds>>
  BY DEF LoadNothing, Main, Then
<1>2. w = NoState /\ seq = 0 /\ ~stopped /\ ~Polling
  BY <1>1 DEF SchedulerInv, Threads, Polling
<1> DEFINE e == Event("runner.started", 0)
<1>3. e \in Marks /\ e \in EventCalls /\ e \notin SaveCalls
  BY MarksOfTasks, CallsDiffer DEF Kinds, Marks
<1>4. Script(todo') /\ Els(todo') = {e} /\ ~EndsInSave(todo')
  <2>1. Len(<<e>>) = 1 /\ <<e>>[1] = e
    OBVIOUS
  <2>2. Els(<<e>>) = {e}
    BY <2>1 DEF Els
  <2>3. Script(<<e>>)
    BY <1>3, <2>1 DEF Script, Distinct, Calls
  <2>4. ~EndsInSave(<<e>>)
    BY <1>3, <2>1 DEF EndsInSave
  <2> HIDE DEF e
  <2> QED
    BY <1>1, <2>2, <2>3, <2>4 DEF e
<1>5. Typed'
  BY <1>1, <1>4, NewCallsTyped DEF SchedulerInv, Typed, Pcs, disk, history
<1>6. Threads' /\ Stored' /\ Readable' /\ Logged' /\ LateFits' /\ EndFits' /\ Settling'
  <2>1. Rev(store) >= w'.rev
    BY <1>1 DEF SchedulerInv, Stored
  <2> QED
    BY <1>1, <1>2, <2>1, QuietStep DEF history
<1>7. Pending' = NoState
  BY <1>1, <1>2, <1>4 DEF Pending, After
<1>8. Facts(NoState) = {e}
  <2>1. ~SummingUp(NoState) /\ NoState.plan = None /\ NoState.started = {} /\ NoState.done = {}
        /\ NoState.failed = {} /\ NoState.stage # "completed"
    BY DEF NoState, SummingUp
  <2> QED
    BY <1>3, <2>1 DEF Facts
<1>9. MainFits' /\ MainCalls' /\ MainSaved'
  BY <1>1, <1>2 DEF MainFits, MainCalls, MainSaved, disk
<1>10. MainSays'
  <2>1. Said(log', seq') = {} /\ seq' <= Len(log')
    <3>1. Len(log') \in Nat
      BY <1>1 DEF disk, SchedulerInv, Typed
    <3> QED
      BY <1>1, <1>2, <3>1 DEF Said
  <2> QED
    BY <1>3, <1>4, <1>7, <1>8, <2>1 DEF MainSays
<1>11. Fresh'
  <2>1. \A t \in Tasks : fresh[t] = 0
    BY <1>1 DEF SchedulerInv, Fresh
  <2>2. Kept(NoState, fresh, dropped)
    BY <2>1 DEF Kept
  <2> QED
    BY <1>1, <1>7, <2>1, <2>2 DEF Fresh, disk, history
<1> QED
  BY <1>5, <1>6, <1>9, <1>10, <1>11 DEF SchedulerInv

(* A checkpoint that needs no recovery, and one that does. *)
LEMMA LoadAsItIs ==
  ASSUME SchedulerInv, Main("load"), store # None, Loadable(store), ~Fast(store, strategy),
         SummingUp(store) \/ (~CutOff(store) /\ Ended(store) = {}),
         w' = store, seq' = store.seq, todo' = <<>>,
         pc' = IF SummingUp(store) THEN "sum" ELSE "loop",
         UNCHANGED <<disk, threads, history, bounds>>
  PROVE  SchedulerInv'
<1>1. /\ store \in States /\ Sane(store, strategy) /\ (straggled \/ Agree(store, log))
      /\ ~stopped /\ ~Polling /\ pc = "load" /\ todo = <<>>
  BY DEF SchedulerInv, Typed, Stored, Readable, Threads, Main, Polling
<1>2. seq' \in Nat
  BY <1>1 DEF States
<1>3. Typed'
  BY <1>1, <1>2, ScriptOfNothing, NewCallsTyped DEF Pcs, SchedulerInv, Typed, history
<1>4. Rev(store) >= w'.rev
  BY <1>1 DEF Rev, States
<1>5. Threads' /\ Stored' /\ Readable' /\ Logged' /\ LateFits' /\ EndFits' /\ Settling'
  BY <1>1, <1>4, QuietStep DEF history
<1>6. Fits(pc', store, strategy)
  <2>1. CASE SummingUp(store)
    BY <1>1, <2>1 DEF Fits, Sane
  <2>2. CASE ~SummingUp(store)
    <3>1. Active(store) \subseteq Tasks /\ Synthesis \notin Active(store)
      BY <1>1, <2>2, ActiveTasks DEF SummingUp
    <3>2. \A t \in Active(store) : store.active[t].rt = "paused"
      <4> TAKE t \in Active(store)
      <4>1. t \in Tasks /\ t # Synthesis /\ store.active[t] \in Invocations
        BY <1>1, <3>1 DEF Active, States
      <4>2. store.active[t].st # "completed" /\ store.active[t].rt \notin {"none", "big"}
        BY <2>2, <4>1 DEF Ended, CutOff
      <4>3. store.active[t].rt # "ok"
        BY <1>1, <4>1, <4>2 DEF Sane
      <4> QED
        BY <4>1, <4>2, <4>3 DEF Invocations
    <3> QED
      BY <1>1, <2>2, <3>2 DEF Fits
  <2> QED
    BY <2>1, <2>2
<1>7. Pending' = store
  BY NothingLeft DEF Pending
<1>8. MainFits' /\ MainCalls'
  BY <1>6, <1>7 DEF MainFits, MainCalls, bounds
<1>9. MainSays'
  BY <1>1, <1>7, ScriptOfNothing DEF MainSays, disk, history, Agree
<1>10. MainSaved'
  BY DEF MainSaved, disk
<1>11. Fresh'
  <2>1. Kept(store, fresh, dropped)
    BY DEF SchedulerInv, Fresh
  <2>2. pc' = "loop" => Begun(store, fresh, dropped)
    BY <1>1, <1>6, <2>1, BegunIfPaused
  <2>3. pc' # "launch"
    OBVIOUS
  <2> QED
    BY <1>7, <2>1, <2>2, <2>3 DEF SchedulerInv, Fresh, disk, history, bounds
<1> QED
  BY <1>3, <1>5, <1>8, <1>9, <1>10, <1>11 DEF SchedulerInv

LEMMA LoadAndRecover ==
  ASSUME SchedulerInv, Main("load"), store # None, Loadable(store), ~Fast(store, strategy),
         ~SummingUp(store), ~CutOff(store),
         w' = [store EXCEPT !.done = @ \cup Ended(store)], seq' = store.seq, pc' = "loop",
         todo' = Append(Events("task.completed", Ended(store)),
                        Save("executing", Dropping(store.active, Ended(store)))),
         UNCHANGED <<disk, threads, history, bounds>>
  PROVE  SchedulerInv'
<1> DEFINE S == Ended(store)
           E == Events("task.completed", S)
           v == Save("executing", Dropping(store.active, S))
<1>1. /\ store \in States /\ Sane(store, strategy) /\ (straggled \/ Agree(store, log))
      /\ ~stopped /\ ~Polling /\ pc = "load" /\ todo = <<>>
  BY DEF SchedulerInv, Typed, Stored, Readable, Threads, Main, Polling
<1>2. seq' \in Nat
  BY <1>1 DEF States
<1>3. Active(store) \subseteq Tasks /\ S \subseteq Active(store)
  BY <1>1, ActiveTasks DEF SummingUp, Ended
<1>4. w' \in States /\ w'.rev = store.rev /\ w'.plan = store.plan /\ w'.failed = store.failed
      /\ w'.done = store.done \cup S /\ w'.started = store.started /\ w'.stage = store.stage
  BY <1>1, <1>3 DEF States
<1>5. v \in SaveCalls /\ v.stage = "executing" /\ v.active = Dropping(store.active, S)
  <2>1. Dropping(store.active, S) \in [Work -> Invocations \cup {Inactive}]
    BY <1>1 DEF Dropping, States
  <2> QED
    BY <2>1 DEF SaveCalls, Save, Stages
<1>6. EventList(E) /\ Els(E) = {Event("task.completed", t) : t \in S}
  BY <1>3, EventsListed DEF Work, Kinds
<1>7. /\ Pending' \in States
      /\ Pending'.stage = "executing" /\ Pending'.active = Dropping(store.active, S)
      /\ Pending'.plan = store.plan /\ Pending'.started = store.started
      /\ Pending'.done = store.done \cup S /\ Pending'.failed = store.failed
  BY <1>4, <1>5, <1>6, FieldsOfPending
<1> DEFINE P == Pending'
<1> HIDE DEF P
<1>8. Fits("loop", P, strategy) /\ Follows(store, P) /\ S \subseteq Tasks \ Settled(store)
  BY <1>1, <1>7, RecoverStep DEF P
<1>9. Facts(P) = Facts(store) \cup Els(E) /\ Facts(store) \cap Els(E) = {} /\ Els(E) \subseteq Marks
  <2> DEFINE O == {}
  <2>1. /\ (SummingUp(store) <=> SummingUp(P)) /\ (store.stage = "completed" <=> P.stage = "completed")
        /\ O \cap store.started = {} /\ S \cap store.done = {} /\ O \cap store.failed = {}
    BY <1>7, <1>8 DEF SummingUp, P, Settled
  <2>2. Els(E) = TaskMarks(O, S, O)
    BY <1>6 DEF TaskMarks
  <2>3. /\ P \in States /\ P.plan = store.plan /\ P.started = store.started \cup O
        /\ P.done = store.done \cup S /\ P.failed = store.failed \cup O
    BY <1>7 DEF P
  <2>4. S \in SUBSET Tasks /\ O \in SUBSET Tasks
    BY <1>3
  <2> HIDE DEF E, S, O
  <2>5. /\ Facts(P) = Facts(store) \cup TaskMarks(O, S, O)
        /\ Facts(store) \cap TaskMarks(O, S, O) = {} /\ TaskMarks(O, S, O) \subseteq Marks
    BY <1>1, <2>1, <2>3, <2>4, FactsGrow
  <2> QED
    BY <2>2, <2>5
<1>11. MainFits' /\ MainCalls' /\ MainSays' /\ MainSaved' /\ Script(todo') /\ todo' # <<>>
  <2>1. straggled' \/ (seq' <= Len(log') /\ Said(log', seq') \cap Marks = Facts(store))
    BY <1>1 DEF Agree, disk, history
  <2>2. (Els(E) \cap Marks) \cap Facts(store) = {} /\ P = Pending'
        /\ Facts(Pending') = Facts(store) \cup (Els(E) \cap Marks)
    BY <1>9 DEF P
  <2>3. /\ Fits(pc', Pending', strategy') /\ store'.plan = w'.plan /\ Follows(store', Pending')
        /\ todo' = Append(E, v)
    BY <1>4, <1>8 DEF P, disk, bounds
  <2> HIDE DEF E, v
  <2> QED
    BY <1>4, <1>5, <1>6, <2>1, <2>2, <2>3, NewCalls
<1>12. Typed'
  BY <1>2, <1>4, <1>11, NewCallsTyped DEF Pcs, SchedulerInv, Typed, history
<1>13. Threads' /\ Stored' /\ Readable' /\ Logged' /\ LateFits' /\ EndFits' /\ Settling'
  <2>1. Rev(store) >= w'.rev
    BY <1>1, <1>4 DEF Rev, States
  <2> QED
    BY <1>1, <2>1, QuietStep DEF history
<1>14. Fresh'
  <2>1. Kept(store, fresh, dropped)
    BY DEF SchedulerInv, Fresh
  <2>2. Kept(P, fresh, dropped)
    <3>1. Active(P) = Active(store) \ S
      BY <1>7 DEF Active, Dropping, P
    <3>2. Settled(P) = Settled(store) \cup S
      BY <1>7 DEF Settled, P
    <3> QED
      BY <2>1, <3>1, <3>2 DEF Kept
  <2>3. Begun(P, fresh, dropped)
    BY <1>7, <1>8, <2>2, BegunIfPaused DEF P
  <2> QED
    BY <2>1, <2>2, <2>3 DEF SchedulerInv, Fresh, disk, history, bounds, P
<1> QED
  BY <1>11, <1>12, <1>13, <1>14 DEF SchedulerInv

LEMMA LoadInv == ASSUME SchedulerInv, Load PROVE SchedulerInv'
<1>1. /\ Main("load") /\ store # None /\ Loadable(store) /\ ~Fast(store, strategy)
      /\ SummingUp(store) \/ ~CutOff(store)
      /\ UNCHANGED <<disk, threads, history, bounds>> /\ seq' = store.seq
      /\ pc' = IF SummingUp(store) THEN "sum" ELSE "loop"
  BY DEF Load, Then, FailsFast, Fast
<1>2. CASE Recovered(store) = {}
  <2>1. w' = store
    <3>1. w' = [store EXCEPT !.done = @ \cup {}] /\ store \in States
      BY <1>1, <1>2 DEF Load, SchedulerInv, Typed
    <3>2. store.done \cup {} = store.done
      OBVIOUS
    <3> QED
      BY <3>1, <3>2 DEF States
  <2>2. todo' = <<>> /\ (SummingUp(store) \/ Ended(store) = {})
    BY <1>2 DEF Load, Then, Recovered
  <2> QED
    BY <1>1, <2>1, <2>2, LoadAsItIs
<1>3. CASE Recovered(store) # {}
  <2>1. ~SummingUp(store) /\ Recovered(store) = Ended(store)
    BY <1>3 DEF Recovered
  <2>2. /\ w' = [store EXCEPT !.done = @ \cup Ended(store)]
        /\ todo' = Append(Events("task.completed", Ended(store)),
                          Save("executing", Dropping(store.active, Ended(store))))
    BY <1>3, <2>1 DEF Load, Then
  <2> QED
    BY <1>1, <2>1, <2>2, LoadAndRecover
<1> QED
  BY <1>2, <1>3

LEMMA PlanInv == ASSUME SchedulerInv, Plan PROVE SchedulerInv'
<1>1. pc = "plan" /\ todo = <<>> /\ UNCHANGED <<disk, seq, threads, history, bounds>>
  BY DEF Plan, Main
<1>2. /\ store = None /\ w = NoState /\ ~stopped /\ ~Polling
      /\ Heard(NoState)
  <2>1. Busy
    BY <1>1, NotRacing DEF Busy
  <2> QED
    BY <1>1, <2>1, Idle DEF SchedulerInv, MainCalls, Threads, Polling, Heard
<1>3. CASE GiveUp /\ UNCHANGED w
  BY <1>1, <1>2, <1>3, QuietGivingUp DEF bounds, SchedulerInv, Typed
<1>4. ASSUME NEW p \in Plans, Accepted(p), w' = [w EXCEPT !.plan = p], pc' = "loop",
             todo' = <<Event("plan.created", 0), Save("executing", Nobody)>>
      PROVE  SchedulerInv'
  <2> DEFINE e == Event("plan.created", 0)
             E == <<e>>
             v == Save("executing", Nobody)
  <2>1. /\ w' \in States /\ w'.plan = p /\ w'.started = {} /\ w'.done = {} /\ w'.failed = {}
        /\ w'.rev = 0
    BY <1>2, <1>4 DEF SchedulerInv, Typed, States, NoState
  <2>2. v \in SaveCalls /\ v.stage = "executing" /\ v.active = Nobody
    BY NobodyActive DEF SaveCalls, Save, Stages
  <2>3. e \in Marks /\ e \in EventCalls
    BY MarksOfTasks DEF Kinds, Marks
  <2>4. EventList(E) /\ Els(E) = {e}
    <3>1. Len(<<e>>) = 1 /\ <<e>>[1] = e
      OBVIOUS
    <3> HIDE DEF e
    <3> QED
      BY <2>3, <3>1 DEF EventList, Distinct, Els
  <2>5. todo' = Append(E, v)
    <3> HIDE DEF e, v
    <3>1. Append(<<e>>, v) = <<e, v>>
      BY TwoCalls
    <3> QED
      BY <1>4, <3>1 DEF e, v
  <2>6. /\ Pending' \in States /\ Pending'.stage = "executing" /\ Pending'.active = Nobody
        /\ Pending'.plan = p /\ Pending'.started = {} /\ Pending'.done = {} /\ Pending'.failed = {}
    <3> HIDE DEF E, v
    <3> QED
      BY <2>1, <2>2, <2>4, <2>5, FieldsOfPending
  <2> DEFINE P == Pending'
  <2> HIDE DEF P
  <2>7. Fits("loop", P, strategy) /\ Follows(None, P)
    BY <1>4, <2>6, PlanStep DEF P
  <2>8. Facts(P) = Facts(NoState) \cup {e} /\ e \notin Facts(NoState)
    <3>1. /\ ~SummingUp(NoState) /\ NoState.plan = None /\ NoState.started = {} /\ NoState.done = {}
          /\ NoState.failed = {} /\ NoState.stage # "completed"
      BY DEF NoState, SummingUp
    <3>2. ~SummingUp(P) /\ P.stage # "completed" /\ P.plan # None
      BY <2>6, ConstantAssumption DEF SummingUp, P
    <3>3. e \notin Facts(NoState)
      BY <3>1 DEF Facts, Event
    <3>4. Facts(P) = Facts(NoState) \cup {e}
      BY <2>3, <2>6, <3>1, <3>2 DEF Facts, P
    <3> QED
      BY <3>3, <3>4
  <2>10. MainFits' /\ MainCalls' /\ MainSays' /\ MainSaved' /\ Script(todo') /\ todo' # <<>>
    <3>1. /\ straggled' \/ (seq' <= Len(log') /\ Said(log', seq') \cap Marks = Facts(NoState))
          /\ store' = None
      BY <1>1, <1>2 DEF disk, history, Heard
    <3>2. /\ (Els(E) \cap Marks) \cap Facts(NoState) = {}
          /\ Facts(Pending') = Facts(NoState) \cup (Els(E) \cap Marks)
      BY <2>3, <2>4, <2>8 DEF P
    <3>3. Fits(pc', Pending', strategy') /\ Follows(store', Pending') /\ pc' # "plan"
      BY <1>1, <1>4, <2>7, <3>1 DEF P, bounds
    <3> HIDE DEF E, v
    <3> QED
      BY <2>1, <2>2, <2>4, <2>5, <3>1, <3>2, <3>3, NewCalls
  <2>11. Typed'
    BY <1>1, <1>4, <2>1, <2>10, NewCallsTyped DEF Pcs, SchedulerInv, Typed, history
  <2>12. Threads' /\ Stored' /\ Readable' /\ Logged' /\ LateFits' /\ EndFits' /\ Settling'
    <3>1. Rev(store) >= w'.rev
      BY <1>2, <2>1 DEF Rev
    <3> QED
      BY <1>1, <1>2, <1>4, <3>1, QuietStep DEF history
  <2>13. Fresh'
    <3>1. \A t \in Tasks : fresh[t] = 0
      BY <1>2 DEF SchedulerInv, Fresh
    <3>2. Kept(P, fresh, dropped) /\ Begun(P, fresh, dropped)
      BY <3>1 DEF Kept, Begun
    <3> QED
      BY <1>1, <1>2, <3>1, <3>2 DEF Fresh, disk, history, P
  <2> QED
    BY <2>10, <2>11, <2>12, <2>13 DEF SchedulerInv
<1> QED
  BY <1>3, <1>4 DEF Plan, Then

LEMMA BlockInv == ASSUME SchedulerInv, Block PROVE SchedulerInv'
<1> DEFINE S == Blocked(w)
           E == Events("task.failed", S)
           v == Save("executing", Nobody)
<1>1. /\ pc = "loop" /\ todo = <<>> /\ S # {} /\ w' = [w EXCEPT !.failed = @ \cup S]
      /\ todo' = Append(E, v) /\ pc' = IF strategy = "fail_fast" THEN "fail" ELSE "loop"
      /\ dropped' = dropped \cup Active(w)
      /\ UNCHANGED <<disk, seq, threads, fresh, straggled, bounds>>
  BY DEF Block, Main, Then
<1>2. /\ Busy /\ Heard(w)
      /\ Fits("loop", w, strategy) /\ w \in States /\ w # None /\ store = w /\ w.seq = seq
      /\ ~stopped /\ ~Polling
  BY <1>1, AllSaved DEF Polling
<1>3. S \subseteq Tasks /\ S \subseteq Work
  BY DEF Blocked, Work
<1>4. /\ w' \in States /\ w'.plan = w.plan /\ w'.started = w.started /\ w'.done = w.done
      /\ w'.failed = w.failed \cup S /\ w'.rev = w.rev
  BY <1>1, <1>2, <1>3 DEF States
<1>5. v \in SaveCalls /\ v.stage = "executing" /\ v.active = Nobody
  BY NobodyActive DEF SaveCalls, Save, Stages
<1>6. EventList(E) /\ Els(E) = {Event("task.failed", t) : t \in S}
  BY <1>3, EventsListed DEF Kinds
<1>7. /\ Pending' \in States
      /\ Pending'.stage = "executing" /\ Pending'.active = Nobody
      /\ Pending'.plan = w.plan /\ Pending'.started = w.started
      /\ Pending'.done = w.done /\ Pending'.failed = w.failed \cup S
  <2> HIDE DEF E, v, S
  <2> QED
    BY <1>1, <1>4, <1>5, <1>6, FieldsOfPending
<1> DEFINE P == Pending'
<1> HIDE DEF P
<1>8. /\ Fits(pc', P, strategy) /\ Follows(w, P)
      /\ S \subseteq Tasks \ Settled(w) /\ S \cap w.started = {}
  BY <1>1, <1>2, <1>7, BlockStep DEF P
<1>9. Facts(P) = Facts(w) \cup Els(E) /\ Facts(w) \cap Els(E) = {} /\ Els(E) \subseteq Marks
  <2> DEFINE O == {}
  <2>1. /\ (SummingUp(w) <=> SummingUp(P)) /\ (w.stage = "completed" <=> P.stage = "completed")
        /\ O \cap w.started = {} /\ O \cap w.done = {} /\ S \cap w.failed = {}
    BY <1>2, <1>7, <1>8 DEF SummingUp, P, Settled, Fits
  <2>2. Els(E) = TaskMarks(O, O, S)
    BY <1>6 DEF TaskMarks
  <2>3. /\ P \in States /\ P.plan = w.plan /\ P.started = w.started \cup O
        /\ P.done = w.done \cup O /\ P.failed = w.failed \cup S
    BY <1>7 DEF P
  <2>4. S \in SUBSET Tasks /\ O \in SUBSET Tasks
    BY <1>3
  <2> HIDE DEF E, S, O
  <2>5. /\ Facts(P) = Facts(w) \cup TaskMarks(O, O, S)
        /\ Facts(w) \cap TaskMarks(O, O, S) = {} /\ TaskMarks(O, O, S) \subseteq Marks
    BY <1>2, <2>1, <2>3, <2>4, FactsGrow
  <2> QED
    BY <2>2, <2>5
<1>11. MainFits' /\ MainCalls' /\ MainSays' /\ MainSaved' /\ Script(todo') /\ todo' # <<>>
  <2>1. straggled' \/ (seq' <= Len(log') /\ Said(log', seq') \cap Marks = Facts(w))
    BY <1>1, <1>2 DEF disk, history, Heard
  <2>2. /\ (Els(E) \cap Marks) \cap Facts(w) = {}
        /\ Facts(Pending') = Facts(w) \cup (Els(E) \cap Marks)
    BY <1>9 DEF P
  <2>3. /\ Fits(pc', Pending', strategy') /\ store'.plan = w'.plan /\ Follows(store', Pending')
        /\ pc' # "plan"
    BY <1>1, <1>2, <1>4, <1>8 DEF P, disk, bounds
  <2> HIDE DEF E, v, S
  <2> QED
    BY <1>1, <1>4, <1>5, <1>6, <2>1, <2>2, <2>3, NewCalls
<1>12. Typed'
  <2>1. dropped' \subseteq Work
    BY <1>1 DEF SchedulerInv, Typed, Active
  <2> QED
    BY <1>1, <1>4, <1>11, <2>1, NewCallsTyped DEF Pcs, SchedulerInv, Typed
<1>13. Threads' /\ Stored' /\ Readable' /\ Logged' /\ LateFits' /\ EndFits' /\ Settling'
  <2>1. Rev(store) >= w'.rev
    BY <1>4 DEF SchedulerInv, Stored
  <2> QED
    BY <1>1, <1>2, <2>1, QuietStep
<1>14. Begun(P, fresh, dropped') /\ Kept(P, fresh, dropped')
  <2>1. Begun(w, fresh, dropped)
    BY <1>1, AllSaved
  <2>2. Settled(P) = Settled(w) \cup S
    BY <1>7 DEF Settled, P
  <2> QED
    BY <1>1, <2>1, <2>2 DEF Begun, Kept
<1>15. Fresh'
  <2>1. Kept(store, fresh, dropped')
    BY <1>1, <1>2, AllSaved DEF Kept
  <2> QED
    BY <1>1, <1>2, <1>14, <2>1 DEF SchedulerInv, Fresh, disk, bounds, P
<1> QED
  BY <1>11, <1>12, <1>13, <1>15 DEF SchedulerInv

LEMMA BeginBatchInv == ASSUME SchedulerInv, BeginBatch PROVE SchedulerInv'
<1> DEFINE S == Batch(w)
           N == S \ w.started
           E == Events("task.started", N)
           v == Save("executing", Running(w, S))
<1>1. /\ pc = "loop" /\ todo = <<>> /\ Blocked(w) = {} /\ S # {}
      /\ w' = [w EXCEPT !.started = @ \cup S]
      /\ todo' = Append(E, v) /\ pc' = "launch"
      /\ UNCHANGED <<disk, seq, threads, history, bounds>>
  BY DEF BeginBatch, Main, Then
<1>2. /\ Busy /\ Heard(w)
      /\ Fits("loop", w, strategy) /\ w \in States /\ w # None /\ store = w /\ w.seq = seq
      /\ ~stopped /\ ~Polling /\ Begun(w, fresh, dropped) /\ Kept(w, fresh, dropped)
  BY <1>1, AllSaved DEF Polling
<1>3. S \subseteq Tasks /\ S \subseteq Work /\ Tasks \subseteq Work
  <2>1. Active(w) \subseteq Tasks
    BY <1>2, ActiveTasks DEF Fits, SummingUp
  <2>2. ReadyTasks(w) \subseteq Tasks
    BY NextBatch DEF Ready
  <2> QED
    BY <2>1, <2>2 DEF Batch, Work
<1>4. /\ w' \in States /\ w'.plan = w.plan /\ w'.started = w.started \cup S /\ w'.done = w.done
      /\ w'.failed = w.failed /\ w'.rev = w.rev
  BY <1>1, <1>2, <1>3 DEF States
<1>5. v \in SaveCalls /\ v.stage = "executing" /\ v.active = Running(w, S)
  <2>1. Running(w, S) \in [Work -> Invocations \cup {Inactive}]
    <3>1. \A t \in Work : w.active[t].rt \in {"none", "paused", "ok", "big"}
      BY <1>2 DEF States, Invocations, Inactive
    <3> QED
      BY <3>1 DEF Running, Invocations
  <2> QED
    BY <2>1 DEF SaveCalls, Save, Stages
<1>6. EventList(E) /\ Els(E) = {Event("task.started", t) : t \in N}
  BY <1>3, EventsListed DEF Kinds
<1>7. /\ Pending' \in States
      /\ Pending'.stage = "executing" /\ Pending'.active = Running(w, S)
      /\ Pending'.plan = w.plan /\ Pending'.started = w.started \cup S
      /\ Pending'.done = w.done /\ Pending'.failed = w.failed
  <2> HIDE DEF E, v, S
  <2> QED
    BY <1>1, <1>4, <1>5, <1>6, FieldsOfPending
<1> DEFINE P == Pending'
<1> HIDE DEF P
<1>8. /\ Fits("launch", P, strategy) /\ Follows(w, P)
      /\ S \subseteq Tasks \ Settled(w)
      /\ \A t \in S : w.plan[t].deps \subseteq w.done
      /\ Active(P) = S /\ (Active(w) # {} => S = Active(w))
  BY <1>1, <1>2, <1>7, BatchStep DEF P
<1>9. Facts(P) = Facts(w) \cup Els(E) /\ Facts(w) \cap Els(E) = {} /\ Els(E) \subseteq Marks
  <2> DEFINE O == {}
  <2>1. /\ (SummingUp(w) <=> SummingUp(P)) /\ (w.stage = "completed" <=> P.stage = "completed")
        /\ N \cap w.started = {} /\ O \cap w.done = {} /\ O \cap w.failed = {}
    BY <1>2, <1>7, <1>8 DEF SummingUp, P, Settled, Fits
  <2>2. Els(E) = TaskMarks(N, O, O)
    BY <1>6 DEF TaskMarks
  <2>3. /\ P \in States /\ P.plan = w.plan /\ P.started = w.started \cup N
        /\ P.done = w.done \cup O /\ P.failed = w.failed \cup O
    BY <1>7 DEF P
  <2>4. N \in SUBSET Tasks /\ O \in SUBSET Tasks
    BY <1>3
  <2> HIDE DEF E, N, O
  <2>5. /\ Facts(P) = Facts(w) \cup TaskMarks(N, O, O)
        /\ Facts(w) \cap TaskMarks(N, O, O) = {} /\ TaskMarks(N, O, O) \subseteq Marks
    BY <1>2, <2>1, <2>3, <2>4, FactsGrow
  <2> QED
    BY <2>2, <2>5
<1>11. MainFits' /\ MainCalls' /\ MainSays' /\ MainSaved' /\ Script(todo') /\ todo' # <<>>
  <2>1. straggled' \/ (seq' <= Len(log') /\ Said(log', seq') \cap Marks = Facts(w))
    BY <1>1, <1>2 DEF disk, history, Heard
  <2>2. /\ (Els(E) \cap Marks) \cap Facts(w) = {}
        /\ Facts(Pending') = Facts(w) \cup (Els(E) \cap Marks)
    BY <1>9 DEF P
  <2>3. /\ Fits(pc', Pending', strategy') /\ store'.plan = w'.plan /\ Follows(store', Pending')
        /\ pc' # "plan"
    BY <1>1, <1>2, <1>4, <1>8 DEF P, disk, bounds
  <2> HIDE DEF E, v, S
  <2> QED
    BY <1>1, <1>4, <1>5, <1>6, <2>1, <2>2, <2>3, NewCalls
<1>12. Typed'
  BY <1>1, <1>4, <1>11, NewCallsTyped DEF Pcs, SchedulerInv, Typed, history
<1>13. Threads' /\ Stored' /\ Readable' /\ Logged' /\ LateFits' /\ EndFits' /\ Settling'
  <2>1. Rev(store) >= w'.rev
    BY <1>4 DEF SchedulerInv, Stored
  <2> QED
    BY <1>1, <1>2, <2>1, QuietStep DEF history
<1>14. Begun(P, fresh, dropped)
  <2> SUFFICES ASSUME NEW t \in Tasks, fresh[t] >= 1, t \notin dropped
               PROVE  t \in Settled(P) \/ (t \in Active(P) /\ P.active[t].rt # "none")
    BY DEF Begun
  <2>1. CASE t \in Settled(w)
    BY <1>7, <2>1 DEF Settled, P
  <2>2. CASE t \in Active(w) /\ w.active[t].rt # "none"
    <3>1. S = Active(w) /\ t \in S /\ t \in Work
      BY <1>3, <1>8, <2>2
    <3>2. P.active[t] = [st |-> "running", rt |-> w.active[t].rt]
      BY <1>7, <3>1 DEF P, Running
    <3> QED
      BY <1>8, <2>2, <3>1, <3>2
  <2> QED
    BY <1>2, <2>1, <2>2 DEF Begun
<1>15. Fresh'
  <2>1. Kept(P, fresh, dropped)
    BY <1>14 DEF Begun, Kept
  <2> QED
    BY <1>1, <1>2, <1>14, <2>1 DEF SchedulerInv, Fresh, disk, history, bounds, P
<1> QED
  BY <1>11, <1>12, <1>13, <1>15 DEF SchedulerInv

LEMMA SumUpInv == ASSUME SchedulerInv, SumUp PROVE SchedulerInv'
<1> DEFINE e == Event("synthesis.started", 0)
           E == <<e>>
           v == Save("synthesizing", Summary)
<1>1. pc = "sum" /\ todo = <<>> /\ UNCHANGED <<disk, w, seq, threads, history, bounds>>
  BY DEF SumUp, Main
<1>2. /\ Busy /\ Heard(w)
      /\ Fits("sum", w, strategy) /\ w \in States /\ w # None /\ store = w /\ w.seq = seq
      /\ ~stopped /\ ~Polling /\ Kept(w, fresh, dropped)
  BY <1>1, AllSaved DEF Polling
<1>3. CASE w.stage = "completed" /\ todo' = <<>> /\ pc' = "complete"
  <2>1. Fits("complete", w, strategy)
    BY <1>2, <1>3 DEF Fits
  <2> QED
    BY <1>1, <1>3, <2>1, GoingOn
<1>4. CASE w.stage = "synthesizing" /\ todo' = <<>> /\ pc' = "launch"
  <2>1. Fits("launch", w, strategy)
    BY <1>2, <1>4 DEF Fits, Sane
  <2>2. Begun(w, fresh, dropped)
    BY <1>2 DEF Begun, Fits
  <2> QED
    BY <1>1, <1>4, <2>1, <2>2, GoingOn
<1>5. CASE ~SummingUp(w) /\ todo' = <<e, v>> /\ pc' = "launch"
  <2>1. v \in SaveCalls /\ v.stage = "synthesizing" /\ v.active = Summary
    <3>1. Summary \in [Work -> Invocations \cup {Inactive}]
      BY NobodyActive DEF Summary, Invocations
    <3> QED
      BY <3>1 DEF SaveCalls, Save, Stages
  <2>2. e \in Marks /\ e \in EventCalls
    BY MarksOfTasks DEF Kinds, Marks
  <2>3. EventList(E) /\ Els(E) = {e}
    <3>1. Len(<<e>>) = 1 /\ <<e>>[1] = e
      OBVIOUS
    <3> HIDE DEF e
    <3> QED
      BY <2>2, <3>1 DEF EventList, Distinct, Els
  <2>4. todo' = Append(E, v)
    <3> HIDE DEF e, v
    <3>1. Append(<<e>>, v) = <<e, v>>
      BY TwoCalls
    <3> QED
      BY <1>5, <3>1 DEF e, v
  <2>5. /\ Pending' \in States /\ Pending'.stage = "synthesizing" /\ Pending'.active = Summary
        /\ Pending'.plan = w.plan /\ Pending'.started = w.started
        /\ Pending'.done = w.done /\ Pending'.failed = w.failed
    <3>1. w' = w /\ w' \in States
      BY <1>1, <1>2
    <3> HIDE DEF E, v
    <3> QED
      BY <2>1, <2>3, <2>4, <3>1, FieldsOfPending
  <2> DEFINE P == Pending'
  <2> HIDE DEF P
  <2>6. Fits("launch", P, strategy) /\ Follows(w, P) /\ Active(P) = {Synthesis}
    BY <1>2, <1>5, <2>5, SumStep DEF P
  <2>7. Facts(P) = Facts(w) \cup {e} /\ e \notin Facts(w)
    BY <1>2, <1>5, <2>5, OneMark DEF P
  <2>9. MainFits' /\ MainCalls' /\ MainSays' /\ MainSaved' /\ Script(todo') /\ todo' # <<>>
    <3>1. /\ straggled' \/ (seq' <= Len(log') /\ Said(log', seq') \cap Marks = Facts(w))
          /\ w' \in States
      BY <1>1, <1>2 DEF disk, history, Heard
    <3>2. /\ (Els(E) \cap Marks) \cap Facts(w) = {}
          /\ Facts(Pending') = Facts(w) \cup (Els(E) \cap Marks)
      BY <2>2, <2>3, <2>7 DEF P
    <3>3. /\ Fits(pc', Pending', strategy') /\ store'.plan = w'.plan /\ Follows(store', Pending')
          /\ pc' # "plan"
      BY <1>1, <1>2, <1>5, <2>6 DEF P, disk, bounds
    <3> HIDE DEF E, v
    <3> QED
      BY <2>1, <2>3, <2>4, <3>1, <3>2, <3>3, NewCalls
  <2>10. Typed'
    BY <1>1, <1>2, <1>5, <2>9, NewCallsTyped DEF Pcs, SchedulerInv, Typed, history
  <2>11. Threads' /\ Stored' /\ Readable' /\ Logged' /\ LateFits' /\ EndFits' /\ Settling'
    <3>1. Rev(store) >= w'.rev
      BY <1>1 DEF SchedulerInv, Stored
    <3> QED
      BY <1>1, <1>2, <1>5, <3>1, QuietStep DEF history
  <2>12. Fresh'
    <3>2. Settled(P) = Tasks
      BY <1>2, <2>5 DEF Settled, Fits, P
    <3>3. Kept(P, fresh, dropped) /\ Begun(P, fresh, dropped)
      BY <3>2 DEF Kept, Begun
    <3> QED
      BY <1>1, <1>2, <3>3 DEF SchedulerInv, Fresh, disk, history, bounds, P
  <2> QED
    BY <2>9, <2>10, <2>11, <2>12 DEF SchedulerInv
<1> QED
  BY <1>3, <1>4, <1>5 DEF SumUp, Then, SummingUp

-----------------------------------------------------------------------------
(* The members' threads *)

LEMMA LaunchInv == ASSUME SchedulerInv, Launch PROVE SchedulerInv'
<1>1. /\ pc = "launch" /\ todo = <<>> /\ todo' = <<>> /\ StartThreads(Active(w))
      /\ pc' = IF w.stage = "synthesizing" THEN "wait" ELSE "poll"
      /\ UNCHANGED <<disk, w, seq, bounds>>
  BY DEF Launch, Main, Then
<1>2. /\ Busy /\ Heard(w)
      /\ Fits("launch", w, strategy) /\ w \in States /\ store # None /\ store = w /\ w.seq = seq
      /\ store.plan = w.plan /\ Sane(w, strategy) /\ Loadable(w) /\ ~Fast(w, strategy)
      /\ Kept(w, fresh, dropped) /\ Begun(w, fresh, dropped)
  BY <1>1, AllSaved DEF Polling
<1>3. /\ th' = [t \in Work |-> IF t \in Active(w) THEN "running" ELSE "none"]
      /\ out' = [t \in Work |-> "none"] /\ saving' = None /\ stopped' = FALSE
      /\ results' = None /\ UNCHANGED <<dropped, straggled>>
      /\ fresh' = [t \in Work |-> IF t \in Active(w) /\ w.active[t].rt = "none"
                                  THEN fresh[t] + 1 ELSE fresh[t]]
  BY <1>1 DEF StartThreads
<1>4. Typed'
  <2>1. fresh' \in [Work -> Nat]
    BY <1>3 DEF SchedulerInv, Typed
  <2>2. th' \in [Work -> {"none", "running", "locked", "reading", "read", "set", "saving", "saved",
                          "done"}]
        /\ out' \in [Work -> Outcomes] /\ pc' \in Pcs
    BY <1>1, <1>3 DEF Outcomes, Pcs
  <2> QED
    BY <1>1, <1>3, <2>1, <2>2 DEF SchedulerInv, Typed, disk, bounds
<1>5. Threads'
  <2>1. \A t \in Work : th'[t] = (IF t \in Active(w) THEN "running" ELSE "none") /\ out'[t] = "none"
    BY <1>3
  <2>2. pc' \in {"poll", "wait"} /\ Active(w)' = Active(w) /\ Synthesis \in Work
    BY <1>1 DEF Active, Work
  <2>3. \A t \in Work : ~AtLock(t)' /\ th'[t] \notin {"reading", "read", "set", "saving", "saved", "done"}
    BY <2>1 DEF AtLock
  <2> QED
    BY <1>1, <1>3, <2>1, <2>2, <2>3 DEF Threads, Polling, Racing
<1>6. Stored' /\ Readable' /\ Logged'
  BY <1>1, <1>3 DEF SchedulerInv, Stored, Readable, Logged, disk, bounds
<1>7. LateFits' /\ EndFits' /\ Settling'
  BY <1>1, <1>3 DEF LateFits, EndFits, Settling, Racing, SchedulerInv, disk
<1>8. Pending' = w
  BY <1>1, NothingLeft DEF Pending
<1>9. MainFits' /\ MainCalls'
  <2>1. Fits(pc', w, strategy)
    BY <1>1, <1>2 DEF Fits
  <2> QED
    BY <1>1, <1>8, <2>1 DEF MainFits, MainCalls, bounds
<1>10. MainSays'
  BY <1>1, <1>2, <1>3, <1>8, ScriptOfNothing DEF MainSays, Heard, disk
<1>11. MainSaved'
  BY <1>1, <1>2 DEF MainSaved, disk
<1>12. Fresh'
  <2>3. \A t \in Tasks : /\ t \in Work /\ fresh[t] \in Nat
                         /\ fresh'[t] = IF t \in Active(w) /\ w.active[t].rt = "none"
                                        THEN fresh[t] + 1 ELSE fresh[t]
    BY <1>3 DEF SchedulerInv, Typed, Work
  <2>4. Kept(w, fresh', dropped)
    BY <1>2, <2>3 DEF Kept
  <2>5. ASSUME NEW t \in Tasks, fresh'[t] > 1
        PROVE  t \in dropped
    <3>1. CASE fresh'[t] = fresh[t]
      BY <2>5, <3>1 DEF SchedulerInv, Fresh
    <3>2. CASE t \in Active(w) /\ w.active[t].rt = "none"
      <4>1. t \notin Settled(w)
        <5>1. w.stage # "synthesizing"
          BY <1>2, <3>2, WorkFinite DEF Sane
        <5> QED
          BY <1>2, <3>2, <5>1, ActiveTasks
      <4>2. fresh[t] >= 1
        BY <2>3, <2>5, <3>2
      <4> QED
        BY <1>2, <3>2, <4>1, <4>2 DEF Begun
    <3> QED
      BY <2>3, <3>1, <3>2
  <2> QED
    BY <1>1, <1>2, <1>3, <1>8, <2>4, <2>5 DEF Fresh, disk, bounds
<1> QED
  BY <1>4, <1>5, <1>6, <1>7, <1>9, <1>10, <1>11, <1>12 DEF SchedulerInv

(* Nothing but the threads changes. *)
LEMMA OnlyThreads ==
  ASSUME SchedulerInv, UNCHANGED <<log, store, reported, pc, w, seq, todo, results, history, bounds>>
  PROVE  /\ Stored' /\ Readable' /\ Logged' /\ MainCalls' /\ MainSays' /\ Fresh'
         /\ MainFits' /\ MainSaved'
<1> USE DEF SchedulerInv, bounds, history
<1>1. Pending' = Pending /\ (Busy' <=> Busy)
  BY DEF Pending, After, Busy, Racing
<1>2. Stored' /\ Readable' /\ Logged'
  BY DEF Stored, Readable, Logged, Announced, Said
<1>3. MainCalls' /\ MainFits' /\ MainSays'
  BY <1>1 DEF MainCalls, MainFits, MainSays
<1>4. MainSaved'
  BY <1>1 DEF MainSaved, Polling
<1>5. Fresh'
  BY <1>1 DEF Fresh
<1> QED
  BY <1>2, <1>3, <1>4, <1>5

LEMMA LateStays ==
  ASSUME UNCHANGED <<log, store, w, seq, todo, history, strategy>>, NEW u \in Work,
         LateState(u)' = LateState(u), GoodLate(LateState(u))
  PROVE  GoodLate(LateState(u))'
  BY DEF GoodLate, NextRev, history

(* What the main thread has to do with the batch, and what is a picture of it. *)
LEMMA RaceKept ==
  ASSUME SchedulerInv, Racing,
         UNCHANGED <<log, store, pc, w, seq, todo, results, history, strategy>>, Crew' = Crew
  PROVE  /\ Racers' /\ RaceSays'
         /\ \A c : Pictured(c) => Pictured(c)'
         /\ \A c : Ahead(c) => Ahead(c)'
<1> USE DEF history
<1>1. Racers /\ Pictures /\ RaceSays
  BY DEF SchedulerInv, Settling
<1>2. Unrecorded' = Unrecorded /\ Finale' = Finale /\ Reported' = Reported
      /\ \A k : Untold(k)' = Untold(k)
  BY DEF Unrecorded, Finale, Reported, Untold, At, Racing, NextCall
<1>3. Racers'
  <2>1. Recorded(Head(todo))' = Recorded(Head(todo))
    BY DEF Recorded
  <2> QED
    BY <1>1, <1>2, <2>1 DEF Racers, At, NextCall, Outcome, Racing
<1>4. RaceSays'
  BY <1>1, <1>2 DEF RaceSays
<1>5. \A c : Pictured(c)' <=> Pictured(c)
  BY DEF Pictured
<1>6. \A c : Ahead(c)' <=> Ahead(c)
  <2> TAKE c
  <2>1. Leads(store, c)' <=> Leads(store, c)
    BY <1>5 DEF Leads, Pictured
  <2> QED
    BY <2>1 DEF Ahead
<1> QED
  BY <1>3, <1>4, <1>5, <1>6

(* A batch that is being settled goes on being so. *)
LEMMA RaceStays ==
  ASSUME SchedulerInv,
         UNCHANGED <<log, store, pc, w, seq, todo, results, history, strategy>>,
         \A t \in Work : th'[t] # "none" <=> th[t] # "none",
         Racing => \A t \in Work : th'[t] \in {"reading", "read", "saving", "saved"} =>
                     th'[t] = th[t] /\ saving' = saving
  PROVE  Settling'
<1> SUFFICES ASSUME Racing PROVE (Racers /\ Pictures /\ RaceSays)'
  BY DEF Settling, Racing
<1>1. Pictures
  BY DEF SchedulerInv, Settling
<1>2. Crew' = Crew
  BY DEF Crew
<1>3. /\ Racers' /\ RaceSays'
      /\ \A c : Pictured(c) => Pictured(c)'
      /\ \A c : Ahead(c) => Ahead(c)'
  BY <1>2, RaceKept
<1>4. Pictures'
  <2>1. Pictured(w)' /\ Ahead(w)'
    BY <1>1, <1>2 DEF Pictures, Pictured, Ahead, Leads, history
  <2>2. ASSUME NEW t \in Work, th'[t] \in {"reading", "read", "saving", "saved"}
        PROVE  /\ Pictured(saving.state) => Pictured(saving.state)'
               /\ Ahead(saving.state) => Ahead(saving.state)'
               /\ saving' = saving /\ th'[t] = th[t]
    BY <2>2, <1>2 DEF Pictured, Ahead, Leads, history
  <2> QED
    BY <1>1, <2>1, <2>2 DEF Pictures, NextRev
<1> QED
  BY <1>3, <1>4

(* A member runs only while the main thread polls, or after it has stopped. *)
LEMMA MembersRun ==
  ASSUME SchedulerInv, NEW t \in Work, th[t] # "none"
  PROVE  /\ Polling \/ stopped
         /\ pc \in {"poll", "wait", "fail"} /\ run # "completed"
<1>1. Polling \/ stopped
  BY DEF SchedulerInv, Threads
<1>2. pc \in {"poll", "wait", "fail"}
  BY <1>1 DEF SchedulerInv, Threads, Polling
<1>3. run # "completed"
  BY <1>2 DEF SchedulerInv, EndFits
<1> QED
  BY <1>1, <1>2, <1>3 DEF SchedulerInv, Threads

LEMMA MemberFailsInv ==
  ASSUME SchedulerInv, NEW t \in Work, MemberFails(t)
  PROVE  SchedulerInv'
<1>1. /\ th[t] = "running" /\ th' = [th EXCEPT ![t] = "done"] /\ out' = [out EXCEPT ![t] = "error"]
      /\ UNCHANGED <<disk, pc, w, seq, todo, saving, stopped, results, history, bounds>>
  BY DEF MemberFails
<1>2. th \in [Work -> {"none", "running", "locked", "reading", "read", "set", "saving", "saved",
                          "done"}] /\ out \in [Work -> Outcomes]
  BY DEF SchedulerInv, Typed
<1>3. \A u \in Work : /\ u # t => th'[u] = th[u] /\ out'[u] = out[u]
                      /\ u = t => th'[u] = "done" /\ out'[u] = "error"
  BY <1>1, <1>2
<1>4. Typed'
  <2>1. th' \in [Work -> {"none", "running", "locked", "reading", "read", "set", "saving", "saved",
                          "done"}] /\ out' \in [Work -> Outcomes]
    BY <1>1, <1>2 DEF Outcomes
  <2> QED
    BY <1>1, <2>1 DEF SchedulerInv, Typed, disk, history, bounds
<1>5. \A u \in Work : /\ (AtLock(u)' <=> AtLock(u)) /\ (AtLock(u) => u # t)
                      /\ AtLock(u) => LateState(u)' = LateState(u) /\ Late(u)' = Late(u)
  <2> TAKE u \in Work
  <2>1. (AtLock(u)' <=> AtLock(u)) /\ (AtLock(u) => u # t)
    BY <1>1, <1>3 DEF AtLock
  <2>2. u # t => Late(u)' = Late(u) /\ th'[u] = th[u]
    BY <1>1, <1>3 DEF Late, NextRev
  <2>3. u # t => LateState(u)' = LateState(u)
    BY <1>1, <2>2 DEF LateState
  <2> QED
    BY <2>1, <2>2, <2>3
<1>6. Threads'
  <2>1. Polling \/ stopped
    BY <1>1, MembersRun
  <2>2. Polling' = Polling /\ Active(w)' = Active(w)
    BY <1>1 DEF Polling, Active
  <2>3. \A u \in Work : AtLock(u)' <=> saving' # None /\ saving'.task = u
    BY <1>1, <1>5 DEF SchedulerInv, Threads
  <2>4. \A u \in Work : th'[u] = "saving" => AtLock(u) /\ th[u] = "saving"
    BY <1>3 DEF AtLock
  <2>5. \A u \in Work : th'[u] \in {"none", "running"} <=> out'[u] = "none"
    BY <1>3 DEF SchedulerInv, Threads
  <2>6. \A u \in Work : AtLock(u)' => out'[u] \in {"ok", "big", "pause"}
    BY <1>3, <1>5 DEF SchedulerInv, Threads
  <2>7. out'[Synthesis] # "big"
    BY <1>3 DEF SchedulerInv, Threads, Work
  <2>8. Polling' => todo' = <<>> /\ \A u \in Work : th'[u] # "none" <=> u \in Active(w)
    BY <1>1, <1>3, <2>2 DEF SchedulerInv, Threads
  <2>9. Polling' => \A u \in Work : th'[u] = "done" /\ out'[u] # "error" => w.active[u] = Graph(out'[u])
    BY <1>3, <2>2 DEF SchedulerInv, Threads
  <2>10. Polling' => \A u \in Work : th'[u] = "saving" => saving'.state = Late(u)'
    BY <1>1, <1>5, <2>2, <2>4 DEF SchedulerInv, Threads
  <2>11. /\ Racing' = Racing
         /\ \A u \in Work : th'[u] \in {"reading", "read", "set", "saving", "saved"} => th'[u] = th[u]
    BY <1>1, <1>3 DEF Racing
  <2> QED
    BY <1>1, <2>1, <2>2, <2>3, <2>4, <2>5, <2>6, <2>7, <2>8, <2>9, <2>10, <2>11 DEF SchedulerInv, Threads
<1>7. Stored' /\ Readable' /\ Logged' /\ MainCalls' /\ MainSays' /\ Fresh' /\ MainFits' /\ MainSaved'
  BY <1>1, OnlyThreads DEF disk
<1>8. LateFits'
  <2> SUFFICES ASSUME stopped, ~Racing, NEW u \in Work, AtLock(u)
               PROVE  GoodLate(LateState(u))'
    BY <1>1, <1>5 DEF LateFits, Racing
  <2>1. GoodLate(LateState(u)) /\ LateState(u)' = LateState(u)
    BY <1>5 DEF SchedulerInv, LateFits
  <2> QED
    BY <1>1, <2>1, LateStays DEF history, disk, bounds
<1>9. EndFits'
  BY <1>1 DEF SchedulerInv, EndFits, disk, bounds, Going
<1>10. Settling'
  <2>1. \A u \in Work : /\ th'[u] # "none" <=> th[u] # "none"
                        /\ th'[u] \in {"reading", "read", "saving", "saved"} => th'[u] = th[u]
    BY <1>1, <1>3
  <2> QED
    BY <1>1, <2>1, RaceStays DEF disk, bounds
<1> QED
  BY <1>4, <1>6, <1>7, <1>8, <1>9, <1>10 DEF SchedulerInv

LEMMA MemberEndsInv ==
  ASSUME SchedulerInv, NEW t \in Work, NEW o \in {"ok", "big", "pause"}, MemberEnds(t, o)
  PROVE  SchedulerInv'
<1>1. /\ th[t] = "running" /\ (o = "big" => t # Synthesis)
      /\ run' = run \/ run' = "waiting_approval"
      /\ out' = [out EXCEPT ![t] = o]
      /\ UNCHANGED <<log, store, reported, pc, w, seq, todo, stopped, results, history, bounds>>
  BY DEF MemberEnds
<1>2. \/ stopped /\ th' = [th EXCEPT ![t] = "done"] /\ UNCHANGED saving
      \/ ~stopped /\ saving = None /\ th' = [th EXCEPT ![t] = "locked"]
         /\ saving' = [task |-> t, state |-> None]
  BY DEF MemberEnds
<1>3. th \in [Work -> {"none", "running", "locked", "reading", "read", "set", "saving", "saved",
                          "done"}] /\ out \in [Work -> Outcomes]
  BY DEF SchedulerInv, Typed
<1>4. \A u \in Work : /\ u # t => th'[u] = th[u] /\ out'[u] = out[u]
                      /\ u = t => th'[u] \in {"done", "locked"} /\ out'[u] = o
                                  /\ (th'[u] = "done" <=> stopped)
  BY <1>1, <1>2, <1>3
<1>5. saving' \in Savings \cup {None} /\ (~stopped => saving' # None /\ saving'.task = t)
  <2>1. CASE stopped
    BY <1>2, <2>1 DEF SchedulerInv, Typed
  <2>2. CASE ~stopped
    <3>1. saving' \in Savings
      BY <1>2, <2>2 DEF Savings
    <3> QED
      BY <1>2, <2>2, <3>1, NoneAssumption DEF Savings
  <2> QED
    BY <2>1, <2>2
<1>6. Typed'
  <2>1. th' \in [Work -> {"none", "running", "locked", "reading", "read", "set", "saving", "saved",
                          "done"}] /\ out' \in [Work -> Outcomes]
    BY <1>1, <1>2, <1>3 DEF Outcomes
  <2> QED
    BY <1>1, <1>5, <2>1 DEF SchedulerInv, Typed, history, bounds
<1>7. Polling \/ stopped
  BY <1>1, MembersRun
<1>8. Threads'
  <2>1. (Polling' <=> Polling) /\ Active(w)' = Active(w)
    BY <1>1 DEF Polling, Active
  <2>2. ~stopped => \A u \in Work : ~AtLock(u)
    BY <1>2 DEF SchedulerInv, Threads
  <2>3. \A u \in Work : u # t => (AtLock(u)' <=> AtLock(u))
    BY <1>4 DEF AtLock
  <2>4. AtLock(t)' <=> ~stopped
    BY <1>4 DEF AtLock
  <2>5. \A u \in Work : AtLock(u)' <=> saving' # None /\ saving'.task = u
    <3>1. CASE stopped
      BY <1>1, <1>2, <2>3, <2>4, <3>1 DEF SchedulerInv, Threads, AtLock
    <3>2. CASE ~stopped
      BY <1>5, <2>2, <2>3, <2>4, <3>2
    <3> QED
      BY <3>1, <3>2
  <2>6. \A u \in Work : th'[u] = "saving" => u # t /\ th[u] = "saving" /\ stopped /\ saving' = saving
    BY <1>2, <1>4, <2>2 DEF AtLock
  <2>7. \A u \in Work : th'[u] \in {"reading", "read", "set", "saving", "saved"} =>
          u # t /\ th'[u] = th[u] /\ stopped /\ saving' = saving
    BY <1>2, <1>4, <2>2 DEF AtLock
  <2>8. \A u \in Work : th'[u] \in {"none", "running"} <=> out'[u] = "none"
    BY <1>4 DEF SchedulerInv, Threads
  <2>9. \A u \in Work : AtLock(u)' => out'[u] \in {"ok", "big", "pause"}
    BY <1>4, <2>3 DEF SchedulerInv, Threads
  <2>10. out'[Synthesis] # "big"
    BY <1>1, <1>4 DEF SchedulerInv, Threads, Work
  <2>11. Polling' => ~stopped
    BY <2>1 DEF SchedulerInv, Threads, Polling
  <2>12. Polling' => todo' = <<>> /\ \A u \in Work : th'[u] # "none" <=> u \in Active(w)
    BY <1>1, <1>4, <2>1 DEF SchedulerInv, Threads
  <2>13. Polling' => \A u \in Work : th'[u] = "done" /\ out'[u] # "error" => w.active[u] = Graph(out'[u])
    BY <1>4, <2>1, <2>11 DEF SchedulerInv, Threads
  <2>14. Polling' => \A u \in Work : th'[u] = "saving" => saving'.state = Late(u)'
    BY <2>6, <2>11
  <2> QED
    BY <1>1, <1>7, <2>1, <2>5, <2>7, <2>8, <2>9, <2>10, <2>12, <2>13, <2>14 DEF SchedulerInv, Threads, Racing
<1>9. Stored' /\ Readable' /\ Logged' /\ MainCalls' /\ MainSays' /\ Fresh' /\ MainFits' /\ MainSaved'
  BY <1>1, OnlyThreads
<1>10. LateFits'
  <2> SUFFICES ASSUME stopped, ~Racing, NEW u \in Work, AtLock(u)'
               PROVE  GoodLate(LateState(u))'
    BY <1>1 DEF LateFits, Racing
  <2>1. u # t /\ th'[u] = th[u] /\ out'[u] = out[u] /\ saving' = saving /\ AtLock(u)
    BY <1>2, <1>4 DEF AtLock
  <2>2. LateState(u)' = LateState(u)
    BY <1>1, <2>1 DEF LateState, Late, NextRev
  <2>3. GoodLate(LateState(u))
    BY <2>1 DEF SchedulerInv, LateFits
  <2> QED
    BY <1>1, <2>2, <2>3, LateStays DEF history, bounds
<1>11. EndFits'
  <2>1. pc \in {"poll", "wait", "fail"} /\ run # "completed"
    BY <1>1, MembersRun
  <2> QED
    BY <1>1, <2>1 DEF EndFits
<1>12. Settling'
  <2>1. \A u \in Work : th'[u] # "none" <=> th[u] # "none"
    BY <1>1, <1>4
  <2>2. Racing => stopped
    BY DEF SchedulerInv, Threads
  <2>3. Racing => \A u \in Work : th'[u] \in {"reading", "read", "saving", "saved"} =>
                    th'[u] = th[u] /\ saving' = saving
    BY <1>2, <1>4, <2>2
  <2> QED
    BY <1>1, <2>1, <2>3, RaceStays DEF bounds
<1> QED
  BY <1>6, <1>8, <1>9, <1>10, <1>11, <1>12 DEF SchedulerInv

LEMMA MemberComputesInv ==
  ASSUME SchedulerInv, NEW t \in Work, MemberComputes(t)
  PROVE  SchedulerInv'
<1>1. /\ ~Racing /\ th[t] = "locked" /\ saving' = [task |-> t, state |-> Late(t)]
      /\ th' = [th EXCEPT ![t] = "saving"]
      /\ UNCHANGED <<disk, pc, w, seq, todo, out, stopped, results, history, bounds>>
  BY DEF MemberComputes, Late
<1>2. th \in [Work -> {"none", "running", "locked", "reading", "read", "set", "saving", "saved",
                          "done"}] /\ out \in [Work -> Outcomes]
  BY DEF SchedulerInv, Typed
<1>3. \A u \in Work : /\ u # t => th'[u] = th[u]
                      /\ u = t => th'[u] = "saving"
  BY <1>1, <1>2
<1>4. AtLock(t) /\ saving.task = t /\ saving # None /\ \A u \in Work : AtLock(u) => u = t
  BY <1>1 DEF AtLock, SchedulerInv, Threads
<1>5. Late(t) \in States
  BY <1>4, LateTyped
<1>6. saving' \in Savings /\ saving' # None /\ saving'.task = t /\ saving'.state = Late(t)
  <2>1. saving' \in Savings
    BY <1>1, <1>5 DEF Savings
  <2> QED
    BY <1>1, <2>1, NoneAssumption DEF Savings
<1>7. Typed'
  <2>1. th' \in [Work -> {"none", "running", "locked", "reading", "read", "set", "saving", "saved",
                          "done"}]
    BY <1>1, <1>2
  <2> QED
    BY <1>1, <1>6, <2>1 DEF SchedulerInv, Typed, disk, history, bounds
<1>8. \A u \in Work : (AtLock(u)' <=> AtLock(u)) /\ Late(u)' = Late(u)
  BY <1>1, <1>3, <1>4 DEF AtLock, Late, NextRev
<1>9. LateState(t)' = LateState(t)
  BY <1>1, <1>3, <1>6, <1>8 DEF LateState
<1>10. Threads'
  <2>1. (Polling' <=> Polling) /\ Active(w)' = Active(w)
    BY <1>1 DEF Polling, Active
  <2>2. \A u \in Work : AtLock(u)' <=> saving' # None /\ saving'.task = u
    BY <1>4, <1>6, <1>8
  <2>3. \A u \in Work : th'[u] = "saving" => u = t
    BY <1>3, <1>4 DEF AtLock
  <2>4. \A u \in Work : th'[u] = "saving" => saving'.state \in States /\ saving'.state = Late(u)'
    BY <1>5, <1>6, <1>8, <2>3
  <2>5. \A u \in Work : (th'[u] \in {"none", "running"} <=> th[u] \in {"none", "running"})
                        /\ (th'[u] = "none" <=> th[u] = "none") /\ (th'[u] = "done" <=> th[u] = "done")
    BY <1>1, <1>3
  <2>6. \A u \in Work : th'[u] \in {"none", "running"} <=> out'[u] = "none"
    BY <1>1, <2>5 DEF SchedulerInv, Threads
  <2>7. \A u \in Work : AtLock(u)' => out'[u] \in {"ok", "big", "pause"}
    BY <1>1, <1>8 DEF SchedulerInv, Threads
  <2>8. Polling' => todo' = <<>> /\ \A u \in Work : th'[u] # "none" <=> u \in Active(w)
    BY <1>1, <2>1, <2>5 DEF SchedulerInv, Threads
  <2>9. Polling' => \A u \in Work : th'[u] = "done" /\ out'[u] # "error" => w.active[u] = Graph(out'[u])
    BY <1>1, <2>1, <2>5 DEF SchedulerInv, Threads
  <2>10. Polling \/ stopped
    BY <1>1, MembersRun
  <2>11. \A u \in Work : th'[u] \notin {"reading", "read", "set", "saved"}
    BY <1>1, <1>3 DEF SchedulerInv, Threads
  <2>12. ~Racing' /\ (stopped => pc = "fail" /\ todo = <<>>)
    BY <1>1 DEF Racing, SchedulerInv, Threads
  <2> QED
    BY <1>1, <2>1, <2>2, <2>4, <2>6, <2>7, <2>8, <2>9, <2>10, <2>11, <2>12 DEF SchedulerInv, Threads
<1>11. Stored' /\ Readable' /\ Logged' /\ MainCalls' /\ MainSays' /\ Fresh' /\ MainFits' /\ MainSaved'
  BY <1>1, OnlyThreads DEF disk
<1>12. LateFits'
  <2> SUFFICES ASSUME stopped, ~Racing, NEW u \in Work, AtLock(u)
               PROVE  GoodLate(LateState(u))'
    BY <1>1, <1>8 DEF LateFits, Racing
  <2>1. u = t /\ GoodLate(LateState(u))
    BY <1>4 DEF SchedulerInv, LateFits
  <2> QED
    BY <1>1, <1>9, <2>1, LateStays DEF history, bounds, disk
<1>13. EndFits'
  BY <1>1 DEF SchedulerInv, EndFits, disk, bounds, Going
<1>14. Settling'
  BY <1>1 DEF Settling, Racing
<1> QED
  BY <1>7, <1>10, <1>11, <1>12, <1>13, <1>14 DEF SchedulerInv

-----------------------------------------------------------------------------
(* What a member saves while the main thread polls *)

LEMMA LateWhilePolling ==
  ASSUME SchedulerInv, Polling, NEW t \in Work, AtLock(t)
  PROVE  /\ LateState(t) = Late(t) /\ Late(t) \in States /\ Late(t) # None
         /\ Late(t) = [w EXCEPT !.active = [w.active EXCEPT ![t] = Graph(out[t])], !.rev = w.rev + 1]
         /\ Active(Late(t)) = Active(w) /\ t \in Active(w)
         /\ Sane(Late(t), strategy) /\ Loadable(Late(t)) /\ ~Fast(Late(t), strategy)
         /\ Fits(pc, Late(t), strategy)
         /\ Facts(Late(t)) = Facts(w) /\ (straggled \/ Agree(Late(t), log))
         /\ Kept(Late(t), fresh, dropped)
         /\ Follows(w, Late(t))
         /\ Rev(store) >= Late(t).rev \/ Follows(store, Late(t))
<1> DEFINE d == Late(t)
<1>1. todo = <<>> /\ pc \in {"poll", "wait"}
  BY DEF SchedulerInv, Threads, Polling
<1>2. /\ Busy /\ Heard(w)
      /\ Fits(pc, w, strategy) /\ w \in States /\ w # None /\ store # None
      /\ store \in States /\ w.seq = seq
      /\ store = w \/ (Polling /\ Rev(store) > w.rev)
      /\ Sane(w, strategy) /\ Loadable(w) /\ ~Fast(w, strategy)
      /\ Kept(w, fresh, dropped)
  BY <1>1, AllSaved
<1>3. LateState(t) = d /\ d \in States /\ d # None
  BY LateTyped, NoneAssumption DEF LateState, SchedulerInv, Threads
<1>4. t \in Active(w) /\ out[t] \in {"ok", "big", "pause"} /\ out[Synthesis] # "big"
  BY DEF SchedulerInv, Threads, AtLock
<1>5. Graph(out[t]) # Inactive /\ Graph(out[t]) \in Invocations
      /\ (Graph(out[t]).rt = "ok" => Graph(out[t]).st = "completed")
  BY <1>4 DEF Graph, Inactive, Invocations
<1>6. /\ d.stage = w.stage /\ d.plan = w.plan /\ d.started = w.started /\ d.done = w.done
      /\ d.failed = w.failed /\ d.partial = w.partial /\ d.rev = w.rev + 1 /\ d.seq = seq
      /\ d.active = [w.active EXCEPT ![t] = Graph(out[t])]
  BY <1>2 DEF Late, States, NextRev
<1>7. d = [w EXCEPT !.active = [w.active EXCEPT ![t] = Graph(out[t])], !.rev = w.rev + 1]
  BY <1>2 DEF Late, States, NextRev
<1>8. Active(d) = Active(w)
  <2>1. \A u \in Work : d.active[u] = IF u = t THEN Graph(out[t]) ELSE w.active[u]
    BY <1>2, <1>6 DEF States
  <2> QED
    BY <1>4, <1>5, <2>1 DEF Active
<1>9. Settled(d) = Settled(w) /\ SummingUp(d) = SummingUp(w) /\ ~Fast(d, strategy)
      /\ Underway(d) = Underway(w)
  BY <1>2, <1>6, <1>8 DEF Settled, SummingUp, Fast, Underway
<1>10. \A u \in Tasks : d.active[u].rt = "ok" => d.active[u].st = "completed"
  <2>1. \A u \in Tasks : u \in Work
    BY DEF Work
  <2>2. \A u \in Tasks : w.active[u].rt = "ok" => w.active[u].st = "completed"
    BY <1>2 DEF Sane
  <2>3. w.active \in [Work -> Invocations \cup {Inactive}]
    BY <1>2 DEF States
  <2> QED
    BY <1>5, <1>6, <2>1, <2>2, <2>3
<1>11. Sane(d, strategy)
  BY <1>2, <1>6, <1>8, <1>9, <1>10 DEF Sane
<1>12. Loadable(d)
  BY <1>2, <1>6, <1>8, <1>9 DEF Loadable
<1>13. Fits(pc, d, strategy)
  BY <1>1, <1>2, <1>6, <1>9, <1>11, <1>12 DEF Fits
<1>14. Facts(d) = Facts(w) /\ (straggled \/ Agree(d, log))
  <2>1. Facts(d) = Facts(w)
    BY <1>6, <1>9 DEF Facts
  <2> QED
    BY <1>2, <1>6, <2>1 DEF Agree, Heard
<1>15. Kept(d, fresh, dropped)
  BY <1>2, <1>8, <1>9 DEF Kept
<1>16. Follows(w, d)
  BY <1>2, <1>6, <1>9 DEF Follows, Stays
<1>17. Rev(store) >= d.rev \/ Follows(store, d)
  <2>1. w.rev \in Nat /\ Rev(store) \in Nat
    BY <1>2 DEF States, Rev
  <2> QED
    BY <1>2, <1>6, <1>16, <2>1
<1> QED
  BY <1>3, <1>4, <1>7, <1>8, <1>9, <1>11, <1>12, <1>13, <1>14, <1>15, <1>16, <1>17

-----------------------------------------------------------------------------
(* MemberSaves *)

(* What its three outcomes have in common. *)
Saves(t) ==
  /\ ~Racing /\ th[t] = "saving" /\ th' = [th EXCEPT ![t] = "done"] /\ saving' = None
  /\ UNCHANGED <<run, log, reported, pc, seq, todo, stopped, results, history, strategy>>
  /\ \/ /\ TakesCheckpoint(saving.state) /\ out' = out
        /\ w' = [w EXCEPT !.active = saving.state.active, !.rev = saving.state.rev]
     \/ /\ TakesCheckpoint(saving.state) \/ UNCHANGED store
        /\ out' = [out EXCEPT ![t] = "error"] /\ w' = w

LEMMA LeavesLock ==
  ASSUME SchedulerInv, NEW t \in Work, Saves(t),
         Polling => /\ Active(w') = Active(w)
                    /\ \A u \in Work : u # t => w'.active[u] = w.active[u]
                    /\ out' = out => w'.active[t] = Graph(out[t])
  PROVE  Threads' /\ LateFits' /\ EndFits' /\ Settling' /\ ~Racing' /\ \A u \in Work : ~AtLock(u)'
<1>1. /\ th[t] = "saving" /\ th' = [th EXCEPT ![t] = "done"] /\ saving' = None
      /\ out' = out \/ out' = [out EXCEPT ![t] = "error"]
      /\ UNCHANGED <<run, pc, seq, todo, stopped>> /\ ~Racing /\ ~Racing'
  BY DEF Saves, Racing
<1>2. th \in [Work -> {"none", "running", "locked", "reading", "read", "set", "saving", "saved",
                          "done"}] /\ out \in [Work -> Outcomes]
  BY DEF SchedulerInv, Typed
<1>3. AtLock(t) /\ (\A u \in Work : AtLock(u) => u = t) /\ out[t] \in {"ok", "big", "pause"}
  BY <1>1 DEF AtLock, SchedulerInv, Threads
<1>4. \A u \in Work : /\ u # t => th'[u] = th[u] /\ out'[u] = out[u]
                      /\ u = t => th'[u] = "done" /\ out'[u] \in {out[t], "error"}
                                  /\ (out'[u] # "error" => out' = out)
  BY <1>1, <1>2
<1>5. \A u \in Work : ~AtLock(u)'
  BY <1>3, <1>4 DEF AtLock
<1>6. /\ Polling \/ stopped
      /\ pc \in {"poll", "wait", "fail"} /\ run # "completed"
  BY <1>1, MembersRun
<1>7. Threads'
  <2>1. Polling' <=> Polling
    BY <1>1 DEF Polling
  <2>2. \A u \in Work : th'[u] \notin {"reading", "read", "set", "saving", "saved"}
    BY <1>5 DEF AtLock
  <2>3. \A u \in Work : th'[u] \in {"none", "running"} <=> out'[u] = "none"
    BY <1>3, <1>4 DEF SchedulerInv, Threads
  <2>4. out'[Synthesis] # "big"
    BY <1>4 DEF SchedulerInv, Threads, Work
  <2>5. Polling' => todo' = <<>> /\ \A u \in Work : th'[u] # "none" <=> u \in Active(w')
    BY <1>1, <1>4, <2>1 DEF SchedulerInv, Threads
  <2>6. Polling' => \A u \in Work : th'[u] = "done" /\ out'[u] # "error" => w'.active[u] = Graph(out'[u])
    BY <1>4, <2>1 DEF SchedulerInv, Threads
  <2>7. pc' \notin {"load", "down", "dead"}
    BY <1>1, <1>6
  <2>8. stopped' => pc' = "fail" /\ todo' = <<>>
    BY <1>1 DEF SchedulerInv, Threads
  <2> QED
    BY <1>1, <1>5, <1>6, <2>1, <2>2, <2>3, <2>4, <2>5, <2>6, <2>7, <2>8 DEF Threads
<1>8. LateFits'
  BY <1>5 DEF LateFits
<1>9. EndFits'
  BY <1>1, <1>6 DEF EndFits
<1>10. Settling'
  BY <1>1 DEF Settling
<1> QED
  BY <1>1, <1>5, <1>7, <1>8, <1>9, <1>10

LEMMA SavesTyped ==
  ASSUME SchedulerInv, NEW t \in Work, Saves(t), store' \in States \cup {None}, w' \in States
  PROVE  Typed'
<1>1. out \in [Work -> Outcomes] /\ th \in [Work -> {"none", "running", "locked", "reading", "read", "set", "saving", "saved",
                          "done"}]
  BY DEF SchedulerInv, Typed
<1>2. out' \in [Work -> Outcomes] /\ th' \in [Work -> {"none", "running", "locked", "reading", "read", "set", "saving", "saved",
                          "done"}]
  BY <1>1 DEF Saves, Outcomes
<1> QED
  BY <1>2 DEF SchedulerInv, Typed, Saves, history

LEMMA SavesWhilePolling ==
  ASSUME SchedulerInv, NEW t \in Work, Saves(t), Polling
  PROVE  SchedulerInv'
<1> DEFINE c == Late(t)
<1>1. AtLock(t) /\ th[t] = "saving" /\ ~stopped /\ todo = <<>> /\ pc \in {"poll", "wait"}
  BY DEF Saves, AtLock, SchedulerInv, Threads, Polling
<1>2. saving.state = c
  BY <1>1 DEF SchedulerInv, Threads
<1>3. /\ c \in States /\ c # None
      /\ c = [w EXCEPT !.active = [w.active EXCEPT ![t] = Graph(out[t])], !.rev = w.rev + 1]
      /\ Active(c) = Active(w) /\ t \in Active(w)
      /\ Sane(c, strategy) /\ Loadable(c) /\ ~Fast(c, strategy)
      /\ Fits(pc, c, strategy)
      /\ Facts(c) = Facts(w) /\ (straggled \/ Agree(c, log))
      /\ Kept(c, fresh, dropped)
  BY <1>1, LateWhilePolling
<1>4. /\ Busy /\ Heard(w) /\ Fits(pc, w, strategy) /\ w \in States
      /\ store # None /\ store \in States /\ store.plan = w.plan /\ w.seq = seq
      /\ store = w \/ (Polling /\ Rev(store) > w.rev)
      /\ Kept(w, fresh, dropped)
  BY <1>1, AllSaved
<1>5. c.rev = w.rev + 1 /\ w.rev \in Nat /\ c.plan = w.plan /\ c.seq = w.seq
      /\ c.active = [w.active EXCEPT ![t] = Graph(out[t])]
      /\ w.active \in [Work -> Invocations \cup {Inactive}]
  BY <1>3, <1>4 DEF States
<1>6. UNCHANGED <<run, log, reported, pc, seq, todo, stopped, fresh, dropped, straggled, strategy>>
  BY DEF Saves, history
<1>7. \/ store' = c /\ w' = c /\ out' = out
      \/ store' = c /\ w' = w /\ out' = [out EXCEPT ![t] = "error"]
      \/ store' = store /\ w' = w /\ out' = [out EXCEPT ![t] = "error"]
  <2>1. TakesCheckpoint(saving.state) => store' = c
    BY <1>2 DEF TakesCheckpoint
  <2>2. [w EXCEPT !.active = c.active, !.rev = c.rev] = c
    BY <1>3, <1>5
  <2> HIDE DEF c
  <2> QED
    BY <1>1, <1>2, <2>1, <2>2 DEF Saves
<1> HIDE DEF c
<1>8. Threads' /\ LateFits' /\ EndFits' /\ Settling' /\ ~Racing'
  <2>1. out' = out => w' = c
    <3>1. out[t] # "error"
      BY <1>1 DEF SchedulerInv, Threads
    <3>2. out \in [Work -> Outcomes]
      BY DEF SchedulerInv, Typed
    <3> QED
      BY <1>7, <3>1, <3>2
  <2>2. \A u \in Work : u # t => c.active[u] = w.active[u]
    BY <1>5
  <2>3. c.active[t] = Graph(out[t])
    BY <1>5
  <2> QED
    BY <1>3, <1>7, <2>1, <2>2, <2>3, LeavesLock
<1>9. Typed'
  BY <1>3, <1>4, <1>7, SavesTyped
<1>10. Stored'
  <2>1. CASE store' = c
    <3>1. Rev(store') >= w'.rev /\ c.rev > 0
      <4>1. Rev(store') = c.rev
        BY <1>3, <2>1 DEF Rev
      <4>2. w'.rev = w.rev \/ w'.rev = c.rev
        BY <1>7
      <4> QED
        BY <1>5, <4>1, <4>2
    <3> QED
      BY <1>3, <1>6, <2>1, <3>1 DEF Stored, Fine
  <2>2. CASE store' = store /\ w' = w
    BY <1>6, <2>2 DEF SchedulerInv, Stored
  <2> QED
    BY <1>7, <2>1, <2>2
<1>11. store' # None /\ store'.plan = store.plan /\ w'.plan = w.plan
  BY <1>3, <1>4, <1>5, <1>7
<1>12. Logged' /\ Readable'
  <2>1. Logged'
    BY <1>6 DEF SchedulerInv, Logged, Announced, Said
  <2>2. Readable'
    BY <1>3, <1>6, <1>7 DEF SchedulerInv, Readable
  <2> QED
    BY <2>1, <2>2
<1>13. Pending' = w' /\ Pending = w
  BY <1>1, <1>6, NothingLeft DEF Pending
<1>14. MainFits' /\ MainCalls'
  <2>1. Fits(pc, w', strategy)
    BY <1>3, <1>4, <1>7
  <2> QED
    BY <1>1, <1>6, <1>13, <2>1 DEF MainFits, MainCalls
<1>15. MainSays'
  <2>1. Facts(w') = Facts(w)
    BY <1>3, <1>7
  <2> QED
    BY <1>1, <1>4, <1>6, <1>13, <2>1, ScriptOfNothing DEF MainSays, Heard
<1>16. MainSaved'
  <2>1. w'.seq = seq'
    BY <1>4, <1>5, <1>6, <1>7
  <2>2. store' = w' \/ (Polling' /\ Rev(store') > w'.rev)
    <3>1. Polling'
      BY <1>6 DEF Polling
    <3>2. Rev(c) > w.rev
      BY <1>3, <1>5 DEF Rev
    <3> QED
      BY <1>4, <1>7, <3>1, <3>2
  <2> QED
    BY <1>1, <1>4, <1>6, <1>11, <2>1, <2>2 DEF MainSaved
<1>17. Fresh'
  <2>1. Kept(w', fresh, dropped)
    BY <1>3, <1>4, <1>7
  <2>2. Fast(store', strategy) \/ Kept(store', fresh, dropped)
    BY <1>3, <1>4, <1>7 DEF SchedulerInv, Fresh
  <2> QED
    BY <1>1, <1>6, <1>11, <1>13, <2>1, <2>2 DEF SchedulerInv, Fresh
<1> QED
  BY <1>8, <1>9, <1>10, <1>12, <1>14, <1>15, <1>16, <1>17 DEF SchedulerInv

LEMMA SavesWhenStopped ==
  ASSUME SchedulerInv, NEW t \in Work, Saves(t), stopped
  PROVE  SchedulerInv'
<1> DEFINE c == saving.state
<1>1. AtLock(t) /\ th[t] = "saving" /\ pc = "fail" /\ ~Polling /\ todo = <<>> /\ ~Racing
  BY DEF Saves, AtLock, SchedulerInv, Threads, Polling
<1>2. UNCHANGED <<run, log, reported, pc, seq, todo, stopped, fresh, dropped, straggled, strategy>>
  BY DEF Saves, history
<1>3. c \in States /\ c # None /\ LateState(t) = c
  BY <1>1, NoneAssumption DEF SchedulerInv, Threads, LateState
<1>4. GoodLate(c)
  BY <1>1, <1>3 DEF SchedulerInv, LateFits
<1>5. /\ store' = c \/ store' = store
      /\ w' = w \/ w' = [w EXCEPT !.active = c.active, !.rev = c.rev]
      /\ w' # w => store' = c
  BY DEF Saves, TakesCheckpoint, Newer
<1>6. w \in States /\ store \in States \cup {None} /\ c.rev \in Nat /\ w.rev \in Nat /\ c.rev > 0
  BY <1>3, <1>4 DEF SchedulerInv, Typed, States, GoodLate
<1>7. w' \in States /\ (w'.rev = w.rev \/ w'.rev = c.rev) /\ (store' # c => w' = w)
  BY <1>3, <1>5, <1>6 DEF States
<1> HIDE DEF c
<1>8. Threads' /\ LateFits' /\ EndFits' /\ Settling' /\ ~Racing'
  BY <1>1, LeavesLock
<1>9. Typed'
  BY <1>3, <1>5, <1>6, <1>7, SavesTyped
<1>10. store' = c /\ store # None => Rev(store) >= w.rev /\ Rev(store) \in Nat
  BY <1>6 DEF SchedulerInv, Stored, Rev, States
<1>11. Stored' /\ Readable'
  <2>1. CASE store' = c
    <3>1. store # None /\ store # c => c.rev > store.rev
      BY <2>1 DEF Saves, TakesCheckpoint, Newer, c
    <3>2. Rev(store') >= w'.rev
      <4>1. Rev(store') = c.rev /\ (store = None => w.rev = 0 \/ w.rev <= 0)
        BY <1>3, <1>6, <2>1 DEF Rev, SchedulerInv, Stored
      <4>2. c.rev >= w.rev
        BY <1>3, <1>6, <1>10, <2>1, <3>1, <4>1 DEF Rev, States
      <4> QED
        BY <1>6, <1>7, <4>1, <4>2
    <3>3. Stored'
      BY <1>2, <1>4, <1>6, <2>1, <3>2 DEF Stored, GoodLate, Fine
    <3>4. Readable'
      BY <1>2, <1>4, <2>1 DEF Readable, GoodLate, Fine
    <3> QED
      BY <3>3, <3>4
  <2>2. CASE store' = store /\ w' = w
    BY <1>2, <2>2 DEF SchedulerInv, Stored, Readable
  <2> QED
    BY <1>5, <2>1, <2>2
<1>12. Logged'
  BY <1>2 DEF SchedulerInv, Logged, Announced, Said
<1>13. ~Busy'
  BY <1>1, <1>2 DEF Busy
<1>14. MainFits' /\ MainCalls' /\ MainSays' /\ MainSaved'
  BY <1>1, <1>2, <1>13 DEF MainFits, MainCalls, MainSays, MainSaved
<1>15. Fresh'
  BY <1>1, <1>2, <1>3, <1>4, <1>5, <1>13 DEF SchedulerInv, Fresh, GoodLate
<1> QED
  BY <1>8, <1>9, <1>11, <1>12, <1>14, <1>15 DEF SchedulerInv

LEMMA MemberSavesInv ==
  ASSUME SchedulerInv, NEW t \in Work, MemberSaves(t)
  PROVE  SchedulerInv'
<1>1. Saves(t)
  BY DEF MemberSaves, Saves, bounds, Fault
<1>2. Polling \/ stopped
  BY <1>1, MembersRun DEF Saves
<1> QED
  BY <1>1, <1>2, SavesWhilePolling, SavesWhenStopped

-----------------------------------------------------------------------------
(* The end of a batch *)

(* No thread is left when all the members that are waited for have ended. *)
LEMMA NobodyLeft ==
  ASSUME SchedulerInv, Polling, \A t \in Active(w) : Over(t)
  PROVE  saving = None /\ ~stopped /\ ~Racing
<1>1. \A t \in Work : th[t] = "done" \/ th[t] = "none"
  BY DEF SchedulerInv, Threads, Over, Polling
<1>2. \A t \in Work : ~AtLock(t)
  BY <1>1 DEF AtLock
<1>3. saving # None => saving.task \in Work
  BY DEF SchedulerInv, Typed, Savings
<1> QED
  BY <1>2, <1>3 DEF SchedulerInv, Threads, Polling

(* What the main thread decides when no thread is left. *)
LEMMA AfterBatch ==
  ASSUME SchedulerInv, Polling, \A t \in Active(w) : Over(t), Rev(store) >= w'.rev,
         th' = [t \in Work |-> "none"], out' = [t \in Work |-> "none"],
         w' \in States, Script(todo'), pc' \in Pcs \ {"poll", "wait", "load", "down", "dead"},
         UNCHANGED <<disk, seq, saving, stopped, results, history, bounds>>
  PROVE  Typed' /\ Threads' /\ Stored' /\ Readable' /\ Logged' /\ LateFits' /\ EndFits' /\ Settling'
<1>1. saving = None /\ ~stopped /\ ~Racing /\ ~Racing'
  BY NobodyLeft DEF Racing
<1>2. \A t \in Work : th'[t] = "none" /\ out'[t] = "none" /\ ~AtLock(t)'
  BY DEF AtLock
<1>3. Typed'
  <2>1. th' \in [Work -> {"none", "running", "locked", "reading", "read", "set", "saving", "saved",
                          "done"}] /\ out' \in [Work -> Outcomes]
    BY DEF Outcomes
  <2> QED
    BY <2>1 DEF SchedulerInv, Typed, disk, history, bounds
<1>4. Threads'
  <2>1. Synthesis \in Work /\ ~Polling'
    BY DEF Work, Polling
  <2> QED
    BY <1>1, <1>2, <2>1 DEF Threads
<1>5. Stored' /\ Readable' /\ Logged'
  BY DEF SchedulerInv, Stored, Readable, Logged, disk, history, bounds
<1>6. LateFits' /\ EndFits' /\ Settling'
  BY <1>1 DEF LateFits, EndFits, Settling, SchedulerInv, disk, Polling
<1> QED
  BY <1>3, <1>4, <1>5, <1>6

LEMMA SummedUpInv == ASSUME SchedulerInv, SummedUp PROVE SchedulerInv'
<1>1. /\ pc = "wait" /\ todo = <<>> /\ Over(Synthesis)
      /\ th' = [t \in Work |-> "none"] /\ out' = [t \in Work |-> "none"]
      /\ UNCHANGED <<disk, seq, saving, stopped, results, history, bounds>>
  BY DEF SummedUp, Main
<1>2. /\ Busy /\ Heard(w) /\ Fits("wait", w, strategy) /\ w \in States
      /\ w # None /\ store # None /\ store \in States /\ store.plan = w.plan /\ w.seq = seq
      /\ store = w \/ (Polling /\ Rev(store) > w.rev)
      /\ Sane(w, strategy) /\ Polling /\ Kept(w, fresh, dropped)
  BY <1>1, AllSaved DEF Polling
<1>3. w.stage = "synthesizing" /\ Active(w) = {Synthesis} /\ Settled(w) = Tasks /\ Synthesis \in Work
  BY <1>2 DEF Fits, Sane, SummingUp, Work
<1>4. (\A t \in Active(w) : Over(t)) /\ Rev(store) >= w.rev
  BY <1>1, <1>3 DEF SchedulerInv, Stored
<1>6. CASE GiveUp /\ UNCHANGED w
  <2>1. /\ MainFits' /\ MainCalls' /\ MainSays' /\ MainSaved' /\ ~Busy'
        /\ Script(todo') /\ pc' = "fail" /\ todo' = <<>>
    BY <1>6, GivingUp
  <2>2. Typed' /\ Threads' /\ Stored' /\ Readable' /\ Logged' /\ LateFits' /\ EndFits' /\ Settling'
    BY <1>1, <1>2, <1>4, <1>6, <2>1, AfterBatch DEF Pcs
  <2>3. Fresh'
    BY <1>1, <2>1, FreshKept DEF disk, history, bounds
  <2> QED
    BY <2>1, <2>2, <2>3 DEF SchedulerInv
<1>7. CASE out[Synthesis] = "ok" /\ w' = [w EXCEPT !.partial = Partial(w)] /\ pc' = "complete"
            /\ todo' = <<Event("synthesis.completed", 0), Event("runner.completed", 0),
                         Save("completed", Nobody)>>
  <2> DEFINE e == Event("synthesis.completed", 0)
             f == Event("runner.completed", 0)
             E == <<e, f>>
             v == Save("completed", Nobody)
  <2>1. /\ w' \in States /\ w'.plan = w.plan /\ w'.started = w.started /\ w'.done = w.done
        /\ w'.failed = w.failed /\ w'.rev = w.rev /\ w'.partial = (w.failed # {})
    BY <1>2, <1>7 DEF States, Partial
  <2>2. v \in SaveCalls /\ v.stage = "completed" /\ v.active = Nobody
    BY NobodyActive DEF SaveCalls, Save, Stages
  <2>3. e \in Marks /\ f \in Marks /\ e \in EventCalls /\ f \in EventCalls /\ e # f
    <3>1. e.kind # f.kind
      BY MarksOfTasks
    <3> QED
      BY <3>1, MarksOfTasks DEF Kinds, Marks
  <2>4. EventList(E) /\ Els(E) = {e, f}
    <3>1. Len(<<e, f>>) = 2 /\ <<e, f>>[1] = e /\ <<e, f>>[2] = f
      OBVIOUS
    <3> HIDE DEF e, f
    <3>2. <<e, f>> \in Seq(EventCalls)
      BY <2>3
    <3>3. \A i \in 1..2 : i = 1 \/ i = 2
      OBVIOUS
    <3>4. 1 \in 1..2 /\ 2 \in 1..2
      OBVIOUS
    <3>5. Distinct(<<e, f>>)
      BY <2>3, <3>1, <3>3 DEF Distinct
    <3>6. Els(<<e, f>>) = {e, f}
      BY <3>1, <3>3, <3>4 DEF Els
    <3> QED
      BY <3>2, <3>5, <3>6 DEF EventList
  <2>5. todo' = Append(E, v)
    <3> HIDE DEF e, f, v
    <3>1. Append(<<e, f>>, v) = <<e, f, v>>
      BY ThreeCalls
    <3> QED
      BY <1>7, <3>1 DEF e, f, v
  <2>6. /\ Pending' \in States /\ Pending'.stage = "completed" /\ Pending'.active = Nobody
        /\ Pending'.plan = w.plan /\ Pending'.started = w.started
        /\ Pending'.done = w.done /\ Pending'.failed = w.failed /\ Pending'.partial = (w.failed # {})
    <3> HIDE DEF E, v
    <3> QED
      BY <2>1, <2>2, <2>4, <2>5, FieldsOfPending
  <2> DEFINE P == Pending'
  <2> HIDE DEF P
  <2>7. Fits("complete", P, strategy) /\ Follows(w, P)
    BY <1>2, <2>6, SummedStep DEF P
  <2>8. Facts(P) = Facts(w) \cup {e, f} /\ e \notin Facts(w) /\ f \notin Facts(w)
    BY <1>2, <1>3, <2>6, OneMark DEF P
  <2>10. MainFits' /\ MainCalls' /\ MainSays' /\ MainSaved' /\ Script(todo') /\ todo' # <<>>
    <3>1. straggled' \/ (seq' <= Len(log') /\ Said(log', seq') \cap Marks = Facts(w))
      BY <1>1, <1>2 DEF disk, history, Heard
    <3>2. /\ (Els(E) \cap Marks) \cap Facts(w) = {}
          /\ Facts(Pending') = Facts(w) \cup (Els(E) \cap Marks)
      BY <2>3, <2>4, <2>8 DEF P
    <3>3. /\ Fits(pc', Pending', strategy') /\ store'.plan = w'.plan
          /\ Rev(store') > w'.rev \/ Follows(store', Pending')
          /\ pc' # "plan"
      BY <1>1, <1>2, <1>7, <2>1, <2>7 DEF P, disk, bounds
    <3> HIDE DEF E, v
    <3> QED
      BY <2>1, <2>2, <2>4, <2>5, <3>1, <3>2, <3>3, NewCalls
  <2>11. Typed' /\ Threads' /\ Stored' /\ Readable' /\ Logged' /\ LateFits' /\ EndFits' /\ Settling'
    BY <1>1, <1>2, <1>4, <1>7, <2>1, <2>10, AfterBatch DEF Pcs
  <2>12. Fresh'
    <3>1. Settled(P) = Tasks
      BY <1>3, <2>6 DEF Settled, P
    <3>2. Kept(P, fresh, dropped)
      BY <3>1 DEF Kept
    <3> QED
      BY <1>1, <1>2, <1>7, <3>2 DEF SchedulerInv, Fresh, disk, history, bounds, P
  <2> QED
    BY <2>10, <2>11, <2>12 DEF SchedulerInv
<1>8. CASE out[Synthesis] = "pause" /\ w' = w /\ pc' = "pause"
            /\ todo' = <<Event("approval.required", Synthesis),
                         Save("synthesizing", Interrupted(w, {Synthesis}))>>
  <2> DEFINE e == Event("approval.required", Synthesis)
             E == <<e>>
             v == Save("synthesizing", Interrupted(w, {Synthesis}))
  <2>1. w.active[Synthesis] = Graph("pause")
    BY <1>1, <1>2, <1>3, <1>8 DEF SchedulerInv, Threads, Over
  <2>2. v \in SaveCalls /\ v.stage = "synthesizing" /\ v.active = Interrupted(w, {Synthesis})
    <3>1. Interrupted(w, {Synthesis}) \in [Work -> Invocations \cup {Inactive}]
      BY <2>1 DEF Interrupted, Graph, Invocations
    <3> QED
      BY <3>1 DEF SaveCalls, Save, Stages
  <2>3. e \notin Marks /\ e \in EventCalls
    BY <1>3 DEF Event, Marks, EventCalls, Kinds
  <2>4. EventList(E) /\ Els(E) = {e}
    <3>1. Len(<<e>>) = 1 /\ <<e>>[1] = e
      OBVIOUS
    <3> HIDE DEF e
    <3> QED
      BY <2>3, <3>1 DEF EventList, Distinct, Els
  <2>5. todo' = Append(E, v)
    <3> HIDE DEF e, v
    <3>1. Append(<<e>>, v) = <<e, v>>
      BY TwoCalls
    <3> QED
      BY <1>8, <3>1 DEF e, v
  <2>6. /\ Pending' \in States /\ Pending'.stage = "synthesizing"
        /\ Pending'.active = Interrupted(w, {Synthesis})
        /\ Pending'.plan = w.plan /\ Pending'.started = w.started
        /\ Pending'.done = w.done /\ Pending'.failed = w.failed
    <3>1. w' = w /\ w' \in States
      BY <1>2, <1>8
    <3> HIDE DEF E, v
    <3> QED
      BY <2>2, <2>4, <2>5, <3>1, FieldsOfPending
  <2> DEFINE P == Pending'
  <2> HIDE DEF P
  <2>7. Fits("pause", P, strategy) /\ Follows(w, P)
    BY <1>2, <2>1, <2>6, SummedStep DEF P
  <2>8. Facts(P) = Facts(w)
    <3>1. (SummingUp(w) <=> SummingUp(P)) /\ (w.stage = "completed" <=> P.stage = "completed")
      BY <1>3, <2>6 DEF SummingUp, P
    <3> QED
      BY <1>2, <2>6, <3>1, OneMark DEF P
  <2>10. MainFits' /\ MainCalls' /\ MainSays' /\ MainSaved' /\ Script(todo') /\ todo' # <<>>
    <3>1. /\ straggled' \/ (seq' <= Len(log') /\ Said(log', seq') \cap Marks = Facts(w))
          /\ w' \in States
      BY <1>1, <1>2, <1>8 DEF disk, history, Heard
    <3>2. /\ (Els(E) \cap Marks) \cap Facts(w) = {}
          /\ Facts(Pending') = Facts(w) \cup (Els(E) \cap Marks)
      BY <2>3, <2>4, <2>8 DEF P
    <3>3. /\ Fits(pc', Pending', strategy') /\ store'.plan = w'.plan
          /\ Rev(store') > w'.rev \/ Follows(store', Pending')
          /\ pc' # "plan"
      BY <1>1, <1>2, <1>8, <2>7 DEF P, disk, bounds
    <3> HIDE DEF E, v
    <3> QED
      BY <2>2, <2>4, <2>5, <3>1, <3>2, <3>3, NewCalls
  <2>11. Typed' /\ Threads' /\ Stored' /\ Readable' /\ Logged' /\ LateFits' /\ EndFits' /\ Settling'
    BY <1>1, <1>2, <1>4, <1>8, <2>10, AfterBatch DEF Pcs
  <2>12. Fresh'
    <3>1. Settled(P) = Tasks
      BY <1>3, <2>6 DEF Settled, P
    <3>2. Kept(P, fresh, dropped)
      BY <3>1 DEF Kept
    <3> QED
      BY <1>1, <1>2, <1>8, <3>2 DEF SchedulerInv, Fresh, disk, history, bounds, P
  <2> QED
    BY <2>10, <2>11, <2>12 DEF SchedulerInv
<1>9. \/ GiveUp /\ UNCHANGED w
      \/ out[Synthesis] = "ok" /\ w' = [w EXCEPT !.partial = Partial(w)] /\ pc' = "complete"
            /\ todo' = <<Event("synthesis.completed", 0), Event("runner.completed", 0),
                         Save("completed", Nobody)>>
      \/ out[Synthesis] = "pause" /\ w' = w /\ pc' = "pause"
            /\ todo' = <<Event("approval.required", Synthesis),
                         Save("synthesizing", Interrupted(w, {Synthesis}))>>
  BY DEF SummedUp, Then
<1> QED
  BY <1>6, <1>7, <1>8, <1>9

(* The main thread makes the calls E and then s, once it knows that the members of
   good have completed their tasks, those of bad have failed, and those of A wait. *)
Tells(good, bad, E, s, A) ==
  /\ good \subseteq Active(w) /\ bad \subseteq Active(w) /\ good \cap bad = {}
  /\ EventList(E) /\ Els(E) \cap Marks = TaskMarks({}, good, bad)
  /\ s \in SaveCalls /\ todo' = Append(E, s) /\ pc' # "plan"
  /\ w' = [w EXCEPT !.done = @ \cup good, !.failed = @ \cup bad]
  /\ s.stage \in {"executing", "waiting_approval"}
  /\ A = {t \in Work : s.active[t] # Inactive} /\ A \subseteq Active(w) \ (good \cup bad)
  /\ \A t \in Tasks : s.active[t].rt # "ok"
  /\ (bad # {} /\ Fast(w', strategy)) \/ Active(w) \subseteq A \cup good \cup bad
  /\ Fast(w', strategy) => pc' = "fail" /\ s.stage = "executing" /\ A = {}
  /\ ~Fast(w', strategy) =>
       \/ pc' = "loop" /\ A = {}
       \/ /\ pc' = "pause" /\ A # {}
          /\ \A t \in A : s.active[t] = [st |-> "interrupted", rt |-> "paused"]

LEMMA Joined ==
  ASSUME SchedulerInv, pc = "poll", todo = <<>>,
         NEW good, NEW bad, NEW E, NEW s, NEW A, Tells(good, bad, E, s, A),
         UNCHANGED <<disk, seq, history, bounds>>
  PROVE  /\ MainFits' /\ MainCalls' /\ MainSays' /\ MainSaved' /\ Fresh'
         /\ Script(todo') /\ todo' # <<>> /\ w' \in States /\ w'.rev = w.rev
         /\ w'.plan = w.plan /\ w'.started = w.started /\ w'.stage = "executing"
         /\ w'.done = w.done \cup good /\ w'.failed = w.failed \cup bad /\ w'.active = w.active
         /\ Pending'.plan = w.plan /\ Pending'.done = w'.done /\ Pending'.failed = w'.failed
         /\ Pending'.stage = s.stage /\ Active(Pending') = A
<1>0. /\ good \subseteq Active(w) /\ bad \subseteq Active(w) /\ good \cap bad = {}
      /\ EventList(E) /\ Els(E) \cap Marks = TaskMarks({}, good, bad)
      /\ s \in SaveCalls /\ todo' = Append(E, s) /\ pc' # "plan"
      /\ w' = [w EXCEPT !.done = @ \cup good, !.failed = @ \cup bad]
      /\ s.stage \in {"executing", "waiting_approval"}
      /\ A = {t \in Work : s.active[t] # Inactive} /\ A \subseteq Active(w) \ (good \cup bad)
      /\ \A t \in Tasks : s.active[t].rt # "ok"
      /\ (bad # {} /\ Fast(w', strategy)) \/ Active(w) \subseteq A \cup good \cup bad
      /\ Fast(w', strategy) => pc' = "fail" /\ s.stage = "executing" /\ A = {}
      /\ ~Fast(w', strategy) =>
           \/ pc' = "loop" /\ A = {}
           \/ /\ pc' = "pause" /\ A # {}
              /\ \A t \in A : s.active[t] = [st |-> "interrupted", rt |-> "paused"]
  BY DEF Tells
<1>1. /\ Busy /\ Heard(w) /\ Fits("poll", w, strategy) /\ w \in States
      /\ w # None /\ store # None /\ store \in States /\ store.plan = w.plan /\ w.seq = seq
      /\ store = w \/ (Polling /\ Rev(store) > w.rev)
      /\ Sane(w, strategy) /\ Loadable(w) /\ ~Fast(w, strategy)
      /\ Kept(w, fresh, dropped)
  BY AllSaved
<1>2. w.stage = "executing" /\ ~SummingUp(w)
  BY <1>1 DEF Fits, SummingUp
<1>3. /\ Active(w) \subseteq w.started \ Settled(w) /\ Active(w) \subseteq Tasks
  BY <1>1, <1>2, ActiveTasks
<1>4. /\ w' \in States /\ w'.plan = w.plan /\ w'.started = w.started /\ w'.stage = w.stage
      /\ w'.done = w.done \cup good /\ w'.failed = w.failed \cup bad /\ w'.rev = w.rev
      /\ w'.active = w.active
  BY <1>0, <1>1, <1>3 DEF States
<1> DEFINE P == Pending'
<1>5. /\ P \in States /\ P.stage = s.stage /\ P.active = s.active
      /\ P.plan = w.plan /\ P.started = w.started
      /\ P.done = w.done \cup good /\ P.failed = w.failed \cup bad
  BY <1>0, <1>4, FieldsOfPending
<1> HIDE DEF P
<1>6. Active(P) = A
  BY <1>0, <1>5 DEF Active
<1>7. /\ Sane(P, strategy) /\ Loadable(P) /\ Follows(w, P) /\ ~SummingUp(P)
      /\ good \subseteq Tasks \ Settled(w) /\ bad \subseteq Tasks \ Settled(w)
  <2>1. Joins(w, P, good, bad)
    BY <1>0, <1>2, <1>5, <1>6 DEF Joins
  <2> QED
    BY <1>1, <1>2, <1>5, <2>1, JoinStep
<1>8. Fast(P, strategy) <=> Fast(w', strategy)
  BY <1>4, <1>5 DEF Fast
<1>9. Fits(pc', P, strategy)
  <2>1. CASE Fast(w', strategy)
    BY <1>0, <1>5, <1>6, <1>7, <1>8, <2>1 DEF Fits, Fine
  <2>2. CASE ~Fast(w', strategy)
    <3>1. CASE pc' = "loop" /\ A = {}
      BY <1>5, <1>6, <1>7, <1>8, <2>2, <3>1 DEF Fits
    <3>2. CASE /\ pc' = "pause" /\ A # {}
               /\ \A t \in A : s.active[t] = [st |-> "interrupted", rt |-> "paused"]
      BY <1>5, <1>6, <1>7, <1>8, <2>2, <3>2 DEF Fits
    <3> QED
      BY <1>0, <2>2, <3>1, <3>2
  <2> QED
    BY <2>1, <2>2
<1>10. /\ Facts(P) = Facts(w) \cup TaskMarks({}, good, bad)
       /\ Facts(w) \cap TaskMarks({}, good, bad) = {}
  <2> DEFINE O == {}
  <2>1. /\ (SummingUp(w) <=> SummingUp(P)) /\ (w.stage = "completed" <=> P.stage = "completed")
        /\ O \cap w.started = {} /\ good \cap w.done = {} /\ bad \cap w.failed = {}
    BY <1>0, <1>2, <1>5, <1>7 DEF Settled
  <2>2. /\ P \in States /\ P.plan = w.plan /\ P.started = w.started \cup O
        /\ P.done = w.done \cup good /\ P.failed = w.failed \cup bad
    BY <1>5
  <2>3. good \in SUBSET Tasks /\ bad \in SUBSET Tasks /\ O \in SUBSET Tasks
    BY <1>0, <1>3
  <2> HIDE DEF O
  <2>4. /\ Facts(P) = Facts(w) \cup TaskMarks(O, good, bad)
        /\ Facts(w) \cap TaskMarks(O, good, bad) = {}
    <3>1. w \in States
      BY <1>1
    <3> QED
      BY ONLY <2>1, <2>2, <2>3, <3>1, FactsGrow
  <2> QED
    BY <2>4 DEF O
<1>11. MainFits' /\ MainCalls' /\ MainSays' /\ MainSaved' /\ Script(todo') /\ todo' # <<>>
  <2>1. straggled' \/ (seq' <= Len(log') /\ Said(log', seq') \cap Marks = Facts(w))
    BY <1>1 DEF disk, history, Heard
  <2>2. /\ (Els(E) \cap Marks) \cap Facts(w) = {}
        /\ Facts(Pending') = Facts(w) \cup (Els(E) \cap Marks)
    BY <1>0, <1>10 DEF P
  <2>3. /\ Fits(pc', Pending', strategy') /\ store'.plan = w'.plan
        /\ Rev(store') > w'.rev \/ Follows(store', Pending')
    BY <1>1, <1>4, <1>7, <1>9 DEF P, disk, bounds
  <2> QED
    BY <1>0, <1>4, <2>1, <2>2, <2>3, NewCalls
<1>12. Fresh'
  <2>1. Settled(P) = Settled(w) \cup good \cup bad
    BY <1>5 DEF Settled
  <2>2. Fast(P, strategy) \/ Kept(P, fresh, dropped)
    <3>1. SUFFICES ASSUME ~Fast(P, strategy), NEW t \in Tasks, fresh[t] >= 1
                   PROVE  t \in Settled(P) \cup Active(P) \cup dropped
      BY DEF Kept
    <3>2. Active(w) \subseteq A \cup good \cup bad
      BY <1>0, <1>8, <3>1
    <3> QED
      BY <1>1, <1>6, <2>1, <3>1, <3>2 DEF Kept
  <2>3. pc' = "loop" => Active(P) = {}
    BY <1>0, <1>6, <1>8
  <2>4. Kept(P, fresh, dropped) /\ Active(P) = {} => Begun(P, fresh, dropped)
    BY DEF Kept, Begun
  <2>5. pc' # "launch" /\ (pc' = "loop" => ~Fast(P, strategy))
    BY <1>0, <1>8
  <2> QED
    BY <1>1, <2>2, <2>3, <2>4, <2>5 DEF SchedulerInv, Fresh, disk, history, bounds, P
<1> QED
  BY <1>0, <1>2, <1>4, <1>5, <1>6, <1>11, <1>12 DEF P

(* The kind of each event of the outcomes of some members. *)
Verdict(S) == [t \in Work |-> IF t \in Failing(S) THEN "task.failed" ELSE "task.completed"]

LEMMA JoinTold ==
  ASSUME NEW S \in SUBSET Tasks
  PROVE  /\ EventList(Verdicts(S)) /\ Els(Verdicts(S)) \subseteq Marks
         /\ Els(Verdicts(S)) = TaskMarks({}, Completing(S), Failing(S))
<1> DEFINE bad == Failing(S)
           good == Completing(S)
           B == bad \cup good
           told == [i \in 1..Cardinality(B) |->
                      LET t == Order(B)[i] IN
                      Event(IF t \in bad THEN "task.failed" ELSE "task.completed", t)]
           kind == Verdict(S)
<1>0. Verdicts(S) = told
  BY DEF Verdicts
<1>1. B \in SUBSET Work /\ good \cap bad = {}
  BY DEF Failing, Completing, Work
<1>2. /\ kind \in [Work -> Kinds]
      /\ \A t \in Work : kind[t] = IF t \in bad THEN "task.failed" ELSE "task.completed"
  BY DEF Verdict, Kinds
<1>3. \A i \in 1..Cardinality(B) : Order(B)[i] \in Work
  <2> HIDE DEF B
  <2>1. Order(B) \in [1..Cardinality(B) -> B]
    BY <1>1, OrderLists
  <2> QED
    BY <1>1, <2>1
<1>4. told = ListOf(kind, B)
  <2> HIDE DEF B, bad, kind
  <2> QED
    BY <1>2, <1>3 DEF ListOf
<1>5. EventList(told) /\ Els(told) = {Event(kind[t], t) : t \in B}
  <2> HIDE DEF B, kind, told
  <2> QED
    BY <1>1, <1>2, <1>4, ListOfEvents
<1> HIDE DEF kind, told
<1>6. \A t \in Work : Event(kind[t], t) \in Marks
  BY <1>2, MarksOfTasks DEF Kinds
<1>7. Els(told) \subseteq Marks
  BY <1>1, <1>5, <1>6
<1>8. Els(told) = TaskMarks({}, good, bad)
  <2> HIDE DEF good, bad
  <2>1. ASSUME NEW e \in Els(told)  PROVE e \in TaskMarks({}, good, bad)
    <3>1. PICK t \in B : e = Event(kind[t], t)
      BY <1>5, <2>1
    <3>2. CASE t \in bad
      <4>1. e = Event("task.failed", t)
        BY <1>1, <1>2, <3>1, <3>2
      <4> QED
        BY <3>2, <4>1 DEF TaskMarks
    <3>3. CASE t \notin bad
      <4>1. e = Event("task.completed", t) /\ t \in good
        BY <1>1, <1>2, <3>1, <3>3
      <4> QED
        BY <4>1 DEF TaskMarks
    <3> QED
      BY <3>2, <3>3
  <2>2. ASSUME NEW e \in TaskMarks({}, good, bad)  PROVE e \in Els(told)
    <3>1. CASE \E t \in good : e = Event("task.completed", t)
      <4>1. PICK t \in good : e = Event("task.completed", t)
        BY <3>1
      <4>2. t \in B /\ kind[t] = "task.completed"
        BY <1>1, <1>2, <4>1
      <4> QED
        BY <1>5, <4>1, <4>2
    <3>2. CASE \E t \in bad : e = Event("task.failed", t)
      <4>1. PICK t \in bad : e = Event("task.failed", t)
        BY <3>2
      <4>2. t \in B /\ kind[t] = "task.failed"
        BY <1>1, <1>2, <4>1
      <4> QED
        BY <1>5, <4>1, <4>2
    <3> QED
      BY <2>2, <3>1, <3>2 DEF TaskMarks
  <2> QED
    BY <2>1, <2>2
<1> QED
  BY <1>0, <1>5, <1>7, <1>8

(* What the main thread does with the outcomes of some members. *)
LEMMA JoinCalls ==
  ASSUME SchedulerInv, pc = "poll", todo = <<>>, NEW S, S \subseteq Active(w), Join(S),
         \A t \in S : Over(t), S = Active(w),
         UNCHANGED <<disk, seq, history, bounds>>
  PROVE  /\ MainFits' /\ MainCalls' /\ MainSays' /\ MainSaved' /\ Fresh'
         /\ Script(todo') /\ todo' # <<>> /\ w' \in States /\ w'.rev = w.rev
         /\ pc' \in {"fail", "pause", "loop"}
         /\ (strategy = "fail_fast" /\ Failing(S) # {} => pc' = "fail")
         /\ w'.plan = w.plan /\ w'.started = w.started /\ w'.stage = "executing"
         /\ w'.done = w.done \cup Completing(S) /\ w'.failed = w.failed \cup Failing(S)
         /\ w'.active = w.active
         /\ Pending'.plan = w.plan /\ Pending'.done = w'.done /\ Pending'.failed = w'.failed
         /\ pc' = "fail" => Pending'.stage = "executing" /\ Active(Pending') = {}
<1> DEFINE bad == Failing(S)
           good == Completing(S)
           asks == Asking(S)
           told == Verdicts(S)
<1>1. /\ w' = [w EXCEPT !.done = @ \cup good, !.failed = @ \cup bad]
      /\ IF bad # {} /\ strategy = "fail_fast"
           THEN todo' = Append(told, Save("executing", Nobody)) /\ pc' = "fail"
         ELSE IF asks # {}
           THEN /\ todo' = Append(told \o Events("approval.required", asks),
                                  Save("waiting_approval", Interrupted(w, asks)))
                /\ pc' = "pause"
         ELSE todo' = Append(told, Save("executing", Nobody)) /\ pc' = "loop"
  BY DEF Join, Then
<1>2. /\ w \in States /\ Sane(w, strategy) /\ Loadable(w) /\ ~Fast(w, strategy)
      /\ w.stage = "executing"
  BY AllSaved DEF Fits
<1>3. Active(w) \subseteq Tasks /\ S \subseteq Tasks /\ S \subseteq Work
  BY <1>2, ActiveTasks DEF Work
<1>4. /\ EventList(told) /\ Els(told) \subseteq Marks
      /\ Els(told) \cap Marks = TaskMarks({}, good, bad)
  BY <1>3, JoinTold
<1> HIDE DEF told
<1>5. S = good \cup bad \cup asks /\ good \cap bad = {} /\ asks \cap (good \cup bad) = {}
  <2>1. \A t \in S : out[t] \in Outcomes /\ out[t] # "none"
    BY <1>3 DEF SchedulerInv, Typed, Threads, Over
  <2> QED
    BY <2>1 DEF Outcomes, Completing, Failing, Asking
<1>6. \A t \in asks : w.active[t] = Graph("pause")
  BY <1>3 DEF SchedulerInv, Threads, Over, Polling, Asking
<1>7. /\ good \in SUBSET Active(w) /\ bad \in SUBSET Active(w)
      /\ w'.done = w.done \cup good /\ w'.failed = w.failed \cup bad
  BY <1>1, <1>2, <1>5 DEF States
<1> HIDE DEF good, bad, asks
<1> DEFINE n == Save("executing", Nobody)
<1>8. /\ n \in SaveCalls /\ n.stage = "executing" /\ n.active = Nobody
      /\ \A t \in Tasks : n.active[t].rt # "ok"
      /\ {t \in Work : n.active[t] # Inactive} = {}
  BY NobodyActive DEF SaveCalls, Save, Stages, Nobody, Inactive, Work
<1>9. CASE bad # {} /\ strategy = "fail_fast"
  <2>1. todo' = Append(told, n) /\ pc' = "fail"
    BY <1>1, <1>9
  <2>2. Fast(w', strategy)
    BY <1>7, <1>9 DEF Fast
  <2> HIDE DEF n
  <2>3. Tells(good, bad, told, n, {})
    BY <1>1, <1>4, <1>5, <1>7, <1>8, <1>9, <2>1, <2>2 DEF Tells
  <2> QED
    BY <1>8, <2>1, <2>3, Joined DEF good, bad
<1>10. CASE ~(bad # {} /\ strategy = "fail_fast") /\ asks # {}
  <2> DEFINE E == told \o Events("approval.required", asks)
             s == Save("waiting_approval", Interrupted(w, asks))
  <2>1. todo' = Append(E, s) /\ pc' = "pause"
    BY <1>1, <1>10
  <2>2. ~Fast(w', strategy) /\ S = Active(w)
    BY <1>2, <1>7, <1>10 DEF Fast
  <2>3. asks \in SUBSET Work /\ "approval.required" \in Kinds
    BY <1>3, <1>5 DEF Kinds
  <2>4. /\ EventList(Events("approval.required", asks))
        /\ Els(Events("approval.required", asks)) = {Event("approval.required", t) : t \in asks}
    BY <2>3, EventsListed
  <2>5. \A t : Event("approval.required", t) \notin Marks
    BY DEF Event, Marks
  <2>6. Els(Events("approval.required", asks)) \cap Marks = {}
    BY <2>4, <2>5
  <2>7. EventList(E) /\ Els(E) = Els(told) \cup Els(Events("approval.required", asks))
    BY <1>4, <2>4, <2>6, ListsJoin
  <2>8. Els(E) \cap Marks = TaskMarks({}, good, bad)
    BY <1>4, <2>6, <2>7
  <2>10. \A t \in Work : Interrupted(w, asks)[t] =
            IF t \in asks THEN [st |-> "interrupted", rt |-> "paused"] ELSE Inactive
    BY <1>6 DEF Interrupted, Graph
  <2>11. Interrupted(w, asks) \in [Work -> Invocations \cup {Inactive}]
    <3>1. Interrupted(w, asks) = [t \in Work |-> Interrupted(w, asks)[t]]
      BY DEF Interrupted
    <3>2. \A t \in Work : Interrupted(w, asks)[t] \in Invocations \cup {Inactive}
      BY <2>10 DEF Invocations
    <3> QED
      BY <3>1, <3>2
  <2>12. /\ s \in SaveCalls /\ s.stage = "waiting_approval" /\ s.active = Interrupted(w, asks)
    BY <2>11 DEF SaveCalls, Save, Stages
  <2>13. \A t \in Tasks : s.active[t].rt # "ok"
    <3>1. \A t \in Tasks : t \in Work
      BY DEF Work
    <3> QED
      BY <2>10, <2>12, <3>1 DEF Inactive
  <2>14. asks = {t \in Work : s.active[t] # Inactive}
    BY <2>3, <2>10, <2>12 DEF Inactive
  <2>15. \A t \in asks : s.active[t] = [st |-> "interrupted", rt |-> "paused"]
    BY <2>3, <2>10, <2>12
  <2>16. asks \subseteq Active(w) \ (good \cup bad) /\ Active(w) \subseteq asks \cup good \cup bad
    BY <1>5, <2>2
  <2> HIDE DEF E, s
  <2> QED
    <3>1. Tells(good, bad, E, s, asks)
      BY <1>1, <1>5, <1>7, <1>10, <2>1, <2>2, <2>7, <2>8, <2>12, <2>13, <2>14, <2>15, <2>16
         DEF Tells
    <3> QED
      BY <1>10, <2>1, <3>1, Joined DEF good, bad
<1>11. CASE ~(bad # {} /\ strategy = "fail_fast") /\ asks = {}
  <2>1. todo' = Append(told, n) /\ pc' = "loop"
    BY <1>1, <1>11
  <2>2. ~Fast(w', strategy) /\ S = Active(w)
    BY <1>2, <1>7, <1>11 DEF Fast
  <2> HIDE DEF n
  <2>3. Tells(good, bad, told, n, {})
    BY <1>1, <1>4, <1>5, <1>7, <1>8, <1>11, <2>1, <2>2 DEF Tells
  <2> QED
    BY <1>11, <2>1, <2>3, Joined DEF good, bad
<1> QED
  BY <1>9, <1>10, <1>11

LEMMA JoinAllInv == ASSUME SchedulerInv, JoinAll PROVE SchedulerInv'
<1>1. /\ pc = "poll" /\ todo = <<>> /\ (\A t \in Active(w) : Over(t)) /\ Join(Active(w)) /\ Polling
      /\ th' = [t \in Work |-> "none"] /\ out' = [t \in Work |-> "none"]
      /\ UNCHANGED <<disk, seq, saving, stopped, results, history, bounds>>
  BY DEF JoinAll, Main, Polling
<1>2. /\ MainFits' /\ MainCalls' /\ MainSays' /\ MainSaved' /\ Fresh'
      /\ Script(todo') /\ w' \in States /\ w'.rev = w.rev
      /\ pc' \in {"fail", "pause", "loop"}
  <2> DEFINE S == Active(w)
  <2>1. S \subseteq Active(w) /\ Join(S) /\ (\A t \in S : Over(t)) /\ S = Active(w)
    BY <1>1
  <2> HIDE DEF S
  <2> QED
    BY <1>1, <2>1, JoinCalls
<1>3. Rev(store) >= w'.rev
  BY <1>2 DEF SchedulerInv, Stored
<1>4. Typed' /\ Threads' /\ Stored' /\ Readable' /\ Logged' /\ LateFits' /\ EndFits' /\ Settling'
  BY <1>1, <1>2, <1>3, AfterBatch DEF Pcs
<1> QED
  BY <1>2, <1>4 DEF SchedulerInv

-----------------------------------------------------------------------------
(* The settling of a batch that a failure has ended *)

LEMMA RaceFacts ==
  ASSUME SchedulerInv, Racing
  PROVE  /\ pc = "fail" /\ stopped /\ strategy = "fail_fast" /\ ~Busy
         /\ Typed /\ Threads /\ Racers /\ Pictures /\ RaceSays
         /\ w \in States /\ store \in States \cup {None} /\ w.rev \in Nat
         /\ Rev(store) \in Nat /\ Rev(store) >= w.rev /\ NextRev(w) = w.rev + 1
         /\ results \in Results /\ results.done \subseteq Tasks /\ results.failed \subseteq Tasks
         /\ todo # <<>> => EndsInSave(todo)
         /\ Crew \subseteq Tasks
<1>1. Typed /\ Threads /\ Racers /\ Pictures /\ RaceSays
  BY DEF SchedulerInv, Settling
<1>2. pc = "fail" /\ stopped /\ strategy = "fail_fast" /\ ~Busy
  BY <1>1 DEF Racers, Threads, Busy
<1>3. w \in States /\ store \in States \cup {None} /\ w.rev \in Nat /\ NextRev(w) = w.rev + 1
  BY <1>1 DEF Typed, States, NextRev
<1>4. Rev(store) \in Nat /\ Rev(store) >= w.rev
  BY <1>3 DEF Rev, States, SchedulerInv, Stored
<1>5. results \in Results /\ results.done \subseteq Tasks /\ results.failed \subseteq Tasks
  BY <1>1 DEF Typed, Racing, Results
<1>6. todo # <<>> => EndsInSave(todo)
  BY <1>2 DEF SchedulerInv, MainCalls
<1>7. Crew \subseteq Tasks
  BY <1>1, <1>3 DEF Racers, States
<1> QED
  BY <1>1, <1>2, <1>3, <1>4, <1>5, <1>6, <1>7

(* What does not matter while it is settled. *)
LEMMA InRace ==
  ASSUME SchedulerInv, Racing, Racing', pc' = "fail", UNCHANGED run
  PROVE  MainFits' /\ MainSays' /\ MainSaved' /\ LateFits' /\ EndFits' /\ ~Busy'
<1>1. ~Busy'
  BY DEF Busy
<1>2. MainFits' /\ MainSays' /\ MainSaved'
  BY <1>1 DEF MainFits, MainSays, MainSaved
<1>3. LateFits'
  BY DEF LateFits
<1>4. EndFits'
  <2>1. run # "completed"
    BY RaceFacts DEF SchedulerInv, EndFits
  <2> QED
    BY <2>1 DEF EndFits
<1> QED
  BY <1>1, <1>2, <1>3, <1>4

(* The main thread's steps. *)
LEMMA RaceThreads ==
  ASSUME SchedulerInv, Racing, Racing', pc' = "fail", UNCHANGED <<th, out, saving, stopped>>
  PROVE  Threads' /\ Crew' = Crew
<1>1. stopped /\ Threads
  BY RaceFacts
<1>2. (\A u \in Work : AtLock(u)' <=> AtLock(u)) /\ ~Polling'
  BY DEF AtLock, Polling
<1>3. Threads'
  BY <1>1, <1>2 DEF Threads
<1> QED
  BY <1>3 DEF Crew

(* A picture stays one when more is recorded, and when nothing but saves is left. *)
PictureStays ==
  /\ UNCHANGED <<fresh, dropped, strategy>> /\ Crew' = Crew
  /\ w'.plan = w.plan /\ w'.started = w.started
  /\ results.done \subseteq results'.done /\ results.failed \subseteq results'.failed
  /\ results'.done \subseteq results.done \cup Crew /\ results'.failed \subseteq results.failed \cup Crew
  /\ \/ NextCall("event")
     \/ /\ results'.done = results.done /\ results'.failed = results.failed
        /\ results'.next # "count" /\ Els(todo') \subseteq Els(todo)

LEMMA PicturesStay ==
  ASSUME SchedulerInv, Racing, PictureStays, NEW c, Pictured(c)
  PROVE  Pictured(c)'
<1>1. ASSUME NextCall("event")
      PROVE  \E e \in Els(todo) : e.call # "save"
  <2>1. Head(todo) \in Els(todo) /\ Head(todo).call = "event"
    BY <1>1, RaceFacts, FirstCall DEF NextCall, Typed
  <2> QED
    BY <2>1
<1> QED
  BY <1>1 DEF PictureStays, Pictured

LEMMA LeadStays ==
  ASSUME SchedulerInv, Racing, PictureStays, NEW a, NEW c, Leads(a, c)
  PROVE  Leads(a, c)'
<1>1. Pictured(a)'
  BY PicturesStay DEF Leads
<1> QED
  BY <1>1 DEF Leads, PictureStays

(* The main thread changes nothing that is saved. *)
LEMMA PicturesKept ==
  ASSUME SchedulerInv, Racing, PictureStays, UNCHANGED <<store, w, th, saving>>
  PROVE  Pictures'
<1> USE RaceFacts
<1>1. \A c : Pictured(c) => Pictured(c)'
  BY PicturesStay
<1>2. \A a, c : Leads(a, c) => Leads(a, c)'
  BY LeadStays
<1>3. \A c : Ahead(c) => Ahead(c)'
  <2> TAKE c
  <2> DEFINE a == store
  <2>1. Leads(a, c) => Leads(a, c)'
    BY <1>2 DEF Ahead
  <2> QED
    BY <2>1 DEF Ahead
<1> QED
  BY <1>1, <1>3 DEF Pictures, NextRev

LEMMA NoNews ==
  ASSUME NEW r \in Results, NEW D, NEW F, r.done = D, r.failed = F
  PROVE  [r EXCEPT !.done = D, !.failed = F] = r
  BY DEF Results

(* The outcomes that are left, when one has been recorded. *)
LEMMA RecordOutcomeInv == ASSUME SchedulerInv, RecordOutcome PROVE SchedulerInv'
<1> DEFINE e == Head(todo)
<1>1. /\ Racing /\ results.next = "record" /\ todo # <<>> /\ e.call = "event"
      /\ results' = [Recorded(e) EXCEPT !.next = "count"]
      /\ UNCHANGED <<disk, pc, w, seq, todo, th, out, saving, stopped, history, bounds>>
  BY DEF RecordOutcome, At, NextCall
<1>2. /\ pc = "fail" /\ Typed /\ Threads /\ Racers /\ Pictures /\ RaceSays /\ results \in Results
      /\ w \in States /\ Crew \subseteq Tasks
  BY <1>1, RaceFacts
<1>3. e \in Els(todo) /\ Script(todo)
  BY <1>1, <1>2, FirstCall DEF Typed
<1>4. Outcome(e) /\ e.task \in Crew /\ e.task \in w.started
      /\ e.task \notin results.done \cup results.failed
  <2>1. e # Save("executing", Nobody)
    BY <1>1 DEF Save
  <2>2. Outcome(e) /\ e \in Unrecorded
    BY <1>1, <1>2, <1>3, <2>1 DEF Racers, Unrecorded, At
  <2> QED
    BY <1>2, <2>2 DEF Racers, Outcome
<1>5. /\ results'.next = "count"
      /\ results'.done = IF e.kind = "task.completed" THEN results.done \cup {e.task} ELSE results.done
      /\ results'.failed = IF e.kind = "task.failed" THEN results.failed \cup {e.task} ELSE results.failed
      /\ results' \in Results
  BY <1>1, <1>2, <1>4 DEF Recorded, Results
<1>6. Racing'
  BY <1>5, NoneAssumption DEF Racing, Results
<1>7. Typed'
  BY <1>1, <1>2, <1>5 DEF Typed, disk, history, bounds
<1>8. Threads' /\ Crew' = Crew
  BY <1>1, <1>2, <1>6, RaceThreads
<1>9. MainFits' /\ MainSays' /\ MainSaved' /\ LateFits' /\ EndFits' /\ ~Busy'
  BY <1>1, <1>2, <1>6, InRace DEF disk
<1>10. Stored' /\ Readable' /\ Logged' /\ MainCalls'
  BY <1>1, <1>2 DEF SchedulerInv, Stored, Readable, Logged, Announced, Said, MainCalls, disk, history, bounds
<1>11. Fresh'
  BY <1>1, <1>2, <1>9, FreshKept DEF disk, history, bounds
<1>12. Pictures'
  <2>1. PictureStays
    BY <1>1, <1>4, <1>5, <1>8 DEF PictureStays, NextCall, history, bounds
  <2> QED
    BY <1>1, <2>1, PicturesKept DEF disk
<1>13. RaceSays'
  <2>1. Reported' = seq /\ Reported = seq
    BY <1>1, <1>5 DEF Reported, At
  <2>2. Finale' = Finale
    <3>1. \A k : Untold(k)' = Untold(k)
      BY <1>1 DEF Untold
    <3>2. /\ e.kind = "task.completed" => e.task \in Untold("task.completed")
          /\ e.kind = "task.failed" => e.task \in Untold("task.failed")
      BY <1>2, <1>3, <1>4, MarksOfTasks DEF Untold, Outcome, Work
    <3>3. /\ results'.done \cup Untold("task.completed") = results.done \cup Untold("task.completed")
          /\ results'.failed \cup Untold("task.failed") = results.failed \cup Untold("task.failed")
      BY <1>5, <3>2
    <3> QED
      BY <1>1, <3>1, <3>3 DEF Finale
  <2>3. Facts(Finale)' = Facts(Finale)
    BY <2>2 DEF Facts
  <2> QED
    BY <1>1, <1>2, <2>1, <2>3 DEF RaceSays, disk, history
<1>14. Racers'
  <2>1. results'.done \cap results'.failed = {} /\ results'.done \subseteq w.started
    BY <1>2, <1>4, <1>5 DEF Racers, Outcome
  <2>2. \A f \in Unrecorded' : f \in Unrecorded /\ f.task \notin results'.done \cup results'.failed
    <3>1. TAKE f \in Unrecorded'
    <3>2. f \in Els(todo) /\ f.call = "event" /\ f # e
      BY <1>1, <1>5 DEF Unrecorded, At
    <3>3. f \in Unrecorded /\ f.task # e.task
      BY <1>1, <1>2, <1>3, <3>2 DEF Unrecorded, At, Racers
    <3> QED
      BY <1>2, <1>5, <3>3 DEF Racers
  <2>3. results' = Recorded(e)'
    <3> DEFINE r == results'
               D == IF e.kind = "task.completed" THEN r.done \cup {e.task} ELSE r.done
               F == IF e.kind = "task.failed" THEN r.failed \cup {e.task} ELSE r.failed
    <3>1. r \in Results /\ r.done = D /\ r.failed = F
      BY <1>5
    <3>2. Recorded(e)' = [r EXCEPT !.done = D, !.failed = F]
      BY <1>1 DEF Recorded
    <3> HIDE DEF r, D, F
    <3>3. Recorded(e)' = r
      BY <3>1, <3>2, NoNews
    <3> QED
      BY <3>3 DEF r
  <2>4. \A k : Untold(k)' = Untold(k)
    BY <1>1 DEF Untold
  <2>5. NextCall("event")'
    BY <1>1 DEF NextCall
  <2>6. results'.failed # {} \/ Untold("task.failed") # {} \/ todo = <<>>
    BY <1>2, <1>5 DEF Racers
  <2> QED
    BY <1>1, <1>2, <1>8, <2>1, <2>2, <2>3, <2>4, <2>5, <2>6 DEF Racers, Outcome, bounds
<1> QED
  BY <1>7, <1>8, <1>9, <1>10, <1>11, <1>12, <1>13, <1>14 DEF SchedulerInv, Settling

LEMMA CountOutcomeInv == ASSUME SchedulerInv, CountOutcome PROVE SchedulerInv'
<1>1. /\ Racing /\ results.next = "count" /\ seq' = seq + 1
      /\ results' = [results EXCEPT !.next = "call"]
      /\ UNCHANGED <<disk, pc, w, todo, th, out, saving, stopped, history, bounds>>
  BY DEF CountOutcome, At
<1>2. /\ pc = "fail" /\ Typed /\ Threads /\ Racers /\ Pictures /\ RaceSays /\ results \in Results
      /\ w \in States /\ seq \in Nat
  BY <1>1, RaceFacts DEF Typed
<1>3. NextCall("event") /\ results = Recorded(Head(todo))
  BY <1>1, <1>2 DEF Racers, At
<1>4. /\ results'.next = "call" /\ results'.done = results.done /\ results'.failed = results.failed
      /\ results' \in Results
  BY <1>1, <1>2 DEF Results
<1>5. Racing'
  BY <1>4, NoneAssumption DEF Racing, Results
<1>6. Typed'
  BY <1>1, <1>2, <1>4 DEF Typed, disk, history, bounds
<1>7. Threads' /\ Crew' = Crew
  BY <1>1, <1>2, <1>5, RaceThreads
<1>8. MainFits' /\ MainSays' /\ MainSaved' /\ LateFits' /\ EndFits' /\ ~Busy'
  BY <1>1, <1>2, <1>5, InRace DEF disk
<1>9. Stored' /\ Readable' /\ Logged' /\ MainCalls'
  BY <1>1, <1>2 DEF SchedulerInv, Stored, Readable, Logged, Announced, Said, MainCalls, disk, history, bounds
<1>10. Fresh'
  BY <1>1, <1>2, <1>8, FreshKept DEF disk, history, bounds
<1>11. Pictures'
  <2>1. PictureStays
    BY <1>1, <1>3, <1>4, <1>7 DEF PictureStays, history, bounds
  <2> QED
    BY <1>1, <2>1, PicturesKept DEF disk
<1>12. Untold("task.completed")' = Untold("task.completed") /\ Untold("task.failed")' = Untold("task.failed")
       /\ NextCall("event")'
  BY <1>1, <1>3 DEF Untold, NextCall
<1>13. RaceSays'
  <2>1. Reported' = seq /\ Reported = seq
    BY <1>1, <1>2, <1>4, <1>5, <1>12 DEF Reported, At
  <2>2. Finale' = Finale
    BY <1>1, <1>4, <1>12 DEF Finale
  <2>3. Facts(Finale)' = Facts(Finale)
    BY <2>2 DEF Facts
  <2> QED
    BY <1>1, <1>2, <2>1, <2>3 DEF RaceSays, disk, history
<1>14. Racers'
  <2>1. Unrecorded' = Unrecorded
    BY <1>1, <1>4 DEF Unrecorded, At
  <2>2. results' = Recorded(Head(todo))'
    <3> DEFINE e == Head(todo)
    <3> DEFINE r == results'
               D == IF e.kind = "task.completed" THEN r.done \cup {e.task} ELSE r.done
               F == IF e.kind = "task.failed" THEN r.failed \cup {e.task} ELSE r.failed
    <3>0. /\ results.done = IF e.kind = "task.completed" THEN results.done \cup {e.task} ELSE results.done
          /\ results.failed = IF e.kind = "task.failed" THEN results.failed \cup {e.task} ELSE results.failed
      BY <1>2, <1>3 DEF Recorded, Results
    <3>1. r \in Results /\ r.done = D /\ r.failed = F
      BY <1>4, <3>0
    <3>2. Recorded(e)' = [r EXCEPT !.done = D, !.failed = F]
      BY <1>1 DEF Recorded
    <3> HIDE DEF r, D, F
    <3>3. Recorded(e)' = r
      BY <3>1, <3>2, NoNews
    <3> QED
      BY <3>3 DEF r
  <2> QED
    BY <1>1, <1>2, <1>4, <1>7, <1>12, <2>1, <2>2 DEF Racers, Outcome, At, bounds
<1> QED
  BY <1>6, <1>7, <1>8, <1>9, <1>10, <1>11, <1>13, <1>14 DEF SchedulerInv, Settling

(* The state that all the outcomes lead to. *)
LEMMA FinaleFits ==
  ASSUME SchedulerInv, Racing
  PROVE  /\ Finale.done \cap Finale.failed = {}
         /\ Finale.plan = w.plan /\ Finale.started = w.started /\ Finale.stage = w.stage
         /\ Finale.done = results.done \cup Untold("task.completed")
         /\ Finale.failed = results.failed \cup Untold("task.failed")
<1>1. /\ Racers /\ Typed /\ w \in States /\ results \in Results
  BY RaceFacts
<1>2. /\ Finale.plan = w.plan /\ Finale.started = w.started /\ Finale.stage = w.stage
      /\ Finale.done = results.done \cup Untold("task.completed")
      /\ Finale.failed = results.failed \cup Untold("task.failed")
  BY <1>1 DEF Finale, States
<1>3. ASSUME NEW t \in Finale.done, t \in Finale.failed
      PROVE  FALSE
  <2> DEFINE c == Event("task.completed", t)
             f == Event("task.failed", t)
  <2>1. c.call = "event" /\ f.call = "event" /\ c.task = t /\ f.task = t /\ c # f
    BY DEF Event
  <2>2. ~(c \in Els(todo) /\ f \in Els(todo))
    BY <1>1, <2>1 DEF Racers
  <2>3. \A e \in {c, f} : e \in Els(todo) /\ t \in results.done \cup results.failed =>
                            ~At("record") /\ e = Head(todo)
    BY <1>1, <2>1 DEF Racers, Unrecorded
  <2>4. t \in results.done => t \notin results.failed
    BY <1>1 DEF Racers
  <2>5. CASE t \in results.done /\ f \in Els(todo)
    <3>1. f = Head(todo) /\ ~At("record") /\ NextCall("event")
      <4>1. todo # <<>>
        BY <2>5, ScriptOfNothing
      <4> QED
        BY <2>1, <2>3, <2>5, <4>1 DEF NextCall
    <3>2. results = Recorded(f)
      BY <1>1, <3>1 DEF Racers
    <3>3. t \in results.failed
      BY <1>1, <2>1, <3>2 DEF Recorded, Results, Event
    <3> QED
      BY <2>4, <2>5, <3>3
  <2>6. CASE t \in results.failed /\ c \in Els(todo)
    <3>1. c = Head(todo) /\ ~At("record") /\ NextCall("event")
      <4>1. todo # <<>>
        BY <2>6, ScriptOfNothing
      <4> QED
        BY <2>1, <2>3, <2>6, <4>1 DEF NextCall
    <3>2. results = Recorded(c)
      BY <1>1, <3>1 DEF Racers
    <3>3. t \in results.done
      BY <1>1, <2>1, <3>2 DEF Recorded, Results, Event
    <3> QED
      BY <2>4, <2>6, <3>3
  <2>7. /\ t \in results.done \/ c \in Els(todo)
        /\ t \in results.failed \/ f \in Els(todo)
    BY <1>2, <1>3 DEF Untold
  <2> QED
    BY <2>2, <2>4, <2>5, <2>6, <2>7
<1> QED
  BY <1>2, <1>3

LEMMA TellOutcomeInv == ASSUME SchedulerInv, TellOutcome PROVE SchedulerInv'
<1> DEFINE e == Head(todo)
<1>1. /\ Racing /\ results.next = "call" /\ todo # <<>> /\ e.call = "event"
      /\ results' = [results EXCEPT !.next = "record"]
      /\ UNCHANGED <<run, store, reported, w, seq, th, out, saving, stopped, history, strategy>>
      /\ pc' = "fail"
      /\ \/ TakesEvent(seq, e) /\ (todo' = Tail(todo) \/ todo' = <<>>)
         \/ log' = log /\ todo' = <<>>
  BY RaceFacts DEF TellOutcome, At, NextCall, AppendEvent, Then, GiveUp, bounds, Fault
<1>2. /\ pc = "fail" /\ Typed /\ Threads /\ Racers /\ Pictures /\ RaceSays /\ results \in Results
      /\ w \in States /\ seq \in Nat /\ log \in Seq(EventCalls) /\ EndsInSave(todo)
  BY <1>1, RaceFacts DEF Typed
<1>3. /\ results'.next = "record" /\ results'.done = results.done /\ results'.failed = results.failed
      /\ results' \in Results
  BY <1>1, <1>2 DEF Results
<1>4. Racing'
  BY <1>3, NoneAssumption DEF Racing, Results
<1>5. /\ e \in Els(todo) /\ e \in EventCalls /\ Script(Tail(todo)) /\ Els(Tail(todo)) = Els(todo) \ {e}
      /\ EndsInSave(Tail(todo))
  <2>1. Script(todo)
    BY <1>2 DEF Typed
  <2>2. e \in Calls
    BY <1>1, <2>1, FirstCall
  <2>3. e \in EventCalls
    BY <1>1, <2>2 DEF Calls, SaveCalls
  <2> QED
    BY <1>1, <1>2, <2>1, <2>3, FirstCall
<1>6. /\ Script(todo') /\ Els(todo') \subseteq Els(todo)
      /\ todo' # <<>> => Els(todo') = Els(todo) \ {e} /\ EndsInSave(todo') /\ TakesEvent(seq, e)
  BY <1>1, <1>5, ScriptOfNothing
<1>7. log' \in Seq(EventCalls)
  BY <1>1, <1>2, <1>5 DEF TakesEvent
<1>8. Typed'
  BY <1>1, <1>2, <1>3, <1>6, <1>7 DEF Typed, history, Pcs
<1>9. Threads' /\ Crew' = Crew
  BY <1>1, <1>4, RaceThreads
<1>10. MainFits' /\ MainSays' /\ MainSaved' /\ LateFits' /\ EndFits' /\ ~Busy'
  BY <1>1, <1>4, InRace
<1>11. Stored' /\ MainCalls'
  BY <1>1, <1>6 DEF SchedulerInv, Stored, MainCalls
<1>12. Fresh'
  BY <1>1, <1>10, FreshKept DEF history
<1>13. /\ Outcome(e) /\ e \in Marks
       /\ e.kind = "task.completed" => e.task \in results.done
       /\ e.kind = "task.failed" => e.task \in results.failed
  <2>1. e # Save("executing", Nobody)
    BY <1>1 DEF Save
  <2>2. Outcome(e) /\ results = Recorded(e)
    BY <1>1, <1>2, <1>5, <2>1 DEF Racers, At, NextCall
  <2> QED
    BY <1>2, <2>2 DEF Outcome, Marks, Recorded, Results
<1> DEFINE n == seq - 1
<1>14. ASSUME ~straggled
       PROVE  /\ n \in Nat /\ n <= Len(log) /\ n + 1 = seq
              /\ Said(log, n) \cap Els(todo) \cap Marks = {}
              /\ (Said(log, n) \cup Els(todo)) \cap Marks = Facts(Finale)
  <2>1. Reported = n
    BY <1>1 DEF Reported, At, NextCall
  <2> QED
    BY <1>1, <1>2, <1>14, <2>1 DEF RaceSays
<1> HIDE DEF n
<1>15. Readable' /\ Logged'
  <2>1. CASE straggled
    BY <1>1, <2>1 DEF Readable, Logged, history
  <2>2. CASE log' = log
    BY <1>1, <2>2 DEF SchedulerInv, Readable, Logged, Announced, Said, history
  <2>3. CASE ~straggled /\ TakesEvent(seq, e)
    <3>1. TakesEvent(n + 1, e)
      BY <1>14, <2>3
    <3>2. \A c : Agree(c, log) /\ c.seq \in Nat => Agree(c, log')
      BY <1>2, <1>5, <1>14, <2>3, <3>1, LogKept
    <3>3. Readable'
      <4>1. store # None => store.seq \in Nat
        BY <1>2 DEF Typed, States
      <4> QED
        BY <1>1, <3>2, <4>1 DEF SchedulerInv, Readable, history
    <3>4. Said(log, n) \cap Marks \subseteq Facts(Finale) /\ e \notin Said(log, n) /\ e \in Facts(Finale)
      BY <1>5, <1>13, <1>14, <2>3
    <3>5. Finale.done \cap Finale.failed = {}
      BY <1>1, FinaleFits
    <3>6. Logged'
      BY <1>2, <1>5, <1>14, <2>3, <3>1, <3>4, <3>5, LogInOrder DEF SchedulerInv
    <3> QED
      BY <3>3, <3>6
  <2> QED
    BY <1>1, <2>1, <2>2, <2>3
<1>16. Pictures'
  <2>1. PictureStays
    BY <1>1, <1>3, <1>9 DEF PictureStays, NextCall, history
  <2> QED
    BY <1>1, <2>1, PicturesKept
<1>17. todo' # <<>> =>
         /\ Untold("task.completed") = Untold("task.completed")' \cup {t \in {e.task} : e.kind = "task.completed"}
         /\ Untold("task.failed") = Untold("task.failed")' \cup {t \in {e.task} : e.kind = "task.failed"}
  <2> SUFFICES ASSUME todo' # <<>>
               PROVE  /\ Untold("task.completed") = Untold("task.completed")' \cup {t \in {e.task} : e.kind = "task.completed"}
                      /\ Untold("task.failed") = Untold("task.failed")' \cup {t \in {e.task} : e.kind = "task.failed"}
    OBVIOUS
  <2>1. Els(todo') = Els(todo) \ {e} /\ e \in Els(todo) /\ e = Event(e.kind, e.task) /\ e.task \in Work
    BY <1>5, <1>6, MarksOfTasks DEF EventCalls
  <2>2. \A t, k : e = Event(k, t) <=> e.kind = k /\ e.task = t
    BY <2>1, MarksOfTasks
  <2> HIDE DEF e
  <2> QED
    BY <2>1, <2>2 DEF Untold
<1>18. RaceSays'
  <2> SUFFICES ASSUME todo' # <<>>, ~straggled'
               PROVE  /\ Reported' \in Nat /\ Reported' <= Len(log')
                      /\ Said(log', Reported') \cap Els(todo') \cap Marks = {}
                      /\ (Said(log', Reported') \cup Els(todo')) \cap Marks = Facts(Finale)'
    BY DEF RaceSays
  <2>1. ~straggled /\ TakesEvent(n + 1, e) /\ Els(todo') = Els(todo) \ {e}
    BY <1>1, <1>6, <1>14 DEF history
  <2>2. Reported' = seq
    BY <1>1, <1>3 DEF Reported, At
  <2>3. n + 1 <= Len(log') /\ Said(log', n + 1) = Said(log, n) \cup {e}
    BY <1>2, <1>5, <1>14, <2>1, EventTaken
  <2>4. Finale' = Finale
    <3>1. /\ results.done \cup Untold("task.completed") = results'.done \cup Untold("task.completed")'
          /\ results.failed \cup Untold("task.failed") = results'.failed \cup Untold("task.failed")'
      BY <1>3, <1>13, <1>17
    <3> QED
      BY <1>1, <3>1 DEF Finale
  <2>5. Facts(Finale)' = Facts(Finale)
    BY <2>4 DEF Facts
  <2> QED
    BY <1>2, <1>5, <1>13, <1>14, <2>1, <2>2, <2>3, <2>5
<1>19. Racers'
  <2>1. Unrecorded' \subseteq Unrecorded
    BY <1>1, <1>3, <1>6, ScriptOfNothing DEF Unrecorded, At
  <2>2. results'.failed # {} \/ Untold("task.failed")' # {} \/ todo' = <<>>
    BY <1>1, <1>2, <1>3, <1>13, <1>17 DEF Racers
  <2>3. /\ \A f \in Els(todo') : Outcome(f)' \/ f = Save("executing", Nobody)
        /\ \A f, g \in Els(todo') : f.call = "event" /\ g.call = "event" /\ f.task = g.task => f = g
    BY <1>2, <1>6, <1>9 DEF Racers, Outcome
  <2>4. At("record")' /\ ~At("count")'
    BY <1>3, <1>4 DEF At
  <2>5. /\ results'.done \cap results'.failed = {}
        /\ results'.done \subseteq w'.started /\ Crew' \subseteq w'.started
        /\ \A f \in Unrecorded' : f.task \notin results'.done \cup results'.failed
    BY <1>1, <1>2, <1>3, <1>9, <2>1 DEF Racers
  <2> QED
    BY <1>1, <1>2, <2>2, <2>3, <2>4, <2>5 DEF Racers
<1> QED
  BY <1>4, <1>8, <1>9, <1>10, <1>11, <1>12, <1>15, <1>16, <1>18, <1>19 DEF SchedulerInv, Settling

(* A picture stays one, and what is ahead of the store stays so. *)
LEMMA AheadStays ==
  ASSUME SchedulerInv, Racing, PictureStays, UNCHANGED store, w'.rev = w.rev
  PROVE  /\ \A c : Pictured(c) => Pictured(c)'
         /\ \A c : Ahead(c) => Ahead(c)'
         /\ \A c : Leads(store, c) => Leads(store, c)'
<1>1. \A c : Pictured(c) => Pictured(c)'
  BY PicturesStay
<1>2. \A a, c : Leads(a, c) => Leads(a, c)'
  BY LeadStays
<1>3. \A c : Leads(store, c) => Leads(store, c)'
  <2> TAKE c
  <2> DEFINE a == store
  <2>1. Leads(a, c) => Leads(a, c)'
    BY <1>2
  <2> QED
    BY <2>1
<1> QED
  BY <1>1, <1>3 DEF Ahead

(* Only the save is left to be made. *)
LEMMA LastCall ==
  ASSUME SchedulerInv, Racing, NextCall("save")
  PROVE  /\ Head(todo) = Save("executing", Nobody) /\ Els(todo) = {Head(todo)}
         /\ ~NextCall("event") /\ Unrecorded = {}
         /\ Untold("task.completed") = {} /\ Untold("task.failed") = {}
         /\ results.failed # {}
<1> DEFINE e == Head(todo)
<1>1. Racers /\ Script(todo) /\ todo # <<>> /\ e.call = "save"
  BY RaceFacts DEF NextCall, Typed
<1>2. e = todo[1] /\ Len(todo) \in Nat /\ Len(todo) >= 1 /\ todo \in Seq(Calls)
  BY <1>1 DEF Script
<1>3. Len(todo) = 1
  <2>1. e \notin EventCalls
    BY <1>1 DEF EventCalls
  <2>2. 1 \in 1..Len(todo) /\ (1 < Len(todo) => todo[1] \in EventCalls)
    BY <1>1, <1>2 DEF Script
  <2>3. ~(1 < Len(todo))
    BY <1>2, <2>1, <2>2
  <2> DEFINE n == Len(todo)
  <2>4. n \in Nat /\ n >= 1
    BY <1>2
  <2> HIDE DEF n
  <2>5. ~(1 < n)
    BY <2>3 DEF n
  <2>6. n = 1
    BY <2>4, <2>5
  <2> QED
    BY <2>6 DEF n
<1>4. Els(todo) = {e}
  BY <1>2, <1>3 DEF Els
<1>5. e = Save("executing", Nobody)
  BY <1>1, <1>4 DEF Racers, Outcome, EventCalls
<1>6. \A k, t : Event(k, t) # e
  BY <1>1 DEF Event
<1> QED
  BY <1>1, <1>4, <1>5, <1>6 DEF Racers, Untold, Unrecorded, NextCall

LEMMA SetStateInv == ASSUME SchedulerInv, SetState PROVE SchedulerInv'
<1>1. /\ Racing /\ results.next = "record" /\ NextCall("save")
      /\ w' = [w EXCEPT !.stage = "executing", !.active = Head(todo).active,
                        !.done = results.done, !.failed = results.failed]
      /\ results' = [results EXCEPT !.next = "call"]
      /\ UNCHANGED <<disk, pc, seq, todo, th, out, saving, stopped, history, bounds>>
  BY DEF SetState, At
<1>2. /\ pc = "fail" /\ Typed /\ Threads /\ Racers /\ Pictures /\ RaceSays /\ results \in Results
      /\ w \in States /\ Crew \subseteq Tasks /\ strategy = "fail_fast" /\ w.rev \in Nat
  BY <1>1, RaceFacts
<1>3. /\ Head(todo) = Save("executing", Nobody) /\ Els(todo) = {Head(todo)}
      /\ ~NextCall("event") /\ Unrecorded = {}
      /\ Untold("task.completed") = {} /\ Untold("task.failed") = {}
      /\ results.failed # {}
  BY <1>1, LastCall
<1>4. /\ results'.next = "call" /\ results'.done = results.done /\ results'.failed = results.failed
      /\ results' \in Results
  BY <1>1, <1>2 DEF Results
<1>5. Nobody \in [Work -> Invocations \cup {Inactive}] /\ Head(todo).active = Nobody
  BY <1>3 DEF Nobody, Save
<1>6. /\ w'.stage = "executing" /\ w'.active = Nobody /\ w'.done = results.done
      /\ w'.failed = results.failed /\ w'.plan = w.plan /\ w'.started = w.started
      /\ w'.rev = w.rev /\ w'.seq = w.seq /\ w' \in States
  BY <1>1, <1>2, <1>5 DEF States, Results, Stages
<1>7. Active(w') = {}
  BY <1>6 DEF Active, Nobody
<1>8. Racing'
  BY <1>4, NoneAssumption DEF Racing, Results
<1>9. Typed'
  BY <1>1, <1>2, <1>4, <1>6 DEF Typed, disk, history, bounds
<1>10. Threads' /\ Crew' = Crew
  BY <1>1, <1>2, <1>8, RaceThreads
<1>11. MainFits' /\ MainSays' /\ MainSaved' /\ LateFits' /\ EndFits' /\ ~Busy'
  BY <1>1, <1>2, <1>8, InRace DEF disk
<1>12. Stored' /\ Readable' /\ Logged' /\ MainCalls'
  BY <1>1, <1>2, <1>6 DEF SchedulerInv, Stored, Readable, Logged, Announced, Said, MainCalls, disk, history, bounds
<1>13. Fresh'
  BY <1>1, <1>2, <1>11, FreshKept DEF disk, history, bounds
<1>14. ~NextCall("event")'
  BY <1>1, <1>3 DEF NextCall
<1>15. Racers'
  <2>1. Unrecorded' = {}
    BY <1>1, <1>3 DEF Unrecorded, Save
  <2>2. ~At("count")' /\ At("call")'
    BY <1>4, <1>8 DEF At
  <2> QED
    BY <1>1, <1>2, <1>4, <1>6, <1>10, <1>14, <2>1, <2>2, <1>3 DEF Racers, Outcome, bounds
<1>16. RaceSays'
  <2>1. Reported' = seq /\ Reported = seq
    BY <1>1, <1>3, <1>14 DEF Reported
  <2>2. Untold("task.completed")' = {} /\ Untold("task.failed")' = {}
    BY <1>1, <1>3 DEF Untold
  <2>3. /\ Finale' = [w' EXCEPT !.done = results.done, !.failed = results.failed]
        /\ Finale = [w EXCEPT !.done = results.done, !.failed = results.failed]
    BY <1>3, <1>4, <2>2 DEF Finale
  <2>4. /\ Finale'.plan = w.plan /\ Finale'.started = w.started /\ Finale'.stage = "executing"
        /\ Finale'.done = results.done /\ Finale'.failed = results.failed
        /\ Finale.plan = w.plan /\ Finale.started = w.started /\ Finale.stage = "executing"
        /\ Finale.done = results.done /\ Finale.failed = results.failed
    BY <1>2, <1>6, <2>3 DEF States, Pictures, Pictured
  <2>5. Facts(Finale)' = Facts(Finale)
    BY <2>4 DEF Facts, SummingUp
  <2> QED
    BY <1>1, <1>2, <2>1, <2>5 DEF RaceSays, disk, history
<1>17. Pictures'
  <2>1. PictureStays
    BY <1>1, <1>4, <1>6, <1>10 DEF PictureStays, history, bounds
  <2>2. /\ \A c : Pictured(c) => Pictured(c)'
        /\ \A c : Ahead(c) => Ahead(c)'
        /\ \A c : Leads(store, c) => Leads(store, c)'
    BY <1>1, <1>6, <2>1, AheadStays DEF disk
  <2>3. Pictured(w)'
    <3>1. Sane(w', strategy)
      <4>1. /\ Sane(w, strategy) /\ w.done \subseteq results.done
        BY <1>2 DEF Pictures, Pictured
      <4>2. /\ results.done \subseteq w.started /\ results.done \cap results.failed = {}
        BY <1>2 DEF Racers
      <4>3. \A t \in Tasks : w'.active[t].rt = "none"
        BY <1>6 DEF Nobody, Inactive, Work
      <4> QED
        BY <1>6, <1>7, <4>1, <4>2, <4>3 DEF Sane, SummingUp, Stages
    <3>2. Fast(w', strategy)
      BY <1>2, <1>3, <1>6 DEF Fast
    <3> QED
      BY <1>1, <1>3, <1>4, <1>6, <1>7, <3>1, <3>2 DEF Pictured, Save, bounds
  <2>4. Ahead(w)'
    <3>1. CASE Rev(store) > w.rev
      BY <1>1, <1>6, <3>1 DEF Ahead, disk
    <3>2. CASE Leads(store, w)
      <4>1. Leads(store, w')
        BY <1>2, <1>6, <1>7, <3>2 DEF Leads, Pictured
      <4>2. Leads(store, w)'
        BY <1>1, <2>2, <4>1 DEF Leads, disk
      <4> QED
        BY <4>2 DEF Ahead
    <3> QED
      BY <1>2, <3>1, <3>2 DEF Pictures, Ahead
  <2> QED
    BY <1>1, <1>2, <1>6, <2>2, <2>3, <2>4 DEF Pictures, NextRev, disk
<1> QED
  BY <1>8, <1>9, <1>10, <1>11, <1>12, <1>13, <1>15, <1>16, <1>17 DEF SchedulerInv, Settling

(* Pictures that differ in their numbers only. *)
LEMMA PicturedAlike ==
  ASSUME NEW c, NEW d, Alike(c, d), Pictured(d)
  PROVE  Pictured(c) /\ \A a : Leads(a, d) => Leads(a, c)
<1>1. Sane(c, strategy) = Sane(d, strategy) /\ Fast(c, strategy) = Fast(d, strategy)
      /\ Kept(c, fresh, dropped) = Kept(d, fresh, dropped)
  BY AlikeSane
<1>2. Active(c) = Active(d)
  BY DEF Alike, Active
<1> QED
  BY <1>1, <1>2 DEF Alike, Pictured, Leads

(* The state in memory with its next number. *)
LEMMA NextNumber ==
  ASSUME SchedulerInv, Racing
  PROVE  LET c == [w EXCEPT !.rev = NextRev(w), !.seq = seq] IN
         /\ c \in States /\ c # None /\ Alike(c, w) /\ c.rev = NextRev(w)
         /\ Pictured(c) /\ Ahead(c)
<1> DEFINE r == NextRev(w)
           c == [w EXCEPT !.rev = r, !.seq = seq]
<1>1. w \in States /\ seq \in Nat /\ r \in Nat /\ Pictures
  BY RaceFacts DEF Typed
<1>2. c \in States /\ c.rev = r /\ Alike(c, w)
  <2> HIDE DEF r
  <2> QED
    BY <1>1 DEF States, Alike
<1>3. Pictured(c) /\ Ahead(c)
  <2> HIDE DEF c
  <2> QED
    BY <1>1, <1>2, PicturedAlike DEF Pictures, Ahead
<1> HIDE DEF c
<1> QED
  BY <1>2, <1>3, NoneAssumption DEF c, r

(* A checkpoint of the batch is taken, or not. *)
LEMMA LateTaken ==
  ASSUME SchedulerInv, Racing, NEW c \in States, Pictured(c), c.rev = NextRev(w),
         TakesLate(c) \/ UNCHANGED <<store, straggled>>,
         UNCHANGED <<log, w, fresh, dropped, strategy>>, pc' = "fail", ~Busy'
  PROVE  /\ store' \in States \cup {None} /\ straggled' \in BOOLEAN
         /\ Stored' /\ Readable' /\ Logged' /\ Fresh'
         /\ store' = store \/ (store' = c /\ Rev(store)' > w.rev)
         /\ TakesLate(c) => store' = c
         /\ store # None /\ store.rev = c.rev => store' = store
<1>1. /\ w.rev \in Nat /\ NextRev(w) = w.rev + 1 /\ store \in States \cup {None}
      /\ strategy = "fail_fast" /\ straggled \in BOOLEAN
  BY RaceFacts DEF Typed
<1>2. c # None /\ Sane(c, strategy) /\ (c.failed # {} => Fast(c, strategy))
      /\ (Fast(c, strategy) \/ Kept(c, fresh, dropped))
  BY <1>1, NoneAssumption DEF Pictured, Fast
<1>3. TakesLate(c) => store' = c /\ straggled' = (straggled \/ c.failed = {})
  BY DEF TakesLate, TakesCheckpoint
<1>4. store' \in States \cup {None} /\ straggled' \in BOOLEAN /\ (straggled => straggled')
  BY <1>1, <1>3
<1>5. Stored'
  BY <1>1, <1>2, <1>3 DEF SchedulerInv, Stored, Rev
<1>6. Readable'
  BY <1>2, <1>3 DEF SchedulerInv, Readable
<1>7. Logged'
  BY <1>4 DEF SchedulerInv, Logged, Announced, Said
<1>8. Fresh'
  <2>1. store' # None => Fast(store', strategy) \/ Kept(store', fresh, dropped)
    BY <1>2, <1>3 DEF SchedulerInv, Fresh
  <2>2. store' = None => \A u \in Tasks : fresh[u] = 0
    BY <1>2, <1>3 DEF SchedulerInv, Fresh
  <2> QED
    BY <2>1, <2>2 DEF SchedulerInv, Fresh
<1>9. store' = c => Rev(store)' > w.rev
  BY <1>1, <1>2 DEF Rev
<1>10. store # None /\ store.rev = c.rev => store' = store
  BY <1>1 DEF TakesLate, TakesCheckpoint, Newer, States
<1> QED
  BY <1>3, <1>4, <1>5, <1>6, <1>7, <1>8, <1>9, <1>10

LEMMA SendStateInv == ASSUME SchedulerInv, SendState PROVE SchedulerInv'
<1> DEFINE c == [w EXCEPT !.rev = NextRev(w), !.seq = seq]
<1>1. /\ Racing /\ results.next = "call" /\ NextCall("save") /\ pc' = "fail" /\ todo' = <<>>
      /\ TakesLate(c) \/ UNCHANGED <<store, straggled>>
      /\ UNCHANGED <<run, log, reported, w, seq, th, out, saving, stopped, results, fresh, dropped, strategy>>
  BY DEF SendState, At, GiveUp, Then, threads, bounds, Fault
<1>2. /\ pc = "fail" /\ Typed /\ Threads /\ Racers /\ Pictures /\ strategy = "fail_fast"
  BY <1>1, RaceFacts
<1>3. c \in States /\ c.rev = NextRev(w) /\ Pictured(c)
  BY <1>1, NextNumber
<1> HIDE DEF c
<1>4. Racing'
  BY <1>1 DEF Racing
<1>5. MainFits' /\ MainSays' /\ MainSaved' /\ LateFits' /\ EndFits' /\ ~Busy'
  BY <1>1, <1>4, InRace
<1>6. /\ store' \in States \cup {None} /\ straggled' \in BOOLEAN
      /\ Stored' /\ Readable' /\ Logged' /\ Fresh'
      /\ store' = store \/ (store' = c /\ Rev(store)' > w.rev)
      /\ store # None /\ store.rev = c.rev => store' = store
  BY <1>1, <1>3, <1>5, LateTaken
<1>7. Typed'
  BY <1>1, <1>2, <1>6, ScriptOfNothing DEF Typed, Pcs
<1>8. Threads' /\ Crew' = Crew
  BY <1>1, <1>4, RaceThreads
<1>9. MainCalls'
  BY <1>1 DEF MainCalls
<1>10. Racers'
  <2>1. Els(todo') = {} /\ ~NextCall("event")'
    BY <1>1, ScriptOfNothing DEF NextCall
  <2>2. ~At("count")' /\ Unrecorded' = {}
    BY <1>1, <2>1 DEF At, Unrecorded
  <2> QED
    BY <1>1, <1>2, <1>8, <2>1, <2>2 DEF Racers
<1>11. RaceSays'
  BY <1>1 DEF RaceSays
<1>12. Pictures'
  <2>1. PictureStays
    BY <1>1, <1>8, ScriptOfNothing DEF PictureStays
  <2>2. \A d : Pictured(d) => Pictured(d)'
    BY <1>1, <2>1, PicturesStay
  <2>3. \A d : Ahead(d) => Ahead(d)'
    <3>1. CASE store' = store
      BY <1>1, <2>1, <3>1, AheadStays
    <3>2. CASE Rev(store)' > w.rev
      BY <1>1, <3>2 DEF Ahead
    <3> QED
      BY <1>6, <3>1, <3>2
  <2>4. ASSUME NEW u \in Work, th[u] = "saved"
        PROVE  store' = store
    <3>1. store = saving.state /\ store.rev = c.rev /\ store \in States
      BY <1>2, <1>3, <2>4 DEF Pictures, Threads
    <3> QED
      BY <1>6, <3>1, NoneAssumption
  <2> QED
    BY <1>1, <1>2, <2>2, <2>3, <2>4 DEF Pictures, NextRev
<1> QED
  BY <1>4, <1>5, <1>6, <1>7, <1>8, <1>9, <1>10, <1>11, <1>12 DEF SchedulerInv, Settling

(* Who is at state_lock when one of the members takes a step there. *)
LEMMA StragglerThreads ==
  ASSUME SchedulerInv, Racing, Racing', NEW t \in Work, AtLock(t), pc' = "fail",
         UNCHANGED <<stopped, results>>,
         NEW s \in {"reading", "read", "set", "saving", "saved", "done"},
         th' = [th EXCEPT ![t] = s],
         \/ s = "done" /\ saving' = None /\ (out' = out \/ out' = [out EXCEPT ![t] = "error"])
         \/ s # "done" /\ saving' \in Savings /\ saving'.task = t /\ out' = out
            /\ (s # "set" => saving'.state \in States)
  PROVE  /\ Threads' /\ Crew' = Crew /\ th' \in [Work -> {"none", "running", "locked", "reading",
                                              "read", "set", "saving", "saved", "done"}]
         /\ out' \in [Work -> Outcomes]
         /\ \A u \in Work : u # t => ~AtLock(u) /\ ~AtLock(u)' /\ th'[u] = th[u]
         /\ th'[t] = s
<1>1. Typed /\ Threads /\ stopped
  BY RaceFacts
<1>2. saving # None /\ saving.task = t /\ th[t] # "none" /\ th[t] # "running"
  BY <1>1 DEF Threads, AtLock
<1>3. th'[t] = s /\ \A u \in Work : u # t => th'[u] = th[u]
  BY <1>1 DEF Typed
<1>4. /\ th' \in [Work -> {"none", "running", "locked", "reading", "read", "set", "saving",
                          "saved", "done"}]
      /\ out' \in [Work -> Outcomes] /\ \A u \in Work : u # t => out'[u] = out[u]
      /\ out'[t] \in {out[t], "error"} /\ (s # "done" => out' = out)
  <2>1. out \in [Work -> Outcomes] /\ "error" \in Outcomes /\ "done" # "none"
    BY <1>1 DEF Typed, Outcomes
  <2>2. out' = out \/ out' = [out EXCEPT ![t] = "error"]
    OBVIOUS
  <2>3. th \in [Work -> {"none", "running", "locked", "reading", "read", "set", "saving",
                         "saved", "done"}]
    BY <1>1 DEF Typed
  <2> QED
    BY <2>1, <2>2, <2>3
<1>5. \A u \in Work : u # t => ~AtLock(u) /\ ~AtLock(u)'
  BY <1>1, <1>2, <1>3 DEF Threads, AtLock
<1>6. Crew' = Crew
  BY <1>2, <1>3 DEF Crew
<1>7. Threads'
  <2>1. \A u \in Work : AtLock(u)' <=> saving' # None /\ saving'.task = u
    <3>1. None \notin Savings
      BY NoneAssumption DEF Savings
    <3>2. s # "done" => saving' # None /\ saving'.task = t
      BY <3>1
    <3>3. s = "done" => saving' = None
      OBVIOUS
    <3>4. AtLock(t)' <=> s # "done"
      BY <1>3 DEF AtLock
    <3> QED
      BY <1>5, <3>2, <3>3, <3>4
  <2>2. \A u \in Work : th'[u] \in {"reading", "read", "saving", "saved"} => saving'.state \in States
    BY <1>3, <1>5 DEF AtLock
  <2>3. \A u \in Work : th'[u] \in {"none", "running"} <=> out'[u] = "none"
    BY <1>1, <1>2, <1>3, <1>4 DEF Threads
  <2>4. \A u \in Work : AtLock(u)' => out'[u] \in {"ok", "big", "pause"}
    BY <1>1, <1>3, <1>4, <1>5 DEF Threads, AtLock
  <2>5. out'[Synthesis] # "big"
    BY <1>1, <1>4 DEF Threads, Work
  <2>6. ~Polling'
    BY DEF Polling
  <2> QED
    BY <1>1, <2>1, <2>2, <2>3, <2>4, <2>5, <2>6 DEF Threads
<1> QED
  BY <1>3, <1>4, <1>5, <1>6, <1>7

(* It has made up some more of the state it is about to save. *)
LEMMA StragglerPicture ==
  ASSUME SchedulerInv, Racing, NEW t \in Work, AtLock(t),
         UNCHANGED <<disk, pc, w, seq, todo, out, stopped, results, history, bounds>>,
         NEW s \in {"reading", "read", "saving"}, th' = [th EXCEPT ![t] = s],
         NEW c \in States, saving' = [task |-> t, state |-> c],
         Pictured(c), Ahead(c), c.rev = IF s = "saving" THEN NextRev(w) ELSE w.rev
  PROVE  SchedulerInv'
<1>1. /\ pc = "fail" /\ Typed /\ Threads /\ Pictures /\ w.rev \in Nat /\ NextRev(w) = w.rev + 1
  BY RaceFacts
<1>2. Racing' /\ pc' = "fail"
  BY <1>1 DEF Racing
<1>3. saving' \in Savings /\ saving'.task = t /\ saving'.state = c
  BY DEF Savings
<1>4. /\ Threads' /\ Crew' = Crew /\ th' \in [Work -> {"none", "running", "locked", "reading",
                                           "read", "set", "saving", "saved", "done"}]
      /\ \A u \in Work : u # t => ~AtLock(u) /\ ~AtLock(u)' /\ th'[u] = th[u]
      /\ th'[t] = s
  BY <1>2, <1>3, StragglerThreads
<1>5. Typed'
  BY <1>1, <1>3, <1>4 DEF Typed, disk, history, bounds
<1>6. Stored' /\ Readable' /\ Logged' /\ MainCalls' /\ Fresh'
  BY OnlyThreads DEF disk
<1>7. MainFits' /\ MainSays' /\ MainSaved' /\ LateFits' /\ EndFits' /\ ~Busy'
  BY <1>1, <1>2, InRace DEF disk
<1>8. /\ Racers' /\ RaceSays'
      /\ \A d : Pictured(d) => Pictured(d)'
      /\ \A d : Ahead(d) => Ahead(d)'
  BY <1>4, RaceKept DEF disk, bounds
<1>9. Pictures'
  <2>1. Pictured(w)' /\ Ahead(w)'
    BY <1>1, <1>4, <1>8 DEF Pictures, Pictured, Ahead, Leads, disk, history, bounds
  <2>2. Pictured(c)' /\ Ahead(c)' /\ NextRev(w)' = NextRev(w)
    BY <1>8 DEF NextRev
  <2>3. \A u \in Work : th'[u] \in {"reading", "read", "saving", "saved"} => u = t
    BY <1>4 DEF AtLock
  <2>4. Pictured(saving.state)' /\ Ahead(saving.state)'
    BY <1>3, <2>2 DEF Pictured, Ahead, Leads
  <2> QED
    BY <1>3, <1>4, <2>1, <2>2, <2>3, <2>4 DEF Pictures
<1> QED
  BY <1>2, <1>4, <1>5, <1>6, <1>7, <1>8, <1>9 DEF SchedulerInv, Settling

LEMMA StragglerReadsInv ==
  ASSUME SchedulerInv, NEW t \in Work, StragglerReads(t)
  PROVE  SchedulerInv'
<1> DEFINE active == IF t \in Active(w) THEN [w.active EXCEPT ![t] = Graph(out[t])] ELSE w.active
           c == [w EXCEPT !.active = active, !.done = results.done]
<1>1. /\ Racing /\ th[t] = "locked" /\ th' = [th EXCEPT ![t] = "reading"]
      /\ saving' = [task |-> t, state |-> c]
      /\ UNCHANGED <<disk, pc, w, seq, todo, out, stopped, results, history, bounds>>
  BY DEF StragglerReads
<1>2. /\ Typed /\ Threads /\ Racers /\ Pictures /\ w \in States /\ results \in Results
      /\ w.rev \in Nat /\ Crew \subseteq Tasks
  BY <1>1, RaceFacts
<1>3. AtLock(t) /\ out[t] \in {"ok", "big", "pause"} /\ t \in Crew
  BY <1>1, <1>2 DEF AtLock, Threads, Crew
<1>4. /\ Graph(out[t]) \in Invocations /\ Graph(out[t]) # Inactive
      /\ Graph(out[t]).rt = "ok" => Graph(out[t]).st = "completed"
  BY <1>3 DEF Graph, Invocations, Inactive
<1>5. /\ active \in [Work -> Invocations \cup {Inactive}]
      /\ \A u \in Work : active[u] = w.active[u] \/ (u = t /\ active[u] = Graph(out[t]))
      /\ {u \in Work : active[u] # Inactive} = Active(w)
  BY <1>2, <1>4 DEF States, Active
<1> HIDE DEF active
<1>6. /\ c \in States /\ c.active = active /\ c.done = results.done /\ c.stage = w.stage
      /\ c.plan = w.plan /\ c.started = w.started /\ c.failed = w.failed /\ c.rev = w.rev
  BY <1>2, <1>5 DEF States, Results
<1> HIDE DEF c
<1>7. Active(c) = Active(w)
  BY <1>5, <1>6 DEF Active
<1>8. /\ Sane(w, strategy) /\ w.stage = "executing" /\ w.done \subseteq results.done
      /\ w.failed \subseteq results.failed /\ Pictured(w)
      /\ results.done \subseteq w.started /\ results.done \cap results.failed = {}
  BY <1>2 DEF Pictures, Pictured, Racers
<1>9. Sane(c, strategy)
  <2>1. \A u \in Tasks : c.active[u].rt = "ok" => c.active[u].st = "completed"
    BY <1>4, <1>5, <1>6, <1>8 DEF Sane, Work
  <2> QED
    BY <1>6, <1>7, <1>8, <2>1 DEF Sane, SummingUp
<1>10. Fast(c, strategy) \/ Kept(c, fresh, dropped)
  BY <1>6, <1>7, <1>8 DEF Pictured, Fast, Kept, Settled
<1>11. Pictured(c)
  BY <1>6, <1>7, <1>8, <1>9, <1>10 DEF Pictured
<1>12. Ahead(c)
  <2>1. Leads(store, w) => Leads(store, c)
    BY <1>6, <1>7, <1>8 DEF Leads, Pictured
  <2> QED
    BY <1>2, <2>1 DEF Pictures, Ahead
<1> QED
  BY <1>1, <1>3, <1>6, <1>11, <1>12, StragglerPicture

LEMMA StragglerReadsFailedInv ==
  ASSUME SchedulerInv, NEW t \in Work, StragglerReadsFailed(t)
  PROVE  SchedulerInv'
<1> DEFINE d == saving.state
           c == [d EXCEPT !.failed = results.failed]
<1>1. /\ th[t] = "reading" /\ th' = [th EXCEPT ![t] = "read"]
      /\ saving' = [saving EXCEPT !.state.failed = results.failed]
      /\ UNCHANGED <<disk, pc, w, seq, todo, out, stopped, results, history, bounds>>
  BY DEF StragglerReadsFailed
<1>2. AtLock(t) /\ Racing
  BY <1>1 DEF SchedulerInv, Threads, AtLock
<1>3. /\ Typed /\ Threads /\ Racers /\ Pictures /\ results \in Results /\ strategy = "fail_fast"
  BY <1>2, RaceFacts
<1>4. saving \in Savings /\ saving.task = t /\ d \in States
  BY <1>1, <1>2, <1>3 DEF Typed, Threads
<1>5. saving' = [task |-> t, state |-> c]
  BY <1>1, <1>4 DEF Savings
<1>6. /\ c \in States /\ c.failed = results.failed /\ c.done = d.done /\ c.stage = d.stage
      /\ c.plan = d.plan /\ c.started = d.started /\ c.active = d.active /\ c.rev = d.rev
      /\ c.partial = d.partial
  BY <1>3, <1>4 DEF States, Results
<1>7. Pictured(d) /\ d.rev = w.rev /\ Ahead(d) /\ results.done \cap results.failed = {}
  BY <1>1, <1>3 DEF Pictures, Racers
<1> HIDE DEF c, d
<1>8. Active(c) = Active(d)
  BY <1>6 DEF Active
<1>9. d.failed \subseteq results.failed /\ d.done \subseteq results.done
      /\ (results.failed # {} => Fast(c, strategy))
  BY <1>3, <1>6, <1>7 DEF Pictured, Fast
<1>10. Sane(c, strategy)
  BY <1>6, <1>7, <1>8, <1>9 DEF Pictured, Sane, SummingUp
<1>11. Fast(c, strategy) \/ Kept(c, fresh, dropped)
  BY <1>6, <1>7, <1>8, <1>9 DEF Pictured, Fast, Kept, Settled
<1>12. Pictured(c)
  BY <1>6, <1>7, <1>8, <1>9, <1>10, <1>11 DEF Pictured
<1>13. Ahead(c)
  BY <1>6, <1>7, <1>8, <1>9 DEF Ahead, Leads
<1> QED
  BY <1>1, <1>2, <1>5, <1>6, <1>7, <1>12, <1>13, StragglerPicture

LEMMA StragglerCountsInv ==
  ASSUME SchedulerInv, NEW t \in Work, StragglerCounts(t)
  PROVE  SchedulerInv'
<1> DEFINE c == [w EXCEPT !.rev = NextRev(w), !.seq = seq]
<1>1. /\ th[t] = "set" /\ th' = [th EXCEPT ![t] = "saving"]
      /\ saving' = [saving EXCEPT !.state = c]
      /\ UNCHANGED <<disk, pc, w, seq, todo, out, stopped, results, history, bounds>>
  BY DEF StragglerCounts
<1>2. AtLock(t) /\ Racing
  BY <1>1 DEF SchedulerInv, Threads, AtLock
<1>3. c \in States /\ c.rev = NextRev(w) /\ Pictured(c) /\ Ahead(c)
  BY <1>2, NextNumber
<1> HIDE DEF c
<1>4. saving' = [task |-> t, state |-> c]
  <2>1. saving \in Savings /\ saving.task = t
    BY <1>2 DEF SchedulerInv, Typed, Threads
  <2> QED
    BY <1>1, <2>1 DEF Savings
<1> QED
  BY <1>1, <1>2, <1>3, <1>4, StragglerPicture

(* It has replaced the state in memory by its own. *)
LEMMA StateReplaced ==
  ASSUME SchedulerInv, Racing, NEW t \in Work, AtLock(t),
         UNCHANGED <<disk, pc, seq, todo, out, stopped, results, history, bounds>>,
         NEW s \in {"set", "done"}, th' = [th EXCEPT ![t] = s],
         saving' = IF s = "done" THEN None ELSE saving,
         NEW c \in States, w' = c, Pictured(c), c.rev <= Rev(store),
         (c.rev = w.rev /\ Ahead(c)) \/ store = c
  PROVE  SchedulerInv'
<1>1. /\ pc = "fail" /\ Typed /\ Threads /\ Racers /\ Pictures /\ RaceSays /\ w \in States
      /\ results \in Results
  BY RaceFacts
<1>2. Racing' /\ pc' = "fail"
  BY <1>1 DEF Racing
<1>3. saving \in Savings /\ saving.task = t
  BY <1>1 DEF Typed, Threads
<1>4. /\ Threads' /\ Crew' = Crew /\ th' \in [Work -> {"none", "running", "locked", "reading",
                                           "read", "set", "saving", "saved", "done"}]
      /\ \A u \in Work : u # t => ~AtLock(u) /\ ~AtLock(u)' /\ th'[u] = th[u]
      /\ th'[t] = s
  <2>1. \/ s = "done" /\ saving' = None /\ (out' = out \/ out' = [out EXCEPT ![t] = "error"])
        \/ s # "done" /\ saving' \in Savings /\ saving'.task = t /\ out' = out
           /\ (s # "set" => saving'.state \in States)
    BY <1>3
  <2> QED
    BY <1>2, <2>1, StragglerThreads
<1>5. Typed'
  BY <1>1, <1>3, <1>4 DEF Typed, disk, history, bounds
<1>6. MainFits' /\ MainSays' /\ MainSaved' /\ LateFits' /\ EndFits' /\ ~Busy'
  BY <1>1, <1>2, InRace DEF disk
<1>7. Readable' /\ Logged' /\ MainCalls' /\ Fresh'
  <2>1. Fresh'
    BY <1>2, <1>6, FreshKept DEF disk, history, bounds
  <2> QED
    BY <1>1, <1>2, <2>1 DEF SchedulerInv, Readable, Logged, Announced, Said, MainCalls, disk, history, bounds
<1>8. Stored'
  BY <1>1 DEF SchedulerInv, Stored, Rev, disk, bounds, States
<1>9. /\ w'.plan = w.plan /\ w'.started = w.started /\ w'.stage = "executing"
      /\ w.stage = "executing"
  BY <1>1 DEF Pictured, Pictures
<1>10. Unrecorded' = Unrecorded /\ Reported' = Reported /\ \A k : Untold(k)' = Untold(k)
  BY DEF Unrecorded, Reported, Untold, At, Racing, NextCall
<1>11. Racers'
  <2>1. Recorded(Head(todo))' = Recorded(Head(todo))
    BY DEF Recorded
  <2> QED
    BY <1>1, <1>4, <1>9, <1>10, <2>1 DEF Racers, At, NextCall, Outcome, Racing, bounds
<1>12. RaceSays'
  <2>1. /\ Finale'.plan = w.plan /\ Finale'.started = w.started /\ Finale'.stage = w.stage
        /\ Finale'.done = results.done \cup Untold("task.completed")
        /\ Finale'.failed = results.failed \cup Untold("task.failed")
    BY <1>9, <1>10 DEF Finale, States
  <2>2. /\ Finale.plan = w.plan /\ Finale.started = w.started /\ Finale.stage = w.stage
        /\ Finale.done = results.done \cup Untold("task.completed")
        /\ Finale.failed = results.failed \cup Untold("task.failed")
    BY <1>1 DEF Finale, States
  <2>3. Facts(Finale)' = Facts(Finale)
    BY <2>1, <2>2 DEF Facts, SummingUp
  <2> QED
    BY <1>1, <1>10, <2>3 DEF RaceSays, disk, history
<1>13. PictureStays
  <2>1. NextCall("event") \/ results.next # "count"
    BY <1>1 DEF Racers, At
  <2> QED
    BY <1>4, <1>9, <2>1 DEF PictureStays, history, bounds
<1>14. \A d : Pictured(d) => Pictured(d)'
  BY <1>13, PicturesStay
<1>15. Pictured(w)'
  <2>1. Pictured(c)'
    BY <1>14
  <2> QED
    BY <2>1 DEF Pictured
<1>16. Ahead(w)'
  <2>1. CASE c.rev = w.rev /\ Ahead(c)
    <3>1. Ahead(c)'
      BY <1>13, <2>1, AheadStays DEF disk
    <3> QED
      BY <3>1 DEF Ahead, Leads
  <2>2. CASE store = c
    <3>1. Leads(c, c)'
      BY <1>14, <2>2, NoneAssumption, <1>4 DEF Leads, Pictured
    <3> QED
      BY <2>2, <3>1 DEF Ahead, Leads, disk, Pictured
  <2> QED
    BY <2>1, <2>2
<1>17. Pictures'
  <2>1. \A u \in Work : th'[u] \notin {"reading", "read", "saving", "saved"}
    BY <1>4 DEF AtLock
  <2> QED
    BY <1>15, <1>16, <2>1 DEF Pictures
<1> QED
  BY <1>2, <1>4, <1>5, <1>6, <1>7, <1>8, <1>11, <1>12, <1>17 DEF SchedulerInv, Settling

LEMMA StragglerSetsInv ==
  ASSUME SchedulerInv, NEW t \in Work, StragglerSets(t)
  PROVE  SchedulerInv'
<1> DEFINE c == saving.state
<1>1. /\ th[t] = "read" /\ th' = [th EXCEPT ![t] = "set"] /\ w' = c
      /\ UNCHANGED <<disk, pc, seq, todo, out, saving, stopped, results, history, bounds>>
  BY DEF StragglerSets
<1>2. AtLock(t) /\ Racing
  BY <1>1 DEF SchedulerInv, Threads, AtLock
<1>3. c \in States /\ Pictured(c) /\ c.rev = w.rev /\ Ahead(c) /\ c.rev <= Rev(store)
  BY <1>1, <1>2, RaceFacts DEF Threads, Pictures
<1> QED
  BY <1>1, <1>2, <1>3, StateReplaced

LEMMA StragglerReturnsInv ==
  ASSUME SchedulerInv, NEW t \in Work, StragglerReturns(t)
  PROVE  SchedulerInv'
<1> DEFINE c == saving.state
<1>1. /\ th[t] = "saved" /\ th' = [th EXCEPT ![t] = "done"] /\ w' = c /\ saving' = None
      /\ UNCHANGED <<disk, pc, seq, todo, out, stopped, results, history, bounds>>
  BY DEF StragglerReturns
<1>2. AtLock(t) /\ Racing
  BY <1>1 DEF SchedulerInv, Threads, AtLock
<1>3. c \in States /\ Pictured(c) /\ store = c /\ c.rev <= Rev(store)
  <2>1. c \in States /\ Pictured(c) /\ store = c
    BY <1>1, <1>2, RaceFacts DEF Threads, Pictures
  <2> QED
    BY <2>1, NoneAssumption DEF Rev, States
<1> QED
  BY <1>1, <1>2, <1>3, StateReplaced

LEMMA StragglerSavesInv ==
  ASSUME SchedulerInv, NEW t \in Work, StragglerSaves(t)
  PROVE  SchedulerInv'
<1> DEFINE c == saving.state
<1>1. /\ Racing /\ th[t] = "saving"
      /\ UNCHANGED <<run, log, reported, pc, w, seq, todo, stopped, results, fresh, dropped, strategy>>
      /\ TakesLate(c) \/ UNCHANGED <<store, straggled>>
      /\ \/ th' = [th EXCEPT ![t] = "saved"] /\ saving' = saving /\ out' = out /\ TakesLate(c)
         \/ th' = [th EXCEPT ![t] = "done"] /\ saving' = None /\ out' = [out EXCEPT ![t] = "error"]
  BY DEF StragglerSaves, bounds, Fault
<1>2. AtLock(t) /\ saving # None /\ saving.task = t
  BY <1>1 DEF SchedulerInv, Threads, AtLock
<1>3. /\ pc = "fail" /\ Typed /\ Threads /\ Racers /\ Pictures /\ RaceSays /\ saving \in Savings
  BY <1>1, <1>2, RaceFacts DEF Typed
<1>4. c \in States /\ Pictured(c) /\ c.rev = NextRev(w)
  BY <1>1, <1>3 DEF Threads, Pictures
<1>5. Racing' /\ pc' = "fail" /\ ~Busy'
  BY <1>1, <1>3 DEF Racing, Busy
<1>6. MainFits' /\ MainSays' /\ MainSaved' /\ LateFits' /\ EndFits'
  BY <1>1, <1>5, InRace
<1>7. /\ store' \in States \cup {None} /\ straggled' \in BOOLEAN
      /\ Stored' /\ Readable' /\ Logged' /\ Fresh'
      /\ store' = store \/ (store' = c /\ Rev(store)' > w.rev)
      /\ TakesLate(c) => store' = c
  BY <1>1, <1>4, <1>5, LateTaken
<1>8. PICK s \in {"saved", "done"} :
        /\ th' = [th EXCEPT ![t] = s]
        /\ \/ s = "done" /\ saving' = None /\ (out' = out \/ out' = [out EXCEPT ![t] = "error"])
           \/ s # "done" /\ saving' \in Savings /\ saving'.task = t /\ out' = out
              /\ (s # "set" => saving'.state \in States)
        /\ s = "saved" => store' = c /\ saving' = saving
  BY <1>1, <1>2, <1>3, <1>4, <1>7
<1>9. /\ Threads' /\ Crew' = Crew /\ th' \in [Work -> {"none", "running", "locked", "reading",
                                           "read", "set", "saving", "saved", "done"}]
      /\ out' \in [Work -> Outcomes]
      /\ \A u \in Work : u # t => ~AtLock(u) /\ ~AtLock(u)' /\ th'[u] = th[u]
      /\ th'[t] = s
  BY <1>1, <1>2, <1>5, <1>8, StragglerThreads
<1>10. Typed'
  BY <1>1, <1>3, <1>7, <1>8, <1>9 DEF Typed
<1>11. MainCalls'
  BY <1>5, <1>1 DEF SchedulerInv, MainCalls
<1>12. Racers'
  <2>1. Recorded(Head(todo))' = Recorded(Head(todo)) /\ Unrecorded' = Unrecorded
        /\ \A k : Untold(k)' = Untold(k)
    BY <1>1 DEF Recorded, Unrecorded, Untold, At, Racing
  <2> QED
    BY <1>1, <1>3, <1>9, <2>1 DEF Racers, At, NextCall, Outcome, Racing
<1>13. RaceSays'
  <2>1. straggled => straggled'
    BY <1>1, <1>3 DEF TakesLate
  <2>2. Finale' = Finale /\ Reported' = Reported
    BY <1>1 DEF Finale, Untold, Reported, At, Racing, NextCall
  <2>3. Facts(Finale)' = Facts(Finale)
    BY <2>2 DEF Facts
  <2> QED
    BY <1>1, <1>3, <2>1, <2>2, <2>3 DEF RaceSays, Typed
<1>14. PictureStays
  <2>1. NextCall("event") \/ results.next # "count"
    BY <1>1, <1>3 DEF Racers, At
  <2> QED
    BY <1>1, <1>9, <2>1 DEF PictureStays
<1>15. \A d : Pictured(d) => Pictured(d)'
  BY <1>1, <1>14, PicturesStay
<1>16. Pictured(w)' /\ Ahead(w)'
  <2>1. Pictured(w)'
    BY <1>1, <1>3, <1>15 DEF Pictures, Pictured
  <2>0. w' = w /\ Ahead(w)
    BY <1>1, <1>3 DEF Pictures
  <2>2. CASE store' = store
    <3>1. \A d : Leads(store, d) => Leads(store, d)'
      BY <1>1, <1>14, <2>2, AheadStays
    <3>2. Leads(store, w) => Leads(store, w)'
      BY <2>0, <3>1 DEF Leads
    <3> QED
      BY <2>0, <2>1, <2>2, <3>2 DEF Ahead, Rev
  <2>3. CASE Rev(store)' > w.rev
    BY <2>0, <2>1, <2>3 DEF Ahead, Rev
  <2> QED
    BY <1>7, <2>1, <2>2, <2>3
<1>17. Pictures'
  <2>1. \A u \in Work : th'[u] \in {"reading", "read", "saving", "saved"} => u = t /\ s = "saved"
    BY <1>8, <1>9 DEF AtLock
  <2>2. s = "saved" => Pictured(saving.state)' /\ saving'.state.rev = NextRev(w)' /\ saving'.state = store'
    BY <1>1, <1>4, <1>8, <1>15 DEF Pictured, NextRev
  <2>3. th'[t] # "saving" /\ th'[t] \notin {"reading", "read"}
    BY <1>9
  <2> QED
    BY <1>16, <2>1, <2>2, <2>3 DEF Pictures
<1> QED
  BY <1>5, <1>6, <1>7, <1>9, <1>10, <1>11, <1>12, <1>13, <1>17 DEF SchedulerInv, Settling

(* A batch that a failure ends begins to be settled. *)
LEMMA JoinFirstFailureInv == ASSUME SchedulerInv, JoinFirstFailure PROVE SchedulerInv'
<1> DEFINE n == Save("executing", Nobody)
<1>1. /\ pc = "poll" /\ todo = <<>> /\ strategy = "fail_fast" /\ Polling
      /\ pc' = "fail" /\ stopped' = TRUE
      /\ results' = [done |-> w.done, failed |-> w.failed, next |-> "record"]
      /\ UNCHANGED <<disk, w, seq, th, out, saving, history, bounds>>
  BY DEF JoinFirstFailure, Main, Then, Polling
<1>2. PICK t \in Active(w) : \E S \in SUBSET {u \in Active(w) : Over(u) /\ out[u] # "error"} :
        out[t] = "error" /\ todo' = Append(Verdicts(S \cup {t}), n)
  BY DEF JoinFirstFailure, Then
<1>3. PICK R \in SUBSET Active(w) : t \in R /\ todo' = Append(Verdicts(R), n)
  BY <1>2
<1>4. /\ Typed /\ Threads /\ Busy /\ Heard(w) /\ Fits("poll", w, strategy) /\ w \in States
      /\ w # None /\ store # None /\ store \in States
      /\ store = w \/ Rev(store) > w.rev
      /\ Sane(w, strategy) /\ Loadable(w) /\ ~Fast(w, strategy) /\ Kept(w, fresh, dropped) /\ ~Racing
  BY <1>1, AllSaved DEF SchedulerInv, Busy
<1>5. w.stage = "executing" /\ ~SummingUp(w) /\ w.failed = {}
  BY <1>1, <1>4 DEF Fits, SummingUp, Fast
<1>6. /\ Active(w) \subseteq w.started \ Settled(w) /\ Active(w) \subseteq Tasks
      /\ Synthesis \notin Active(w)
  BY <1>4, <1>5, ActiveTasks
<1> DEFINE good == Completing(R)
           bad == Failing(R)
           E == Verdicts(R)
<1>7. /\ good \subseteq R /\ bad \subseteq R /\ good \cap bad = {} /\ t \in bad
      /\ good \in SUBSET Tasks /\ bad \in SUBSET Tasks
  BY <1>2, <1>3, <1>6 DEF Completing, Failing
<1>8. EventList(E) /\ Els(E) \subseteq Marks /\ Els(E) = TaskMarks({}, good, bad)
  BY <1>3, <1>6, JoinTold
<1>9. n \in SaveCalls /\ n.call = "save"
  BY NobodyActive DEF SaveCalls, Save, Stages
<1> HIDE DEF n, E, good, bad
<1>10. Script(todo') /\ EndsInSave(todo') /\ Els(todo') = TaskMarks({}, good, bad) \cup {n}
  <2>1. todo' = Append(E, n)
    BY <1>3 DEF E
  <2> QED
    BY <1>8, <1>9, <2>1, EventsThenSave
<1>11. /\ results' \in Results /\ results'.done = w.done /\ results'.failed = w.failed
       /\ results'.next = "record"
  BY <1>1, <1>4 DEF Results, States
<1>12. Racing' /\ At("record")' /\ ~At("count")' /\ ~At("call")'
  BY <1>11, NoneAssumption DEF Racing, At, Results
<1>13. Crew' = Active(w) /\ Crew = Active(w)
  BY <1>1, <1>4 DEF Crew, Threads, Active
<1>14. Typed'
  BY <1>1, <1>4, <1>10, <1>11 DEF Typed, Pcs, disk, history, bounds
<1>15. Threads'
  <2>1. \A u \in Work : th[u] \notin {"reading", "read", "set", "saved"}
    BY <1>4 DEF Threads
  <2>2. (\A u \in Work : AtLock(u)' <=> AtLock(u)) /\ ~Polling'
    BY <1>1 DEF AtLock, Polling
  <2> QED
    BY <1>1, <1>4, <1>12, <2>1, <2>2 DEF Threads
<1>16. ~Busy' /\ MainFits' /\ MainSays' /\ MainSaved' /\ LateFits'
  BY <1>12 DEF Busy, MainFits, MainSays, MainSaved, LateFits
<1>17. MainCalls' /\ EndFits'
  <2>1. run # "completed"
    BY <1>1 DEF SchedulerInv, EndFits
  <2> QED
    BY <1>1, <1>10, <2>1 DEF MainCalls, EndFits, disk
<1>18. Stored' /\ Readable' /\ Logged'
  BY <1>1 DEF SchedulerInv, Stored, Readable, Logged, Announced, Said, disk, history, bounds
<1>19. Fresh'
  BY <1>1, <1>16, FreshKept DEF disk, history, bounds
<1>20. \A e \in TaskMarks({}, good, bad) :
         /\ e.call = "event" /\ e \in EventCalls
         /\ \/ e.kind = "task.completed" /\ e.task \in good
            \/ e.kind = "task.failed" /\ e.task \in bad
  <2>1. \A e \in TaskMarks({}, good, bad) : e \in EventCalls
    BY <1>8 DEF Marks
  <2>2. \A e \in TaskMarks({}, good, bad) :
          \/ \E u \in good : e = Event("task.completed", u)
          \/ \E u \in bad : e = Event("task.failed", u)
    BY DEF TaskMarks
  <2> QED
    BY <2>1, <2>2 DEF Event
<1>21. /\ Untold("task.completed")' = good /\ Untold("task.failed")' = bad
  <2>1. \A u \in good : Event("task.completed", u) \in TaskMarks({}, good, bad)
    BY DEF TaskMarks
  <2>2. \A u \in bad : Event("task.failed", u) \in TaskMarks({}, good, bad)
    BY DEF TaskMarks
  <2>3. \A k, u : Event(k, u) # n /\ Event(k, u).kind = k /\ Event(k, u).task = u
    BY <1>9 DEF Event
  <2>4. \A u : Event("task.completed", u) \in Els(todo') => u \in good
    BY <1>10, <1>20, <2>3
  <2>5. \A u : Event("task.failed", u) \in Els(todo') => u \in bad
    BY <1>10, <1>20, <2>3
  <2>6. good \subseteq Work /\ bad \subseteq Work
    BY <1>7 DEF Work
  <2> QED
    BY <1>10, <2>1, <2>2, <2>4, <2>5, <2>6 DEF Untold
<1>22. Racers'
  <2>1. w.done \cap w.failed = {} /\ w.done \subseteq w.started
    BY <1>4 DEF Sane
  <2>2. \A e \in Els(todo') : Outcome(e)' \/ e = n
    BY <1>7, <1>10, <1>13, <1>20, <1>3 DEF Outcome
  <2>3. \A e, f \in Els(todo') : e.call = "event" /\ f.call = "event" /\ e.task = f.task => e = f
    <3> SUFFICES ASSUME NEW e \in Els(todo'), NEW f \in Els(todo'), e.call = "event", f.call = "event",
                        e.task = f.task
                 PROVE  e = f
      OBVIOUS
    <3>1. e \in TaskMarks({}, good, bad) /\ f \in TaskMarks({}, good, bad)
      BY <1>9, <1>10
    <3>2. e.kind = f.kind /\ e \in EventCalls /\ f \in EventCalls
      BY <1>7, <1>20, <3>1
    <3> QED
      BY <3>2, MarksOfTasks
  <2>4. \A e \in Unrecorded' : e.task \notin results'.done \cup results'.failed
    BY <1>3, <1>6, <1>7, <1>9, <1>10, <1>11, <1>20 DEF Unrecorded, Settled
  <2>5. Untold("task.failed")' # {}
    BY <1>7, <1>21
  <2> QED
    BY <1>1, <1>6, <1>11, <1>12, <1>13, <2>1, <2>2, <2>3, <2>4, <2>5 DEF Racers, bounds, n
<1>23. RaceSays'
  <2> SUFFICES ASSUME ~straggled
               PROVE  /\ Reported' \in Nat /\ Reported' <= Len(log')
                      /\ Said(log', Reported') \cap Els(todo') \cap Marks = {}
                      /\ (Said(log', Reported') \cup Els(todo')) \cap Marks = Facts(Finale)'
    BY <1>1 DEF RaceSays, history
  <2>1. Reported' = seq /\ log' = log /\ seq \in Nat
    BY <1>1, <1>4, <1>12 DEF Reported, disk, Typed
  <2>2. seq <= Len(log) /\ Said(log, seq) \cap Marks = Facts(w)
    BY <1>4 DEF Heard
  <2> DEFINE d == Finale'
  <2>3. /\ d \in States /\ d.plan = w.plan /\ d.started = w.started /\ d.stage = w.stage
        /\ d.done = w.done \cup good /\ d.failed = w.failed \cup bad
    BY <1>1, <1>4, <1>7, <1>11, <1>21 DEF Finale, States
  <2> HIDE DEF d
  <2>4. /\ Facts(d) = Facts(w) \cup TaskMarks({}, good, bad)
        /\ Facts(w) \cap TaskMarks({}, good, bad) = {}
    <3> DEFINE O == {}
    <3>1. /\ (SummingUp(w) <=> SummingUp(d)) /\ (w.stage = "completed" <=> d.stage = "completed")
          /\ O \cap w.started = {} /\ good \cap w.done = {} /\ bad \cap w.failed = {}
      BY <1>3, <1>6, <1>7, <2>3 DEF Settled, SummingUp
    <3>2. /\ d \in States /\ d.plan = w.plan /\ d.started = w.started \cup O
          /\ d.done = w.done \cup good /\ d.failed = w.failed \cup bad /\ w \in States
          /\ O \in SUBSET Tasks /\ good \in SUBSET Tasks /\ bad \in SUBSET Tasks
      BY <1>4, <1>7, <2>3
    <3> HIDE DEF O
    <3>3. /\ Facts(d) = Facts(w) \cup TaskMarks(O, good, bad)
          /\ Facts(w) \cap TaskMarks(O, good, bad) = {}
      BY ONLY <3>1, <3>2, FactsGrow
    <3> QED
      BY <3>3 DEF O
  <2>5. Facts(Finale)' = Facts(d)
    BY DEF d, Facts
  <2>6. n \notin Marks
    BY <1>9 DEF Marks, EventCalls
  <2>7. Els(todo') \cap Marks = TaskMarks({}, good, bad)
    BY <1>8, <1>10, <2>6
  <2>8. Said(log', Reported') = Said(log, seq)
    BY <2>1
  <2> QED
    BY <2>1, <2>2, <2>4, <2>5, <2>7, <2>8
<1>24. Pictures'
  <2>2. Pictured(w)'
    BY <1>1, <1>4, <1>5, <1>11, <1>13 DEF Pictured, history, bounds
  <2>3. Ahead(w)'
    <3>1. CASE store = w
      <4>1. Leads(w, w)'
        BY <1>4, <1>13, <2>2, <1>1 DEF Leads
      <4> QED
        BY <1>1, <3>1, <4>1 DEF Ahead, Leads, Pictured, disk
    <3>2. CASE Rev(store) > w.rev
      BY <1>1, <3>2 DEF Ahead, Rev, disk
    <3> QED
      BY <1>4, <3>1, <3>2
  <2>4. ASSUME NEW u \in Work, th'[u] \in {"reading", "read", "saving", "saved"}
        PROVE  /\ th'[u] = "saving" /\ Pictured(saving.state)' /\ Ahead(saving.state)'
               /\ saving.state.rev = NextRev(w)
    <3>1. th[u] = "saving" /\ AtLock(u) /\ saving.state = Late(u) /\ LateState(u) = saving.state
      BY <1>1, <1>4, <2>4 DEF Threads, AtLock, LateState
    <3> DEFINE c == saving.state
    <3>2. /\ c \in States /\ Sane(c, strategy) /\ Kept(c, fresh, dropped) /\ Active(c) = Active(w)
          /\ c.stage = "executing" /\ c.plan = w.plan /\ c.started = w.started
          /\ c.done = w.done /\ c.failed = w.failed /\ c.rev = NextRev(w)
      <4>1. /\ Late(u) \in States /\ Sane(Late(u), strategy) /\ Kept(Late(u), fresh, dropped)
            /\ Active(Late(u)) = Active(w)
        BY <1>1, <3>1, LateWhilePolling
      <4>2. /\ Late(u).stage = w.stage /\ Late(u).plan = w.plan /\ Late(u).started = w.started
            /\ Late(u).done = w.done /\ Late(u).failed = w.failed /\ Late(u).rev = NextRev(w)
        BY <1>4 DEF Late, States
      <4> QED
        BY <1>5, <3>1, <4>1, <4>2
    <3>3. Pictured(saving.state)'
      BY <1>1, <1>11, <1>13, <3>2 DEF Pictured, history, bounds
    <3>4. Ahead(saving.state)'
      <4>1. CASE store = w
        <5>1. Pictured(store)'
          BY <1>1, <2>2, <4>1 DEF Pictured, disk
        <5>2. Leads(store, saving.state)'
          BY <1>1, <1>4, <1>13, <3>2, <4>1, <5>1 DEF Leads, disk
        <5> QED
          BY <5>2 DEF Ahead
      <4>2. CASE Rev(store) > w.rev
        BY <1>1, <4>2 DEF Ahead, Rev, disk
      <4> QED
        BY <1>4, <4>1, <4>2
    <3> QED
      BY <1>1, <3>1, <3>2, <3>3, <3>4
  <2> QED
    BY <1>1, <2>2, <2>3, <2>4 DEF Pictures, NextRev
<1> QED
  BY <1>12, <1>14, <1>15, <1>16, <1>17, <1>18, <1>19, <1>22, <1>23, <1>24 DEF SchedulerInv, Settling

-----------------------------------------------------------------------------
(* The end of the worker *)

LEMMA TimeOutInv == ASSUME SchedulerInv, TimeOut PROVE SchedulerInv'
<1>1. /\ todo = <<>> /\ GiveUp /\ stopped' = (stopped \/ pc \in {"poll", "wait"})
      /\ pc \in {"plan", "sum", "complete", "poll", "wait", "loop"}
      /\ UNCHANGED <<disk, w, seq, th, out, saving, results, history, bounds>>
  BY DEF TimeOut
<1>2. ~stopped /\ ~Racing /\ ~Racing'
  BY <1>1, NotRacing DEF SchedulerInv, Threads, Racing
<1>3. CASE ~Polling
  <2>1. UNCHANGED threads
    <3>1. stopped = FALSE
      BY <1>2 DEF SchedulerInv, Typed
    <3>2. ~(pc \in {"poll", "wait"})
      BY <1>3 DEF Polling
    <3>3. stopped' = FALSE
      BY <1>1, <3>1, <3>2, Zenon
    <3> QED
      BY <1>1, <3>1, <3>3 DEF threads
  <2> QED
    BY <1>1, <1>2, <1>3, <2>1, QuietGivingUp DEF bounds, SchedulerInv, Typed
<1>4. CASE Polling
  <2>1. /\ MainFits' /\ MainCalls' /\ MainSays' /\ MainSaved' /\ ~Busy'
        /\ Script(todo') /\ pc' = "fail" /\ todo' = <<>>
    BY <1>1, GivingUp
  <2>2. stopped' = TRUE
    BY <1>1, <1>4 DEF Polling
  <2>3. Typed'
    BY <1>1, <2>1, <2>2 DEF SchedulerInv, Typed, Pcs, disk, history, bounds
  <2>4. Threads'
    <3>1. /\ \A u \in Work : AtLock(u)' <=> AtLock(u)
          /\ ~Polling' /\ pc' \notin {"load", "down", "dead"}
      BY <1>1, <2>1 DEF AtLock, Polling
    <3> QED
      BY <1>1, <1>2, <2>1, <2>2, <3>1 DEF SchedulerInv, Threads
  <2>5. Stored' /\ Readable' /\ Logged' /\ EndFits' /\ Settling'
    BY <1>1, <1>2, <1>4, <2>1 DEF SchedulerInv, Stored, Readable, Logged, Announced, Said, EndFits, Settling,
       disk, history, bounds, Polling
  <2>6. Fresh'
    BY <1>1, <2>1, FreshKept DEF disk, history, bounds
  <2>7. LateFits'
    <3>1. SUFFICES ASSUME NEW u \in Work, AtLock(u)
                   PROVE  GoodLate(LateState(u))'
      BY <1>1 DEF LateFits, AtLock
    <3>2. LateState(u)' = LateState(u)
      BY <1>1 DEF LateState, Late, NextRev
    <3>3. GoodLate(LateState(u))
      <4>1. w \in States
        BY DEF SchedulerInv, Typed
      <4>2. Late(u).rev = w.rev + 1 /\ w.rev \in Nat
        BY <4>1 DEF Late, NextRev, States
      <4> DEFINE d == Late(u)
      <4>3. /\ LateState(u) = d /\ Sane(d, strategy) /\ Loadable(d)
            /\ (straggled \/ Agree(d, log)) /\ Kept(d, fresh, dropped)
            /\ Rev(store) >= d.rev \/ Follows(store, d)
        BY <1>4, <3>1, LateWhilePolling
      <4>4. d.rev > 0 /\ d.rev <= NextRev(w)
        BY <4>2 DEF NextRev
      <4> HIDE DEF d
      <4> QED
        BY <1>1, <4>3, <4>4 DEF GoodLate, Fine
    <3>4. todo' = todo
      BY <1>1, <2>1
    <3> QED
      BY <1>1, <3>2, <3>3, <3>4, LateStays DEF disk, bounds
  <2> QED
    BY <2>1, <2>3, <2>4, <2>5, <2>6, <2>7 DEF SchedulerInv
<1> QED
  BY <1>3, <1>4

(* What a worker leaves behind when it ends. *)
LEMMA AfterExit ==
  ASSUME SchedulerInv, NEW how \in {"down", "dead"}, Exit(how),
         UNCHANGED <<log, store, history, strategy>>,
         run' \in {"running", "waiting_approval", "completed", "failed", "cancelled"}, EndFits'
  PROVE  SchedulerInv'
<1>1. /\ pc' = how /\ todo' = <<>> /\ w' = NoState /\ seq' = 0 /\ saving' = None /\ stopped' = FALSE
      /\ th' = [t \in Work |-> "none"] /\ out' = [t \in Work |-> "none"] /\ results' = None
  BY DEF Exit
<1>2. \A t \in Work : th'[t] = "none" /\ out'[t] = "none" /\ ~AtLock(t)'
  BY <1>1 DEF AtLock
<1>3. Synthesis \in Work /\ ~Polling' /\ ~Busy' /\ ~Racing'
  BY <1>1 DEF Work, Polling, Busy, Racing
<1>4. NoState \in States
  BY NobodyActive DEF NoState, States
<1>5. Typed'
  <2>1. /\ th' \in [Work -> {"none", "running", "locked", "reading", "read", "set", "saving",
                             "saved", "done"}]
        /\ out' \in [Work -> Outcomes]
    BY <1>1 DEF Outcomes
  <2>2. /\ log' \in Seq(EventCalls) /\ store' \in States \cup {None} /\ fresh' \in [Work -> Nat]
        /\ dropped' \subseteq Work /\ straggled' \in BOOLEAN /\ strategy' \in Strategies
    BY DEF SchedulerInv, Typed, history
  <2>3. seq' \in Nat /\ results' \in Results \cup {None}
    BY <1>1
  <2>4. Script(todo') /\ pc' \in Pcs /\ w' \in States
    BY <1>1, <1>4, ScriptOfNothing DEF Pcs
  <2>5. saving' \in Savings \cup {None} /\ stopped' \in BOOLEAN
    BY <1>1
  <2> QED
    BY <2>1, <2>2, <2>3, <2>4, <2>5 DEF Typed
<1>6. Threads' /\ LateFits' /\ Settling'
  BY <1>1, <1>2, <1>3 DEF Threads, LateFits, Settling
<1>7. Stored' /\ Readable' /\ Logged'
  <2>1. Rev(store) \in Nat /\ NoState.rev = 0
    BY DEF SchedulerInv, Typed, Rev, States, NoState
  <2> QED
    BY <1>1, <2>1 DEF SchedulerInv, Stored, Readable, Logged, Announced, Said, history
<1>8. MainFits' /\ MainCalls' /\ MainSays' /\ MainSaved'
  BY <1>1, <1>3 DEF MainFits, MainCalls, MainSays, MainSaved
<1>9. Fresh'
  BY <1>1, <1>3, FreshKept DEF history
<1> QED
  BY <1>5, <1>6, <1>7, <1>8, <1>9 DEF SchedulerInv

LEMMA CompleteInv == ASSUME SchedulerInv, Complete PROVE SchedulerInv'
<1>1. /\ pc = "complete" /\ todo = <<>> /\ UNCHANGED <<log, store, reported, history, bounds>>
  BY DEF Complete, Main
<1>2. /\ store = w /\ Fits("complete", w, strategy) /\ w # None /\ ~stopped /\ ~Polling
  BY <1>1, AllSaved DEF Polling
<1>3. CASE run = "running" /\ run' = "completed" /\ Exit("down")
  <2>1. store'.stage = "completed" /\ store' # None
    BY <1>1, <1>2 DEF Fits
  <2>2. EndFits'
    BY <1>3, <2>1 DEF EndFits, Going, Exit
  <2> QED
    BY <1>1, <1>3, <2>2, AfterExit DEF bounds
<1>4. CASE GiveUp /\ UNCHANGED <<run, w, seq, threads>>
  BY <1>1, <1>2, <1>4, QuietGivingUp DEF disk, bounds, SchedulerInv, Typed
<1> QED
  BY <1>3, <1>4 DEF Complete

LEMMA ReportPauseInv == ASSUME SchedulerInv, ReportPause PROVE SchedulerInv'
<1>1. /\ pc = "pause" /\ todo = <<>> /\ UNCHANGED <<log, store, history, strategy>> /\ Exit("down")
      /\ run' = run \/ run' = "waiting_approval"
  BY DEF ReportPause, Main, Fault, bounds
<1>2. /\ store = w /\ Fits("pause", w, strategy) /\ w # None
  BY <1>1, AllSaved DEF Polling
<1>3. run # "completed" /\ run \in {"running", "waiting_approval", "completed", "failed", "cancelled"}
  BY <1>1 DEF SchedulerInv, EndFits, Typed
<1>4. EndFits'
  BY <1>1, <1>2, <1>3 DEF EndFits
<1> QED
  BY <1>1, <1>3, <1>4, AfterExit

LEMMA FailInv == ASSUME SchedulerInv, Fail PROVE SchedulerInv'
<1>1. /\ pc = "fail" /\ UNCHANGED <<log, store, history, strategy>>
      /\ \/ Going /\ run' = "failed" /\ Exit("down")
         \/ ~Going /\ run' = run /\ Exit("down")
         \/ Going /\ run' \in {run, "failed"} /\ Exit("dead")
  BY DEF Fail, Main, Fault, bounds
<1>2. run # "completed" /\ run \in {"running", "waiting_approval", "completed", "failed", "cancelled"}
  BY <1>1 DEF SchedulerInv, EndFits, Typed
<1>3. CASE Exit("down") /\ ~Going'
  <2>1. run' # "completed" /\ run' \in {"running", "waiting_approval", "completed", "failed", "cancelled"}
    BY <1>1, <1>2
  <2>2. EndFits'
    BY <1>3, <2>1 DEF EndFits
  <2> QED
    BY <1>1, <1>3, <2>1, <2>2, AfterExit
<1>4. CASE Exit("dead")
  <2>1. run' # "completed" /\ run' \in {"running", "waiting_approval", "completed", "failed", "cancelled"}
    BY <1>1, <1>2
  <2>2. EndFits'
    BY <1>4, <2>1 DEF EndFits, Exit
  <2> QED
    BY <1>1, <1>4, <2>1, <2>2, AfterExit
<1> QED
  BY <1>1, <1>3, <1>4 DEF Going

LEMMA CrashInv == ASSUME SchedulerInv, Crash PROVE SchedulerInv'
<1>1. Up /\ UNCHANGED <<run, log, store, history, strategy>> /\ Exit("dead")
  BY DEF Crash, Fault, disk
<1>2. run # "completed" /\ run \in {"running", "waiting_approval", "completed", "failed", "cancelled"}
  BY <1>1 DEF SchedulerInv, EndFits, Typed, Up
<1>3. EndFits'
  BY <1>1, <1>2 DEF EndFits, Exit
<1> QED
  BY <1>1, <1>2, <1>3, AfterExit

-----------------------------------------------------------------------------
(* The rest of the platform *)

LEMMA RestartInv == ASSUME SchedulerInv, Restart PROVE SchedulerInv'
<1>1. /\ pc \in {"down", "dead"} /\ pc' = "load" /\ run' = "running"
      /\ UNCHANGED <<log, store, reported, w, seq, todo, threads, history, bounds>>
  BY DEF Restart
<1>2. w = NoState /\ seq = 0 /\ todo = <<>>
  BY <1>1 DEF SchedulerInv, Threads
<1>3. /\ ~Polling /\ ~Polling' /\ ~Busy' /\ ~stopped /\ (\A t \in Work : AtLock(t)' <=> AtLock(t))
      /\ ~Racing /\ ~Racing'
  BY <1>1, <1>2, NotRacing DEF SchedulerInv, Threads, Polling, Busy, AtLock, threads, Racing
<1>4. Typed'
  BY <1>1 DEF SchedulerInv, Typed, Pcs, threads, history, bounds
<1>5. Threads'
  BY <1>1, <1>2, <1>3 DEF SchedulerInv, Threads, threads
<1>6. Stored' /\ Readable' /\ Logged' /\ LateFits' /\ EndFits' /\ Settling'
  BY <1>1, <1>3 DEF SchedulerInv, Stored, Readable, Logged, Announced, Said, LateFits, EndFits, Settling,
     threads, history, bounds
<1>7. MainFits' /\ MainCalls' /\ MainSays' /\ MainSaved'
  BY <1>1, <1>2, <1>3 DEF MainFits, MainCalls, MainSays, MainSaved
<1>8. Fresh'
  BY <1>1, <1>3, FreshKept DEF history, bounds
<1> QED
  BY <1>4, <1>5, <1>6, <1>7, <1>8 DEF SchedulerInv

LEMMA EndInv == ASSUME SchedulerInv, End PROVE SchedulerInv'
<1>1. /\ run' = "cancelled"
      /\ UNCHANGED <<log, store, reported, pc, w, seq, todo, threads, history, bounds>>
  BY DEF End
<1>2. /\ Stored' /\ Readable' /\ Logged' /\ MainCalls' /\ MainSays' /\ Fresh'
      /\ MainFits' /\ MainSaved'
  BY <1>1, OnlyThreads DEF threads
<1>3. Typed'
  BY <1>1 DEF SchedulerInv, Typed, threads, history, bounds
<1>4. (\A t \in Work : AtLock(t)' <=> AtLock(t)) /\ (Racing' <=> Racing)
  BY <1>1 DEF AtLock, threads, Racing
<1>5. Threads'
  <2>1. (Polling' <=> Polling) /\ \A t \in Work : Late(t)' = Late(t)
    BY <1>1 DEF Polling, Late, NextRev, threads
  <2> QED
    BY <1>1, <1>4, <2>1 DEF SchedulerInv, Threads, threads
<1>6. LateFits'
  <2>1. SUFFICES ASSUME stopped, ~Racing, NEW u \in Work, AtLock(u)
                 PROVE  GoodLate(LateState(u))'
    BY <1>1, <1>4 DEF LateFits, threads
  <2>2. LateState(u)' = LateState(u)
    BY <1>1 DEF LateState, Late, NextRev, threads
  <2> QED
    BY <1>1, <2>1, <2>2, LateStays DEF SchedulerInv, LateFits, bounds
<1>7. EndFits'
  BY <1>1 DEF EndFits, Going
<1>8. Settling'
  BY <1>1, RaceStays DEF threads, bounds
<1> QED
  BY <1>2, <1>3, <1>5, <1>6, <1>7, <1>8 DEF SchedulerInv

-----------------------------------------------------------------------------
(* The invariant holds in every state *)

LEMMA InitInv == Init => SchedulerInv
<1> SUFFICES ASSUME Init PROVE SchedulerInv
  OBVIOUS
<1>1. /\ run = "running" /\ log = <<>> /\ store = None /\ pc = "load" /\ w = NoState /\ seq = 0
      /\ todo = <<>> /\ th = [t \in Work |-> "none"] /\ out = [t \in Work |-> "none"]
      /\ saving = None /\ stopped = FALSE /\ results = None /\ strategy \in Strategies
      /\ fresh = [t \in Work |-> 0] /\ dropped = {} /\ straggled = FALSE
  BY DEF Init
<1>2. \A t \in Work : th[t] = "none" /\ out[t] = "none" /\ ~AtLock(t) /\ fresh[t] = 0
  BY <1>1 DEF AtLock
<1>3. Synthesis \in Work /\ ~Polling /\ ~Busy /\ ~Racing
  BY <1>1 DEF Work, Polling, Busy, Racing
<1>4. NoState \in States
  BY NobodyActive DEF NoState, States
<1>5. Typed
  <2>1. /\ th \in [Work -> {"none", "running", "locked", "reading", "read", "set", "saving",
                            "saved", "done"}]
        /\ out \in [Work -> Outcomes] /\ fresh \in [Work -> Nat]
    BY <1>1 DEF Outcomes
  <2>2. log \in Seq(EventCalls) /\ seq \in Nat
    BY <1>1
  <2> QED
    BY <1>1, <1>4, <2>1, <2>2, ScriptOfNothing DEF Typed, Pcs
<1>6. Threads /\ LateFits /\ Settling
  BY <1>1, <1>2, <1>3 DEF Threads, LateFits, Settling
<1>7. Len(log) = 0 /\ \A k \in Kinds : Announced(k, log) = {}
  BY <1>1 DEF Announced, Said
<1>8. Stored /\ Readable /\ Logged
  <2>1. Stored /\ Readable
    BY <1>1 DEF Stored, Readable, Rev, NoState
  <2>2. Logged
    BY <1>1, <1>7 DEF Logged, Kinds
  <2> QED
    BY <2>1, <2>2
<1>9. MainFits /\ MainCalls /\ MainSays /\ MainSaved
  BY <1>1, <1>3 DEF MainFits, MainCalls, MainSays, MainSaved
<1>10. Fresh /\ EndFits
  <2>1. \A t \in Tasks : fresh[t] = 0
    BY <1>2 DEF Work
  <2> QED
    BY <1>1, <1>3, <2>1 DEF Fresh, EndFits
<1> QED
  BY <1>5, <1>6, <1>8, <1>9, <1>10 DEF SchedulerInv

LEMMA NextInv == SchedulerInv /\ [Next]_vars => SchedulerInv'
<1> SUFFICES ASSUME SchedulerInv, [Next]_vars PROVE SchedulerInv'
  OBVIOUS
<1>1. CASE MainStep
  BY <1>1, SendEventInv, SaveStateInv, LoadNothingInv, StartAfterLoadFails, LoadInv, PlanInv, BlockInv,
     BeginBatchInv, QueueEndsInv, LaunchInv, StartAfterLaunchFails, JoinAllInv, JoinFirstFailureInv,
     RecordOutcomeInv, CountOutcomeInv, TellOutcomeInv, SetStateInv, SendStateInv, SumUpInv, SummedUpInv, CompleteInv, ReportPauseInv, TimeOutInv, FailInv DEF MainStep
<1>2. ASSUME NEW t \in Work, MemberStep(t)
      PROVE  SchedulerInv'
  BY <1>2, MemberFailsInv, MemberComputesInv, MemberSavesInv, MemberEndsInv, StragglerReadsInv,
     StragglerReadsFailedInv, StragglerSetsInv, StragglerCountsInv, StragglerSavesInv,
     StragglerReturnsInv DEF MemberStep
<1>3. CASE Crash \/ Restart \/ End
  BY <1>3, CrashInv, RestartInv, EndInv
<1>4. CASE UNCHANGED vars
  <2>1. /\ UNCHANGED <<run, log, store, reported, pc, w, seq, todo, th, out, saving, stopped, results,
                       history, strategy, faults>>
        /\ UNCHANGED <<fresh, dropped, straggled>>
    BY <1>4 DEF vars, disk, threads, history, bounds
  <2>2. /\ Stored' /\ Readable' /\ Logged' /\ MainCalls' /\ MainSays' /\ Fresh'
        /\ MainFits' /\ MainSaved'
    BY <2>1, OnlyThreads DEF bounds
  <2>3. Typed'
    BY <2>1 DEF SchedulerInv, Typed
  <2>4. (\A t \in Work : AtLock(t)' <=> AtLock(t)) /\ (Racing' <=> Racing)
    BY <2>1 DEF AtLock, Racing
  <2>5. Threads'
    <3>1. (Polling' <=> Polling) /\ \A t \in Work : Late(t)' = Late(t)
      BY <2>1 DEF Polling, Late, NextRev
    <3> QED
      BY <2>1, <2>4, <3>1 DEF SchedulerInv, Threads
  <2>6. LateFits'
    <3>1. SUFFICES ASSUME stopped, ~Racing, NEW u \in Work, AtLock(u)
                   PROVE  GoodLate(LateState(u))'
      BY <2>1, <2>4 DEF LateFits
    <3>2. LateState(u)' = LateState(u)
      BY <2>1 DEF LateState, Late, NextRev
    <3> QED
      BY <2>1, <3>1, <3>2, LateStays DEF SchedulerInv, LateFits
  <2>7. EndFits'
    BY <2>1 DEF SchedulerInv, EndFits, Going
  <2>8. Settling'
    BY <2>1, RaceStays
  <2> QED
    BY <2>2, <2>3, <2>5, <2>6, <2>7, <2>8 DEF SchedulerInv
<1> QED
  BY <1>1, <1>2, <1>3, <1>4 DEF Next

(* All that the proofs below need to know of the scheduler: what is stored, what the
   main thread is about to do, what was said, and what threads may still save agree. *)
THEOREM Scheduler == Spec => []SchedulerInv
<1>1. Init => SchedulerInv
  BY InitInv
<1>2. SchedulerInv /\ [Next]_vars => SchedulerInv'
  BY NextInv
<1> QED
  BY <1>1, <1>2, PTL DEF Spec

-----------------------------------------------------------------------------
(* What follows from it *)

(* Types: whatever is in memory, stored or about to be saved by a thread is a
   TeamSchedulerState. *)
THEOREM TypeInvariant == Spec => []TypeOK
<1>1. SchedulerInv => TypeOK
  <2> SUFFICES ASSUME SchedulerInv PROVE TypeOK
    OBVIOUS
  <2> QED
    BY DEF SchedulerInv, Typed, Threads, TypeOK
<1> QED
  BY <1>1, Scheduler, PTL

(* The queue of an accepted plan always has something to do: a task that is blocked,
   one that can be begun, or nothing but settled ones (validate_team_plan admits no
   cycle, so among the unsettled tasks there is one that waits for none of them). *)
THEOREM QueueMoves == Spec => []NeverStalls
<1>1. SchedulerInv => NeverStalls
  <2> SUFFICES ASSUME SchedulerInv, pc = "loop", todo = <<>>, Blocked(w) = {}, Batch(w) = {}
               PROVE  Settled(w) = Tasks
    BY DEF NeverStalls, Main
  <2>1. /\ w \in States /\ Sane(w, strategy) /\ Loadable(w) /\ w.stage # "synthesizing"
    BY AllSaved DEF Fits, SummingUp
  <2>2. Active(w) \subseteq w.started \ Settled(w) /\ Settled(w) \subseteq Tasks
    BY <2>1, ActiveTasks DEF Loadable
  <2>3. Active(w) = {}
    BY <2>2 DEF Batch
  <2>4. Ready(w) = {}
    BY <2>3, NextBatch DEF Batch
  <2> DEFINE S == Tasks \ Settled(w)
  <2>5. SUFFICES ASSUME S # {} PROVE FALSE
    BY <2>2
  <2>6. PICK t \in S : w.plan[t].deps \cap S = {} /\ w.plan[t].deps \subseteq Tasks
    <3>1. Accepted(w.plan)
      BY <2>1 DEF Sane
    <3>2. \A R \in SUBSET Tasks : R # {} => \E t \in R : w.plan[t].deps \cap R = {}
      BY <3>1, AcceptedPlan
    <3>3. \A t \in Tasks : w.plan[t].deps \subseteq Tasks
      BY <3>1, AcceptedPlan
    <3>4. \E t \in S : w.plan[t].deps \cap S = {}
      BY <2>5, <3>2
    <3> QED
      BY <3>3, <3>4
  <2>7. w.plan[t].deps \cap w.failed = {}
    BY DEF Blocked
  <2>8. t \in Ready(w)
    BY <2>6, <2>7 DEF Ready, Settled
  <2> QED
    BY <2>4, <2>8
<1> QED
  BY <1>1, Scheduler, PTL

LEMMA ToldIsSaid ==
  ASSUME NEW k, NEW n
  PROVE  Told(k, n) = {t \in Work : Event(k, t) \in Said(log, n)}
BY DEF Told, Said

(* The events a user has seen agree with the checkpoint the run is taken up from, and
   nothing is announced twice or with two outcomes, whatever died in between, until a
   straggler stores a checkpoint that misses the failure of its batch
   (_emit_team_event, _save_team_state). *)
THEOREM EventsOfARun == Spec => []EventsAgree
<1>1. SchedulerInv => EventsAgree
  <2> SUFFICES ASSUME SchedulerInv, ~straggled PROVE EventsAgree
    BY DEF EventsAgree
  <2>1. ASSUME store # None, ~FailsFast(store)
        PROVE  /\ store.seq <= Len(log)
               /\ Told("task.completed", store.seq) = store.done
               /\ Told("task.failed", store.seq) = store.failed
               /\ Told("task.started", store.seq) = store.started
    <3>1. Agree(store, log)
      BY <2>1 DEF SchedulerInv, Readable, Fast, FailsFast
    <3>2. store.done \subseteq Work /\ store.failed \subseteq Work /\ store.started \subseteq Work
      BY <2>1 DEF SchedulerInv, Typed, States, Work
    <3>3. \A t \in Work : /\ Event("task.completed", t) \in Facts(store) <=> t \in store.done
                          /\ Event("task.failed", t) \in Facts(store) <=> t \in store.failed
                          /\ Event("task.started", t) \in Facts(store) <=> t \in store.started
      BY MarksOfTasks DEF Facts, Kinds
    <3>4. \A t \in Work : /\ Event("task.completed", t) \in Marks
                          /\ Event("task.failed", t) \in Marks /\ Event("task.started", t) \in Marks
      BY MarksOfTasks DEF Kinds
    <3>5. \A t \in Work : /\ Event("task.completed", t) \in Said(log, store.seq) <=> t \in store.done
                          /\ Event("task.failed", t) \in Said(log, store.seq) <=> t \in store.failed
                          /\ Event("task.started", t) \in Said(log, store.seq) <=> t \in store.started
      BY <3>1, <3>3, <3>4 DEF Agree
    <3> QED
      BY <3>1, <3>2, <3>5, ToldIsSaid DEF Agree
  <2>2. Told("task.completed", Len(log)) \cap Told("task.failed", Len(log)) = {}
    BY ToldIsSaid DEF SchedulerInv, Logged, Announced
  <2>3. ASSUME NEW i \in 1..Len(log), NEW j \in 1..Len(log),
               log[i] = log[j], log[i].kind # "approval.required"
        PROVE  i = j
    <3>1. log[i] \in EventCalls
      BY DEF SchedulerInv, Typed
    <3>2. log[i] \in Marks
      BY <2>3, <3>1 DEF Marks
    <3> QED
      BY <2>3, <3>2 DEF SchedulerInv, Logged
  <2> QED
    BY <2>1, <2>2, <2>3 DEF EventsAgree
<1> QED
  BY <1>1, Scheduler, PTL

(* Whatever a thread saved last can be loaded by the next worker, unless the run is
   about to fail, or a straggler stored a checkpoint that misses the failure of its
   batch (_load_team_state). *)
THEOREM LoadableAgain == Spec => []CheckpointIsLoadable
<1>1. SchedulerInv => CheckpointIsLoadable
  BY DEF SchedulerInv, Readable, Fast, FailsFast, CheckpointIsLoadable
<1> QED
  BY <1>1, Scheduler, PTL

(* A run that waits for an approval, with its worker gone, has the graphs of all the
   tasks it waits for in its checkpoint. *)
THEOREM WaitsWithItsGraphs == Spec => []Resumable
<1>1. SchedulerInv => Resumable
  BY DEF SchedulerInv, EndFits, Going, Fits, Fast, FailsFast, Resumable
<1> QED
  BY <1>1, Scheduler, PTL

(* A completed run calls its answer partial exactly if the user was told that a task
   of the plan failed, unless a straggler's checkpoint had forgotten that. *)
THEOREM HonestAnswer == Spec => []AnswerIsHonest
<1>1. SchedulerInv => AnswerIsHonest
  <2> DEFINE told == Told("task.failed", Len(log)) \cap Tasks
  <2> SUFFICES ASSUME SchedulerInv, ~straggled, run = "completed"
               PROVE  store.stage = "completed" /\ (store.partial <=> told # {})
    BY DEF AnswerIsHonest
  <2>1. store # None /\ store.stage = "completed" /\ store \in States
    BY DEF SchedulerInv, EndFits, Typed
  <2>2. /\ Settled(store) = Tasks /\ ~Fast(store, strategy)
        /\ store.partial <=> store.failed # {}
    BY <2>1 DEF SchedulerInv, Stored, Sane, SummingUp
  <2>3. Agree(store, log) /\ log \in Seq(EventCalls) /\ store.seq \in Nat /\ store.seq <= Len(log)
    BY <2>1, <2>2 DEF SchedulerInv, Readable, Agree, Typed, States
  <2>4. Said(log, store.seq) \subseteq Said(log, Len(log))
    BY <2>3, EarlierSaid
  <2>5. \A t \in Tasks : /\ t \in store.done => Event("task.completed", t) \in Facts(store)
                         /\ t \in store.failed => Event("task.failed", t) \in Facts(store)
    BY MarksOfTasks DEF Facts, Kinds
  <2>6. \A t \in Tasks : /\ t \in store.done => t \in Announced("task.completed", log)
                         /\ t \in store.failed => t \in Announced("task.failed", log)
    BY <2>3, <2>4, <2>5 DEF Agree, Announced, Work
  <2>7. told = Announced("task.failed", log) \cap Tasks
    BY ToldIsSaid DEF Announced
  <2>8. told \subseteq store.failed
    BY <2>2, <2>6, <2>7 DEF SchedulerInv, Logged, Settled, Work
  <2>9. store.failed \subseteq told
    BY <2>1, <2>6, <2>7 DEF States
  <2> QED
    BY <2>1, <2>2, <2>8, <2>9
<1> QED
  BY <1>1, Scheduler, PTL

(* No task is begun from scratch twice, except one whose interrupted invocation was
   dropped when the dependents of a failed task were failed
   (_recover_completed_invocations). *)
THEOREM BegunOnce == Spec => []ReplayedOnlyIfDropped
<1>1. SchedulerInv => ReplayedOnlyIfDropped
  BY DEF SchedulerInv, Fresh, ReplayedOnlyIfDropped
<1> QED
  BY <1>1, Scheduler, PTL

-----------------------------------------------------------------------------
(* The checkpoints implement the task board *)

(* What is saved of a batch that a failure has ended follows what was saved before. *)
LEMMA LeadsFollows ==
  ASSUME SchedulerInv, Racing, store # None, NEW c \in States, Pictured(c), Leads(store, c)
  PROVE  Follows(store, c)
<1> DEFINE a == store
<1>1. a \in States /\ a # None /\ Pictured(a) /\ Pictured(c)
  BY RaceFacts DEF Leads
<1>2. /\ c.plan = a.plan /\ a.done \subseteq c.done /\ a.failed \subseteq c.failed
      /\ Active(a) = Crew \/ Active(c) = {}
  BY <1>1 DEF Leads, Pictured
<1>3. /\ c.done \subseteq a.done \cup Crew /\ c.failed \subseteq a.failed \cup Crew
      /\ c.done \subseteq Tasks /\ c.failed \subseteq Tasks
  BY <1>1 DEF Pictured, States
<1>4. Executing(a, c)
  BY <1>1 DEF Pictured, Executing, SummingUp
<1> HIDE DEF a
<1>5. CASE Active(a) = Crew
  <2>1. Settled(c) \ Settled(a) \subseteq Underway(a)
    BY <1>2, <1>3, <1>5 DEF Settled, Underway
  <2>2. Active(c) = Crew \/ (Active(c) = {} /\ c.failed # {})
    BY <1>1 DEF Pictured
  <2>3. Underway(c) \subseteq Underway(a)
    BY <1>2, <1>5, <2>2 DEF Settled, Underway
  <2>4. c.failed # {} \/ Underway(a) \subseteq Underway(c) \cup Settled(c)
    BY <1>5, <2>2 DEF Settled, Underway
  <2>5. Settles(a, c)
    BY <1>2, <1>4, <2>1, <2>3, <2>4 DEF Settles
  <2> QED
    BY <1>1, <1>2, <2>5 DEF Follows, a
<1>6. CASE Active(a) # Crew
  <2>1. Active(c) = {} /\ Active(a) = {} /\ a.done = results.done /\ a.failed = results.failed
    BY <1>1, <1>2, <1>6 DEF Pictured
  <2>2. c.done = a.done /\ c.failed = a.failed
    BY <1>1, <1>2, <2>1 DEF Pictured
  <2>3. Stays(a, c)
    BY <1>4, <2>1, <2>2 DEF Stays, Underway
  <2> QED
    BY <1>1, <1>2, <2>3 DEF Follows, a
<1> QED
  BY <1>5, <1>6

(* Nothing is saved of such a batch unless the plan was. *)
LEMMA LateFollows ==
  ASSUME SchedulerInv, Racing, NEW c \in States, Pictured(c), Ahead(c), c.rev = NextRev(w),
         TakesLate(c), store' # store
  PROVE  store' \in States /\ Follows(store, store')
<1>1. store' = c /\ Newer(c)
  BY DEF TakesLate, TakesCheckpoint
<1>2. Leads(store, c)
  <2>1. w.rev \in Nat /\ c.rev = w.rev + 1 /\ Rev(store) \in Nat
    BY RaceFacts
  <2> QED
    BY <1>1, <2>1 DEF Newer, Rev, Ahead
<1>3. store # None
  BY <1>2 DEF Leads
<1> QED
  BY <1>1, <1>2, <1>3, LeadsFollows

(* A checkpoint is only replaced by one that follows it. *)
LEMMA StoreFollows ==
  ASSUME SchedulerInv, [Next]_vars
  PROVE  UNCHANGED store \/ (store' \in States /\ Follows(store, store'))
<1>1. CASE SaveState /\ store' # store
  <2>1. /\ todo # <<>> /\ Head(todo).call = "save" /\ ~Racing /\ TakesCheckpoint(Saved)
    BY <1>1 DEF SaveState, Saved, NextCall
  <2>2. store' = Saved /\ Newer(Saved)
    BY <1>1, <2>1 DEF TakesCheckpoint
  <2>3. /\ pc # "plan" /\ Busy /\ Saved.rev = w.rev + 1 /\ Alike(Pending, Saved)
    BY <2>1, SavedState
  <2>4. Rev(store) \in Nat /\ w.rev \in Nat
    BY DEF SchedulerInv, Typed, States, Rev
  <2>5. Rev(store) <= w.rev
    BY <2>2, <2>3, <2>4 DEF Newer, Rev
  <2>6. Follows(store, Pending)
    BY <2>1, <2>3, <2>4, <2>5 DEF SchedulerInv, MainSaved
  <2>7. Saved \in States
    BY <2>1, SavedState
  <2> QED
    BY <2>2, <2>3, <2>6, <2>7, AlikeFollows
<1>2. ASSUME NEW t \in Work, MemberSaves(t), store' # store
      PROVE  store' \in States /\ Follows(store, store')
  <2> DEFINE c == saving.state
  <2>1. th[t] = "saving" /\ TakesCheckpoint(c) /\ ~Racing
    BY <1>2 DEF MemberSaves
  <2>2. store' = c /\ Newer(c)
    BY <1>2, <2>1 DEF TakesCheckpoint
  <2>3. AtLock(t) /\ LateState(t) = c /\ c \in States
    BY <2>1 DEF AtLock, LateState, SchedulerInv, Threads
  <2>4. Rev(store) \in Nat /\ c.rev \in Nat
    BY <2>3 DEF SchedulerInv, Typed, States, Rev
  <2>5. Rev(store) >= c.rev \/ Follows(store, c)
    <3>1. CASE Polling
      BY <2>3, <3>1, LateWhilePolling
    <3>2. CASE stopped
      BY <2>1, <2>3, <3>2 DEF SchedulerInv, LateFits, GoodLate
    <3> QED
      BY <2>1, <3>1, <3>2, MembersRun
  <2>6. CASE store = None
    <3>1. c.rev > 0
      <4>1. CASE Polling
        <5>1. w.rev \in Nat
          BY DEF SchedulerInv, Typed, States
        <5>2. c.rev = w.rev + 1
          <6>1. Late(t).rev = w.rev + 1
            BY <5>1 DEF Late, NextRev, SchedulerInv, Typed, States
          <6> QED
            BY <2>3, <4>1, <6>1, LateWhilePolling
        <5> QED
          BY <5>1, <5>2
      <4>2. CASE stopped
        BY <2>1, <2>3, <4>2 DEF SchedulerInv, LateFits, GoodLate
      <4> QED
        BY <2>1, <4>1, <4>2, MembersRun
    <3> QED
      BY <2>2, <2>3, <2>4, <2>5, <2>6, <3>1 DEF Rev
  <2>7. CASE store # None
    BY <2>2, <2>3, <2>4, <2>5, <2>7 DEF Newer, Rev
  <2> QED
    BY <2>6, <2>7
<1>3. CASE SendState /\ store' # store
  <2> DEFINE c == [w EXCEPT !.rev = NextRev(w), !.seq = seq]
  <2>1. Racing /\ TakesLate(c)
    BY <1>3 DEF SendState, At
  <2>2. c \in States /\ Pictured(c) /\ Ahead(c) /\ c.rev = NextRev(w)
    BY <2>1, NextNumber
  <2> HIDE DEF c
  <2> QED
    BY <1>3, <2>1, <2>2, LateFollows
<1>4. ASSUME NEW t \in Work, StragglerSaves(t), store' # store
      PROVE  store' \in States /\ Follows(store, store')
  <2> DEFINE c == saving.state
  <2>1. Racing /\ th[t] = "saving" /\ TakesLate(c)
    BY <1>4 DEF StragglerSaves
  <2>2. c \in States /\ Pictured(c) /\ Ahead(c) /\ c.rev = NextRev(w)
    BY <2>1, RaceFacts DEF Threads, Pictures
  <2> HIDE DEF c
  <2> QED
    BY <1>4, <2>1, <2>2, LateFollows
<1>5. UNCHANGED store \/ SaveState \/ SendState \/ \E t \in Work : MemberSaves(t) \/ StragglerSaves(t)
  <2>1. CASE MainStep
    BY <2>1 DEF MainStep, SendEvent, LoadNothing, LoadFails, Load, Plan, Block, BeginBatch, QueueEnds,
       Launch, LaunchFails, JoinAll, JoinFirstFailure, RecordOutcome, CountOutcome, TellOutcome,
       SetState, SumUp, SummedUp, Complete, ReportPause, TimeOut, Fail, disk
  <2>2. ASSUME NEW t \in Work, MemberStep(t)
        PROVE  UNCHANGED store \/ MemberSaves(t) \/ StragglerSaves(t)
    BY <2>2 DEF MemberStep, MemberFails, MemberComputes, MemberEnds, StragglerReads,
       StragglerReadsFailed, StragglerSets, StragglerCounts, StragglerReturns, disk
  <2>3. CASE Crash \/ Restart \/ End
    BY <2>3 DEF Crash, Restart, End, disk
  <2> QED
    BY <2>1, <2>2, <2>3 DEF Next, vars, disk
<1> QED
  BY <1>1, <1>2, <1>3, <1>4, <1>5

(* What a checkpoint shows on the board. *)
PlanOf(c) == IF c = None THEN None ELSE c.plan
Column(c) == [t \in Tasks |-> IF c = None THEN "todo"
                              ELSE IF t \in c.done THEN "done"
                              ELSE IF t \in c.failed THEN "failed"
                              ELSE IF t \in Active(c) THEN "running" ELSE "todo"]
PhaseOf(c) == IF c = None THEN "planning"
              ELSE IF c.stage \in {"synthesizing", "completed"} THEN c.stage
              ELSE "executing"
In(c, s) == {t \in Tasks : Column(c)[t] = s}

LEMMA Columns ==
  ASSUME NEW c \in States, Sane(c, strategy), c # None
  PROVE  /\ In(c, "done") = c.done /\ In(c, "failed") = c.failed /\ In(c, "running") = Underway(c)
         /\ \A t \in Tasks : Column(c)[t] = "todo" <=> t \notin Settled(c) \cup Underway(c)
         /\ \A t \in Tasks : /\ Column(c)[t] = "done" <=> t \in c.done
                             /\ Column(c)[t] = "failed" <=> t \in c.failed
                             /\ Column(c)[t] = "running" <=> t \in Underway(c)
         /\ \A t \in Tasks : Column(c)[t] \in {"todo", "running", "done", "failed"}
<1>1. c.done \subseteq Tasks /\ c.failed \subseteq Tasks /\ c.done \cap c.failed = {}
  BY DEF States, Sane
<1>2. \A t \in Tasks : /\ Column(c)[t] = "done" <=> t \in c.done
                       /\ Column(c)[t] = "failed" <=> t \in c.failed
                       /\ Column(c)[t] = "running" <=> t \in Underway(c)
                       /\ Column(c)[t] = "todo" <=> t \notin Settled(c) \cup Underway(c)
                       /\ Column(c)[t] \in {"todo", "running", "done", "failed"}
  BY <1>1 DEF Column, Underway, Settled
<1>3. Underway(c) \subseteq Tasks
  BY DEF Underway
<1> QED
  BY <1>1, <1>2, <1>3 DEF In

(* Each way in which a checkpoint may follow another is a step of the board. *)
LEMMA BoardStep ==
  ASSUME store # None, store' # None, store \in States, store' \in States,
         Sane(store, strategy), Sane(store', strategy), strategy' = strategy,
         store'.plan = store.plan,
         \/ Stays(store, store') \/ Starts(store, store') \/ Settles(store, store')
         \/ Blocks(store, store') \/ Sums(store, store')
  PROVE  [Board!Next]_(Board!board)
<1> DEFINE a == store
           c == store'
           s == [t \in Tasks |-> St(t)]
<1>1. /\ s = Column(a) /\ s' = Column(c)
  BY DEF St, Column, Active
<1>2. /\ In(a, "done") = a.done /\ In(a, "failed") = a.failed /\ In(a, "running") = Underway(a)
      /\ \A t \in Tasks : s[t] = "todo" <=> t \notin Settled(a) \cup Underway(a)
      /\ \A t \in Tasks : /\ s[t] = "done" <=> t \in a.done
                          /\ s[t] = "failed" <=> t \in a.failed
                          /\ s[t] = "running" <=> t \in Underway(a)
      /\ \A t \in Tasks : s[t] \in {"todo", "running", "done", "failed"}
  BY <1>1, Columns
<1>3. /\ In(c, "done") = c.done /\ In(c, "failed") = c.failed /\ In(c, "running") = Underway(c)
      /\ \A t \in Tasks : s'[t] = "todo" <=> t \notin Settled(c) \cup Underway(c)
      /\ \A t \in Tasks : /\ s'[t] = "done" <=> t \in c.done
                          /\ s'[t] = "failed" <=> t \in c.failed
                          /\ s'[t] = "running" <=> t \in Underway(c)
      /\ \A t \in Tasks : s'[t] \in {"todo", "running", "done", "failed"}
  <2> HIDE DEF c
  <2>1. c \in States /\ c # None /\ Sane(c, strategy)
    BY DEF c
  <2> QED
    BY <1>1, <2>1, Columns
<1>4. /\ Underway(a) \subseteq Tasks /\ Underway(c) \subseteq Tasks
      /\ Underway(a) \cap Settled(a) = {} /\ Underway(c) \cap Settled(c) = {}
      /\ a.done \subseteq Tasks /\ a.failed \subseteq Tasks
      /\ c.done \subseteq Tasks /\ c.failed \subseteq Tasks
      /\ a.done \cap a.failed = {} /\ c.done \cap c.failed = {}
      /\ Settled(a) = a.done \cup a.failed /\ Settled(c) = c.done \cup c.failed
  BY DEF Underway, Settled, States, Sane
<1>5. /\ Board!Are("done") = a.done /\ Board!Are("failed") = a.failed
      /\ Board!Are("running") = Underway(a)
      /\ Board!Now("done") = c.done /\ Board!Now("failed") = c.failed
      /\ Board!Now("running") = Underway(c)
      /\ Board!Now("todo") = {t \in Tasks : t \notin Settled(c) \cup Underway(c)}
  <2>1. \A k : Board!Are(k) = {t \in Tasks : s[t] = k} /\ Board!Now(k) = {t \in Tasks : s'[t] = k}
    BY DEF Board!Are, Board!Now
  <2> HIDE DEF s
  <2> QED
    BY <1>2, <1>3, <1>4, <2>1
<1> DEFINE f(x) == IF x.stage \in {"synthesizing", "completed"} THEN x.stage ELSE "executing"
           m == IF store = None THEN None ELSE store.plan
           h == IF store = None THEN "planning"
                ELSE IF store.stage \in {"synthesizing", "completed"} THEN store.stage
                ELSE "executing"
<1>6. m = a.plan /\ m' = m /\ h = f(a) /\ h' = f(c)
  OBVIOUS
<1>7. Executing(a, c) => f(a) = "executing" /\ f(c) = "executing"
  BY DEF Executing, SummingUp
<1>8. CASE Stays(a, c)
  <2>1. f(c) = f(a)
    BY <1>7, <1>8 DEF Stays
  <2>2. \A t \in Tasks : s'[t] = s[t]
    BY <1>2, <1>3, <1>8 DEF Stays, Settled
  <2>3. s' = s
    BY <1>1, <2>2 DEF Column
  <2>4. UNCHANGED <<m, s, h>>
    BY <1>6, <2>1, <2>3
  <2> QED
    BY <2>4 DEF Board!board
<1>9. CASE Starts(a, c)
  <2>1. h = "executing" /\ UNCHANGED <<m, h>>
    BY <1>6, <1>7, <1>9 DEF Starts
  <2>2. /\ Underway(a) \subseteq Underway(c) /\ c.done = a.done /\ c.failed = a.failed
        /\ \A t, u \in Underway(c) : m[t].by = m[u].by => t = u
        /\ Cardinality(Underway(c)) <= MaxParallel
    BY <1>6, <1>9 DEF Starts
  <2>3. \A t \in Underway(c) : m[t].deps \subseteq a.done
    <3>1. Underway(c) \subseteq c.started
      BY ConstantAssumption DEF Underway, Sane, Tasks, Synthesis
    <3>2. \A t \in c.started : c.plan[t].deps \subseteq c.done
      BY DEF Sane
    <3> QED
      BY <1>6, <2>2, <3>1, <3>2
  <2>4. Board!Cardinality(Underway(c)) <= MaxParallel
    <3>1. \A S : Board!Cardinality(S) = Cardinality(S)
      BY DEF Board!Cardinality, Cardinality
    <3> QED
      BY <2>2, <3>1
  <2>5. Board!Start
    <3> HIDE DEF s
    <3> QED
      BY <1>5, <2>1, <2>2, <2>3, <2>4 DEF Board!Start
  <2> QED
    BY <2>5 DEF Board!Next
<1>10. CASE Settles(a, c)
  <2>1. h = "executing" /\ UNCHANGED <<m, h>>
    BY <1>6, <1>7, <1>10 DEF Settles
  <2>2. /\ a.done \subseteq c.done /\ a.failed \subseteq c.failed
        /\ Settled(c) \ Settled(a) \subseteq Underway(a) /\ Underway(c) \subseteq Underway(a)
        /\ c.failed # {} \/ Underway(a) \subseteq Underway(c) \cup Settled(c)
    BY <1>10 DEF Settles
  <2>3. \A t \in Tasks : s'[t] # s[t] => s[t] = "running"
    <3> SUFFICES ASSUME NEW t \in Tasks, t \notin Underway(a)
                 PROVE  s'[t] = s[t]
      BY <1>2
    <3>1. CASE t \in a.done
      BY <1>2, <1>3, <2>2, <3>1
    <3>2. CASE t \in a.failed
      BY <1>2, <1>3, <2>2, <3>2
    <3>3. CASE t \notin Settled(a)
      <4>1. t \notin Settled(c) \cup Underway(c)
        BY <2>2, <3>3
      <4> QED
        BY <1>2, <1>3, <3>3, <4>1
    <3> QED
      BY <1>4, <3>1, <3>2, <3>3
  <2>4. Underway(a) \cap Board!Now("todo") # {} => c.failed # {}
    BY <1>5, <2>2
  <2>5. Board!Settle
    <3>1. \A t \in Tasks : s'[t] # s[t] => s[t] = "running"
      BY <2>3
    <3> HIDE DEF s
    <3>2. Board!Are("running") \cap Board!Now("todo") # {} => Board!Now("failed") # {}
      BY <1>5, <2>4
    <3> QED
      BY <2>1, <3>1, <3>2 DEF Board!Settle, s
  <2> QED
    BY <2>5 DEF Board!Next
<1>11. CASE Blocks(a, c)
  <2>1. h = "executing" /\ UNCHANGED <<m, h>>
    BY <1>6, <1>7, <1>11 DEF Blocks
  <2>2. /\ a.done = c.done /\ a.failed \subseteq c.failed /\ Underway(c) \subseteq Underway(a)
        /\ \A t \in c.failed \ a.failed : m[t].deps \cap a.failed # {}
    BY <1>6, <1>11 DEF Blocks
  <2>3. \A t \in Tasks : s'[t] # s[t] =>
          \/ s[t] = "running" /\ s'[t] = "todo"
          \/ s'[t] = "failed" /\ m[t].deps \cap Board!Are("failed") # {}
               /\ s[t] \in {"todo", "running"}
    <3> SUFFICES ASSUME NEW t \in Tasks, s'[t] # s[t]
                 PROVE  \/ s[t] = "running" /\ s'[t] = "todo"
                        \/ s'[t] = "failed" /\ m[t].deps \cap a.failed # {}
                             /\ s[t] \in {"todo", "running"}
      BY <1>5
    <3>1. t \notin a.done
      BY <1>2, <1>3, <2>2
    <3>2. t \notin a.failed
      BY <1>2, <1>3, <2>2
    <3>3. CASE t \in c.failed
      BY <1>2, <1>3, <1>4, <2>2, <3>1, <3>2, <3>3
    <3>4. CASE t \notin c.failed
      <4>1. t \notin Settled(a) /\ t \notin Settled(c)
        BY <1>4, <2>2, <3>1, <3>2, <3>4
      <4> QED
        BY <1>2, <1>3, <2>2, <4>1
    <3> QED
      BY <3>3, <3>4
  <2>4. Board!Block
    BY <2>1, <2>3 DEF Board!Block
  <2> QED
    BY <2>4 DEF Board!Next
<1>12. CASE Sums(a, c)
  <2>1. a.done = c.done /\ a.failed = c.failed /\ Settled(a) = Settled(c)
    BY <1>4, <1>12 DEF Sums
  <2>2. Settled(c) = Tasks
    BY <1>12 DEF Sums, Sane, SummingUp
  <2>3. \A t \in Tasks : s'[t] = s[t]
    BY <1>2, <1>3, <1>4, <2>1, <2>2
  <2>4. s' = s
    BY <1>1, <2>3 DEF Column
  <2>5. CASE ~SummingUp(a) /\ c.stage = "synthesizing"
    <3>1. h = "executing" /\ h' = "synthesizing"
      BY <1>6, <2>5 DEF SummingUp
    <3>2. Board!SumUp
      <4>1. Board!Are("done") \cup Board!Are("failed") = Tasks
        BY <1>4, <1>5, <2>1, <2>2
      <4> QED
        BY <1>6, <2>4, <3>1, <4>1 DEF Board!SumUp
    <3> QED
      BY <3>2 DEF Board!Next
  <2>6. CASE a.stage = "synthesizing" /\ c.stage = "completed"
    <3>1. h = "synthesizing" /\ h' = "completed"
      BY <1>6, <2>6
    <3>2. Board!Finish
      BY <1>6, <2>4, <3>1 DEF Board!Finish
    <3> QED
      BY <3>2 DEF Board!Next
  <2> QED
    BY <1>12, <2>5, <2>6 DEF Sums
<1> QED
  BY <1>8, <1>9, <1>10, <1>11, <1>12

(* The first checkpoint publishes the plan. *)
LEMMA BoardBegins ==
  ASSUME store = None, store' \in States, store' # None, Sane(store', strategy),
         store'.stage = "executing", store'.started = {}, Settled(store') = {}, Active(store') = {}
  PROVE  Board!Publish
<1> DEFINE c == store'
           s == [t \in Tasks |-> St(t)]
           m == IF store = None THEN None ELSE store.plan
           h == IF store = None THEN "planning"
                ELSE IF store.stage \in {"synthesizing", "completed"} THEN store.stage
                ELSE "executing"
<1>1. h = "planning" /\ h' = "executing" /\ m' = c.plan
  OBVIOUS
<1>2. \A t \in Tasks : s[t] = "todo" /\ s'[t] = "todo"
  BY DEF St, Settled, Active
<1>3. s = [t \in Tasks |-> "todo"] /\ s' = [t \in Tasks |-> "todo"]
  BY <1>2
<1>4. c.plan # None /\ Accepted(c.plan)
  BY ConstantAssumption DEF Sane
<1>5. \A S \in SUBSET Tasks : S # {} => \E t \in S : c.plan[t].deps \cap S = {}
  <2> DEFINE p == c.plan
  <2> HIDE DEF p
  <2>1. Accepted(p)
    BY <1>4 DEF p
  <2>2. \A S \in SUBSET Tasks : S # {} => \E t \in S : p[t].deps \cap S = {}
    BY <2>1, AcceptedPlan
  <2> QED
    BY <2>2 DEF p
<1>6. \A S \in SUBSET Tasks : ~Board!Cycle(m', S)
  BY <1>1, <1>5 DEF Board!Cycle
<1> QED
  BY <1>1, <1>3, <1>4, <1>6 DEF Board!Publish

(* The checkpoints of a run, whoever saves them and after whatever restart, show the
   tasks of its plan moving over the board as the abstract specification promises. *)
THEOREM BoardImplemented == Spec => ImplementsBoard
<1>1. Init => Board!Init
  <2> SUFFICES ASSUME store = None PROVE Board!Init
    BY DEF Init
  <2>1. [t \in Tasks |-> St(t)] = [t \in Tasks |-> "todo"]
    BY DEF St
  <2> QED
    BY <2>1 DEF Board!Init
<1>2. SchedulerInv /\ SchedulerInv' /\ [Next]_vars => [Board!Next]_(Board!board)
  <2> SUFFICES ASSUME SchedulerInv, SchedulerInv', [Next]_vars
               PROVE  [Board!Next]_(Board!board)
    OBVIOUS
  <2>1. UNCHANGED store \/ (store' \in States /\ Follows(store, store'))
    BY StoreFollows
  <2>2. CASE UNCHANGED store
    BY <2>2 DEF Board!board, St, Active
  <2>3. CASE store' \in States /\ Follows(store, store') /\ store' # store
    <3>1. strategy' = strategy
      BY DEF Next, MainStep, MemberStep, vars, bounds, Fault, SendEvent, SaveState, LoadNothing, LoadFails,
         Load, Plan, Block, BeginBatch, QueueEnds, Launch, LaunchFails, JoinAll, JoinFirstFailure,
         RecordOutcome, CountOutcome, TellOutcome, AppendEvent, SetState, SendState, SumUp, SummedUp,
         Complete, ReportPause, TimeOut, Fail, MemberFails, MemberComputes, MemberEnds, MemberSaves,
         StragglerReads, StragglerReadsFailed, StragglerSets, StragglerCounts, StragglerSaves,
         StragglerReturns, Crash, Restart, End
    <3>2. store' # None /\ store' \in States
      BY <2>3, NoneAssumption
    <3>3. Sane(store', strategy) /\ (store # None => Sane(store, strategy) /\ store \in States)
      BY <3>1, <3>2 DEF SchedulerInv, Stored, Typed
    <3>4. CASE store = None
      BY <2>3, <3>2, <3>3, <3>4, BoardBegins DEF Follows, Board!Next
    <3>5. CASE store # None
      BY <2>3, <3>1, <3>2, <3>3, <3>5, BoardStep DEF Follows
    <3> QED
      BY <3>4, <3>5
  <2> QED
    BY <2>1, <2>2, <2>3
<1> QED
  BY <1>1, <1>2, Scheduler, PTL DEF Spec, ImplementsBoard, Board!Spec
=============================================================================
