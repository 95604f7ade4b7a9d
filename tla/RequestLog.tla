------------------------------ MODULE RequestLog ------------------------------
(***************************************************************************)
(* What the Runner Gateway promises the worker, without saying how: each   *)
(* slot, an operation with an idempotency key, holds at most one request,  *)
(* its answer never changes, and every answer given out is the one the log *)
(* holds, given to the request it holds.  A request may be reserved before *)
(* it is answered and a reservation may be given up; an answer may not.    *)
(***************************************************************************)
EXTENDS Naturals

CONSTANTS
  Slots,
  Bodies,    \* what may be asked in each slot
  Answers,   \* what may be answered
  None       \* the slot is empty

VARIABLES
  log,       \* the entry of each slot
  answers    \* the entries that were given out for each slot

Pending == 0
Entry(b, n) == [body |-> b, resp |-> n]

Init ==
  /\ log = [s \in Slots |-> None]
  /\ answers = [s \in Slots |-> {}]

Reserve(s, b) ==
  /\ log[s] = None
  /\ log' = [log EXCEPT ![s] = Entry(b, Pending)]
  /\ UNCHANGED answers

GiveUp(s, b) ==
  /\ log[s] = Entry(b, Pending)
  /\ log' = [log EXCEPT ![s] = None]
  /\ UNCHANGED answers

Record(s, b, n) ==
  /\ log[s] \in {None, Entry(b, Pending)}
  /\ log' = [log EXCEPT ![s] = Entry(b, n)]
  /\ answers' = [answers EXCEPT ![s] = @ \cup {Entry(b, n)}]

Repeat(s, b, n) ==
  /\ log[s] = Entry(b, n)
  /\ answers' = [answers EXCEPT ![s] = @ \cup {Entry(b, n)}]
  /\ UNCHANGED log

Moves(s) == log'[s] # log[s] \/ answers'[s] # answers[s]

Next ==
  \E s \in Slots :
    /\ Moves(s)
    /\ \E b \in Bodies[s] :
         \/ Reserve(s, b)
         \/ GiveUp(s, b)
         \/ \E n \in Answers : Record(s, b, n) \/ Repeat(s, b, n)

Spec == Init /\ [][Next]_<<log, answers>>
=============================================================================
