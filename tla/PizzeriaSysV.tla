----------------------------- MODULE PizzeriaSysV -----------------------------
(****************************************************************************)
(* cw07/zad1: cooks and deliverers share an oven and a table, guarded by a  *)
(* set of five System V semaphores.  One semop() may work on several        *)
(* semaphores: it takes effect at once, when all of them allow it, or not   *)
(* at all.  A worker may be ended by a signal at any point.                 *)
(****************************************************************************)
EXTENDS OvenTable

\* Waits until no semaphore would become negative, and changes them together.
semop(ops) ==
  /\ \A s \in DOMAIN ops : sem[s] + ops[s] >= 0
  /\ sem' = [s \in DOMAIN sem |-> IF s \in DOMAIN ops THEN sem[s] + ops[s] ELSE sem[s]]

Init ==
  /\ InitMemory
  /\ pc = [w \in Workers |-> IF w \in Cooks THEN "prepare" ELSE "lock_table"]

-----------------------------------------------------------------------------
(* make_pizza *)

LockOven(c) ==
  /\ Moves(c, "lock_oven", "find_oven")
  /\ semop([OVEN_USED |-> -1, OVEN_SPACE |-> -1])
  /\ UNCHANGED <<memory, locals>>

\* Not the code: the place in the oven is given back while the pizza bakes.
UnlockOvenAndSpace(c) ==
  /\ Moves(c, "unlock_oven", "lock_both")
  /\ semop([OVEN_USED |-> 1, OVEN_SPACE |-> 1])
  /\ UNCHANGED <<memory, locals>>

UnlockOven(c) ==
  /\ Moves(c, "unlock_oven", "lock_both")
  /\ semop([OVEN_USED |-> 1])
  /\ UNCHANGED <<memory, locals>>

\* Not the code: OVEN_USED left out of the array of operations.
LockTableOnly(c) ==
  /\ Moves(c, "lock_both", "take_out")
  /\ semop([TABLE_USED |-> -1, TABLE_SPACE |-> -1, TABLE_READY |-> 1])
  /\ UNCHANGED <<memory, locals>>

LockBoth(c) ==
  /\ Moves(c, "lock_both", "take_out")
  /\ semop([OVEN_USED |-> -1, TABLE_USED |-> -1, TABLE_SPACE |-> -1, TABLE_READY |-> 1])
  /\ UNCHANGED <<memory, locals>>

UnlockBoth(c) ==
  /\ Moves(c, "unlock_both", "prepare")
  /\ semop([OVEN_USED |-> 1, OVEN_SPACE |-> 1, TABLE_USED |-> 1])
  /\ Returns(c)
  /\ UNCHANGED <<memory, reg>>

make_pizza(c) ==
  \/ Prepare(c, "lock_oven")
  \/ LockOven(c)
  \/ FindOven(c)
  \/ PutOven(c)
  \/ CountOven(c, "unlock_oven")
  \/ UnlockOven(c)
  \/ LockBoth(c)
  \/ TakeOut(c)
  \/ UncountOven(c, "find_table")
  \/ FindTable(c)
  \/ PutTable(c)
  \/ CountTable(c, "unlock_both")
  \/ UnlockBoth(c)

-----------------------------------------------------------------------------
(* deliver_pizza *)

\* Not the code: waiting for a pizza without taking TABLE_USED.
LockReadyOnly(d) ==
  /\ Moves(d, "lock_table", "find_taken")
  /\ semop([TABLE_READY |-> -1])
  /\ UNCHANGED <<memory, locals>>

LockTable(d) ==
  /\ Moves(d, "lock_table", "find_taken")
  /\ semop([TABLE_USED |-> -1, TABLE_READY |-> -1])
  /\ UNCHANGED <<memory, locals>>

\* Not the code: the place on the table is not given back.
UnlockTableOnly(d) ==
  /\ Moves(d, "unlock_table", "deliver")
  /\ semop([TABLE_USED |-> 1])
  /\ UNCHANGED <<memory, locals>>

UnlockTable(d) ==
  /\ Moves(d, "unlock_table", "deliver")
  /\ semop([TABLE_USED |-> 1, TABLE_SPACE |-> 1])
  /\ UNCHANGED <<memory, locals>>

deliver_pizza(d) ==
  \/ LockTable(d)
  \/ FindTaken(d)
  \/ Take(d)
  \/ UncountTable(d, "unlock_table")
  \/ UnlockTable(d)
  \/ Deliver(d, "lock_table")

-----------------------------------------------------------------------------

Next ==
  \/ \E c \in Cooks : make_pizza(c)
  \/ \E d \in Deliverers : deliver_pizza(d)
  \/ \E w \in Workers : HangUp(w)

Spec == Init /\ [][Next]_vars

\* The scheduler lets every live worker that can go on do so in the end; no
\* order among those that wait for a semaphore is assumed, and no signal need
\* ever come.
Fairness ==
  /\ \A c \in Cooks : WF_vars(make_pizza(c))
  /\ \A d \in Deliverers : WF_vars(deliver_pizza(d))

FairSpec == Spec /\ Fairness

-----------------------------------------------------------------------------
(* Where a worker holds what. *)

OvenSection ==
  {"find_oven", "put_oven", "count_oven", "unlock_oven", "take_out",
   "uncount_oven", "find_table", "put_table", "count_table", "unlock_both"}
ServingSection ==
  {"take_out", "uncount_oven", "find_table", "put_table", "count_table", "unlock_both"}
TakingSection == {"find_taken", "take", "uncount_table", "unlock_table"}
TableSection == ServingSection \union TakingSection

\* A cook's pizza is in the oven at these steps, and its place is taken at those.
Baking == {"count_oven", "unlock_oven", "lock_both", "take_out"}
OvenPlace == OvenSection \union {"lock_both"}
\* A cook's pizza goes from the oven to the table; it may already be there.
Carrying == {"uncount_oven", "find_table", "put_table"}
Served == {"count_table", "unlock_both"}
\* A deliverer has a claim on a pizza of the table, and has it in its hands.
Claiming == {"find_taken", "take"}
Delivering == {"uncount_table", "unlock_table", "deliver"}

CookSteps == {"prepare", "lock_oven"} \union OvenPlace
DelivererSteps == {"lock_table"} \union TakingSection \union {"deliver"}

-----------------------------------------------------------------------------
(* Properties. *)

\* Type invariant.  No semaphore is ever negative, or above what it stands for:
\* a permit is given back once for each time it was taken.
TypeOK ==
  /\ MemoryTypeOK
  /\ \A s \in DOMAIN InitialSem : sem[s] <= SemLimit[s]
  /\ pc \in [Workers -> CookSteps \union DelivererSteps]
  /\ \A c \in Cooks : pc[c] \in CookSteps
  /\ \A d \in Deliverers : pc[d] \in DelivererSteps

\* "The semaphores make it possible to give one process the exclusive right to
\* modify the shared memory" (wnioski.txt:1): two workers are never both between
\* the semop that takes OVEN_USED (TABLE_USED) and the one that gives it back.
Exclusive ==
  /\ \A c1, c2 \in CooksAt(OvenSection) : c1 = c2
  /\ \A w1, w2 \in At(TableSection) : w1 = w2

\* The loops of find_free and find_taken are sure to find a slot, so make_pizza
\* and deliver_pizza never index an array with -1: the limits of the oven and of
\* the table are never exceeded, whatever the number of workers (wnioski.txt:3),
\* and a deliverer let in by TABLE_READY does find a pizza.
SpotFound ==
  /\ \A c \in CooksAt({"put_oven"} \union Baking) : pizza_spot[c] \in OvenSlots
  /\ \A w \in At({"put_table", "take"}) : pizza_spot[w] \in TableSlots

\* Whoever is let in sees counters that agree with the arrays: no increment or
\* decrement is lost.
CountersAgree ==
  /\ CooksAt({"count_oven", "uncount_oven"}) = {} =>
       oven_quan = Cardinality(Occupied(oven, OvenSlots))
  /\ At({"count_table", "uncount_table"}) = {} =>
       table_quan = Cardinality(Occupied(table, TableSlots))

\* The pizzeria keeps what PizzaLine promises: nobody's pizza is overwritten,
\* swapped, lost or delivered twice, seen as atomic visits to oven and table.
baking == [c \in Cooks |-> IF pc[c] \in Baking THEN pizza_spot[c] ELSE NoSpot]
carried ==
  [w \in Workers |-> IF pc[w] \in Carrying \union Delivering THEN pizza_type[w] ELSE NoPizza]
Line == INSTANCE PizzaLine
          WITH oven <- oven, table <- table, baking <- baking, carried <- carried
LineSpec == Line!Spec

\* While no worker is killed the pizzeria goes on: pizzas are delivered for ever.
\* It needs every waiting worker's semaphores to come back, so no deadlock either.
PizzasGoOut == []<>(\E d \in Deliverers : pc[d] = "deliver")
KeepsDelivering == [](\A w \in Workers : alive[w]) => PizzasGoOut
=============================================================================
