------------------------------ MODULE OvenTable ------------------------------
(****************************************************************************)
(* The memory that the cooks and the deliverers of cw07 share (struct       *)
(* Oven_table), the private variables of a worker, and the accesses to that *)
(* memory between two semaphore operations.  Both pizzerias (zad1 with      *)
(* System V semaphores, zad2 with POSIX ones) make the same accesses in the *)
(* same order, so both EXTEND this module and add their semaphores.         *)
(*                                                                          *)
(* A statement that reads and writes a shared counter (++oven_quan) is a    *)
(* load into "reg" and a store from it (which forgets it), and find_free is *)
(* a step apart from the store it decides on: what makes these steps one is *)
(* the semaphores, which is what there is to check.                         *)
(****************************************************************************)
EXTENDS Integers, FiniteSets

CONSTANTS
  Cooks, Deliverers,     \* the worker processes
  OvenSize, TableSize,   \* OVEN_SIZE and TABLE_SIZE
  Pizzas,                \* the values of pizza_type
  NoPizza,               \* the -1 of an empty slot
  MaxHangUps             \* how many workers a signal may end

ASSUME PizzeriaAssumption ==
  /\ IsFiniteSet(Cooks) /\ IsFiniteSet(Deliverers)
  /\ Cooks \cap Deliverers = {}
  /\ OvenSize \in Nat \ {0}
  /\ TableSize \in Nat \ {0}
  /\ NoPizza \notin Pizzas
  /\ MaxHangUps \in Nat

VARIABLES
  sem,           \* the value of each semaphore
  oven, table,   \* the two arrays of struct Oven_table
  oven_quan, table_quan,
  pc,            \* where each worker is
  alive,         \* FALSE once a signal ended the worker
  pizza_type,    \* the local variables of make_pizza and deliver_pizza
  pizza_spot,
  reg            \* the counter value a worker has loaded

memory == <<oven, table, oven_quan, table_quan>>
locals == <<pizza_type, pizza_spot, reg>>
vars == <<sem, memory, pc, alive, locals>>

Workers == Cooks \union Deliverers
NoSpot == -1
OvenSlots == 0 .. OvenSize - 1
TableSlots == 0 .. TableSize - 1
Occupied(shelf, slots) == {i \in slots : shelf[i] # NoPizza}

\* The workers whose next step is in the set "steps" of program counters.
At(steps) == {w \in Workers : pc[w] \in steps}
CooksAt(steps) == {c \in Cooks : pc[c] \in steps}
DeliverersAt(steps) == {d \in Deliverers : pc[d] \in steps}

\* The semaphores a pizzeria starts with (semctl SETVAL, or sem_open O_CREAT).
InitialSem ==
  [OVEN_USED |-> 1, OVEN_SPACE |-> OvenSize,
   TABLE_USED |-> 1, TABLE_SPACE |-> TableSize, TABLE_READY |-> 0]

SemLimit == [InitialSem EXCEPT !.TABLE_READY = TableSize]

\* main() fills both arrays with -1 and clears the counters before it forks.
InitMemory ==
  /\ sem = InitialSem
  /\ oven = [i \in OvenSlots |-> NoPizza]
  /\ table = [i \in TableSlots |-> NoPizza]
  /\ oven_quan = 0
  /\ table_quan = 0
  /\ alive = [w \in Workers |-> TRUE]
  /\ pizza_type = [w \in Workers |-> NoPizza]
  /\ pizza_spot = [w \in Workers |-> NoSpot]
  /\ reg = [w \in Workers |-> 0]

\* Worker w goes from one program counter to the next.
Moves(w, from, to) ==
  /\ alive[w]
  /\ pc[w] = from
  /\ pc' = [pc EXCEPT ![w] = to]
  /\ UNCHANGED alive

\* make_pizza or deliver_pizza returns: its local variables are gone.
Returns(w) ==
  /\ pizza_type' = [pizza_type EXCEPT ![w] = NoPizza]
  /\ pizza_spot' = [pizza_spot EXCEPT ![w] = NoSpot]

-----------------------------------------------------------------------------
(* The scans of the arrays. *)

First(found) ==
  IF found = {} THEN NoSpot ELSE CHOOSE i \in found : \A j \in found : i <= j

find_free(shelf, slots) == First({i \in slots : shelf[i] = NoPizza})
find_taken == First(Occupied(table, TableSlots))

-----------------------------------------------------------------------------
(* make_pizza: the accesses of a cook. *)

\* int pizza_type = randrange(0, 9);
Prepare(c, to) ==
  /\ Moves(c, "prepare", to)
  /\ \E p \in Pizzas : pizza_type' = [pizza_type EXCEPT ![c] = p]
  /\ UNCHANGED <<sem, memory, pizza_spot, reg>>

\* int pizza_spot = find_free(0);
FindOven(c) ==
  /\ Moves(c, "find_oven", "put_oven")
  /\ pizza_spot' = [pizza_spot EXCEPT ![c] = find_free(oven, OvenSlots)]
  /\ UNCHANGED <<sem, memory, pizza_type, reg>>

\* oven[pizza_spot] = pizza_type; ... oven_quan is loaded
PutOven(c) ==
  /\ Moves(c, "put_oven", "count_oven")
  /\ oven' = [oven EXCEPT ![pizza_spot[c]] = pizza_type[c]]
  /\ reg' = [reg EXCEPT ![c] = oven_quan]
  /\ UNCHANGED <<sem, table, oven_quan, table_quan, pizza_type, pizza_spot>>

\* ... and stored, one higher
CountOven(c, to) ==
  /\ Moves(c, "count_oven", to)
  /\ oven_quan' = reg[c] + 1
  /\ reg' = [reg EXCEPT ![c] = 0]
  /\ UNCHANGED <<sem, oven, table, table_quan, pizza_type, pizza_spot>>

\* oven[pizza_spot] = -1; ... oven_quan is loaded
TakeOut(c) ==
  /\ Moves(c, "take_out", "uncount_oven")
  /\ oven' = [oven EXCEPT ![pizza_spot[c]] = NoPizza]
  /\ reg' = [reg EXCEPT ![c] = oven_quan]
  /\ UNCHANGED <<sem, table, oven_quan, table_quan, pizza_type, pizza_spot>>

\* ... and stored, one lower
UncountOven(c, to) ==
  /\ Moves(c, "uncount_oven", to)
  /\ oven_quan' = reg[c] - 1
  /\ reg' = [reg EXCEPT ![c] = 0]
  /\ UNCHANGED <<sem, oven, table, table_quan, pizza_type, pizza_spot>>

\* Not the code: the free place is looked for in the wrong array.
FindTableInOven(c) ==
  /\ Moves(c, "find_table", "put_table")
  /\ pizza_spot' = [pizza_spot EXCEPT ![c] = find_free(oven, OvenSlots)]
  /\ UNCHANGED <<sem, memory, pizza_type, reg>>

\* pizza_spot = find_free(1);
FindTable(c) ==
  /\ Moves(c, "find_table", "put_table")
  /\ pizza_spot' = [pizza_spot EXCEPT ![c] = find_free(table, TableSlots)]
  /\ UNCHANGED <<sem, memory, pizza_type, reg>>

\* table[pizza_spot] = pizza_type; ... table_quan is loaded
PutTable(c) ==
  /\ Moves(c, "put_table", "count_table")
  /\ table' = [table EXCEPT ![pizza_spot[c]] = pizza_type[c]]
  /\ reg' = [reg EXCEPT ![c] = table_quan]
  /\ UNCHANGED <<sem, oven, oven_quan, table_quan, pizza_type, pizza_spot>>

\* ... and stored, one higher
CountTable(c, to) ==
  /\ Moves(c, "count_table", to)
  /\ table_quan' = reg[c] + 1
  /\ reg' = [reg EXCEPT ![c] = 0]
  /\ UNCHANGED <<sem, oven, table, oven_quan, pizza_type, pizza_spot>>

-----------------------------------------------------------------------------
(* deliver_pizza: the accesses of a deliverer. *)

\* int pizza_spot = find_taken();
FindTaken(d) ==
  /\ Moves(d, "find_taken", "take")
  /\ pizza_spot' = [pizza_spot EXCEPT ![d] = find_taken]
  /\ UNCHANGED <<sem, memory, pizza_type, reg>>

\* pizza_type = table[pizza_spot]; table[pizza_spot] = -1; ... table_quan is loaded.
\* A read outside the array gives whatever is in the memory there: any pizza.
Take(d) ==
  /\ Moves(d, "take", "uncount_table")
  /\ \E p \in Pizzas \union {NoPizza} :
       /\ pizza_spot[d] \in TableSlots => p = table[pizza_spot[d]]
       /\ pizza_type' = [pizza_type EXCEPT ![d] = p]
  /\ table' = [table EXCEPT ![pizza_spot[d]] = NoPizza]
  /\ reg' = [reg EXCEPT ![d] = table_quan]
  /\ UNCHANGED <<sem, oven, oven_quan, table_quan, pizza_spot>>

\* ... and stored, one lower
UncountTable(d, to) ==
  /\ Moves(d, "uncount_table", to)
  /\ table_quan' = reg[d] - 1
  /\ reg' = [reg EXCEPT ![d] = 0]
  /\ UNCHANGED <<sem, oven, table, oven_quan, pizza_type, pizza_spot>>

\* The pizza is delivered, deliver_pizza returns and is called again.
Deliver(d, to) ==
  /\ Moves(d, "deliver", to)
  /\ Returns(d)
  /\ UNCHANGED <<sem, memory, reg>>

-----------------------------------------------------------------------------
\* SIGHUP, whose handler calls exit(0) wherever the worker is, or the default
\* action of another signal.  Nothing gives back what the worker holds.
HangUp(w) ==
  /\ alive[w]
  /\ Cardinality({x \in Workers : ~alive[x]}) < MaxHangUps
  /\ alive' = [alive EXCEPT ![w] = FALSE]
  /\ UNCHANGED <<sem, memory, pc, locals>>

\* Everybody's memory: what a worker holds is in its pc, also once it is dead.
MemoryTypeOK ==
  /\ sem \in [DOMAIN InitialSem -> Nat]
  /\ oven \in [OvenSlots -> Pizzas \union {NoPizza}]
  /\ table \in [TableSlots -> Pizzas \union {NoPizza}]
  /\ oven_quan \in Int
  /\ table_quan \in Int
  /\ alive \in [Workers -> BOOLEAN]
  /\ pizza_type \in [Workers -> Pizzas \union {NoPizza}]
  /\ pizza_spot \in [Workers -> OvenSlots \union TableSlots \union {NoSpot}]
  /\ reg \in [Workers -> Int]
=============================================================================
