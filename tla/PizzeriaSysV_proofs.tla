------------------------- MODULE PizzeriaSysV_proofs -------------------------
(****************************************************************************)
(* Theorems about the pizzeria of cw07/zad1, for any number of cooks and    *)
(* deliverers, any sizes of the oven and the table, any set of pizzas and   *)
(* any number of workers ended by signals.                                  *)
(****************************************************************************)
EXTENDS PizzeriaSysV, OvenTable_proofs

USE PizzeriaAssumption DEF Workers

-----------------------------------------------------------------------------
(* What the semops do to the semaphores. *)

\* semop changes the semaphores it names, keeps the others, and waits rather
\* than make one negative.
LEMMA SemopEffect ==
  ASSUME sem \in [Semaphores -> Nat],
         NEW S \in SUBSET Semaphores, NEW ops \in [S -> Int],
         semop(ops)
  PROVE  /\ sem' \in [Semaphores -> Nat]
         /\ \A s \in S : sem'[s] = sem[s] + ops[s]
         /\ \A s \in Semaphores \ S : sem'[s] = sem[s]
BY DEF semop

-----------------------------------------------------------------------------
(* Types, and where each kind of worker can be. *)

Typed ==
  /\ MemoryTypeOK
  /\ pc \in [Workers -> CookSteps \union DelivererSteps]
  /\ \A c \in Cooks : pc[c] \in CookSteps
  /\ \A d \in Deliverers : pc[d] \in DelivererSteps

\* The semops of this program, one by one.
LEMMA LockOvenSem ==
  ASSUME Typed, NEW w \in Workers, LockOven(w)
  PROVE  /\ sem' \in [Semaphores -> Nat]
         /\ sem'["OVEN_USED"] = sem["OVEN_USED"] - 1
         /\ sem'["OVEN_SPACE"] = sem["OVEN_SPACE"] - 1
         /\ sem'["TABLE_USED"] = sem["TABLE_USED"]
         /\ sem'["TABLE_SPACE"] = sem["TABLE_SPACE"]
         /\ sem'["TABLE_READY"] = sem["TABLE_READY"]
<1>1. [OVEN_USED |-> -1, OVEN_SPACE |-> -1] \in [{"OVEN_USED", "OVEN_SPACE"} -> Int]
  OBVIOUS
<1>2. {"OVEN_USED", "OVEN_SPACE"} \in SUBSET Semaphores /\ sem \in [Semaphores -> Nat]
  BY SemDomain DEF Typed, MemoryTypeOK, Semaphores
<1> QED
  BY <1>1, <1>2, SemopEffect DEF LockOven, Semaphores

\* Line 73 to 76 of make_pizza: OVEN_USED given back.
LEMMA UnlockOvenSem ==
  ASSUME Typed, NEW w \in Workers, UnlockOven(w)
  PROVE  /\ sem' \in [Semaphores -> Nat]
         /\ sem'["OVEN_USED"] = sem["OVEN_USED"] + 1
         /\ sem'["OVEN_SPACE"] = sem["OVEN_SPACE"]
         /\ sem'["TABLE_USED"] = sem["TABLE_USED"]
         /\ sem'["TABLE_SPACE"] = sem["TABLE_SPACE"]
         /\ sem'["TABLE_READY"] = sem["TABLE_READY"]
<1>1. [OVEN_USED |-> 1] \in [{"OVEN_USED"} -> Int]
  OBVIOUS
<1>2. {"OVEN_USED"} \in SUBSET Semaphores /\ sem \in [Semaphores -> Nat]
  BY SemDomain DEF Typed, MemoryTypeOK, Semaphores
<1> QED
  BY <1>1, <1>2, SemopEffect DEF UnlockOven, Semaphores

\* OVEN_USED, TABLE_USED and TABLE_SPACE taken, TABLE_READY raised, at once.
LEMMA LockBothSem ==
  ASSUME Typed, NEW w \in Workers, LockBoth(w)
  PROVE  /\ sem' \in [Semaphores -> Nat]
         /\ sem'["OVEN_USED"] = sem["OVEN_USED"] - 1
         /\ sem'["OVEN_SPACE"] = sem["OVEN_SPACE"]
         /\ sem'["TABLE_USED"] = sem["TABLE_USED"] - 1
         /\ sem'["TABLE_SPACE"] = sem["TABLE_SPACE"] - 1
         /\ sem'["TABLE_READY"] = sem["TABLE_READY"] + 1
<1>1. [OVEN_USED |-> -1, TABLE_USED |-> -1, TABLE_SPACE |-> -1, TABLE_READY |-> 1]
      \in [{"OVEN_USED", "TABLE_USED", "TABLE_SPACE", "TABLE_READY"} -> Int]
  OBVIOUS
<1>2. {"OVEN_USED", "TABLE_USED", "TABLE_SPACE", "TABLE_READY"} \in SUBSET Semaphores
      /\ sem \in [Semaphores -> Nat]
  BY SemDomain DEF Typed, MemoryTypeOK, Semaphores
<1> QED
  BY <1>1, <1>2, SemopEffect, ZenonT(60) DEF LockBoth, Semaphores

\* Both locks and the place in the oven given back.
LEMMA UnlockBothSem ==
  ASSUME Typed, NEW w \in Workers, UnlockBoth(w)
  PROVE  /\ sem' \in [Semaphores -> Nat]
         /\ sem'["OVEN_USED"] = sem["OVEN_USED"] + 1
         /\ sem'["OVEN_SPACE"] = sem["OVEN_SPACE"] + 1
         /\ sem'["TABLE_USED"] = sem["TABLE_USED"] + 1
         /\ sem'["TABLE_SPACE"] = sem["TABLE_SPACE"]
         /\ sem'["TABLE_READY"] = sem["TABLE_READY"]
<1>1. [OVEN_USED |-> 1, OVEN_SPACE |-> 1, TABLE_USED |-> 1]
      \in [{"OVEN_USED", "OVEN_SPACE", "TABLE_USED"} -> Int]
  OBVIOUS
<1>2. {"OVEN_USED", "OVEN_SPACE", "TABLE_USED"} \in SUBSET Semaphores /\ sem \in [Semaphores -> Nat]
  BY SemDomain DEF Typed, MemoryTypeOK, Semaphores
<1> QED
  BY <1>1, <1>2, SemopEffect DEF UnlockBoth, Semaphores

\* A deliverer takes TABLE_USED and its claim on a pizza.
LEMMA LockTableSem ==
  ASSUME Typed, NEW w \in Workers, LockTable(w)
  PROVE  /\ sem' \in [Semaphores -> Nat]
         /\ sem'["OVEN_USED"] = sem["OVEN_USED"]
         /\ sem'["OVEN_SPACE"] = sem["OVEN_SPACE"]
         /\ sem'["TABLE_USED"] = sem["TABLE_USED"] - 1
         /\ sem'["TABLE_SPACE"] = sem["TABLE_SPACE"]
         /\ sem'["TABLE_READY"] = sem["TABLE_READY"] - 1
<1>1. [TABLE_USED |-> -1, TABLE_READY |-> -1] \in [{"TABLE_USED", "TABLE_READY"} -> Int]
  OBVIOUS
<1>2. {"TABLE_USED", "TABLE_READY"} \in SUBSET Semaphores /\ sem \in [Semaphores -> Nat]
  BY SemDomain DEF Typed, MemoryTypeOK, Semaphores
<1> QED
  BY <1>1, <1>2, SemopEffect, ZenonT(60) DEF LockTable, Semaphores

\* A deliverer gives back TABLE_USED and the place it cleared.
LEMMA UnlockTableSem ==
  ASSUME Typed, NEW w \in Workers, UnlockTable(w)
  PROVE  /\ sem' \in [Semaphores -> Nat]
         /\ sem'["OVEN_USED"] = sem["OVEN_USED"]
         /\ sem'["OVEN_SPACE"] = sem["OVEN_SPACE"]
         /\ sem'["TABLE_USED"] = sem["TABLE_USED"] + 1
         /\ sem'["TABLE_SPACE"] = sem["TABLE_SPACE"] + 1
         /\ sem'["TABLE_READY"] = sem["TABLE_READY"]
<1>1. [TABLE_USED |-> 1, TABLE_SPACE |-> 1] \in [{"TABLE_USED", "TABLE_SPACE"} -> Int]
  OBVIOUS
<1>2. {"TABLE_USED", "TABLE_SPACE"} \in SUBSET Semaphores /\ sem \in [Semaphores -> Nat]
  BY SemDomain DEF Typed, MemoryTypeOK, Semaphores
<1> QED
  BY <1>1, <1>2, SemopEffect, ZenonT(60) DEF UnlockTable, Semaphores

\* Every process starts with variables of the right types.
LEMMA InitTyped == Init => Typed
BY DEF Init, InitMemory, Typed, MemoryTypeOK, InitialSem, CookSteps, DelivererSteps,
       OvenPlace, OvenSection, TakingSection, NoSpot

\* One step of make_pizza keeps the types.
LEMMA CookTyped ==
  ASSUME Typed, NEW c \in Cooks, make_pizza(c)
  PROVE  Typed'
<1> USE DEF Typed, MemoryTypeOK, Moves, memory, locals
<1> USE DEF CookSteps, DelivererSteps, OvenPlace, OvenSection, TakingSection
<1>1. CASE Prepare(c, "lock_oven")
  BY <1>1 DEF Prepare
<1>2. CASE LockOven(c)
  BY <1>2, LockOvenSem, SemDomain DEF LockOven, Semaphores
<1>3. CASE FindOven(c)
  BY <1>3, SpotsAreSlots DEF FindOven
<1>4. CASE PutOven(c)
  BY <1>4 DEF PutOven
<1>5. CASE CountOven(c, "unlock_oven")
  BY <1>5 DEF CountOven
<1>6. CASE UnlockOven(c)
  BY <1>6, UnlockOvenSem, SemDomain DEF UnlockOven, Semaphores
<1>7. CASE LockBoth(c)
  BY <1>7, LockBothSem, SemDomain DEF LockBoth, Semaphores
<1>8. CASE TakeOut(c)
  BY <1>8 DEF TakeOut
<1>9. CASE UncountOven(c, "find_table")
  BY <1>9 DEF UncountOven
<1>10. CASE FindTable(c)
  BY <1>10, SpotsAreSlots DEF FindTable
<1>11. CASE PutTable(c)
  BY <1>11 DEF PutTable
<1>12. CASE CountTable(c, "unlock_both")
  BY <1>12 DEF CountTable
<1>13. CASE UnlockBoth(c)
  BY <1>13, UnlockBothSem, SemDomain DEF UnlockBoth, Semaphores, Returns
<1> QED
  BY <1>1, <1>2, <1>3, <1>4, <1>5, <1>6, <1>7, <1>8, <1>9, <1>10, <1>11, <1>12,
     <1>13 DEF make_pizza

\* So does one step of deliver_pizza ...
LEMMA DelivererTyped ==
  ASSUME Typed, NEW d \in Deliverers, deliver_pizza(d)
  PROVE  Typed'
<1> USE DEF Typed, MemoryTypeOK, Moves, memory, locals
<1> USE DEF CookSteps, DelivererSteps, OvenPlace, OvenSection, TakingSection
<1>1. CASE LockTable(d)
  BY <1>1, LockTableSem, SemDomain DEF LockTable, Semaphores
<1>2. CASE FindTaken(d)
  BY <1>2, SpotsAreSlots DEF FindTaken
<1>3. CASE Take(d)
  <2>1. PICK p \in Pizzas \union {NoPizza} : pizza_type' = [pizza_type EXCEPT ![d] = p]
    BY <1>3 DEF Take
  <2>2. pizza_type' \in [Workers -> Pizzas \union {NoPizza}]
    BY <2>1
  <2>3. table' \in [TableSlots -> Pizzas \union {NoPizza}]
    BY <1>3 DEF Take
  <2> QED
    BY <1>3, <2>2, <2>3 DEF Take
<1>4. CASE UncountTable(d, "unlock_table")
  BY <1>4 DEF UncountTable
<1>5. CASE UnlockTable(d)
  BY <1>5, UnlockTableSem, SemDomain DEF UnlockTable, Semaphores
<1>6. CASE Deliver(d, "lock_table")
  BY <1>6 DEF Deliver, Returns
<1> QED
  BY <1>1, <1>2, <1>3, <1>4, <1>5, <1>6 DEF deliver_pizza

\* ... and every step.
LEMMA NextTyped == Typed /\ [Next]_vars => Typed'
<1> SUFFICES ASSUME Typed, [Next]_vars PROVE Typed'
  OBVIOUS
<1>1. ASSUME NEW w \in Workers, HangUp(w) PROVE Typed'
  BY <1>1 DEF Typed, MemoryTypeOK, HangUp, memory, locals
<1>2. CASE UNCHANGED vars
  BY <1>2 DEF Typed, MemoryTypeOK, vars, memory, locals
<1> QED
  BY <1>1, <1>2, CookTyped, DelivererTyped DEF Next

\* Whatever the interleaving and whoever is killed, the variables keep their types.
THEOREM Typing == Spec => []Typed
BY InitTyped, NextTyped, PTL DEF Spec

-----------------------------------------------------------------------------
(* Mutual exclusion. *)

\* The semaphore s is a lock that the workers at the steps S hold.
Locked(s, S) ==
  /\ sem[s] <= 1
  /\ \A w \in Workers : pc[w] \in S => sem[s] = 0
  /\ sem[s] = 0 => \E w \in Workers : pc[w] \in S
  /\ \A w1, w2 \in Workers : pc[w1] \in S /\ pc[w2] \in S => w1 = w2

Locks ==
  /\ Locked("OVEN_USED", OvenSection)
  /\ Locked("TABLE_USED", TableSection)

\* Both locks are free when main forks the workers.
LEMMA InitLocks == Init => Locks
BY DEF Init, InitMemory, InitialSem, Locks, Locked, OvenSection, TableSection,
       ServingSection, TakingSection

\* A worker takes the lock, gives it back, or leaves it as it is.
LEMMA LockSteps ==
  ASSUME Typed, sem' \in [Semaphores -> Nat],
         NEW s \in Semaphores, NEW S, Locked(s, S),
         NEW w \in Workers, NEW from, NEW to, Moves(w, from, to),
         \/ from \notin S /\ to \in S /\ sem'[s] = sem[s] - 1
         \/ from \in S /\ to \notin S /\ sem'[s] = sem[s] + 1
         \/ (from \in S <=> to \in S) /\ sem'[s] = sem[s]
  PROVE  Locked(s, S)'
<1> USE DEF Typed, Moves, Locked
<1>0. /\ sem[s] \in Nat /\ sem'[s] \in Nat
      /\ \A x \in Workers : pc'[x] = IF x = w THEN to ELSE pc[x]
  BY SemDomain DEF MemoryTypeOK
<1>1. CASE from \notin S /\ to \in S /\ sem'[s] = sem[s] - 1
  BY <1>0, <1>1
<1>2. CASE from \in S /\ to \notin S /\ sem'[s] = sem[s] + 1
  BY <1>0, <1>2
<1>3. CASE (from \in S <=> to \in S) /\ sem'[s] = sem[s]
  BY <1>0, <1>3
<1> QED
  BY <1>1, <1>2, <1>3

\* A step of make_pizza keeps OVEN_USED and TABLE_USED locks.
LEMMA CookLocks ==
  ASSUME Typed, Locks, NEW c \in Cooks, make_pizza(c)
  PROVE  Locks'
<1> USE DEF Locks, Semaphores, OvenSection, TableSection, ServingSection, TakingSection
<1>0. sem \in [Semaphores -> Nat]
  BY SemDomain DEF Typed, MemoryTypeOK
<1>1. CASE Prepare(c, "lock_oven")
  <2>1. Moves(c, "prepare", "lock_oven")
    BY <1>1 DEF Prepare
  <2> QED
    BY <2>1, <1>1, <1>0, LockSteps DEF Prepare
<1>2. CASE LockOven(c)
  <2>1. Moves(c, "lock_oven", "find_oven")
    BY <1>2 DEF LockOven
  <2> QED
    BY <2>1, <1>2, LockOvenSem, LockSteps DEF LockOven
<1>3. CASE FindOven(c)
  <2>1. Moves(c, "find_oven", "put_oven")
    BY <1>3 DEF FindOven
  <2> QED
    BY <2>1, <1>3, <1>0, LockSteps DEF FindOven
<1>4. CASE PutOven(c)
  <2>1. Moves(c, "put_oven", "count_oven")
    BY <1>4 DEF PutOven
  <2> QED
    BY <2>1, <1>4, <1>0, LockSteps DEF PutOven
<1>5. CASE CountOven(c, "unlock_oven")
  <2>1. Moves(c, "count_oven", "unlock_oven")
    BY <1>5 DEF CountOven
  <2> QED
    BY <2>1, <1>5, <1>0, LockSteps DEF CountOven
<1>6. CASE UnlockOven(c)
  <2>1. Moves(c, "unlock_oven", "lock_both")
    BY <1>6 DEF UnlockOven
  <2> QED
    BY <2>1, <1>6, UnlockOvenSem, LockSteps DEF UnlockOven
<1>7. CASE LockBoth(c)
  <2>1. Moves(c, "lock_both", "take_out")
    BY <1>7 DEF LockBoth
  <2> QED
    BY <2>1, <1>7, LockBothSem, LockSteps DEF LockBoth
<1>8. CASE TakeOut(c)
  <2>1. Moves(c, "take_out", "uncount_oven")
    BY <1>8 DEF TakeOut
  <2> QED
    BY <2>1, <1>8, <1>0, LockSteps DEF TakeOut
<1>9. CASE UncountOven(c, "find_table")
  <2>1. Moves(c, "uncount_oven", "find_table")
    BY <1>9 DEF UncountOven
  <2> QED
    BY <2>1, <1>9, <1>0, LockSteps DEF UncountOven
<1>10. CASE FindTable(c)
  <2>1. Moves(c, "find_table", "put_table")
    BY <1>10 DEF FindTable
  <2> QED
    BY <2>1, <1>10, <1>0, LockSteps DEF FindTable
<1>11. CASE PutTable(c)
  <2>1. Moves(c, "put_table", "count_table")
    BY <1>11 DEF PutTable
  <2> QED
    BY <2>1, <1>11, <1>0, LockSteps DEF PutTable
<1>12. CASE CountTable(c, "unlock_both")
  <2>1. Moves(c, "count_table", "unlock_both")
    BY <1>12 DEF CountTable
  <2> QED
    BY <2>1, <1>12, <1>0, LockSteps DEF CountTable
<1>13. CASE UnlockBoth(c)
  <2>1. Moves(c, "unlock_both", "prepare")
    BY <1>13 DEF UnlockBoth
  <2> QED
    BY <2>1, <1>13, UnlockBothSem, LockSteps DEF UnlockBoth
<1> QED
  BY <1>1, <1>2, <1>3, <1>4, <1>5, <1>6, <1>7, <1>8, <1>9, <1>10, <1>11, <1>12, <1>13 DEF make_pizza

\* So does a step of deliver_pizza ...
LEMMA DelivererLocks ==
  ASSUME Typed, Locks, NEW d \in Deliverers, deliver_pizza(d)
  PROVE  Locks'
<1> USE DEF Locks, Semaphores, OvenSection, TableSection, ServingSection, TakingSection
<1>0. sem \in [Semaphores -> Nat]
  BY SemDomain DEF Typed, MemoryTypeOK
<1>1. CASE LockTable(d)
  <2>1. Moves(d, "lock_table", "find_taken")
    BY <1>1 DEF LockTable
  <2> QED
    BY <2>1, <1>1, LockTableSem, LockSteps DEF LockTable
<1>2. CASE FindTaken(d)
  <2>1. Moves(d, "find_taken", "take")
    BY <1>2 DEF FindTaken
  <2> QED
    BY <2>1, <1>2, <1>0, LockSteps DEF FindTaken
<1>3. CASE Take(d)
  <2>1. Moves(d, "take", "uncount_table")
    BY <1>3 DEF Take
  <2> QED
    BY <2>1, <1>3, <1>0, LockSteps DEF Take
<1>4. CASE UncountTable(d, "unlock_table")
  <2>1. Moves(d, "uncount_table", "unlock_table")
    BY <1>4 DEF UncountTable
  <2> QED
    BY <2>1, <1>4, <1>0, LockSteps DEF UncountTable
<1>5. CASE UnlockTable(d)
  <2>1. Moves(d, "unlock_table", "deliver")
    BY <1>5 DEF UnlockTable
  <2> QED
    BY <2>1, <1>5, UnlockTableSem, LockSteps DEF UnlockTable
<1>6. CASE Deliver(d, "lock_table")
  <2>1. Moves(d, "deliver", "lock_table")
    BY <1>6 DEF Deliver
  <2> QED
    BY <2>1, <1>6, <1>0, LockSteps DEF Deliver
<1> QED
  BY <1>1, <1>2, <1>3, <1>4, <1>5, <1>6 DEF deliver_pizza

\* ... and every step: a worker killed in a section leaves its lock taken.
LEMMA NextLocks == Typed /\ Locks /\ [Next]_vars => Locks'
<1> SUFFICES ASSUME Typed, Locks, [Next]_vars PROVE Locks'
  OBVIOUS
<1>1. ASSUME NEW w \in Workers, HangUp(w) PROVE Locks'
  BY <1>1 DEF Locks, Locked, HangUp
<1>2. CASE UNCHANGED vars
  BY <1>2 DEF Locks, Locked, vars
<1> QED
  BY <1>1, <1>2, CookLocks, DelivererLocks DEF Next

\* OVEN_USED and TABLE_USED are locks: taken whenever a worker is in their section.
THEOREM Locking == Spec => []Locks
BY InitLocks, NextLocks, Typing, PTL DEF Spec

\* Two workers are never both between taking and giving back OVEN_USED, nor
\* TABLE_USED, wherever signals end other workers: property Exclusive.
THEOREM MutualExclusion == Spec => []Exclusive
<1>1. Locks => Exclusive
  BY DEF Locks, Locked, Exclusive, CooksAt, At
<1> QED
  BY <1>1, Locking, PTL

-----------------------------------------------------------------------------
(****************************************************************************)
(* The inductive invariant.  Mutual exclusion alone does not show that a    *)
(* worker finds the slot it is let in for: that takes the meaning of the    *)
(* three counting semaphores, and who owns which slot.                      *)
(****************************************************************************)

\* A cook has claimed a place on the table, and its pizza is not there yet; a
\* deliverer has cleared a place, and has not given it back yet.
OnTheWay == {"take_out", "uncount_oven", "find_table", "put_table"}
Clearing == {"uncount_table", "unlock_table"}

\* The number of workers at the steps S, one or none inside a critical section.
Half(S) == IF \E w \in Workers : pc[w] \in S THEN 1 ELSE 0

InOven == Cardinality(Occupied(oven, OvenSlots))
OnTable == Cardinality(Occupied(table, TableSlots))

\* Whoever has a pizza knows which one.
PizzasKnown ==
  /\ \A c \in Cooks : pc[c] # "prepare" => pizza_type[c] \in Pizzas
  /\ \A d \in Deliverers : pc[d] \in Delivering => pizza_type[d] \in Pizzas

\* Each pizza in the oven belongs to the one cook that remembers its slot, and
\* the slot a cook is about to use is free.
OvenOwned ==
  /\ \A c \in Cooks : pc[c] \in Baking =>
       pizza_spot[c] \in OvenSlots /\ oven[pizza_spot[c]] = pizza_type[c]
  /\ \A c1, c2 \in Cooks :
       pc[c1] \in Baking /\ pc[c2] \in Baking /\ pizza_spot[c1] = pizza_spot[c2] => c1 = c2
  /\ \A i \in OvenSlots : oven[i] # NoPizza =>
       \E c \in Cooks : pc[c] \in Baking /\ pizza_spot[c] = i
  /\ \A c \in Cooks : pc[c] = "put_oven" =>
       pizza_spot[c] \in OvenSlots /\ oven[pizza_spot[c]] = NoPizza

\* The slot of the table that a worker is about to use is free, or taken.
TableFound ==
  /\ \A c \in Cooks : pc[c] = "put_table" =>
       pizza_spot[c] \in TableSlots /\ table[pizza_spot[c]] = NoPizza
  /\ \A d \in Deliverers : pc[d] = "take" =>
       pizza_spot[d] \in TableSlots /\ table[pizza_spot[d]] # NoPizza

\* What the counting semaphores count.
OvenPermits == sem["OVEN_SPACE"] + Cardinality(CooksAt(OvenPlace)) = OvenSize
TablePermits ==
  /\ sem["TABLE_SPACE"] + OnTable + Half(OnTheWay) + Half(Clearing) = TableSize
  /\ sem["TABLE_READY"] + Half(Claiming) = OnTable + Half(OnTheWay)

\* A worker that is changing a counter has loaded it, and its store will put
\* the counter right.
OvenCounted ==
  /\ ~ (\E c \in Cooks : pc[c] \in {"count_oven", "uncount_oven"}) => oven_quan = InOven
  /\ \A c \in Cooks : pc[c] = "count_oven" => reg[c] + 1 = InOven
  /\ \A c \in Cooks : pc[c] = "uncount_oven" => reg[c] - 1 = InOven
TableCounted ==
  /\ ~ (\E w \in Workers : pc[w] \in {"count_table", "uncount_table"}) =>
       table_quan = OnTable
  /\ \A c \in Cooks : pc[c] = "count_table" => reg[c] + 1 = OnTable
  /\ \A d \in Deliverers : pc[d] = "uncount_table" => reg[d] - 1 = OnTable

IInv ==
  /\ Typed /\ Locks
  /\ PizzasKnown /\ OvenOwned /\ TableFound
  /\ OvenPermits /\ TablePermits
  /\ OvenCounted /\ TableCounted

-----------------------------------------------------------------------------
(* The pizzas, and the places of the oven. *)

\* make_pizza carries the pizza it chose at its start all the way.
LEMMA CookPizzas ==
  ASSUME Typed, PizzasKnown, NEW c \in Cooks, make_pizza(c)
  PROVE  PizzasKnown'
<1> USE DEF Typed, MemoryTypeOK, Moves, locals, PizzasKnown, Delivering, CookSteps, DelivererSteps,
            OvenPlace, OvenSection, TakingSection
<1>1. CASE Prepare(c, "lock_oven")
  BY <1>1 DEF Prepare
<1>2. CASE LockOven(c)
  BY <1>2 DEF LockOven
<1>3. CASE FindOven(c)
  BY <1>3 DEF FindOven
<1>4. CASE PutOven(c)
  BY <1>4 DEF PutOven
<1>5. CASE CountOven(c, "unlock_oven")
  BY <1>5 DEF CountOven
<1>6. CASE UnlockOven(c)
  BY <1>6 DEF UnlockOven
<1>7. CASE LockBoth(c)
  BY <1>7 DEF LockBoth
<1>8. CASE TakeOut(c)
  BY <1>8 DEF TakeOut
<1>9. CASE UncountOven(c, "find_table")
  BY <1>9 DEF UncountOven
<1>10. CASE FindTable(c)
  BY <1>10 DEF FindTable
<1>11. CASE PutTable(c)
  BY <1>11 DEF PutTable
<1>12. CASE CountTable(c, "unlock_both")
  BY <1>12 DEF CountTable
<1>13. CASE UnlockBoth(c)
  BY <1>13 DEF UnlockBoth, Returns
<1> QED
  BY <1>1, <1>2, <1>3, <1>4, <1>5, <1>6, <1>7, <1>8, <1>9, <1>10, <1>11, <1>12, <1>13 DEF make_pizza

\* deliver_pizza takes a pizza, never the -1 of an empty slot.
LEMMA DelivererPizzas ==
  ASSUME Typed, PizzasKnown, TableFound, NEW d \in Deliverers, deliver_pizza(d)
  PROVE  PizzasKnown'
<1> USE DEF Typed, MemoryTypeOK, Moves, locals, PizzasKnown, Delivering, CookSteps, DelivererSteps,
            OvenPlace, OvenSection, TakingSection
<1>1. CASE LockTable(d)
  BY <1>1 DEF LockTable
<1>2. CASE FindTaken(d)
  BY <1>2 DEF FindTaken
<1>3. CASE Take(d)
  <2>1. table[pizza_spot[d]] \in Pizzas
    BY <1>3 DEF Take, TableFound
  <2>2. pizza_type' = [pizza_type EXCEPT ![d] = table[pizza_spot[d]]]
    BY <1>3 DEF Take, TableFound
  <2> QED
    BY <1>3, <2>1, <2>2 DEF Take
<1>4. CASE UncountTable(d, "unlock_table")
  BY <1>4 DEF UncountTable
<1>5. CASE UnlockTable(d)
  BY <1>5 DEF UnlockTable
<1>6. CASE Deliver(d, "lock_table")
  BY <1>6 DEF Deliver, Returns
<1> QED
  BY <1>1, <1>2, <1>3, <1>4, <1>5, <1>6 DEF deliver_pizza

\* OVEN_SPACE counts a finite number of cooks.
LEMMA PlacesFinite == IsFiniteSet(CooksAt(OvenPlace))
BY FS_Subset DEF CooksAt

\* A cook takes a place in the oven, gives it back, or leaves it as it is.
LEMMA PlaceSteps ==
  ASSUME Typed, OvenPermits, sem' \in [Semaphores -> Nat],
         NEW c \in Cooks, NEW from, NEW to, Moves(c, from, to),
         \/ from \notin OvenPlace /\ to \in OvenPlace /\ sem'["OVEN_SPACE"] = sem["OVEN_SPACE"] - 1
         \/ from \in OvenPlace /\ to \notin OvenPlace /\ sem'["OVEN_SPACE"] = sem["OVEN_SPACE"] + 1
         \/ (from \in OvenPlace <=> to \in OvenPlace) /\ sem'["OVEN_SPACE"] = sem["OVEN_SPACE"]
  PROVE  OvenPermits'
<1> DEFINE places == CooksAt(OvenPlace)
<1>0. /\ \A x \in Cooks : pc'[x] = IF x = c THEN to ELSE pc[x]
      /\ pc[c] = from
      /\ sem["OVEN_SPACE"] \in Nat
      /\ IsFiniteSet(places)
      /\ Cardinality(places) \in Nat
  BY PlacesFinite, FS_CardinalityType, SemDomain DEF Typed, MemoryTypeOK, Moves, Semaphores
<1>1. CASE from \notin OvenPlace /\ to \in OvenPlace /\ sem'["OVEN_SPACE"] = sem["OVEN_SPACE"] - 1
  <2>1. places' = places \union {c} /\ c \notin places
    BY <1>0, <1>1 DEF CooksAt
  <2>2. Cardinality(places') = Cardinality(places) + 1
    BY <1>0, <2>1, FS_AddElement
  <2> QED
    BY <1>0, <1>1, <2>2 DEF OvenPermits
<1>2. CASE from \in OvenPlace /\ to \notin OvenPlace /\ sem'["OVEN_SPACE"] = sem["OVEN_SPACE"] + 1
  <2>1. places' = places \ {c} /\ c \in places
    BY <1>0, <1>2 DEF CooksAt
  <2>2. Cardinality(places') = Cardinality(places) - 1
    BY <1>0, <2>1, FS_RemoveElement, ZenonT(60)
  <2> QED
    BY <1>0, <1>2, <2>2 DEF OvenPermits
<1>3. CASE (from \in OvenPlace <=> to \in OvenPlace) /\ sem'["OVEN_SPACE"] = sem["OVEN_SPACE"]
  <2>1. places' = places
    BY <1>0, <1>3 DEF CooksAt
  <2> QED
    BY <1>0, <1>3, <2>1 DEF OvenPermits
<1> QED
  BY <1>1, <1>2, <1>3

\* make_pizza takes OVEN_SPACE and gives it back once per pizza.
LEMMA CookPlaces ==
  ASSUME Typed, OvenPermits, NEW c \in Cooks, make_pizza(c)
  PROVE  OvenPermits'
<1> USE DEF OvenPlace, OvenSection, Semaphores
<1>0. sem \in [Semaphores -> Nat]
  BY SemDomain DEF Typed, MemoryTypeOK
<1>1. CASE Prepare(c, "lock_oven")
  <2>1. Moves(c, "prepare", "lock_oven")
    BY <1>1 DEF Prepare
  <2> QED
    BY <2>1, <1>1, <1>0, PlaceSteps DEF Prepare
<1>2. CASE LockOven(c)
  <2>1. Moves(c, "lock_oven", "find_oven")
    BY <1>2 DEF LockOven
  <2> QED
    BY <2>1, <1>2, LockOvenSem, PlaceSteps DEF LockOven
<1>3. CASE FindOven(c)
  <2>1. Moves(c, "find_oven", "put_oven")
    BY <1>3 DEF FindOven
  <2> QED
    BY <2>1, <1>3, <1>0, PlaceSteps DEF FindOven
<1>4. CASE PutOven(c)
  <2>1. Moves(c, "put_oven", "count_oven")
    BY <1>4 DEF PutOven
  <2> QED
    BY <2>1, <1>4, <1>0, PlaceSteps DEF PutOven
<1>5. CASE CountOven(c, "unlock_oven")
  <2>1. Moves(c, "count_oven", "unlock_oven")
    BY <1>5 DEF CountOven
  <2> QED
    BY <2>1, <1>5, <1>0, PlaceSteps DEF CountOven
<1>6. CASE UnlockOven(c)
  <2>1. Moves(c, "unlock_oven", "lock_both")
    BY <1>6 DEF UnlockOven
  <2> QED
    BY <2>1, <1>6, UnlockOvenSem, PlaceSteps DEF UnlockOven
<1>7. CASE LockBoth(c)
  <2>1. Moves(c, "lock_both", "take_out")
    BY <1>7 DEF LockBoth
  <2> QED
    BY <2>1, <1>7, LockBothSem, PlaceSteps DEF LockBoth
<1>8. CASE TakeOut(c)
  <2>1. Moves(c, "take_out", "uncount_oven")
    BY <1>8 DEF TakeOut
  <2> QED
    BY <2>1, <1>8, <1>0, PlaceSteps DEF TakeOut
<1>9. CASE UncountOven(c, "find_table")
  <2>1. Moves(c, "uncount_oven", "find_table")
    BY <1>9 DEF UncountOven
  <2> QED
    BY <2>1, <1>9, <1>0, PlaceSteps DEF UncountOven
<1>10. CASE FindTable(c)
  <2>1. Moves(c, "find_table", "put_table")
    BY <1>10 DEF FindTable
  <2> QED
    BY <2>1, <1>10, <1>0, PlaceSteps DEF FindTable
<1>11. CASE PutTable(c)
  <2>1. Moves(c, "put_table", "count_table")
    BY <1>11 DEF PutTable
  <2> QED
    BY <2>1, <1>11, <1>0, PlaceSteps DEF PutTable
<1>12. CASE CountTable(c, "unlock_both")
  <2>1. Moves(c, "count_table", "unlock_both")
    BY <1>12 DEF CountTable
  <2> QED
    BY <2>1, <1>12, <1>0, PlaceSteps DEF CountTable
<1>13. CASE UnlockBoth(c)
  <2>1. Moves(c, "unlock_both", "prepare")
    BY <1>13 DEF UnlockBoth
  <2> QED
    BY <2>1, <1>13, UnlockBothSem, PlaceSteps DEF UnlockBoth
<1> QED
  BY <1>1, <1>2, <1>3, <1>4, <1>5, <1>6, <1>7, <1>8, <1>9, <1>10, <1>11, <1>12, <1>13 DEF make_pizza

\* deliver_pizza leaves OVEN_SPACE alone.
LEMMA DelivererPlaces ==
  ASSUME Typed, OvenPermits, NEW d \in Deliverers, deliver_pizza(d)
  PROVE  OvenPermits'
<1>1. sem'["OVEN_SPACE"] = sem["OVEN_SPACE"]
  BY LockTableSem, UnlockTableSem
     DEF deliver_pizza, FindTaken, Take, UncountTable, Deliver
<1>2. \A c \in Cooks : pc'[c] = pc[c]
  BY DEF deliver_pizza, LockTable, FindTaken, Take, UncountTable, UnlockTable, Deliver,
         Moves, Typed
<1>3. CooksAt(OvenPlace)' = CooksAt(OvenPlace)
  BY <1>2 DEF CooksAt
<1> QED
  BY <1>1, <1>3 DEF OvenPermits

-----------------------------------------------------------------------------
(* The oven: a slot for each cook that may use it, and each pizza owned by one cook. *)

\* A cook let in by OVEN_SPACE finds a free slot: the other cooks that have a
\* place are fewer than the slots, and every occupied slot is one of theirs.
LEMMA OvenHasRoom ==
  ASSUME Typed, OvenOwned, OvenPermits, NEW c \in Cooks, pc[c] = "find_oven"
  PROVE  /\ find_free(oven, OvenSlots) \in OvenSlots
         /\ oven[find_free(oven, OvenSlots)] = NoPizza
<1> DEFINE places == CooksAt(OvenPlace)
           bakers == CooksAt(Baking)
           full == Occupied(oven, OvenSlots)
           owner == [i \in full |-> CHOOSE x \in Cooks : pc[x] \in Baking /\ pizza_spot[x] = i]
<1>1. /\ IsFiniteSet(places \ {c})
      /\ Cardinality(places \ {c}) = Cardinality(places) - 1
  <2>1. c \in places
    BY DEF CooksAt, OvenPlace, OvenSection
  <2> QED
    BY <2>1, PlacesFinite, FS_RemoveElement
<1>2. bakers \subseteq places \ {c}
  BY DEF CooksAt, Baking, OvenPlace, OvenSection
<1>3. /\ IsFiniteSet(bakers)
      /\ Cardinality(bakers) <= Cardinality(places) - 1
  BY <1>1, <1>2, FS_Subset
<1>4. \A i \in full : owner[i] \in bakers /\ pizza_spot[owner[i]] = i
  <2> SUFFICES ASSUME NEW i \in full
               PROVE  owner[i] \in bakers /\ pizza_spot[owner[i]] = i
    OBVIOUS
  <2>1. \E x \in Cooks : pc[x] \in Baking /\ pizza_spot[x] = i
    BY DEF OvenOwned, Occupied
  <2> QED
    BY <2>1 DEF CooksAt
<1>5. owner \in Injection(full, bakers)
  <2> HIDE DEF bakers
  <2>1. owner \in [full -> bakers]
    BY <1>4
  <2>2. \A i, j \in full : owner[i] = owner[j] => i = j
    BY <1>4
  <2> HIDE DEF owner, full
  <2> QED
    BY <2>1, <2>2 DEF Injection, IsInjective
<1>6. Cardinality(full) <= Cardinality(bakers)
  BY <1>3, <1>5, FS_Injection
<1>7. Cardinality(full) < OvenSize
  <2>1. Cardinality(full) \in Nat /\ Cardinality(bakers) \in Nat /\ Cardinality(places) \in Nat
    BY <1>3, PlacesFinite, OccupiedFinite, SlotsFinite, FS_CardinalityType
  <2>2. sem["OVEN_SPACE"] \in Nat
    BY SemDomain DEF Typed, MemoryTypeOK, Semaphores
  <2> HIDE DEF full, bakers, places
  <2>3. sem["OVEN_SPACE"] + Cardinality(places) = OvenSize
    BY DEF OvenPermits, places
  <2> QED
    BY <1>3, <1>6, <2>1, <2>2, <2>3
<1> QED
  BY <1>7, FreeFound DEF OvenSlots

\* The slots of the oven stay owned.
LEMMA CookOven ==
  ASSUME Typed, Locks, PizzasKnown, OvenPermits, OvenOwned, NEW c \in Cooks, make_pizza(c)
  PROVE  OvenOwned'
<1> USE DEF Typed, MemoryTypeOK, Moves, memory, locals, OvenOwned, Baking, OvenSection,
           Locks, Locked, PizzasKnown
<1>1. CASE Prepare(c, "lock_oven")
  BY <1>1 DEF Prepare
<1>2. CASE LockOven(c)
  BY <1>2 DEF LockOven
<1>3. CASE FindOven(c)
  BY <1>3, OvenHasRoom DEF FindOven
<1>4. CASE PutOven(c)
  BY <1>4 DEF PutOven
<1>5. CASE CountOven(c, "unlock_oven")
  BY <1>5 DEF CountOven
<1>6. CASE UnlockOven(c)
  BY <1>6 DEF UnlockOven
<1>7. CASE LockBoth(c)
  BY <1>7 DEF LockBoth
<1>8. CASE TakeOut(c)
  BY <1>8 DEF TakeOut
<1>9. CASE UncountOven(c, "find_table")
  BY <1>9 DEF UncountOven
<1>10. CASE FindTable(c)
  BY <1>10 DEF FindTable
<1>11. CASE PutTable(c)
  BY <1>11 DEF PutTable
<1>12. CASE CountTable(c, "unlock_both")
  BY <1>12 DEF CountTable
<1>13. CASE UnlockBoth(c)
  BY <1>13 DEF UnlockBoth, Returns
<1> QED
  BY <1>1, <1>2, <1>3, <1>4, <1>5, <1>6, <1>7, <1>8, <1>9, <1>10, <1>11, <1>12, <1>13 DEF make_pizza

\* deliver_pizza does not touch the oven.
LEMMA DelivererOven ==
  ASSUME Typed, OvenOwned, NEW d \in Deliverers, deliver_pizza(d)
  PROVE  OvenOwned'
<1> USE DEF Typed, MemoryTypeOK, Moves, memory, locals, OvenOwned, Baking
<1>1. CASE LockTable(d)
  BY <1>1 DEF LockTable
<1>2. CASE FindTaken(d)
  BY <1>2 DEF FindTaken
<1>3. CASE Take(d)
  BY <1>3 DEF Take
<1>4. CASE UncountTable(d, "unlock_table")
  BY <1>4 DEF UncountTable
<1>5. CASE UnlockTable(d)
  BY <1>5 DEF UnlockTable
<1>6. CASE Deliver(d, "lock_table")
  BY <1>6 DEF Deliver, Returns
<1> QED
  BY <1>1, <1>2, <1>3, <1>4, <1>5, <1>6 DEF deliver_pizza

-----------------------------------------------------------------------------
(* The table: its places, its pizzas and the slots found on it. *)

\* What a move does to the number of workers at S, steps of a section that
\* TABLE_USED guards: whoever enters the section finds nobody there.
LEMMA HalfSteps ==
  ASSUME Typed, Locks,
         NEW w \in Workers, NEW from, NEW to, Moves(w, from, to),
         from \in TableSection \/ to \notin TableSection \/ sem["TABLE_USED"] >= 1,
         NEW S \in SUBSET TableSection
  PROVE  /\ Half(S)' = IF to \in S THEN 1 ELSE IF from \in S THEN 0 ELSE Half(S)
         /\ Half(S) \in {0, 1}
         /\ from \in S => Half(S) = 1
         /\ from \in TableSection /\ from \notin S => Half(S) = 0
         /\ from \notin TableSection /\ to \in TableSection => Half(S) = 0
<1>1. /\ pc[w] = from
      /\ \A x \in Workers : pc'[x] = IF x = w THEN to ELSE pc[x]
  BY DEF Moves, Typed
<1>2. \A x \in Workers : pc[x] \in TableSection /\ pc[w] \in TableSection => x = w
  BY DEF Locks, Locked
<1>3. sem["TABLE_USED"] >= 1 => \A x \in Workers : pc[x] \notin TableSection
  BY DEF Locks, Locked
<1>4. Half(S) = IF \E x \in Workers : pc[x] \in S THEN 1 ELSE 0
  BY DEF Half
<1>5. Half(S)' = IF \E x \in Workers : pc'[x] \in S THEN 1 ELSE 0
  BY DEF Half
<1>6. from \in S => Half(S) = 1
  BY <1>1, <1>4
<1>7. from \in TableSection /\ from \notin S => Half(S) = 0
  BY <1>1, <1>2, <1>4
<1>8. from \notin TableSection /\ to \in TableSection => Half(S) = 0
  BY <1>3, <1>4
<1>9. Half(S)' = IF to \in S THEN 1 ELSE IF from \in S THEN 0 ELSE Half(S)
  <2>1. CASE to \in S
    BY <1>1, <1>5, <2>1
  <2>2. CASE to \notin S /\ from \in S
    BY <1>1, <1>2, <1>5, <2>2
  <2>3. CASE to \notin S /\ from \notin S
    BY <1>1, <1>4, <1>5, <2>3
  <2> QED
    BY <2>1, <2>2, <2>3
<1> QED
  BY <1>4, <1>6, <1>7, <1>8, <1>9

\* A cook that holds a place on the table finds a free slot there ...
LEMMA TableHasRoom ==
  ASSUME Typed, TablePermits, NEW c \in Cooks, pc[c] = "find_table"
  PROVE  /\ find_free(table, TableSlots) \in TableSlots
         /\ table[find_free(table, TableSlots)] = NoPizza
<1>1. Half(OnTheWay) = 1 /\ Half(Clearing) \in {0, 1}
  BY DEF Half, OnTheWay
<1>2. OnTable \in Nat /\ sem["TABLE_SPACE"] \in Nat
  BY OccupiedFinite, SlotsFinite, SemDomain DEF OnTable, Typed, MemoryTypeOK, Semaphores
<1>3. OnTable < TableSize
  BY <1>1, <1>2 DEF TablePermits
<1> QED
  BY <1>3, FreeFound DEF TableSlots, OnTable

\* ... and a deliverer let in by TABLE_READY finds a pizza: no cook is about to
\* put one down, so all the pizzas TABLE_READY counts are on the table.
LEMMA TableHasPizza ==
  ASSUME Typed, Locks, TablePermits, NEW d \in Deliverers, pc[d] = "find_taken"
  PROVE  /\ find_taken \in TableSlots
         /\ table[find_taken] # NoPizza
<1>1. Half(Claiming) = 1 /\ Half(OnTheWay) = 0
  BY DEF Half, Claiming, OnTheWay, Locks, Locked, TableSection, TakingSection,
         ServingSection
<1>2. OnTable \in Nat /\ sem["TABLE_READY"] \in Nat
  BY OccupiedFinite, SlotsFinite, SemDomain DEF OnTable, Typed, MemoryTypeOK, Semaphores
<1>3. OnTable >= 1
  BY <1>1, <1>2 DEF TablePermits
<1>4. Occupied(table, TableSlots) # {}
  BY <1>3, FS_EmptySet DEF OnTable
<1>5. Occupied(table, TableSlots) \in SUBSET Nat
  BY DEF Occupied, TableSlots
<1>6. First(Occupied(table, TableSlots)) \in Occupied(table, TableSlots)
  BY <1>4, <1>5, FirstMember
<1> QED
  BY <1>6 DEF find_taken, Occupied

\* The slot of the table make_pizza is about to use stays free ...
LEMMA CookFinds ==
  ASSUME Typed, Locks, TablePermits, TableFound, NEW c \in Cooks, make_pizza(c)
  PROVE  TableFound'
<1> USE DEF Typed, MemoryTypeOK, Moves, memory, locals, TableFound, Locks, Locked, TableSection,
            ServingSection, TakingSection, CookSteps, DelivererSteps, OvenPlace, OvenSection
<1>1. CASE Prepare(c, "lock_oven")
  BY <1>1 DEF Prepare
<1>2. CASE LockOven(c)
  BY <1>2 DEF LockOven
<1>3. CASE FindOven(c)
  BY <1>3 DEF FindOven
<1>4. CASE PutOven(c)
  BY <1>4 DEF PutOven
<1>5. CASE CountOven(c, "unlock_oven")
  BY <1>5 DEF CountOven
<1>6. CASE UnlockOven(c)
  BY <1>6 DEF UnlockOven
<1>7. CASE LockBoth(c)
  BY <1>7 DEF LockBoth
<1>8. CASE TakeOut(c)
  BY <1>8 DEF TakeOut
<1>9. CASE UncountOven(c, "find_table")
  BY <1>9 DEF UncountOven
<1>10. CASE FindTable(c)
  BY <1>10, TableHasRoom DEF FindTable
<1>11. CASE PutTable(c)
  BY <1>11 DEF PutTable
<1>12. CASE CountTable(c, "unlock_both")
  BY <1>12 DEF CountTable
<1>13. CASE UnlockBoth(c)
  BY <1>13 DEF UnlockBoth, Returns
<1> QED
  BY <1>1, <1>2, <1>3, <1>4, <1>5, <1>6, <1>7, <1>8, <1>9, <1>10, <1>11, <1>12, <1>13 DEF make_pizza

\* ... and the one deliver_pizza is about to clear keeps its pizza.
LEMMA DelivererFinds ==
  ASSUME Typed, Locks, TablePermits, TableFound, NEW d \in Deliverers, deliver_pizza(d)
  PROVE  TableFound'
<1> USE DEF Typed, MemoryTypeOK, Moves, memory, locals, TableFound, Locks, Locked, TableSection,
            ServingSection, TakingSection, CookSteps, DelivererSteps, OvenPlace, OvenSection
<1>1. CASE LockTable(d)
  BY <1>1 DEF LockTable
<1>2. CASE FindTaken(d)
  BY <1>2, TableHasPizza DEF FindTaken
<1>3. CASE Take(d)
  BY <1>3 DEF Take
<1>4. CASE UncountTable(d, "unlock_table")
  BY <1>4 DEF UncountTable
<1>5. CASE UnlockTable(d)
  BY <1>5 DEF UnlockTable
<1>6. CASE Deliver(d, "lock_table")
  BY <1>6 DEF Deliver, Returns
<1> QED
  BY <1>1, <1>2, <1>3, <1>4, <1>5, <1>6 DEF deliver_pizza

\* The counting semaphores of the table keep their meaning.
LEMMA CookTable ==
  ASSUME Typed, Locks, PizzasKnown, TableFound, TablePermits, NEW c \in Cooks, make_pizza(c)
  PROVE  TablePermits'
<1> USE DEF TablePermits, OnTheWay, Clearing, Claiming, TableSection, ServingSection, TakingSection
<1>0. /\ sem["TABLE_USED"] \in Nat /\ sem["TABLE_SPACE"] \in Nat /\ sem["TABLE_READY"] \in Nat
      /\ OnTable \in Nat
  BY OccupiedFinite, SlotsFinite, SemDomain DEF OnTable, Typed, MemoryTypeOK, Semaphores
<1>1. CASE Prepare(c, "lock_oven")
  <2>1. Moves(c, "prepare", "lock_oven")
    BY <1>1 DEF Prepare
  <2>2. OnTable' = OnTable /\ sem' = sem
    BY <1>1 DEF Prepare, memory, OnTable
  <2> QED
    BY <2>1, <2>2, <1>0, HalfSteps
<1>2. CASE LockOven(c)
  <2>1. Moves(c, "lock_oven", "find_oven")
    BY <1>2 DEF LockOven
  <2>3. OnTable' = OnTable
    BY <1>2 DEF LockOven, memory, OnTable
  <2> QED
    BY <2>1, <2>3, <1>2, LockOvenSem, <1>0, HalfSteps
<1>3. CASE FindOven(c)
  <2>1. Moves(c, "find_oven", "put_oven")
    BY <1>3 DEF FindOven
  <2>2. OnTable' = OnTable /\ sem' = sem
    BY <1>3 DEF FindOven, memory, OnTable
  <2> QED
    BY <2>1, <2>2, <1>0, HalfSteps
<1>4. CASE PutOven(c)
  <2>1. Moves(c, "put_oven", "count_oven")
    BY <1>4 DEF PutOven
  <2>2. OnTable' = OnTable /\ sem' = sem
    BY <1>4 DEF PutOven, memory, OnTable
  <2> QED
    BY <2>1, <2>2, <1>0, HalfSteps
<1>5. CASE CountOven(c, "unlock_oven")
  <2>1. Moves(c, "count_oven", "unlock_oven")
    BY <1>5 DEF CountOven
  <2>2. OnTable' = OnTable /\ sem' = sem
    BY <1>5 DEF CountOven, memory, OnTable
  <2> QED
    BY <2>1, <2>2, <1>0, HalfSteps
<1>6. CASE UnlockOven(c)
  <2>1. Moves(c, "unlock_oven", "lock_both")
    BY <1>6 DEF UnlockOven
  <2>3. OnTable' = OnTable
    BY <1>6 DEF UnlockOven, memory, OnTable
  <2> QED
    BY <2>1, <2>3, <1>6, UnlockOvenSem, <1>0, HalfSteps
<1>7. CASE LockBoth(c)
  <2>1. Moves(c, "lock_both", "take_out")
    BY <1>7 DEF LockBoth
  <2>2. sem["TABLE_USED"] >= 1
    BY <1>7, LockBothSem, <1>0 DEF Semaphores
  <2>3. OnTable' = OnTable
    BY <1>7 DEF LockBoth, memory, OnTable
  <2> QED
    BY <2>1, <2>2, <2>3, <1>7, LockBothSem, <1>0, HalfSteps
<1>8. CASE TakeOut(c)
  <2>1. Moves(c, "take_out", "uncount_oven")
    BY <1>8 DEF TakeOut
  <2>2. OnTable' = OnTable /\ sem' = sem
    BY <1>8 DEF TakeOut, memory, OnTable
  <2> QED
    BY <2>1, <2>2, <1>0, HalfSteps
<1>9. CASE UncountOven(c, "find_table")
  <2>1. Moves(c, "uncount_oven", "find_table")
    BY <1>9 DEF UncountOven
  <2>2. OnTable' = OnTable /\ sem' = sem
    BY <1>9 DEF UncountOven, memory, OnTable
  <2> QED
    BY <2>1, <2>2, <1>0, HalfSteps
<1>10. CASE FindTable(c)
  <2>1. Moves(c, "find_table", "put_table")
    BY <1>10 DEF FindTable
  <2>2. OnTable' = OnTable /\ sem' = sem
    BY <1>10 DEF FindTable, memory, OnTable
  <2> QED
    BY <2>1, <2>2, <1>0, HalfSteps
<1>11. CASE PutTable(c)
  <2>1. Moves(c, "put_table", "count_table")
    BY <1>11 DEF PutTable
  <2>2. OnTable' = OnTable + 1
    <3>1. /\ pizza_spot[c] \in TableSlots /\ table[pizza_spot[c]] = NoPizza
          /\ pizza_type[c] \in Pizzas
      BY <2>1 DEF Moves, TableFound, PizzasKnown
    <3>2. /\ table \in [TableSlots -> Pizzas \union {NoPizza}]
          /\ table' = [table EXCEPT ![pizza_spot[c]] = pizza_type[c]]
      BY <1>11 DEF PutTable, Typed, MemoryTypeOK
    <3> QED
      BY <3>1, <3>2, FillSlot, SlotsFinite DEF OnTable
  <2>3. sem' = sem
    BY <1>11 DEF PutTable
  <2> QED
    BY <2>1, <2>2, <2>3, <1>0, HalfSteps
<1>12. CASE CountTable(c, "unlock_both")
  <2>1. Moves(c, "count_table", "unlock_both")
    BY <1>12 DEF CountTable
  <2>2. OnTable' = OnTable /\ sem' = sem
    BY <1>12 DEF CountTable, memory, OnTable
  <2> QED
    BY <2>1, <2>2, <1>0, HalfSteps
<1>13. CASE UnlockBoth(c)
  <2>1. Moves(c, "unlock_both", "prepare")
    BY <1>13 DEF UnlockBoth
  <2>3. OnTable' = OnTable
    BY <1>13 DEF UnlockBoth, memory, OnTable
  <2> QED
    BY <2>1, <2>3, <1>13, UnlockBothSem, <1>0, HalfSteps
<1> QED
  BY <1>1, <1>2, <1>3, <1>4, <1>5, <1>6, <1>7, <1>8, <1>9, <1>10, <1>11, <1>12, <1>13 DEF make_pizza

\* deliver_pizza, too, keeps the meaning of TABLE_SPACE and TABLE_READY.
LEMMA DelivererTable ==
  ASSUME Typed, Locks, PizzasKnown, TableFound, TablePermits, NEW d \in Deliverers, deliver_pizza(d)
  PROVE  TablePermits'
<1> USE DEF TablePermits, OnTheWay, Clearing, Claiming, TableSection, ServingSection, TakingSection
<1>0. /\ sem["TABLE_USED"] \in Nat /\ sem["TABLE_SPACE"] \in Nat /\ sem["TABLE_READY"] \in Nat
      /\ OnTable \in Nat
  BY OccupiedFinite, SlotsFinite, SemDomain DEF OnTable, Typed, MemoryTypeOK, Semaphores
<1>1. CASE LockTable(d)
  <2>1. Moves(d, "lock_table", "find_taken")
    BY <1>1 DEF LockTable
  <2>2. sem["TABLE_USED"] >= 1
    BY <1>1, LockTableSem, <1>0 DEF Semaphores
  <2>3. OnTable' = OnTable
    BY <1>1 DEF LockTable, memory, OnTable
  <2> QED
    BY <2>1, <2>2, <2>3, <1>1, LockTableSem, <1>0, HalfSteps
<1>2. CASE FindTaken(d)
  <2>1. Moves(d, "find_taken", "take")
    BY <1>2 DEF FindTaken
  <2>2. OnTable' = OnTable /\ sem' = sem
    BY <1>2 DEF FindTaken, memory, OnTable
  <2> QED
    BY <2>1, <2>2, <1>0, HalfSteps
<1>3. CASE Take(d)
  <2>1. Moves(d, "take", "uncount_table")
    BY <1>3 DEF Take
  <2>2. OnTable' = OnTable - 1
    BY <1>3, ClearSlot, SlotsFinite
       DEF Take, Moves, OnTable, TableFound, Typed, MemoryTypeOK
  <2>3. sem' = sem
    BY <1>3 DEF Take
  <2> QED
    BY <2>1, <2>2, <2>3, <1>0, HalfSteps
<1>4. CASE UncountTable(d, "unlock_table")
  <2>1. Moves(d, "uncount_table", "unlock_table")
    BY <1>4 DEF UncountTable
  <2>2. OnTable' = OnTable /\ sem' = sem
    BY <1>4 DEF UncountTable, memory, OnTable
  <2> QED
    BY <2>1, <2>2, <1>0, HalfSteps
<1>5. CASE UnlockTable(d)
  <2>1. Moves(d, "unlock_table", "deliver")
    BY <1>5 DEF UnlockTable
  <2>3. OnTable' = OnTable
    BY <1>5 DEF UnlockTable, memory, OnTable
  <2> QED
    BY <2>1, <2>3, <1>5, UnlockTableSem, <1>0, HalfSteps
<1>6. CASE Deliver(d, "lock_table")
  <2>1. Moves(d, "deliver", "lock_table")
    BY <1>6 DEF Deliver
  <2>2. OnTable' = OnTable /\ sem' = sem
    BY <1>6 DEF Deliver, memory, OnTable
  <2> QED
    BY <2>1, <2>2, <1>0, HalfSteps
<1> QED
  BY <1>1, <1>2, <1>3, <1>4, <1>5, <1>6 DEF deliver_pizza

-----------------------------------------------------------------------------
(* The counters. *)

\* No update of oven_quan is lost: whoever stores it loaded the current value.
LEMMA CookOvenCounter ==
  ASSUME Typed, Locks, PizzasKnown, OvenOwned, OvenCounted, NEW c \in Cooks, make_pizza(c)
  PROVE  OvenCounted'
<1> USE DEF OvenCounted, Typed, MemoryTypeOK, Moves, Locks, Locked, OvenSection
<1>0. InOven \in Nat
  BY OccupiedFinite, SlotsFinite DEF InOven
<1>1. CASE Prepare(c, "lock_oven")
  <2>1. Moves(c, "prepare", "lock_oven")
    BY <1>1 DEF Prepare
  <2>2. InOven' = InOven
    BY <1>1 DEF Prepare, memory, InOven
  <2> QED
    BY <2>1, <2>2, <1>0, <1>1 DEF Prepare, memory, locals
<1>2. CASE LockOven(c)
  <2>1. Moves(c, "lock_oven", "find_oven")
    BY <1>2 DEF LockOven
  <2>2. InOven' = InOven
    BY <1>2 DEF LockOven, memory, InOven
  <2> QED
    BY <2>1, <2>2, <1>0, <1>2 DEF LockOven, memory, locals
<1>3. CASE FindOven(c)
  <2>1. Moves(c, "find_oven", "put_oven")
    BY <1>3 DEF FindOven
  <2>2. InOven' = InOven
    BY <1>3 DEF FindOven, memory, InOven
  <2> QED
    BY <2>1, <2>2, <1>0, <1>3 DEF FindOven, memory, locals
<1>4. CASE PutOven(c)
  <2>1. Moves(c, "put_oven", "count_oven")
    BY <1>4 DEF PutOven
  <2>2. /\ pizza_spot[c] \in OvenSlots /\ oven[pizza_spot[c]] = NoPizza
        /\ pizza_type[c] \in Pizzas
    BY <2>1 DEF Moves, OvenOwned, PizzasKnown
  <2>3. /\ oven \in [OvenSlots -> Pizzas \union {NoPizza}]
        /\ oven' = [oven EXCEPT ![pizza_spot[c]] = pizza_type[c]]
    BY <1>4 DEF PutOven, Typed, MemoryTypeOK
  <2>4. InOven' = InOven + 1
    <3> HIDE DEF OvenCounted, Typed, MemoryTypeOK, Moves, Locks, Locked, OvenSection
    <3> QED BY <2>2, <2>3, FillSlot, SlotsFinite DEF InOven
  <2>5. \A x \in Cooks : pc[x] \notin {"count_oven", "uncount_oven"}
    BY <2>1
  <2>6. oven_quan = InOven
    BY <2>5
  <2>7. \A x \in Cooks : pc'[x] = IF x = c THEN "count_oven" ELSE pc[x]
    BY <2>1
  <2>8. reg'[c] = oven_quan /\ oven_quan' = oven_quan
    BY <1>4 DEF PutOven
  <2> QED
    BY <2>4, <2>5, <2>6, <2>7, <2>8, <1>0
<1>5. CASE CountOven(c, "unlock_oven")
  <2>1. Moves(c, "count_oven", "unlock_oven")
    BY <1>5 DEF CountOven
  <2>2. InOven' = InOven
    BY <1>5 DEF CountOven, memory, InOven
  <2> QED
    BY <2>1, <2>2, <1>0, <1>5 DEF CountOven, memory, locals
<1>6. CASE UnlockOven(c)
  <2>1. Moves(c, "unlock_oven", "lock_both")
    BY <1>6 DEF UnlockOven
  <2>2. InOven' = InOven
    BY <1>6 DEF UnlockOven, memory, InOven
  <2> QED
    BY <2>1, <2>2, <1>0, <1>6 DEF UnlockOven, memory, locals
<1>7. CASE LockBoth(c)
  <2>1. Moves(c, "lock_both", "take_out")
    BY <1>7 DEF LockBoth
  <2>2. InOven' = InOven
    BY <1>7 DEF LockBoth, memory, InOven
  <2> QED
    BY <2>1, <2>2, <1>0, <1>7 DEF LockBoth, memory, locals
<1>8. CASE TakeOut(c)
  <2>1. Moves(c, "take_out", "uncount_oven")
    BY <1>8 DEF TakeOut
  <2>2. pizza_spot[c] \in OvenSlots /\ oven[pizza_spot[c]] # NoPizza
    BY <2>1 DEF Moves, OvenOwned, Baking, PizzasKnown
  <2>3. /\ oven \in [OvenSlots -> Pizzas \union {NoPizza}]
        /\ oven' = [oven EXCEPT ![pizza_spot[c]] = NoPizza]
    BY <1>8 DEF TakeOut, Typed, MemoryTypeOK
  <2>4. InOven' = InOven - 1
    BY <2>2, <2>3, ClearSlot, SlotsFinite DEF InOven
  <2> QED
    BY <2>1, <2>4, <1>0, <1>8 DEF TakeOut
<1>9. CASE UncountOven(c, "find_table")
  <2>1. Moves(c, "uncount_oven", "find_table")
    BY <1>9 DEF UncountOven
  <2>2. InOven' = InOven
    BY <1>9 DEF UncountOven, memory, InOven
  <2> QED
    BY <2>1, <2>2, <1>0, <1>9 DEF UncountOven, memory, locals
<1>10. CASE FindTable(c)
  <2>1. Moves(c, "find_table", "put_table")
    BY <1>10 DEF FindTable
  <2>2. InOven' = InOven
    BY <1>10 DEF FindTable, memory, InOven
  <2> QED
    BY <2>1, <2>2, <1>0, <1>10 DEF FindTable, memory, locals
<1>11. CASE PutTable(c)
  <2>1. Moves(c, "put_table", "count_table")
    BY <1>11 DEF PutTable
  <2>2. InOven' = InOven
    BY <1>11 DEF PutTable, memory, InOven
  <2> QED
    BY <2>1, <2>2, <1>0, <1>11 DEF PutTable, memory, locals
<1>12. CASE CountTable(c, "unlock_both")
  <2>1. Moves(c, "count_table", "unlock_both")
    BY <1>12 DEF CountTable
  <2>2. InOven' = InOven
    BY <1>12 DEF CountTable, memory, InOven
  <2> QED
    BY <2>1, <2>2, <1>0, <1>12 DEF CountTable, memory, locals
<1>13. CASE UnlockBoth(c)
  <2>1. Moves(c, "unlock_both", "prepare")
    BY <1>13 DEF UnlockBoth
  <2>2. InOven' = InOven
    BY <1>13 DEF UnlockBoth, memory, InOven
  <2> QED
    BY <2>1, <2>2, <1>0, <1>13 DEF UnlockBoth, memory, locals
<1> QED
  BY <1>1, <1>2, <1>3, <1>4, <1>5, <1>6, <1>7, <1>8, <1>9, <1>10, <1>11, <1>12, <1>13 DEF make_pizza

\* deliver_pizza leaves oven_quan alone.
LEMMA DelivererOvenCounter ==
  ASSUME Typed, OvenCounted, NEW d \in Deliverers, deliver_pizza(d)
  PROVE  OvenCounted'
<1>1. /\ oven' = oven /\ oven_quan' = oven_quan
      /\ \A c \in Cooks : pc'[c] = pc[c] /\ reg'[c] = reg[c]
  BY DEF deliver_pizza, LockTable, FindTaken, Take, UncountTable, UnlockTable, Deliver,
         Moves, Typed, MemoryTypeOK, memory, locals
<1>2. InOven' = InOven
  BY <1>1 DEF InOven
<1> QED
  BY <1>1, <1>2 DEF OvenCounted

\* make_pizza loses no update of table_quan ...
LEMMA CookTableCounter ==
  ASSUME Typed, Locks, PizzasKnown, TableFound, TableCounted, NEW c \in Cooks, make_pizza(c)
  PROVE  TableCounted'
<1> USE DEF TableCounted, Typed, MemoryTypeOK, Moves, Locks, Locked, TableSection,
           ServingSection, TakingSection, CookSteps, DelivererSteps, OvenPlace, OvenSection
<1>0. OnTable \in Nat
  BY OccupiedFinite, SlotsFinite DEF OnTable
<1>1. CASE Prepare(c, "lock_oven")
  <2>1. Moves(c, "prepare", "lock_oven")
    BY <1>1 DEF Prepare
  <2>2. OnTable' = OnTable
    BY <1>1 DEF Prepare, memory, OnTable
  <2> QED
    BY <2>1, <2>2, <1>0, <1>1 DEF Prepare, memory, locals
<1>2. CASE LockOven(c)
  <2>1. Moves(c, "lock_oven", "find_oven")
    BY <1>2 DEF LockOven
  <2>2. OnTable' = OnTable
    BY <1>2 DEF LockOven, memory, OnTable
  <2> QED
    BY <2>1, <2>2, <1>0, <1>2 DEF LockOven, memory, locals
<1>3. CASE FindOven(c)
  <2>1. Moves(c, "find_oven", "put_oven")
    BY <1>3 DEF FindOven
  <2>2. OnTable' = OnTable
    BY <1>3 DEF FindOven, memory, OnTable
  <2> QED
    BY <2>1, <2>2, <1>0, <1>3 DEF FindOven, memory, locals
<1>4. CASE PutOven(c)
  <2>1. Moves(c, "put_oven", "count_oven")
    BY <1>4 DEF PutOven
  <2>2. OnTable' = OnTable
    BY <1>4 DEF PutOven, memory, OnTable
  <2> QED
    BY <2>1, <2>2, <1>0, <1>4 DEF PutOven, memory, locals
<1>5. CASE CountOven(c, "unlock_oven")
  <2>1. Moves(c, "count_oven", "unlock_oven")
    BY <1>5 DEF CountOven
  <2>2. OnTable' = OnTable
    BY <1>5 DEF CountOven, memory, OnTable
  <2> QED
    BY <2>1, <2>2, <1>0, <1>5 DEF CountOven, memory, locals
<1>6. CASE UnlockOven(c)
  <2>1. Moves(c, "unlock_oven", "lock_both")
    BY <1>6 DEF UnlockOven
  <2>2. OnTable' = OnTable
    BY <1>6 DEF UnlockOven, memory, OnTable
  <2> QED
    BY <2>1, <2>2, <1>0, <1>6 DEF UnlockOven, memory, locals
<1>7. CASE LockBoth(c)
  <2>1. Moves(c, "lock_both", "take_out")
    BY <1>7 DEF LockBoth
  <2>2. OnTable' = OnTable
    BY <1>7 DEF LockBoth, memory, OnTable
  <2> QED
    BY <2>1, <2>2, <1>0, <1>7 DEF LockBoth, memory, locals
<1>8. CASE TakeOut(c)
  <2>1. Moves(c, "take_out", "uncount_oven")
    BY <1>8 DEF TakeOut
  <2>2. OnTable' = OnTable
    BY <1>8 DEF TakeOut, memory, OnTable
  <2> QED
    BY <2>1, <2>2, <1>0, <1>8 DEF TakeOut, memory, locals
<1>9. CASE UncountOven(c, "find_table")
  <2>1. Moves(c, "uncount_oven", "find_table")
    BY <1>9 DEF UncountOven
  <2>2. OnTable' = OnTable
    BY <1>9 DEF UncountOven, memory, OnTable
  <2> QED
    BY <2>1, <2>2, <1>0, <1>9 DEF UncountOven, memory, locals
<1>10. CASE FindTable(c)
  <2>1. Moves(c, "find_table", "put_table")
    BY <1>10 DEF FindTable
  <2>2. OnTable' = OnTable
    BY <1>10 DEF FindTable, memory, OnTable
  <2> QED
    BY <2>1, <2>2, <1>0, <1>10 DEF FindTable, memory, locals
<1>11. CASE PutTable(c)
  <2>1. Moves(c, "put_table", "count_table")
    BY <1>11 DEF PutTable
  <2>2. /\ pizza_spot[c] \in TableSlots /\ table[pizza_spot[c]] = NoPizza
        /\ pizza_type[c] \in Pizzas
    BY <2>1 DEF Moves, TableFound, PizzasKnown
  <2>3. /\ table \in [TableSlots -> Pizzas \union {NoPizza}]
        /\ table' = [table EXCEPT ![pizza_spot[c]] = pizza_type[c]]
    BY <1>11 DEF PutTable, Typed, MemoryTypeOK
  <2>4. OnTable' = OnTable + 1
    <3> HIDE DEF TableCounted, Typed, MemoryTypeOK, Moves, Locks, Locked
    <3> QED BY <2>2, <2>3, FillSlot, SlotsFinite DEF OnTable
  <2>5. \A x \in Workers : pc[x] \notin {"count_table", "uncount_table"}
    BY <2>1
  <2>6. table_quan = OnTable
    BY <2>5
  <2>7. \A x \in Workers : pc'[x] = IF x = c THEN "count_table" ELSE pc[x]
    BY <2>1
  <2>8. reg'[c] = table_quan /\ table_quan' = table_quan
    BY <1>11 DEF PutTable
  <2> QED
    BY <2>4, <2>5, <2>6, <2>7, <2>8, <1>0
<1>12. CASE CountTable(c, "unlock_both")
  <2>1. Moves(c, "count_table", "unlock_both")
    BY <1>12 DEF CountTable
  <2>2. OnTable' = OnTable
    BY <1>12 DEF CountTable, memory, OnTable
  <2> QED
    BY <2>1, <2>2, <1>0, <1>12 DEF CountTable, memory, locals
<1>13. CASE UnlockBoth(c)
  <2>1. Moves(c, "unlock_both", "prepare")
    BY <1>13 DEF UnlockBoth
  <2>2. OnTable' = OnTable
    BY <1>13 DEF UnlockBoth, memory, OnTable
  <2> QED
    BY <2>1, <2>2, <1>0, <1>13 DEF UnlockBoth, memory, locals
<1> QED
  BY <1>1, <1>2, <1>3, <1>4, <1>5, <1>6, <1>7, <1>8, <1>9, <1>10, <1>11, <1>12, <1>13 DEF make_pizza

\* ... nor does deliver_pizza, which lowers the same counter.
LEMMA DelivererTableCounter ==
  ASSUME Typed, Locks, PizzasKnown, TableFound, TableCounted, NEW d \in Deliverers, deliver_pizza(d)
  PROVE  TableCounted'
<1> USE DEF TableCounted, Typed, MemoryTypeOK, Moves, Locks, Locked, TableSection,
           ServingSection, TakingSection, CookSteps, DelivererSteps, OvenPlace, OvenSection
<1>0. OnTable \in Nat
  BY OccupiedFinite, SlotsFinite DEF OnTable
<1>1. CASE LockTable(d)
  <2>1. Moves(d, "lock_table", "find_taken")
    BY <1>1 DEF LockTable
  <2>2. OnTable' = OnTable
    BY <1>1 DEF LockTable, memory, OnTable
  <2> QED
    BY <2>1, <2>2, <1>0, <1>1 DEF LockTable, memory, locals
<1>2. CASE FindTaken(d)
  <2>1. Moves(d, "find_taken", "take")
    BY <1>2 DEF FindTaken
  <2>2. OnTable' = OnTable
    BY <1>2 DEF FindTaken, memory, OnTable
  <2> QED
    BY <2>1, <2>2, <1>0, <1>2 DEF FindTaken, memory, locals
<1>3. CASE Take(d)
  <2>1. Moves(d, "take", "uncount_table")
    BY <1>3 DEF Take
  <2>2. pizza_spot[d] \in TableSlots /\ table[pizza_spot[d]] # NoPizza
    BY <2>1 DEF Moves, TableFound
  <2>3. /\ table \in [TableSlots -> Pizzas \union {NoPizza}]
        /\ table' = [table EXCEPT ![pizza_spot[d]] = NoPizza]
    BY <1>3 DEF Take, Typed, MemoryTypeOK
  <2>4. OnTable' = OnTable - 1
    BY <2>2, <2>3, ClearSlot, SlotsFinite DEF OnTable
  <2> QED
    BY <2>1, <2>4, <1>0, <1>3 DEF Take
<1>4. CASE UncountTable(d, "unlock_table")
  <2>1. Moves(d, "uncount_table", "unlock_table")
    BY <1>4 DEF UncountTable
  <2>2. OnTable' = OnTable
    BY <1>4 DEF UncountTable, memory, OnTable
  <2> QED
    BY <2>1, <2>2, <1>0, <1>4 DEF UncountTable, memory, locals
<1>5. CASE UnlockTable(d)
  <2>1. Moves(d, "unlock_table", "deliver")
    BY <1>5 DEF UnlockTable
  <2>2. OnTable' = OnTable
    BY <1>5 DEF UnlockTable, memory, OnTable
  <2> QED
    BY <2>1, <2>2, <1>0, <1>5 DEF UnlockTable, memory, locals
<1>6. CASE Deliver(d, "lock_table")
  <2>1. Moves(d, "deliver", "lock_table")
    BY <1>6 DEF Deliver
  <2>2. OnTable' = OnTable
    BY <1>6 DEF Deliver, memory, OnTable
  <2> QED
    BY <2>1, <2>2, <1>0, <1>6 DEF Deliver, memory, locals
<1> QED
  BY <1>1, <1>2, <1>3, <1>4, <1>5, <1>6 DEF deliver_pizza

-----------------------------------------------------------------------------
(* The theorems. *)

\* The state main sets up before the first fork satisfies the invariant.
LEMMA InitIInv == Init => IInv
<1> SUFFICES ASSUME Init PROVE IInv
  OBVIOUS
<1> USE DEF Init, InitMemory, InitialSem
<1>1. Typed /\ Locks
  BY InitTyped, InitLocks
<1>2. /\ \A c \in Cooks : pc[c] = "prepare"
      /\ \A d \in Deliverers : pc[d] = "lock_table"
      /\ \A w \in Workers : pc[w] \in {"prepare", "lock_table"}
  OBVIOUS
<1>3. PizzasKnown /\ OvenOwned /\ TableFound
  BY <1>2 DEF PizzasKnown, OvenOwned, TableFound, Delivering, Baking
<1>4. Occupied(oven, OvenSlots) = {} /\ Occupied(table, TableSlots) = {}
  BY DEF Occupied
<1>5. InOven = 0 /\ OnTable = 0
  BY <1>4, FS_EmptySet DEF InOven, OnTable
<1>6. CooksAt(OvenPlace) = {}
  BY <1>2 DEF CooksAt, OvenPlace, OvenSection
<1>7. OvenPermits
  BY <1>6, FS_EmptySet DEF OvenPermits
<1>8. Half(OnTheWay) = 0 /\ Half(Clearing) = 0 /\ Half(Claiming) = 0
  BY <1>2 DEF Half, OnTheWay, Clearing, Claiming
<1>9. TablePermits
  BY <1>5, <1>8 DEF TablePermits
<1>10. OvenCounted /\ TableCounted
  BY <1>2, <1>5 DEF OvenCounted, TableCounted
<1> QED
  BY <1>1, <1>3, <1>7, <1>9, <1>10 DEF IInv

\* The invariant is inductive: each step of a worker, and each death, keeps it.
LEMMA NextIInv == IInv /\ [Next]_vars => IInv'
<1> SUFFICES ASSUME IInv, [Next]_vars PROVE IInv'
  OBVIOUS
<1>1. Typed' /\ Locks'
  BY NextTyped, NextLocks DEF IInv
<1>2. ASSUME NEW c \in Cooks, make_pizza(c) PROVE IInv'
  BY <1>1, <1>2, CookPizzas, CookPlaces, CookOven, CookFinds, CookTable, CookOvenCounter,
     CookTableCounter DEF IInv
<1>3. ASSUME NEW d \in Deliverers, deliver_pizza(d) PROVE IInv'
  BY <1>1, <1>3, DelivererPizzas, DelivererPlaces, DelivererOven, DelivererFinds,
     DelivererTable, DelivererOvenCounter, DelivererTableCounter DEF IInv
<1>4. ASSUME UNCHANGED <<sem, memory, pc, locals>> PROVE IInv'
  <2> USE <1>4 DEF memory, locals
  <2>1. PizzasKnown' /\ OvenOwned' /\ TableFound'
    BY DEF IInv, PizzasKnown, OvenOwned, TableFound
  <2>2. InOven' = InOven /\ OnTable' = OnTable /\ CooksAt(OvenPlace)' = CooksAt(OvenPlace)
    BY DEF InOven, OnTable, CooksAt
  <2>3. Half(OnTheWay)' = Half(OnTheWay) /\ Half(Clearing)' = Half(Clearing)
        /\ Half(Claiming)' = Half(Claiming)
    BY DEF Half
  <2>4. OvenPermits' /\ TablePermits'
    BY <2>2, <2>3 DEF IInv, OvenPermits, TablePermits
  <2>5. OvenCounted' /\ TableCounted'
    BY <2>2 DEF IInv, OvenCounted, TableCounted
  <2> QED
    BY <1>1, <2>1, <2>4, <2>5 DEF IInv
<1> QED
  BY <1>2, <1>3, <1>4 DEF Next, HangUp, vars

\* IInv, with the meaning of all five semaphores, holds in every reachable state.
THEOREM Invariance == Spec => []IInv
BY InitIInv, NextIInv, PTL DEF Spec

\* Types, and the bounds of every semaphore: no permit is given back twice.
THEOREM TypeCorrect == Spec => []TypeOK
<1>1. IInv => TypeOK
  <2> SUFFICES ASSUME IInv PROVE TypeOK
    OBVIOUS
  <2>1. Typed /\ DOMAIN InitialSem = Semaphores
    BY SemDomain DEF IInv
  <2>2. sem["OVEN_USED"] <= 1 /\ sem["TABLE_USED"] <= 1
    BY DEF IInv, Locks, Locked
  <2>3. sem["OVEN_SPACE"] <= OvenSize
    <3>1. Cardinality(CooksAt(OvenPlace)) \in Nat /\ sem["OVEN_SPACE"] \in Nat
      BY <2>1, PlacesFinite, FS_CardinalityType DEF Typed, MemoryTypeOK, Semaphores
    <3> QED
      BY <3>1 DEF IInv, OvenPermits
  <2>4. sem["TABLE_SPACE"] <= TableSize /\ sem["TABLE_READY"] <= TableSize
    <3>1. /\ OnTable \in Nat
          /\ sem["TABLE_SPACE"] \in Nat /\ sem["TABLE_READY"] \in Nat
      BY <2>1, OccupiedFinite, SlotsFinite DEF OnTable, Typed, MemoryTypeOK, Semaphores
    <3>2. Half(OnTheWay) \in Nat /\ Half(Clearing) \in Nat /\ Half(Claiming) \in Nat
      BY DEF Half
    <3> QED
      BY <3>1, <3>2 DEF IInv, TablePermits
  <2>5. SemLimit = [OVEN_USED |-> 1, OVEN_SPACE |-> OvenSize,
                    TABLE_USED |-> 1, TABLE_SPACE |-> TableSize, TABLE_READY |-> TableSize]
    BY DEF SemLimit, InitialSem
  <2>6. \A s \in DOMAIN InitialSem : sem[s] <= SemLimit[s]
    BY <2>1, <2>2, <2>3, <2>4, <2>5 DEF Semaphores
  <2> QED
    BY <2>1, <2>6 DEF TypeOK, Typed
<1> QED
  BY <1>1, Invariance, PTL

\* No worker ever indexes an array with -1: the limits of the oven and the table
\* hold for every number of cooks and deliverers.
THEOREM SlotsAreFound == Spec => []SpotFound
<1>1. IInv => SpotFound
  <2> SUFFICES ASSUME IInv PROVE SpotFound
    OBVIOUS
  <2>1. \A c \in CooksAt({"put_oven"} \union Baking) : pizza_spot[c] \in OvenSlots
    BY DEF IInv, OvenOwned, CooksAt
  <2>2. ASSUME NEW w \in At({"put_table", "take"}) PROVE pizza_spot[w] \in TableSlots
    BY <2>2 DEF IInv, TableFound, At, Typed, CookSteps, DelivererSteps, OvenPlace,
             OvenSection, TakingSection
  <2> QED
    BY <2>1, <2>2 DEF SpotFound
<1> QED
  BY <1>1, Invariance, PTL

\* No increment or decrement of oven_quan and table_quan is ever lost.
THEOREM CountersAreRight == Spec => []CountersAgree
<1>1. IInv => CountersAgree
  BY DEF IInv, OvenCounted, TableCounted, InOven, OnTable, CountersAgree, CooksAt, At
<1> QED
  BY <1>1, Invariance, PTL

-----------------------------------------------------------------------------
(* Deadlock.                                                                  *)

\* A semop with the operations "ops" would not wait, and neither would worker w: the
\* steps that are not named here wait for nothing.
Allows(ops) == \A s \in DOMAIN ops : sem[s] + ops[s] >= 0
CanGoOn(w) ==
  /\ alive[w]
  /\ pc[w] = "lock_oven" => Allows([OVEN_USED |-> -1, OVEN_SPACE |-> -1])
  /\ pc[w] = "lock_both" =>
       Allows([OVEN_USED |-> -1, TABLE_USED |-> -1, TABLE_SPACE |-> -1, TABLE_READY |-> 1])
  /\ pc[w] = "lock_table" => Allows([TABLE_USED |-> -1, TABLE_READY |-> -1])

\* Whoever was ended by a signal had no permit and no place at that moment.
LeftNothing ==
  \A w \in Workers : alive[w] \/ pc[w] \in {"prepare", "lock_oven", "lock_table", "deliver"}
SomeoneWorks == (\E c \in Cooks : alive[c]) /\ (\E d \in Deliverers : alive[d])

NeverStuck == LeftNothing /\ SomeoneWorks => \E w \in Workers : CanGoOn(w)

\* When nobody is inside a section, both locks are free and nobody is on the way.
LEMMA NobodyInside ==
  ASSUME IInv, \A w \in Workers : pc[w] \notin OvenSection \union TableSection
  PROVE  /\ sem["OVEN_USED"] = 1 /\ sem["TABLE_USED"] = 1
         /\ sem["TABLE_SPACE"] + OnTable = TableSize /\ sem["TABLE_READY"] = OnTable
         /\ OnTable \in Nat /\ sem["TABLE_SPACE"] \in Nat
<1>1. \A s \in Semaphores : sem[s] \in Nat
  BY SemDomain DEF IInv, Typed, MemoryTypeOK
<1>2. sem["OVEN_USED"] = 1 /\ sem["TABLE_USED"] = 1
  BY <1>1 DEF IInv, Locks, Locked, Semaphores
<1>3. Half(OnTheWay) = 0 /\ Half(Clearing) = 0 /\ Half(Claiming) = 0
  BY DEF Half, OnTheWay, Clearing, Claiming, TableSection, ServingSection, TakingSection
<1>4. OnTable \in Nat
  BY OccupiedFinite, SlotsFinite DEF OnTable
<1> QED
  BY <1>1, <1>2, <1>3, <1>4 DEF IInv, TablePermits, Semaphores

\* The workers never all wait for one another: as long as a cook and a deliverer are
\* there, and nobody was ended with a permit in hand, some worker can go on.
THEOREM NobodyIsStuck == Spec => []NeverStuck
<1>1. IInv => NeverStuck
  <2> SUFFICES ASSUME IInv, LeftNothing, SomeoneWorks, \A w \in Workers : ~CanGoOn(w)
               PROVE  FALSE
    BY DEF NeverStuck
  <2>1. \A w \in Workers :
          \/ alive[w] /\ pc[w] \in {"lock_oven", "lock_both", "lock_table"}
          \/ ~alive[w] /\ pc[w] \in {"prepare", "lock_oven", "lock_table", "deliver"}
    BY DEF CanGoOn, LeftNothing, IInv, Typed, MemoryTypeOK
  <2>2. \A w \in Workers : pc[w] \notin OvenSection \union TableSection
    BY <2>1 DEF OvenSection, TableSection, ServingSection, TakingSection
  <2>3. /\ sem["OVEN_USED"] = 1 /\ sem["TABLE_USED"] = 1
        /\ sem["TABLE_SPACE"] + OnTable = TableSize /\ sem["TABLE_READY"] = OnTable
        /\ OnTable \in Nat /\ sem["TABLE_SPACE"] \in Nat
    BY <2>2, NobodyInside
  <2>4. OnTable = 0
    <3>1. PICK d \in Deliverers : alive[d]
      BY DEF SomeoneWorks
    <3>2. pc[d] = "lock_table"
      BY <2>1, <3>1 DEF IInv, Typed, DelivererSteps, TakingSection
    <3>3. ~Allows([TABLE_USED |-> -1, TABLE_READY |-> -1])
      BY <3>1, <3>2 DEF CanGoOn
    <3> QED
      BY <2>3, <3>3 DEF Allows
  <2>5. Allows([OVEN_USED |-> -1, TABLE_USED |-> -1, TABLE_SPACE |-> -1, TABLE_READY |-> 1])
    <3> DEFINE ops == [OVEN_USED |-> -1, TABLE_USED |-> -1, TABLE_SPACE |-> -1, TABLE_READY |-> 1]
    <3>1. DOMAIN ops = {"OVEN_USED", "TABLE_USED", "TABLE_SPACE", "TABLE_READY"}
      OBVIOUS
    <3>2. /\ ops["OVEN_USED"] = -1 /\ ops["TABLE_USED"] = -1
          /\ ops["TABLE_SPACE"] = -1 /\ ops["TABLE_READY"] = 1
      OBVIOUS
    <3> HIDE DEF ops
    <3>3. Allows(ops)
      BY <2>3, <2>4, <3>1, <3>2, PizzeriaAssumption DEF Allows
    <3> QED
      BY <3>3 DEF ops
  <2>6. \A w \in Workers : pc[w] # "lock_both"
    BY <2>1, <2>5 DEF CanGoOn
  <2>7. sem["OVEN_SPACE"] = OvenSize
    <3>1. CooksAt(OvenPlace) = {}
      BY <2>2, <2>6 DEF CooksAt, OvenPlace
    <3>2. sem["OVEN_SPACE"] \in Nat
      BY SemDomain DEF IInv, Typed, MemoryTypeOK, Semaphores
    <3> QED
      BY <3>1, <3>2, FS_EmptySet DEF IInv, OvenPermits
  <2>8. PICK c \in Cooks : alive[c]
    BY DEF SomeoneWorks
  <2>9. pc[c] = "lock_oven"
    BY <2>1, <2>6, <2>8 DEF IInv, Typed, CookSteps, OvenPlace, OvenSection
  <2>10. Allows([OVEN_USED |-> -1, OVEN_SPACE |-> -1])
    BY <2>3, <2>7, PizzeriaAssumption DEF Allows
  <2> QED
    BY <2>8, <2>9, <2>10 DEF CanGoOn
<1> QED
  BY <1>1, Invariance, PTL

-----------------------------------------------------------------------------
(* The pizzeria implements PizzaLine.  Five steps of it are the five steps of *)
(* the line, and the others change nothing that the line shows.               *)

Hands == Carrying \union Delivering

\* A move changes the program counter of one worker.
LEMMA LineView ==
  ASSUME NEW w \in Workers, NEW from, NEW to, Typed, Moves(w, from, to)
  PROVE  /\ pc[w] = from
         /\ \A x \in Workers : pc'[x] = IF x = w THEN to ELSE pc[x]
BY DEF Moves, Typed

\* The steps that the line does not show.
LEMMA StutterSteps ==
  ASSUME Typed, NEW w \in Workers, NEW from, NEW to, Moves(w, from, to),
         oven' = oven, table' = table,
         from \in Baking <=> to \in Baking, from \in Hands <=> to \in Hands,
         \A x \in Workers : (x # w \/ from \in Baking) => pizza_spot'[x] = pizza_spot[x],
         \A x \in Workers : (x # w \/ from \in Hands) => pizza_type'[x] = pizza_type[x]
  PROVE  UNCHANGED Line!vars
<1>1. /\ pc[w] = from
      /\ \A x \in Workers : pc'[x] = IF x = w THEN to ELSE pc[x]
  BY LineView
<1>2. \A c \in Cooks : (IF pc'[c] \in Baking THEN pizza_spot'[c] ELSE NoSpot)
                        = (IF pc[c] \in Baking THEN pizza_spot[c] ELSE NoSpot)
  BY <1>1
<1>3. baking' = baking
  BY <1>2 DEF baking
<1>4. \A x \in Workers : (IF pc'[x] \in Hands THEN pizza_type'[x] ELSE NoPizza)
                          = (IF pc[x] \in Hands THEN pizza_type[x] ELSE NoPizza)
  BY <1>1
<1>5. carried' = carried
  BY <1>4 DEF carried, Hands
<1> QED
  BY <1>3, <1>5 DEF Line!vars

\* Each step of make_pizza is Bake, TakeOut or Serve of the line, or a stutter.
LEMMA CookLine ==
  ASSUME IInv, NEW c \in Cooks, make_pizza(c)
  PROVE  [Line!Next]_(Line!vars)
<1> Typed
  BY DEF IInv
<1>1. CASE Prepare(c, "lock_oven")
  <2>1. Moves(c, "prepare", "lock_oven")
    BY <1>1 DEF Prepare
  <2>2. /\ oven' = oven /\ table' = table
        /\ \A x \in Workers : (x # c \/ "prepare" \in Baking) => pizza_spot'[x] = pizza_spot[x]
        /\ \A x \in Workers : (x # c \/ "prepare" \in Hands) => pizza_type'[x] = pizza_type[x]
    BY <1>1 DEF Prepare, memory, locals, Baking, Hands, Carrying, Delivering, Typed, MemoryTypeOK
  <2>3. UNCHANGED Line!vars
    BY <2>1, <2>2, StutterSteps DEF Baking, Hands, Carrying, Delivering
  <2> QED
    BY <2>3
<1>2. CASE LockOven(c)
  <2>1. Moves(c, "lock_oven", "find_oven")
    BY <1>2 DEF LockOven
  <2>2. /\ oven' = oven /\ table' = table
        /\ \A x \in Workers : (x # c \/ "lock_oven" \in Baking) => pizza_spot'[x] = pizza_spot[x]
        /\ \A x \in Workers : (x # c \/ "lock_oven" \in Hands) => pizza_type'[x] = pizza_type[x]
    BY <1>2 DEF LockOven, memory, locals, Baking, Hands, Carrying, Delivering, Typed, MemoryTypeOK
  <2>3. UNCHANGED Line!vars
    BY <2>1, <2>2, StutterSteps DEF Baking, Hands, Carrying, Delivering
  <2> QED
    BY <2>3
<1>3. CASE FindOven(c)
  <2>1. Moves(c, "find_oven", "put_oven")
    BY <1>3 DEF FindOven
  <2>2. /\ oven' = oven /\ table' = table
        /\ \A x \in Workers : (x # c \/ "find_oven" \in Baking) => pizza_spot'[x] = pizza_spot[x]
        /\ \A x \in Workers : (x # c \/ "find_oven" \in Hands) => pizza_type'[x] = pizza_type[x]
    BY <1>3 DEF FindOven, memory, locals, Baking, Hands, Carrying, Delivering, Typed, MemoryTypeOK
  <2>3. UNCHANGED Line!vars
    BY <2>1, <2>2, StutterSteps DEF Baking, Hands, Carrying, Delivering
  <2> QED
    BY <2>3
<1>4. CASE PutOven(c)
  <2>1. Moves(c, "put_oven", "count_oven")
    BY <1>4 DEF PutOven
  <2>0. /\ pc[c] = "put_oven"
        /\ \A x \in Workers : pc'[x] = IF x = c THEN "count_oven" ELSE pc[x]
    BY <2>1, LineView
  <2>2. /\ pizza_spot[c] \in OvenSlots /\ oven[pizza_spot[c]] = NoPizza
        /\ pizza_type[c] \in Pizzas
    BY <2>0 DEF IInv, OvenOwned, PizzasKnown
  <2>3. /\ oven' = [oven EXCEPT ![pizza_spot[c]] = pizza_type[c]]
        /\ table' = table /\ pizza_spot' = pizza_spot /\ pizza_type' = pizza_type
    BY <1>4 DEF PutOven
  <2>4. baking[c] = NoSpot /\ carried[c] = NoPizza
    BY <2>0 DEF baking, carried, Baking, Carrying, Delivering
  <2>5. baking' = [baking EXCEPT ![c] = pizza_spot[c]]
    BY <2>0, <2>3 DEF baking, Baking
  <2>6. carried' = carried
    BY <2>0, <2>3 DEF carried, Carrying, Delivering
  <2>7. Line!Bake(c)
    BY <2>2, <2>3, <2>4, <2>5, <2>6 DEF Line!Bake, Line!OvenSlots, Line!NoSlot, OvenSlots, NoSpot
  <2> QED
    BY <2>7 DEF Line!Next
<1>5. CASE CountOven(c, "unlock_oven")
  <2>1. Moves(c, "count_oven", "unlock_oven")
    BY <1>5 DEF CountOven
  <2>2. /\ oven' = oven /\ table' = table
        /\ \A x \in Workers : (x # c \/ "count_oven" \in Baking) => pizza_spot'[x] = pizza_spot[x]
        /\ \A x \in Workers : (x # c \/ "count_oven" \in Hands) => pizza_type'[x] = pizza_type[x]
    BY <1>5 DEF CountOven, memory, locals, Baking, Hands, Carrying, Delivering, Typed, MemoryTypeOK
  <2>3. UNCHANGED Line!vars
    BY <2>1, <2>2, StutterSteps DEF Baking, Hands, Carrying, Delivering
  <2> QED
    BY <2>3
<1>6. CASE UnlockOven(c)
  <2>1. Moves(c, "unlock_oven", "lock_both")
    BY <1>6 DEF UnlockOven
  <2>2. /\ oven' = oven /\ table' = table
        /\ \A x \in Workers : (x # c \/ "unlock_oven" \in Baking) => pizza_spot'[x] = pizza_spot[x]
        /\ \A x \in Workers : (x # c \/ "unlock_oven" \in Hands) => pizza_type'[x] = pizza_type[x]
    BY <1>6 DEF UnlockOven, memory, locals, Baking, Hands, Carrying, Delivering, Typed, MemoryTypeOK
  <2>3. UNCHANGED Line!vars
    BY <2>1, <2>2, StutterSteps DEF Baking, Hands, Carrying, Delivering
  <2> QED
    BY <2>3
<1>7. CASE LockBoth(c)
  <2>1. Moves(c, "lock_both", "take_out")
    BY <1>7 DEF LockBoth
  <2>2. /\ oven' = oven /\ table' = table
        /\ \A x \in Workers : (x # c \/ "lock_both" \in Baking) => pizza_spot'[x] = pizza_spot[x]
        /\ \A x \in Workers : (x # c \/ "lock_both" \in Hands) => pizza_type'[x] = pizza_type[x]
    BY <1>7 DEF LockBoth, memory, locals, Baking, Hands, Carrying, Delivering, Typed, MemoryTypeOK
  <2>3. UNCHANGED Line!vars
    BY <2>1, <2>2, StutterSteps DEF Baking, Hands, Carrying, Delivering
  <2> QED
    BY <2>3
<1>8. CASE TakeOut(c)
  <2>1. Moves(c, "take_out", "uncount_oven")
    BY <1>8 DEF TakeOut
  <2>0. /\ pc[c] = "take_out"
        /\ \A x \in Workers : pc'[x] = IF x = c THEN "uncount_oven" ELSE pc[x]
    BY <2>1, LineView
  <2>2. /\ pizza_spot[c] \in OvenSlots /\ oven[pizza_spot[c]] = pizza_type[c]
    BY <2>0 DEF IInv, OvenOwned, Baking
  <2>3. /\ oven' = [oven EXCEPT ![pizza_spot[c]] = NoPizza]
        /\ table' = table /\ pizza_spot' = pizza_spot /\ pizza_type' = pizza_type
    BY <1>8 DEF TakeOut
  <2>4. baking[c] = pizza_spot[c] /\ pizza_spot[c] # NoSpot
    BY <2>0, <2>2 DEF baking, Baking, OvenSlots, NoSpot
  <2>5. \A other \in Cooks : carried[other] = NoPizza
    <3>1. \A other \in Cooks : pc[other] \in OvenSection => other = c
      BY <2>0 DEF IInv, Locks, Locked, OvenSection
    <3>2. \A other \in Cooks : pc[other] \notin Carrying \union Delivering
      BY <2>0, <3>1 DEF Carrying, Delivering, OvenSection, Typed, CookSteps, OvenPlace
    <3> QED
      BY <3>2 DEF carried
  <2>6. baking' = [baking EXCEPT ![c] = NoSpot]
    BY <2>0, <2>3 DEF baking, Baking
  <2>7. carried' = [carried EXCEPT ![c] = pizza_type[c]]
    BY <2>0, <2>3 DEF carried, Carrying, Delivering
  <2>8. Line!TakeOut(c)
    BY <2>2, <2>3, <2>4, <2>5, <2>6, <2>7 DEF Line!TakeOut, Line!NoSlot, NoSpot
  <2> QED
    BY <2>8 DEF Line!Next
<1>9. CASE UncountOven(c, "find_table")
  <2>1. Moves(c, "uncount_oven", "find_table")
    BY <1>9 DEF UncountOven
  <2>2. /\ oven' = oven /\ table' = table
        /\ \A x \in Workers : (x # c \/ "uncount_oven" \in Baking) => pizza_spot'[x] = pizza_spot[x]
        /\ \A x \in Workers : (x # c \/ "uncount_oven" \in Hands) => pizza_type'[x] = pizza_type[x]
    BY <1>9 DEF UncountOven, memory, locals, Baking, Hands, Carrying,
           Delivering, Typed, MemoryTypeOK
  <2>3. UNCHANGED Line!vars
    BY <2>1, <2>2, StutterSteps DEF Baking, Hands, Carrying, Delivering
  <2> QED
    BY <2>3
<1>10. CASE FindTable(c)
  <2>1. Moves(c, "find_table", "put_table")
    BY <1>10 DEF FindTable
  <2>2. /\ oven' = oven /\ table' = table
        /\ \A x \in Workers : (x # c \/ "find_table" \in Baking) => pizza_spot'[x] = pizza_spot[x]
        /\ \A x \in Workers : (x # c \/ "find_table" \in Hands) => pizza_type'[x] = pizza_type[x]
    BY <1>10 DEF FindTable, memory, locals, Baking, Hands, Carrying, Delivering, Typed, MemoryTypeOK
  <2>3. UNCHANGED Line!vars
    BY <2>1, <2>2, StutterSteps DEF Baking, Hands, Carrying, Delivering
  <2> QED
    BY <2>3
<1>11. CASE PutTable(c)
  <2>1. Moves(c, "put_table", "count_table")
    BY <1>11 DEF PutTable
  <2>0. /\ pc[c] = "put_table"
        /\ \A x \in Workers : pc'[x] = IF x = c THEN "count_table" ELSE pc[x]
    BY <2>1, LineView
  <2>2. /\ pizza_spot[c] \in TableSlots /\ table[pizza_spot[c]] = NoPizza
        /\ pizza_type[c] \in Pizzas
    BY <2>0 DEF IInv, TableFound, PizzasKnown
  <2>3. /\ table' = [table EXCEPT ![pizza_spot[c]] = pizza_type[c]]
        /\ oven' = oven /\ pizza_spot' = pizza_spot /\ pizza_type' = pizza_type
    BY <1>11 DEF PutTable
  <2>4. carried[c] = pizza_type[c] /\ pizza_type[c] # NoPizza
    BY <2>0, <2>2 DEF carried, Carrying
  <2>5. baking' = baking
    BY <2>0, <2>3 DEF baking, Baking
  <2>6. carried' = [carried EXCEPT ![c] = NoPizza]
    BY <2>0, <2>3 DEF carried, Carrying, Delivering
  <2>7. Line!Serve(c)
    BY <2>2, <2>3, <2>4, <2>5, <2>6 DEF Line!Serve, Line!TableSlots, TableSlots
  <2> QED
    BY <2>7 DEF Line!Next
<1>12. CASE CountTable(c, "unlock_both")
  <2>1. Moves(c, "count_table", "unlock_both")
    BY <1>12 DEF CountTable
  <2>2. /\ oven' = oven /\ table' = table
        /\ \A x \in Workers : (x # c \/ "count_table" \in Baking) => pizza_spot'[x] = pizza_spot[x]
        /\ \A x \in Workers : (x # c \/ "count_table" \in Hands) => pizza_type'[x] = pizza_type[x]
    BY <1>12 DEF CountTable, memory, locals, Baking, Hands, Carrying,
           Delivering, Typed, MemoryTypeOK
  <2>3. UNCHANGED Line!vars
    BY <2>1, <2>2, StutterSteps DEF Baking, Hands, Carrying, Delivering
  <2> QED
    BY <2>3
<1>13. CASE UnlockBoth(c)
  <2>1. Moves(c, "unlock_both", "prepare")
    BY <1>13 DEF UnlockBoth
  <2>2. /\ oven' = oven /\ table' = table
        /\ \A x \in Workers : (x # c \/ "unlock_both" \in Baking) => pizza_spot'[x] = pizza_spot[x]
        /\ \A x \in Workers : (x # c \/ "unlock_both" \in Hands) => pizza_type'[x] = pizza_type[x]
    BY <1>13 DEF UnlockBoth, Returns, memory, locals, Baking, Hands, Carrying,
           Delivering, Typed, MemoryTypeOK
  <2>3. UNCHANGED Line!vars
    BY <2>1, <2>2, StutterSteps DEF Baking, Hands, Carrying, Delivering
  <2> QED
    BY <2>3
<1> QED
  BY <1>1, <1>2, <1>3, <1>4, <1>5, <1>6, <1>7, <1>8, <1>9, <1>10, <1>11, <1>12, <1>13 DEF make_pizza

\* Each step of deliver_pizza is Take or Deliver of the line, or a stutter.
LEMMA DelivererLine ==
  ASSUME IInv, NEW d \in Deliverers, deliver_pizza(d)
  PROVE  [Line!Next]_(Line!vars)
<1> Typed
  BY DEF IInv
<1>1. CASE LockTable(d)
  <2>1. Moves(d, "lock_table", "find_taken")
    BY <1>1 DEF LockTable
  <2>2. /\ oven' = oven /\ table' = table
        /\ \A x \in Workers : (x # d \/ "lock_table" \in Baking) => pizza_spot'[x] = pizza_spot[x]
        /\ \A x \in Workers : (x # d \/ "lock_table" \in Hands) => pizza_type'[x] = pizza_type[x]
    BY <1>1 DEF LockTable, memory, locals, Baking, Hands, Carrying, Delivering, Typed, MemoryTypeOK
  <2>3. UNCHANGED Line!vars
    BY <2>1, <2>2, StutterSteps DEF Baking, Hands, Carrying, Delivering
  <2> QED
    BY <2>3
<1>2. CASE FindTaken(d)
  <2>1. Moves(d, "find_taken", "take")
    BY <1>2 DEF FindTaken
  <2>2. /\ oven' = oven /\ table' = table
        /\ \A x \in Workers : (x # d \/ "find_taken" \in Baking) => pizza_spot'[x] = pizza_spot[x]
        /\ \A x \in Workers : (x # d \/ "find_taken" \in Hands) => pizza_type'[x] = pizza_type[x]
    BY <1>2 DEF FindTaken, memory, locals, Baking, Hands, Carrying, Delivering, Typed, MemoryTypeOK
  <2>3. UNCHANGED Line!vars
    BY <2>1, <2>2, StutterSteps DEF Baking, Hands, Carrying, Delivering
  <2> QED
    BY <2>3
<1>3. CASE Take(d)
  <2>1. Moves(d, "take", "uncount_table")
    BY <1>3 DEF Take
  <2>0. /\ pc[d] = "take"
        /\ \A x \in Workers : pc'[x] = IF x = d THEN "uncount_table" ELSE pc[x]
    BY <2>1, LineView
  <2>2. pizza_spot[d] \in TableSlots /\ table[pizza_spot[d]] # NoPizza
    BY <2>0 DEF IInv, TableFound
  <2>3. /\ table' = [table EXCEPT ![pizza_spot[d]] = NoPizza]
        /\ oven' = oven /\ pizza_spot' = pizza_spot
        /\ pizza_type' = [pizza_type EXCEPT ![d] = table[pizza_spot[d]]]
    BY <1>3, <2>2 DEF Take
  <2>4. carried[d] = NoPizza
    BY <2>0 DEF carried, Carrying, Delivering
  <2>5. baking' = baking
    BY <2>0, <2>3 DEF baking, Baking
  <2>6. carried' = [carried EXCEPT ![d] = table[pizza_spot[d]]]
    BY <2>0, <2>3 DEF carried, Carrying, Delivering, Typed, MemoryTypeOK
  <2>7. Line!Take(d)
    BY <2>2, <2>3, <2>4, <2>5, <2>6 DEF Line!Take, Line!TableSlots, TableSlots
  <2> QED
    BY <2>7 DEF Line!Next
<1>4. CASE UncountTable(d, "unlock_table")
  <2>1. Moves(d, "uncount_table", "unlock_table")
    BY <1>4 DEF UncountTable
  <2>2. /\ oven' = oven /\ table' = table
        /\ \A x \in Workers : (x # d \/ "uncount_table" \in Baking) => pizza_spot'[x] = pizza_spot[x]
        /\ \A x \in Workers : (x # d \/ "uncount_table" \in Hands) => pizza_type'[x] = pizza_type[x]
    BY <1>4 DEF UncountTable, memory, locals, Baking, Hands, Carrying,
           Delivering, Typed, MemoryTypeOK
  <2>3. UNCHANGED Line!vars
    BY <2>1, <2>2, StutterSteps DEF Baking, Hands, Carrying, Delivering
  <2> QED
    BY <2>3
<1>5. CASE UnlockTable(d)
  <2>1. Moves(d, "unlock_table", "deliver")
    BY <1>5 DEF UnlockTable
  <2>2. /\ oven' = oven /\ table' = table
        /\ \A x \in Workers : (x # d \/ "unlock_table" \in Baking) => pizza_spot'[x] = pizza_spot[x]
        /\ \A x \in Workers : (x # d \/ "unlock_table" \in Hands) => pizza_type'[x] = pizza_type[x]
    BY <1>5 DEF UnlockTable, memory, locals, Baking, Hands, Carrying,
           Delivering, Typed, MemoryTypeOK
  <2>3. UNCHANGED Line!vars
    BY <2>1, <2>2, StutterSteps DEF Baking, Hands, Carrying, Delivering
  <2> QED
    BY <2>3
<1>6. CASE Deliver(d, "lock_table")
  <2>1. Moves(d, "deliver", "lock_table")
    BY <1>6 DEF Deliver
  <2>0. /\ pc[d] = "deliver"
        /\ \A x \in Workers : pc'[x] = IF x = d THEN "lock_table" ELSE pc[x]
    BY <2>1, LineView
  <2>2. pizza_type[d] \in Pizzas
    BY <2>0 DEF IInv, PizzasKnown, Delivering
  <2>3. /\ oven' = oven /\ table' = table
        /\ pizza_spot' = [pizza_spot EXCEPT ![d] = NoSpot]
        /\ pizza_type' = [pizza_type EXCEPT ![d] = NoPizza]
    BY <1>6 DEF Deliver, Returns, memory
  <2>4. carried[d] # NoPizza
    BY <2>0, <2>2 DEF carried, Delivering
  <2>5. baking' = baking
    BY <2>0, <2>3 DEF baking, Baking, Typed, MemoryTypeOK
  <2>6. carried' = [carried EXCEPT ![d] = NoPizza]
    BY <2>0, <2>3 DEF carried, Carrying, Delivering, Typed, MemoryTypeOK
  <2>7. Line!Deliver(d)
    BY <2>3, <2>4, <2>5, <2>6 DEF Line!Deliver
  <2> QED
    BY <2>7 DEF Line!Next
<1> QED
  BY <1>1, <1>2, <1>3, <1>4, <1>5, <1>6 DEF deliver_pizza

\* Whatever the sizes and the numbers of workers, and whoever is killed, the
\* pizzeria is a PizzaLine: property LineSpec.
THEOREM Refinement == Spec => LineSpec
<1>1. Init => Line!Init
  BY DEF Init, InitMemory, Line!Init, Line!OvenSlots, Line!TableSlots, Line!NoSlot, Line!Workers,
         OvenSlots, TableSlots, NoSpot, baking, carried, Baking, Carrying, Delivering
<1>2. IInv /\ [Next]_vars => [Line!Next]_(Line!vars)
  <2> SUFFICES ASSUME IInv, [Next]_vars PROVE [Line!Next]_(Line!vars)
    OBVIOUS
  <2>1. ASSUME UNCHANGED <<sem, memory, pc, locals>> PROVE UNCHANGED Line!vars
    BY <2>1 DEF memory, locals, baking, carried, Line!vars
  <2> QED
    BY <2>1, CookLine, DelivererLine DEF Next, HangUp, vars
<1> QED
  BY <1>1, <1>2, Invariance, PTL DEF Spec, LineSpec, Line!Spec
=============================================================================
