--------------------------- MODULE PizzeriaPosix_proofs ---------------------------
(****************************************************************************)
(* Theorems about the pizzeria of cw07/zad2, for any number of cooks and    *)
(* deliverers, any sizes of the oven and the table, any set of pizzas and   *)
(* any number of workers ended by signals.                                  *)
(****************************************************************************)
EXTENDS PizzeriaPosix, OvenTable_proofs

USE PizzeriaAssumption DEF Workers

-----------------------------------------------------------------------------
(****************************************************************************)
(* The inductive invariant.  Each semaphore's value and the workers that    *)
(* hold a unit of it add up to a number: 1 for the two locks, the slots for *)
(* OVEN_SPACE, the slots that are free for TABLE_SPACE, and those that are  *)
(* not for TABLE_READY.  In this pizzeria a worker holds a unit from the    *)
(* sem_wait on, though it may have to wait for the next one.                *)
(****************************************************************************)

\* At which steps a worker holds a unit of a semaphore, or will have to raise it.
Held ==
  [OVEN_USED |->
     {"find_oven", "put_oven", "count_oven", "post_oven_used", "take_out", "uncount_oven",
      "post_oven_space", "wait_table_space", "wait_table_used", "find_table", "put_table",
      "count_table", "post_ready", "post_oven_used_again"},
   OVEN_SPACE |->
     {"wait_oven_used", "find_oven", "put_oven", "count_oven", "post_oven_used",
      "rewait_oven_used", "take_out", "uncount_oven", "post_oven_space"},
   TABLE_USED |->
     {"find_table", "put_table", "count_table", "post_ready", "post_oven_used_again",
      "post_table_used", "find_taken", "take", "uncount_table", "post_space", "post_used"},
   TABLE_SPACE |->
     {"wait_table_used", "find_table", "put_table", "uncount_table", "post_space"},
   TABLE_READY |->
     {"count_table", "post_ready", "wait_used", "find_taken", "take"}]

InOven == Cardinality(Occupied(oven, OvenSlots))
OnTable == Cardinality(Occupied(table, TableSlots))
Total(s) == sem[s] + Cardinality(At(Held[s]))

Permits ==
  /\ Total("OVEN_USED") = 1
  /\ Total("OVEN_SPACE") = OvenSize
  /\ Total("TABLE_USED") = 1
  /\ Total("TABLE_SPACE") + OnTable = TableSize
  /\ Total("TABLE_READY") = OnTable

\* Whoever has a pizza knows which one.
PizzasKnown ==
  /\ \A c \in Cooks : pc[c] # "prepare" => pizza_type[c] \in Pizzas
  /\ \A d \in Deliverers : pc[d] \in Delivering => pizza_type[d] \in Pizzas

\* Each pizza in the oven belongs to the one cook that remembers its slot, and
\* the slot a cook is about to use is free.
OvenOwned ==
  /\ \A c \in Cooks : pc[c] \in Baking =>
       pizza_spot[c] \in OvenSlots /\ oven[pizza_spot[c]] = pizza_type[c]
  /\ \A c1, c2 \in Cooks :
       pc[c1] \in Baking /\ pc[c2] \in Baking /\ pizza_spot[c1] = pizza_spot[c2] => c1 = c2
  /\ \A i \in OvenSlots : oven[i] # NoPizza =>
       \E c \in Cooks : pc[c] \in Baking /\ pizza_spot[c] = i
  /\ \A c \in Cooks : pc[c] = "put_oven" =>
       pizza_spot[c] \in OvenSlots /\ oven[pizza_spot[c]] = NoPizza

\* The slot of the table that a worker is about to use is free, or taken.
TableFound ==
  /\ \A c \in Cooks : pc[c] = "put_table" =>
       pizza_spot[c] \in TableSlots /\ table[pizza_spot[c]] = NoPizza
  /\ \A d \in Deliverers : pc[d] = "take" =>
       pizza_spot[d] \in TableSlots /\ table[pizza_spot[d]] # NoPizza

\* A worker that is changing a counter has loaded it, and its store will put
\* the counter right.
OvenCounted ==
  /\ (\A c \in Cooks : pc[c] \notin {"count_oven", "uncount_oven"}) => oven_quan = InOven
  /\ \A c \in Cooks : pc[c] = "count_oven" => reg[c] + 1 = InOven
  /\ \A c \in Cooks : pc[c] = "uncount_oven" => reg[c] - 1 = InOven
TableCounted ==
  /\ (\A w \in Workers : pc[w] \notin {"count_table", "uncount_table"}) =>
       table_quan = OnTable
  /\ \A c \in Cooks : pc[c] = "count_table" => reg[c] + 1 = OnTable
  /\ \A d \in Deliverers : pc[d] = "uncount_table" => reg[d] - 1 = OnTable

Typed ==
  /\ MemoryTypeOK
  /\ pc \in [Workers -> CookSteps \union DelivererSteps]
  /\ \A c \in Cooks : pc[c] \in CookSteps
  /\ \A d \in Deliverers : pc[d] \in DelivererSteps

IInv ==
  /\ Typed /\ Permits /\ PizzasKnown
  /\ OvenOwned /\ OvenCounted
  /\ TableFound /\ TableCounted

-----------------------------------------------------------------------------
(* What a move does to the counts and to the rest of the state. *)

\* The workers at given steps are finitely many; a move takes one away from those
\* at its first step and adds one to those at its second.
LEMMA CountMoves ==
  ASSUME Typed, NEW w \in Workers, NEW from, NEW to, Moves(w, from, to), NEW S
  PROVE  /\ Cardinality(At(S)) \in Nat
         /\ Cardinality(At(S))' = Cardinality(At(S)) + (IF to \in S THEN 1 ELSE 0)
                                                     - (IF from \in S THEN 1 ELSE 0)
<1>1. pc[w] = from /\ \A x \in Workers : pc'[x] = IF x = w THEN to ELSE pc[x]
  BY DEF Moves, Typed
<1>2. IsFiniteSet(At(S))
  <2>1. IsFiniteSet(Workers)
    BY FS_Union
  <2>2. At(S) \in SUBSET Workers
    BY DEF At
  <2> QED
    BY <2>1, <2>2, FS_Subset
<1>3. Cardinality(At(S)) \in Nat
  BY <1>2, FS_CardinalityType
<1>4. CASE (from \in S <=> to \in S)
  <2>1. At(S)' = At(S)
    BY <1>1, <1>4 DEF At
  <2> QED
    BY <1>3, <1>4, <2>1
<1>5. CASE from \notin S /\ to \in S
  <2> DEFINE here == At(S)
             there == At(S)'
  <2>1. there = here \union {w} /\ w \notin here
    BY <1>1, <1>5 DEF At
  <2>2. IsFiniteSet(here) /\ Cardinality(here) \in Nat
    BY <1>2, <1>3
  <2> HIDE DEF here, there
  <2>3. Cardinality(there) = Cardinality(here) + 1
    BY <2>1, <2>2, FS_AddElement
  <2> QED
    BY <1>3, <1>5, <2>3 DEF here, there
<1>6. CASE from \in S /\ to \notin S
  <2> DEFINE here == At(S)
             there == At(S)'
  <2>1. there = here \ {w} /\ w \in here
    BY <1>1, <1>6 DEF At
  <2>2. IsFiniteSet(here) /\ Cardinality(here) \in Nat
    BY <1>2, <1>3
  <2> HIDE DEF here, there
  <2>3. Cardinality(there) = Cardinality(here) - 1
    BY <2>1, <2>2, FS_RemoveElement
  <2> QED
    BY <1>3, <1>6, <2>3 DEF here, there
<1> QED
  BY <1>3, <1>4, <1>5, <1>6

\* The totals of the semaphores are naturals.
LEMMA TotalsTyped ==
  ASSUME Typed
  PROVE  /\ sem \in [Semaphores -> Nat]
         /\ \A S : IsFiniteSet(At(S)) /\ Cardinality(At(S)) \in Nat
         /\ InOven \in Nat /\ OnTable \in Nat
<1>1. sem \in [Semaphores -> Nat]
  BY SemDomain DEF Typed, MemoryTypeOK
<1>2. ASSUME NEW S PROVE IsFiniteSet(At(S)) /\ Cardinality(At(S)) \in Nat
  <2>1. IsFiniteSet(Workers)
    BY FS_Union
  <2>2. At(S) \in SUBSET Workers
    BY DEF At
  <2> QED
    BY <2>1, <2>2, FS_Subset, FS_CardinalityType
<1> QED
  BY <1>1, <1>2, OccupiedFinite, SlotsFinite DEF InOven, OnTable

\* Who holds a lock is alone: at most one worker is between sem_wait and sem_post of
\* OVEN_USED, and of TABLE_USED.
LEMMA Alone ==
  ASSUME Typed, Permits, NEW s \in {"OVEN_USED", "TABLE_USED"},
         NEW x \in Workers, NEW y \in Workers, pc[x] \in Held[s], pc[y] \in Held[s]
  PROVE  x = y
<1> DEFINE inside == At(Held[s])
<1>1. x \in inside /\ y \in inside
  BY DEF At
<1>2. IsFiniteSet(inside) /\ Cardinality(inside) \in Nat /\ sem[s] \in Nat
  BY TotalsTyped DEF Semaphores
<1>3. Cardinality(inside) <= 1
  BY <1>2 DEF Permits, Total
<1> HIDE DEF inside
<1>4. IsFiniteSet(inside \ {x}) /\ Cardinality(inside \ {x}) = Cardinality(inside) - 1
  BY <1>1, <1>2, FS_RemoveElement
<1>5. Cardinality(inside \ {x}) \in Nat
  BY <1>4, FS_CardinalityType
<1>6. inside \ {x} = {}
  BY <1>2, <1>3, <1>4, <1>5, FS_EmptySet
<1> QED
  BY <1>1, <1>6

\* A semaphore that a step leaves alone, takes as it begins to hold a unit, or
\* raises as it stops to hold one, keeps its total.
LEMMA TotalKept ==
  ASSUME Typed, NEW w \in Workers, NEW from, NEW to, Moves(w, from, to),
         NEW s \in Semaphores,
         \/ (from \in Held[s] <=> to \in Held[s]) /\ sem'[s] = sem[s]
         \/ from \notin Held[s] /\ to \in Held[s] /\ sem'[s] = sem[s] - 1
         \/ from \in Held[s] /\ to \notin Held[s] /\ sem'[s] = sem[s] + 1
  PROVE  Total(s)' = Total(s)
<1>1. sem[s] \in Nat
  BY TotalsTyped
<1> DEFINE n == Cardinality(At(Held[s]))
<1>2. /\ n \in Nat
      /\ n' = n + (IF to \in Held[s] THEN 1 ELSE 0) - (IF from \in Held[s] THEN 1 ELSE 0)
  BY CountMoves DEF Held
<1>3. Total(s) = sem[s] + n /\ Total(s)' = sem'[s] + n'
  BY DEF Total, Held
<1> HIDE DEF n
<1> QED
  BY <1>1, <1>2, <1>3

\* A step that changes no total and puts nothing on the table nor takes anything from
\* it keeps what the semaphores mean.
LEMMA PermitsKept ==
  ASSUME Typed, Permits, NEW w \in Workers, NEW from, NEW to, Moves(w, from, to),
         OnTable' = OnTable,
         \A s \in Semaphores :
           \/ (from \in Held[s] <=> to \in Held[s]) /\ sem'[s] = sem[s]
           \/ from \notin Held[s] /\ to \in Held[s] /\ sem'[s] = sem[s] - 1
           \/ from \in Held[s] /\ to \notin Held[s] /\ sem'[s] = sem[s] + 1
  PROVE  Permits'
<1>1. \A s \in Semaphores : Total(s)' = Total(s)
  BY TotalKept
<1>2. /\ Total("OVEN_USED")' = Total("OVEN_USED")
      /\ Total("OVEN_SPACE")' = Total("OVEN_SPACE")
      /\ Total("TABLE_USED")' = Total("TABLE_USED")
      /\ Total("TABLE_SPACE")' = Total("TABLE_SPACE")
      /\ Total("TABLE_READY")' = Total("TABLE_READY")
  BY <1>1 DEF Semaphores
<1> QED
  BY <1>2 DEF Permits

\* A step that touches neither the oven nor its counter, nor the slot of a cook that
\* bakes, keeps what is known of the oven.
LEMMA OvenKept ==
  ASSUME Typed, OvenOwned, OvenCounted,
         NEW w \in Workers, NEW from, NEW to, Moves(w, from, to),
         oven' = oven, oven_quan' = oven_quan, from \in Baking <=> to \in Baking,
         {from, to} \cap {"put_oven", "count_oven", "uncount_oven"} = {},
         \A x \in Workers : x # w \/ from \in Baking =>
           /\ pizza_spot'[x] = pizza_spot[x] /\ pizza_type'[x] = pizza_type[x],
         \A x \in Workers \ {w} : reg'[x] = reg[x]
  PROVE  OvenOwned' /\ OvenCounted'
<1>1. pc[w] = from /\ \A x \in Workers : pc'[x] = IF x = w THEN to ELSE pc[x]
  BY DEF Moves, Typed
<1>2. \A c \in Cooks : pc'[c] \in Baking <=> pc[c] \in Baking
  BY <1>1
<1>3. \A c \in Cooks : pc[c] \in Baking =>
        pizza_spot'[c] = pizza_spot[c] /\ pizza_type'[c] = pizza_type[c]
  BY <1>1
<1>4. OvenOwned'
  <2>1. \A c \in Cooks : pc'[c] = "put_oven" => pc[c] = "put_oven" /\ pizza_spot'[c] = pizza_spot[c]
    BY <1>1
  <2> QED
    BY <1>2, <1>3, <2>1 DEF OvenOwned
<1>5. OvenCounted'
  <2>1. \A c \in Cooks : \A at \in {"count_oven", "uncount_oven"} :
          /\ pc'[c] = at <=> pc[c] = at
          /\ pc[c] = at => reg'[c] = reg[c]
    BY <1>1
  <2>2. InOven' = InOven
    BY DEF InOven
  <2> QED
    BY <2>1, <2>2 DEF OvenCounted
<1> QED
  BY <1>4, <1>5

\* A step that touches neither the table nor its counter keeps what is known of it.
LEMMA TableKept ==
  ASSUME Typed, TableFound, TableCounted,
         NEW w \in Workers, NEW from, NEW to, Moves(w, from, to),
         table' = table, table_quan' = table_quan,
         {from, to} \cap {"put_table", "take", "count_table", "uncount_table"} = {},
         \A x \in Workers \ {w} : pizza_spot'[x] = pizza_spot[x] /\ reg'[x] = reg[x]
  PROVE  TableFound' /\ TableCounted' /\ OnTable' = OnTable
<1>1. pc[w] = from /\ \A x \in Workers : pc'[x] = IF x = w THEN to ELSE pc[x]
  BY DEF Moves, Typed
<1>2. \A x \in Workers : \A at \in {"put_table", "take", "count_table", "uncount_table"} :
        /\ pc'[x] = at <=> pc[x] = at
        /\ pc[x] = at => pizza_spot'[x] = pizza_spot[x] /\ reg'[x] = reg[x]
  BY <1>1
<1>3. OnTable' = OnTable
  BY DEF OnTable
<1> QED
  BY <1>2, <1>3 DEF TableFound, TableCounted

\* A worker's own pizza is all that a step can change of what workers know.
LEMMA PizzasKept ==
  ASSUME Typed, PizzasKnown,
         NEW w \in Workers, NEW from, NEW to, Moves(w, from, to),
         \A x \in Workers \ {w} : pizza_type'[x] = pizza_type[x],
         w \in Cooks /\ to # "prepare" => pizza_type'[w] \in Pizzas,
         w \in Deliverers /\ to \in Delivering => pizza_type'[w] \in Pizzas
  PROVE  PizzasKnown'
<1>1. pc[w] = from /\ \A x \in Workers : pc'[x] = IF x = w THEN to ELSE pc[x]
  BY DEF Moves, Typed
<1> QED
  BY <1>1 DEF PizzasKnown

\* A move takes a cook to a step of make_pizza, a deliverer to one of deliver_pizza.
LEMMA TypedKept ==
  ASSUME Typed, MemoryTypeOK',
         NEW w \in Workers, NEW from, NEW to, Moves(w, from, to),
         w \in Cooks => to \in CookSteps, w \in Deliverers => to \in DelivererSteps
  PROVE  Typed'
BY DEF Typed, Moves

-----------------------------------------------------------------------------
(* The steps that only wait for a semaphore or raise one. *)

\* The steps at which what is known of the arrays or the counters names a worker.
Busy == {"put_oven", "count_oven", "uncount_oven", "put_table", "take", "count_table",
         "uncount_table"}

\* A sem_wait by which a worker begins to hold a unit, and a sem_post by which it
\* stops, keep the invariant.
LEMMA SemStep ==
  ASSUME IInv, NEW w \in Workers, NEW from, NEW to, Moves(w, from, to),
         UNCHANGED memory, NEW s \in Semaphores,
         \/ sem_wait(s) /\ from \notin Held[s] /\ to \in Held[s]
         \/ sem_post(s) /\ from \in Held[s] /\ to \notin Held[s],
         \A t \in Semaphores \ {s} : from \in Held[t] <=> to \in Held[t],
         from \in Baking <=> to \in Baking,
         {from, to} \cap Busy = {},
         UNCHANGED locals,
         w \in Cooks => from # "prepare" /\ to \in CookSteps,
         w \in Deliverers => to \in DelivererSteps /\ (from \in Delivering <=> to \in Delivering)
  PROVE  IInv'
<1> USE DEF IInv
<1>1. /\ oven' = oven /\ table' = table /\ oven_quan' = oven_quan
      /\ table_quan' = table_quan /\ pizza_type' = pizza_type
      /\ pizza_spot' = pizza_spot /\ reg' = reg
  BY DEF memory, locals
<1>2. /\ sem' \in [Semaphores -> Nat]
      /\ \A t \in Semaphores \ {s} : sem'[t] = sem[t]
      /\ \/ from \notin Held[s] /\ to \in Held[s] /\ sem'[s] = sem[s] - 1
         \/ from \in Held[s] /\ to \notin Held[s] /\ sem'[s] = sem[s] + 1
  <2>1. sem \in [Semaphores -> Nat]
    BY TotalsTyped
  <2> QED
    BY <2>1 DEF sem_wait, sem_post
<1>3. Typed'
  <2>1. MemoryTypeOK'
    BY <1>1, <1>2, SemDomain DEF Typed, MemoryTypeOK, Moves
  <2> QED
    BY <2>1, TypedKept
<1>4. PizzasKnown'
  <2>1. pc[w] = from
    BY DEF Moves
  <2> QED
    BY <1>1, <2>1, PizzasKept DEF PizzasKnown
<1>5. OvenOwned' /\ OvenCounted'
  BY <1>1, OvenKept DEF Busy
<1>6. TableFound' /\ TableCounted' /\ OnTable' = OnTable
  BY <1>1, TableKept DEF Busy
<1>7. Permits'
  BY <1>2, <1>6, PermitsKept
<1> QED
  BY <1>3, <1>4, <1>5, <1>6, <1>7

-----------------------------------------------------------------------------
(* The accesses of a cook to the shared memory. *)

\* Who is inside the section of a lock is there alone.
LEMMA Others ==
  ASSUME Typed, Permits, NEW s \in {"OVEN_USED", "TABLE_USED"},
         NEW w \in Workers, pc[w] \in Held[s]
  PROVE  \A x \in Workers \ {w} : pc[x] \notin Held[s]
BY Alone

\* A cook let in by OVEN_SPACE finds a free slot: the other cooks that hold a unit of
\* it are fewer than the slots, and every occupied slot belongs to one of them.
LEMMA OvenHasRoom ==
  ASSUME Typed, OvenOwned, Permits, NEW c \in Cooks, pc[c] = "find_oven"
  PROVE  /\ find_free(oven, OvenSlots) \in OvenSlots
         /\ oven[find_free(oven, OvenSlots)] = NoPizza
<1> DEFINE places == At(Held["OVEN_SPACE"])
           bakers == CooksAt(Baking)
           full == Occupied(oven, OvenSlots)
           owner == [i \in full |-> CHOOSE x \in Cooks : pc[x] \in Baking /\ pizza_spot[x] = i]
<1>0. IsFiniteSet(places) /\ Cardinality(places) \in Nat
  BY TotalsTyped
<1>1. /\ IsFiniteSet(places \ {c})
      /\ Cardinality(places \ {c}) = Cardinality(places) - 1
  <2>1. c \in places
    BY DEF At, Held
  <2> HIDE DEF places
  <2> QED
    BY <1>0, <2>1, FS_RemoveElement
<1>2. bakers \subseteq places \ {c}
  BY DEF CooksAt, At, Baking, Held
<1>3. /\ IsFiniteSet(bakers) /\ Cardinality(bakers) \in Nat
      /\ Cardinality(bakers) <= Cardinality(places) - 1
  <2> HIDE DEF places, bakers
  <2> QED
    BY <1>1, <1>2, FS_Subset, FS_CardinalityType
<1>4. \A i \in full : owner[i] \in bakers /\ pizza_spot[owner[i]] = i
  <2> SUFFICES ASSUME NEW i \in full
               PROVE  owner[i] \in bakers /\ pizza_spot[owner[i]] = i
    OBVIOUS
  <2>1. \E x \in Cooks : pc[x] \in Baking /\ pizza_spot[x] = i
    BY DEF OvenOwned, Occupied
  <2> QED
    BY <2>1 DEF CooksAt
<1>5. owner \in Injection(full, bakers)
  <2> HIDE DEF bakers
  <2>1. owner \in [full -> bakers]
    BY <1>4
  <2>2. \A i, j \in full : owner[i] = owner[j] => i = j
    BY <1>4
  <2> HIDE DEF owner, full
  <2> QED
    BY <2>1, <2>2 DEF Injection, IsInjective
<1>6. Cardinality(full) <= Cardinality(bakers)
  BY <1>3, <1>5, FS_Injection
<1>7. Cardinality(full) < OvenSize
  <2>1. Cardinality(full) \in Nat
    BY OccupiedFinite, SlotsFinite
  <2>2. sem["OVEN_SPACE"] \in Nat
    BY TotalsTyped DEF Semaphores
  <2>3. sem["OVEN_SPACE"] + Cardinality(places) = OvenSize
    BY DEF Permits, Total
  <2> HIDE DEF full, bakers, places
  <2> QED
    BY <1>0, <1>3, <1>6, <2>1, <2>2, <2>3
<1> QED
  BY <1>7, FreeFound DEF OvenSlots

\* A cook that holds a unit of TABLE_SPACE finds a free slot on the table.
LEMMA TableHasRoom ==
  ASSUME Typed, Permits, NEW c \in Cooks, pc[c] = "find_table"
  PROVE  /\ find_free(table, TableSlots) \in TableSlots
         /\ table[find_free(table, TableSlots)] = NoPizza
<1> DEFINE coming == At(Held["TABLE_SPACE"])
<1>1. c \in coming
  BY DEF At, Held
<1>2. IsFiniteSet(coming) /\ Cardinality(coming) \in Nat
  BY TotalsTyped
<1>3. OnTable \in Nat /\ sem["TABLE_SPACE"] \in Nat
  BY TotalsTyped DEF Semaphores
<1>4. sem["TABLE_SPACE"] + Cardinality(coming) + OnTable = TableSize
  BY DEF Permits, Total
<1> HIDE DEF coming
<1>5. Cardinality(coming) # 0
  BY <1>1, <1>2, FS_EmptySet
<1>6. OnTable < TableSize
  BY <1>2, <1>3, <1>4, <1>5
<1> QED
  BY <1>6, FreeFound DEF TableSlots, OnTable

\* A deliverer that holds a unit of TABLE_READY finds a pizza on the table.
LEMMA TableHasPizza ==
  ASSUME Typed, Permits, NEW d \in Deliverers, pc[d] = "find_taken"
  PROVE  /\ find_taken \in TableSlots
         /\ table[find_taken] # NoPizza
<1> DEFINE claims == At(Held["TABLE_READY"])
<1>1. d \in claims
  BY DEF At, Held
<1>2. IsFiniteSet(claims) /\ Cardinality(claims) \in Nat
  BY TotalsTyped
<1>3. OnTable \in Nat /\ sem["TABLE_READY"] \in Nat
  BY TotalsTyped DEF Semaphores
<1>4. sem["TABLE_READY"] + Cardinality(claims) = OnTable
  BY DEF Permits, Total
<1> HIDE DEF claims
<1>5. Cardinality(claims) # 0
  BY <1>1, <1>2, FS_EmptySet
<1>6. OnTable # 0
  BY <1>2, <1>3, <1>4, <1>5
<1>7. Occupied(table, TableSlots) # {}
  BY <1>6, FS_EmptySet DEF OnTable
<1> QED
  BY <1>7, TakenFound

\* A cook that begins a pizza knows its type.
LEMMA PrepareKeeps ==
  ASSUME IInv, NEW c \in Cooks, Prepare(c, "wait_oven_space")
  PROVE  IInv'
<1> USE DEF IInv
<1>1. Moves(c, "prepare", "wait_oven_space")
  BY DEF Prepare
<1>2. /\ pc[c] = "prepare"
      /\ \A x \in Workers : pc'[x] = IF x = c THEN "wait_oven_space" ELSE pc[x]
  BY <1>1 DEF Moves, Typed
<1>0. PICK p \in Pizzas : pizza_type' = [pizza_type EXCEPT ![c] = p]
  BY DEF Prepare
<1>3. Typed'
  <2>1. MemoryTypeOK'
    BY <1>0 DEF Prepare, Moves, memory, Typed, MemoryTypeOK
  <2> QED
    BY <1>1, <2>1, TypedKept DEF CookSteps, DelivererSteps, Baking, Carrying
<1>4. PizzasKnown'
  BY <1>0, <1>1, PizzasKept DEF Typed, MemoryTypeOK
<1>5. OvenOwned' /\ OvenCounted'
  BY <1>0, <1>1, OvenKept DEF Prepare, memory, Baking, Typed, MemoryTypeOK
<1>6. TableFound' /\ TableCounted' /\ OnTable' = OnTable
  BY <1>1, TableKept DEF Prepare, memory
<1>7. Permits'
  BY <1>1, <1>2, <1>6, PermitsKept DEF Prepare, Held, Semaphores
<1> QED
  BY <1>3, <1>4, <1>5, <1>6, <1>7

\* The cook remembers a slot of the oven that is free.
LEMMA FindOvenKeeps ==
  ASSUME IInv, NEW c \in Cooks, FindOven(c)
  PROVE  IInv'
<1> USE DEF IInv
<1>1. Moves(c, "find_oven", "put_oven")
  BY DEF FindOven
<1>2. /\ pc[c] = "find_oven"
      /\ \A x \in Workers : pc'[x] = IF x = c THEN "put_oven" ELSE pc[x]
  BY <1>1 DEF Moves, Typed
<1>3. Typed'
  <2>1. MemoryTypeOK'
    BY SpotsAreSlots DEF FindOven, Moves, memory, Typed, MemoryTypeOK
  <2> QED
    BY <1>1, <2>1, TypedKept DEF CookSteps, DelivererSteps, Baking, Carrying
<1>4. PizzasKnown'
  BY <1>1, <1>2, PizzasKept DEF FindOven, memory, PizzasKnown, Delivering
<1>5. OvenOwned' /\ OvenCounted'
  <2>1. find_free(oven, OvenSlots) \in OvenSlots /\ oven[find_free(oven, OvenSlots)] = NoPizza
    BY <1>2, OvenHasRoom
  <2>2. /\ oven' = oven /\ oven_quan' = oven_quan /\ reg' = reg /\ pizza_type' = pizza_type
        /\ \A x \in Workers :
             pizza_spot'[x] = IF x = c THEN find_free(oven, OvenSlots) ELSE pizza_spot[x]
    BY DEF FindOven, memory, Typed, MemoryTypeOK
  <2>3. OvenOwned'
    BY <1>2, <2>1, <2>2 DEF OvenOwned, Baking
  <2>4. InOven' = InOven
    BY <2>2 DEF InOven
  <2> QED
    BY <1>2, <2>2, <2>3, <2>4 DEF OvenCounted
<1>6. TableFound' /\ TableCounted' /\ OnTable' = OnTable
  BY <1>1, TableKept DEF FindOven, memory, Typed, MemoryTypeOK
<1>7. Permits'
  BY <1>1, <1>2, <1>6, PermitsKept DEF FindOven, memory, Held, Semaphores
<1> QED
  BY <1>3, <1>4, <1>5, <1>6, <1>7

\* The pizza goes into the free slot, and the counter the cook loads is right.
LEMMA PutOvenKeeps ==
  ASSUME IInv, NEW c \in Cooks, PutOven(c)
  PROVE  IInv'
<1> USE DEF IInv
<1>1. Moves(c, "put_oven", "count_oven")
  BY DEF PutOven
<1>2. /\ pc[c] = "put_oven"
      /\ \A x \in Workers : pc'[x] = IF x = c THEN "count_oven" ELSE pc[x]
  BY <1>1 DEF Moves, Typed
<1>3. Typed'
  <2>1. MemoryTypeOK'
    BY <1>2 DEF OvenOwned, PizzasKnown, PutOven, Moves, memory, Typed, MemoryTypeOK
  <2> QED
    BY <1>1, <2>1, TypedKept DEF CookSteps, DelivererSteps, Baking, Carrying
<1>4. PizzasKnown'
  BY <1>1, <1>2, PizzasKept DEF PutOven, memory, PizzasKnown, Delivering
<1>5. OvenOwned' /\ OvenCounted'
  <2>1. /\ pizza_spot[c] \in OvenSlots /\ oven[pizza_spot[c]] = NoPizza
        /\ pizza_type[c] \in Pizzas
    BY <1>2 DEF OvenOwned, PizzasKnown
  <2>2. /\ oven' = [oven EXCEPT ![pizza_spot[c]] = pizza_type[c]]
        /\ oven \in [OvenSlots -> Pizzas \union {NoPizza}]
        /\ pizza_spot' = pizza_spot /\ pizza_type' = pizza_type
        /\ oven_quan' = oven_quan /\ reg'[c] = oven_quan
    BY DEF PutOven, Typed, MemoryTypeOK
  <2>3. \A x \in Cooks \ {c} : pc[x] \notin {"put_oven", "count_oven", "uncount_oven"}
    BY <1>2, Others DEF Held
  <2>4. OvenOwned'
    <3>1. \A x \in Cooks : pc[x] \in Baking => pizza_spot[x] # pizza_spot[c]
      BY <2>1 DEF OvenOwned, PizzasKnown, Baking
    <3> QED
      BY <1>2, <2>1, <2>2, <2>3, <3>1 DEF OvenOwned, Baking
  <2>5. InOven' = InOven + 1 /\ InOven \in Nat
    BY <2>1, <2>2, FillSlot, SlotsFinite, TotalsTyped DEF InOven
  <2>6. oven_quan = InOven
    BY <1>2, <2>3 DEF OvenCounted
  <2> QED
    BY <1>2, <2>2, <2>3, <2>4, <2>5, <2>6 DEF OvenCounted
<1>6. TableFound' /\ TableCounted' /\ OnTable' = OnTable
  BY <1>1, TableKept DEF PutOven, memory, Typed, MemoryTypeOK
<1>7. Permits'
  BY <1>1, <1>2, <1>6, PermitsKept DEF PutOven, memory, Held, Semaphores
<1> QED
  BY <1>3, <1>4, <1>5, <1>6, <1>7

\* The counter of the oven is put right.
LEMMA CountOvenKeeps ==
  ASSUME IInv, NEW c \in Cooks, CountOven(c, "post_oven_used")
  PROVE  IInv'
<1> USE DEF IInv
<1>1. Moves(c, "count_oven", "post_oven_used")
  BY DEF CountOven
<1>2. /\ pc[c] = "count_oven"
      /\ \A x \in Workers : pc'[x] = IF x = c THEN "post_oven_used" ELSE pc[x]
  BY <1>1 DEF Moves, Typed
<1>3. Typed'
  <2>1. MemoryTypeOK'
    BY DEF CountOven, Moves, memory, Typed, MemoryTypeOK
  <2> QED
    BY <1>1, <2>1, TypedKept DEF CookSteps, DelivererSteps, Baking, Carrying
<1>4. PizzasKnown'
  BY <1>1, <1>2, PizzasKept DEF CountOven, memory, PizzasKnown, Delivering
<1>5. OvenOwned' /\ OvenCounted'
  <2>1. /\ oven' = oven /\ oven_quan' = reg[c] + 1
        /\ pizza_spot' = pizza_spot /\ pizza_type' = pizza_type
    BY DEF CountOven
  <2>2. \A x \in Cooks \ {c} : pc[x] \notin {"put_oven", "count_oven", "uncount_oven"}
    BY <1>2, Others DEF Held
  <2>3. OvenOwned'
    BY <1>2, <2>1, <2>2 DEF OvenOwned, Baking
  <2>4. InOven' = InOven /\ reg[c] + 1 = InOven
    BY <1>2, <2>1 DEF InOven, OvenCounted
  <2> QED
    BY <1>2, <2>1, <2>2, <2>3, <2>4 DEF OvenCounted
<1>6. TableFound' /\ TableCounted' /\ OnTable' = OnTable
  BY <1>1, TableKept DEF CountOven, memory, Typed, MemoryTypeOK
<1>7. Permits'
  BY <1>1, <1>2, <1>6, PermitsKept DEF CountOven, memory, Held, Semaphores
<1> QED
  BY <1>3, <1>4, <1>5, <1>6, <1>7

\* The counter of the oven is put right again.
LEMMA UncountOvenKeeps ==
  ASSUME IInv, NEW c \in Cooks, UncountOven(c, "post_oven_space")
  PROVE  IInv'
<1> USE DEF IInv
<1>1. Moves(c, "uncount_oven", "post_oven_space")
  BY DEF UncountOven
<1>2. /\ pc[c] = "uncount_oven"
      /\ \A x \in Workers : pc'[x] = IF x = c THEN "post_oven_space" ELSE pc[x]
  BY <1>1 DEF Moves, Typed
<1>3. Typed'
  <2>1. MemoryTypeOK'
    BY DEF UncountOven, Moves, memory, Typed, MemoryTypeOK
  <2> QED
    BY <1>1, <2>1, TypedKept DEF CookSteps, DelivererSteps, Baking, Carrying
<1>4. PizzasKnown'
  BY <1>1, <1>2, PizzasKept DEF UncountOven, memory, PizzasKnown, Delivering
<1>5. OvenOwned' /\ OvenCounted'
  <2>1. /\ oven' = oven /\ oven_quan' = reg[c] - 1
        /\ pizza_spot' = pizza_spot /\ pizza_type' = pizza_type
    BY DEF UncountOven
  <2>2. \A x \in Cooks \ {c} : pc[x] \notin {"put_oven", "count_oven", "uncount_oven"}
    BY <1>2, Others DEF Held
  <2>3. OvenOwned'
    BY <1>2, <2>1, <2>2 DEF OvenOwned, Baking
  <2>4. InOven' = InOven /\ reg[c] - 1 = InOven
    BY <1>2, <2>1 DEF InOven, OvenCounted
  <2> QED
    BY <1>2, <2>1, <2>2, <2>3, <2>4 DEF OvenCounted
<1>6. TableFound' /\ TableCounted' /\ OnTable' = OnTable
  BY <1>1, TableKept DEF UncountOven, memory, Typed, MemoryTypeOK
<1>7. Permits'
  BY <1>1, <1>2, <1>6, PermitsKept DEF UncountOven, memory, Held, Semaphores
<1> QED
  BY <1>3, <1>4, <1>5, <1>6, <1>7

\* The cook takes out its own pizza and nobody else's.
LEMMA TakeOutKeeps ==
  ASSUME IInv, NEW c \in Cooks, TakeOut(c)
  PROVE  IInv'
<1> USE DEF IInv
<1>1. Moves(c, "take_out", "uncount_oven")
  BY DEF TakeOut
<1>2. /\ pc[c] = "take_out"
      /\ \A x \in Workers : pc'[x] = IF x = c THEN "uncount_oven" ELSE pc[x]
  BY <1>1 DEF Moves, Typed
<1>3. Typed'
  <2>1. MemoryTypeOK'
    BY DEF TakeOut, Moves, memory, Typed, MemoryTypeOK
  <2> QED
    BY <1>1, <2>1, TypedKept DEF CookSteps, DelivererSteps, Baking, Carrying
<1>4. PizzasKnown'
  BY <1>1, <1>2, PizzasKept DEF TakeOut, memory, PizzasKnown, Delivering
<1>5. OvenOwned' /\ OvenCounted'
  <2>1. /\ pizza_spot[c] \in OvenSlots /\ oven[pizza_spot[c]] = pizza_type[c]
        /\ oven[pizza_spot[c]] # NoPizza
    BY <1>2 DEF OvenOwned, PizzasKnown, Baking
  <2>2. /\ oven' = [oven EXCEPT ![pizza_spot[c]] = NoPizza]
        /\ oven \in [OvenSlots -> Pizzas \union {NoPizza}]
        /\ pizza_spot' = pizza_spot /\ pizza_type' = pizza_type
        /\ oven_quan' = oven_quan /\ reg'[c] = oven_quan
    BY DEF TakeOut, Typed, MemoryTypeOK
  <2>3. \A x \in Cooks \ {c} : pc[x] \notin {"put_oven", "count_oven", "uncount_oven"}
    BY <1>2, Others DEF Held
  <2>4. OvenOwned'
    <3>1. \A x \in Cooks \ {c} : pc[x] \in Baking => pizza_spot[x] # pizza_spot[c]
      BY <1>2 DEF OvenOwned, Baking
    <3> QED
      BY <1>2, <2>1, <2>2, <2>3, <3>1 DEF OvenOwned, Baking
  <2>5. InOven' = InOven - 1 /\ InOven \in Nat
    BY <2>1, <2>2, ClearSlot, SlotsFinite, TotalsTyped DEF InOven
  <2>6. oven_quan = InOven
    BY <1>2, <2>3 DEF OvenCounted
  <2> QED
    BY <1>2, <2>2, <2>3, <2>4, <2>5, <2>6 DEF OvenCounted
<1>6. TableFound' /\ TableCounted' /\ OnTable' = OnTable
  BY <1>1, TableKept DEF TakeOut, memory, Typed, MemoryTypeOK
<1>7. Permits'
  BY <1>1, <1>2, <1>6, PermitsKept DEF TakeOut, memory, Held, Semaphores
<1> QED
  BY <1>3, <1>4, <1>5, <1>6, <1>7

\* The cook remembers a slot of the table that is free.
LEMMA FindTableKeeps ==
  ASSUME IInv, NEW c \in Cooks, FindTable(c)
  PROVE  IInv'
<1> USE DEF IInv
<1>1. Moves(c, "find_table", "put_table")
  BY DEF FindTable
<1>2. /\ pc[c] = "find_table"
      /\ \A x \in Workers : pc'[x] = IF x = c THEN "put_table" ELSE pc[x]
  BY <1>1 DEF Moves, Typed
<1>3. Typed'
  <2>1. MemoryTypeOK'
    BY SpotsAreSlots DEF FindTable, Moves, memory, Typed, MemoryTypeOK
  <2> QED
    BY <1>1, <2>1, TypedKept DEF CookSteps, DelivererSteps, Baking, Carrying
<1>4. PizzasKnown'
  BY <1>1, <1>2, PizzasKept DEF FindTable, memory, PizzasKnown, Delivering
<1>5. OvenOwned' /\ OvenCounted'
  BY <1>1, OvenKept DEF FindTable, memory, Baking, Typed, MemoryTypeOK
<1>6. TableFound' /\ TableCounted' /\ OnTable' = OnTable
  <2>1. find_free(table, TableSlots) \in TableSlots /\ table[find_free(table, TableSlots)] = NoPizza
    BY <1>2, TableHasRoom
  <2>2. /\ table' = table /\ table_quan' = table_quan /\ reg' = reg
        /\ \A x \in Workers :
             pizza_spot'[x] = IF x = c THEN find_free(table, TableSlots) ELSE pizza_spot[x]
    BY DEF FindTable, memory, Typed, MemoryTypeOK
  <2>3. TableFound'
    BY <1>2, <2>1, <2>2 DEF TableFound, Typed, CookSteps, DelivererSteps, Baking, Carrying
  <2>4. OnTable' = OnTable
    BY <2>2 DEF OnTable
  <2> QED
    BY <1>2, <2>2, <2>3, <2>4 DEF TableCounted
<1>7. Permits'
  BY <1>1, <1>2, <1>6, PermitsKept DEF FindTable, memory, Held, Semaphores
<1> QED
  BY <1>3, <1>4, <1>5, <1>6, <1>7

\* The pizza goes onto the free slot: a unit of TABLE_SPACE becomes one of TABLE_READY.
LEMMA PutTableKeeps ==
  ASSUME IInv, NEW c \in Cooks, PutTable(c)
  PROVE  IInv'
<1> USE DEF IInv
<1>1. Moves(c, "put_table", "count_table")
  BY DEF PutTable
<1>2. /\ pc[c] = "put_table"
      /\ \A x \in Workers : pc'[x] = IF x = c THEN "count_table" ELSE pc[x]
  BY <1>1 DEF Moves, Typed
<1>3. Typed'
  <2>1. MemoryTypeOK'
    BY <1>2 DEF TableFound, PizzasKnown, PutTable, Moves, memory, Typed, MemoryTypeOK
  <2> QED
    BY <1>1, <2>1, TypedKept DEF CookSteps, DelivererSteps, Baking, Carrying
<1>4. PizzasKnown'
  BY <1>1, <1>2, PizzasKept DEF PutTable, memory, PizzasKnown, Delivering
<1>5. OvenOwned' /\ OvenCounted'
  BY <1>1, OvenKept DEF PutTable, memory, Baking, Typed, MemoryTypeOK
<1>6. TableFound' /\ TableCounted' /\ OnTable' = OnTable + 1
  <2>1. /\ pizza_spot[c] \in TableSlots /\ table[pizza_spot[c]] = NoPizza
        /\ pizza_type[c] \in Pizzas
    BY <1>2 DEF TableFound, PizzasKnown
  <2>2. /\ table' = [table EXCEPT ![pizza_spot[c]] = pizza_type[c]]
        /\ table \in [TableSlots -> Pizzas \union {NoPizza}]
        /\ pizza_spot' = pizza_spot /\ table_quan' = table_quan /\ reg'[c] = table_quan
    BY DEF PutTable, Typed, MemoryTypeOK
  <2>3. \A x \in Workers \ {c} :
         pc[x] \notin {"put_table", "take", "count_table", "uncount_table"}
    BY <1>2, Others DEF Held
  <2>4. OnTable' = OnTable + 1 /\ OnTable \in Nat
    BY <2>1, <2>2, FillSlot, SlotsFinite, TotalsTyped DEF OnTable
  <2>5. table_quan = OnTable
    BY <1>2, <2>3 DEF TableCounted
  <2>6. TableFound'
    BY <1>2, <2>3 DEF TableFound
  <2> QED
    BY <1>2, <2>2, <2>3, <2>4, <2>5, <2>6 DEF TableCounted
<1>7. Permits'
  <2>1. \A s \in Semaphores : sem'[s] = sem[s] /\ sem[s] \in Nat
    BY TotalsTyped DEF PutTable
  <2>2. /\ Total("OVEN_USED")' = Total("OVEN_USED")
        /\ Total("OVEN_SPACE")' = Total("OVEN_SPACE")
        /\ Total("TABLE_USED")' = Total("TABLE_USED")
    BY <1>1, <2>1, TotalKept DEF Held, Semaphores
  <2>3. /\ Total("TABLE_SPACE")' = Total("TABLE_SPACE") - 1
        /\ Total("TABLE_SPACE") \in Nat
    <3> DEFINE n == Cardinality(At(Held["TABLE_SPACE"]))
    <3>1. n \in Nat /\ n' = n - 1
      BY <1>1, CountMoves DEF Held
    <3>2. /\ Total("TABLE_SPACE") = sem["TABLE_SPACE"] + n
          /\ Total("TABLE_SPACE")' = sem'["TABLE_SPACE"] + n'
      BY DEF Total, Held
    <3> HIDE DEF n
    <3> QED
      BY <2>1, <3>1, <3>2 DEF Semaphores
  <2>4. /\ Total("TABLE_READY")' = Total("TABLE_READY") + 1
        /\ Total("TABLE_READY") \in Nat
    <3> DEFINE n == Cardinality(At(Held["TABLE_READY"]))
    <3>1. n \in Nat /\ n' = n + 1
      BY <1>1, CountMoves DEF Held
    <3>2. /\ Total("TABLE_READY") = sem["TABLE_READY"] + n
          /\ Total("TABLE_READY")' = sem'["TABLE_READY"] + n'
      BY DEF Total, Held
    <3> HIDE DEF n
    <3> QED
      BY <2>1, <3>1, <3>2 DEF Semaphores
  <2>5. OnTable \in Nat
    BY TotalsTyped
  <2> QED
    BY <1>6, <2>2, <2>3, <2>4, <2>5 DEF Permits
<1> QED
  BY <1>3, <1>4, <1>5, <1>6, <1>7

\* The counter of the table is put right.
LEMMA CountTableKeeps ==
  ASSUME IInv, NEW c \in Cooks, CountTable(c, "post_ready")
  PROVE  IInv'
<1> USE DEF IInv
<1>1. Moves(c, "count_table", "post_ready")
  BY DEF CountTable
<1>2. /\ pc[c] = "count_table"
      /\ \A x \in Workers : pc'[x] = IF x = c THEN "post_ready" ELSE pc[x]
  BY <1>1 DEF Moves, Typed
<1>3. Typed'
  <2>1. MemoryTypeOK'
    BY DEF CountTable, Moves, memory, Typed, MemoryTypeOK
  <2> QED
    BY <1>1, <2>1, TypedKept DEF CookSteps, DelivererSteps, Baking, Carrying
<1>4. PizzasKnown'
  BY <1>1, <1>2, PizzasKept DEF CountTable, memory, PizzasKnown, Delivering
<1>5. OvenOwned' /\ OvenCounted'
  BY <1>1, OvenKept DEF CountTable, memory, Baking, Typed, MemoryTypeOK
<1>6. TableFound' /\ TableCounted' /\ OnTable' = OnTable
  <2>1. table' = table /\ table_quan' = reg[c] + 1 /\ pizza_spot' = pizza_spot
    BY DEF CountTable
  <2>2. \A x \in Workers \ {c} :
         pc[x] \notin {"put_table", "take", "count_table", "uncount_table"}
    BY <1>2, Others DEF Held
  <2>3. OnTable' = OnTable /\ reg[c] + 1 = OnTable
    BY <1>2, <2>1 DEF OnTable, TableCounted
  <2>4. TableFound'
    BY <1>2, <2>2 DEF TableFound
  <2> QED
    BY <1>2, <2>1, <2>2, <2>3, <2>4 DEF TableCounted
<1>7. Permits'
  BY <1>1, <1>2, <1>6, PermitsKept DEF CountTable, memory, Held, Semaphores
<1> QED
  BY <1>3, <1>4, <1>5, <1>6, <1>7

-----------------------------------------------------------------------------
(* The accesses of a deliverer. *)

\* The deliverer remembers a slot of the table with a pizza on it.
LEMMA FindTakenKeeps ==
  ASSUME IInv, NEW d \in Deliverers, FindTaken(d)
  PROVE  IInv'
<1> USE DEF IInv
<1>1. Moves(d, "find_taken", "take")
  BY DEF FindTaken
<1>2. /\ pc[d] = "find_taken"
      /\ \A x \in Workers : pc'[x] = IF x = d THEN "take" ELSE pc[x]
  BY <1>1 DEF Moves, Typed
<1>3. Typed'
  <2>1. MemoryTypeOK'
    BY SpotsAreSlots DEF FindTaken, Moves, memory, Typed, MemoryTypeOK
  <2> QED
    BY <1>1, <2>1, TypedKept DEF CookSteps, DelivererSteps, Baking, Carrying
<1>4. PizzasKnown'
  BY <1>1, <1>2, PizzasKept DEF FindTaken, memory, PizzasKnown, Delivering
<1>5. OvenOwned' /\ OvenCounted'
  BY <1>1, OvenKept DEF FindTaken, memory, Baking, Typed, MemoryTypeOK
<1>6. TableFound' /\ TableCounted' /\ OnTable' = OnTable
  <2>1. find_taken \in TableSlots /\ table[find_taken] # NoPizza
    BY <1>2, TableHasPizza
  <2>2. /\ table' = table /\ table_quan' = table_quan /\ reg' = reg
        /\ \A x \in Workers :
             pizza_spot'[x] = IF x = d THEN find_taken ELSE pizza_spot[x]
    BY DEF FindTaken, memory, Typed, MemoryTypeOK
  <2>3. TableFound'
    BY <1>2, <2>1, <2>2 DEF TableFound, Typed, CookSteps, DelivererSteps, Baking, Carrying
  <2>4. OnTable' = OnTable
    BY <2>2 DEF OnTable
  <2> QED
    BY <1>2, <2>2, <2>3, <2>4 DEF TableCounted
<1>7. Permits'
  BY <1>1, <1>2, <1>6, PermitsKept DEF FindTaken, memory, Held, Semaphores
<1> QED
  BY <1>3, <1>4, <1>5, <1>6, <1>7

\* The deliverer takes a pizza: a unit of TABLE_READY becomes one of TABLE_SPACE.
LEMMA TakeKeeps ==
  ASSUME IInv, NEW d \in Deliverers, Take(d)
  PROVE  IInv'
<1> USE DEF IInv
<1>1. Moves(d, "take", "uncount_table")
  BY DEF Take
<1>2. /\ pc[d] = "take"
      /\ \A x \in Workers : pc'[x] = IF x = d THEN "uncount_table" ELSE pc[x]
  BY <1>1 DEF Moves, Typed
<1>3. Typed'
  <2>0. PICK p \in Pizzas \union {NoPizza} : pizza_type' = [pizza_type EXCEPT ![d] = p]
    BY DEF Take
  <2>2. pizza_type' \in [Workers -> Pizzas \union {NoPizza}]
    BY <2>0 DEF Typed, MemoryTypeOK
  <2>3. table' \in [TableSlots -> Pizzas \union {NoPizza}]
    BY DEF Take, Typed, MemoryTypeOK
  <2>1. MemoryTypeOK'
    BY <2>2, <2>3 DEF Take, Moves, memory, Typed, MemoryTypeOK
  <2> QED
    BY <1>1, <2>1, TypedKept DEF CookSteps, DelivererSteps, Baking, Carrying
<1>4. PizzasKnown'
  <2>1. pizza_spot[d] \in TableSlots /\ table[pizza_spot[d]] \in Pizzas
    BY <1>2 DEF TableFound, Typed, MemoryTypeOK
  <2>2. pizza_type' = [pizza_type EXCEPT ![d] = table[pizza_spot[d]]]
    BY <2>1 DEF Take
  <2> QED
    BY <1>1, <2>1, <2>2, PizzasKept DEF Typed, MemoryTypeOK
<1>5. OvenOwned' /\ OvenCounted'
  <2>1. PICK p : pizza_type' = [pizza_type EXCEPT ![d] = p]
    BY DEF Take
  <2> QED
    BY <1>1, <2>1, OvenKept DEF Take, Baking, Typed, MemoryTypeOK
<1>6. TableFound' /\ TableCounted' /\ OnTable' = OnTable - 1
  <2>1. /\ pizza_spot[d] \in TableSlots /\ table[pizza_spot[d]] # NoPizza
    BY <1>2 DEF TableFound
  <2>2. /\ table' = [table EXCEPT ![pizza_spot[d]] = NoPizza]
        /\ table \in [TableSlots -> Pizzas \union {NoPizza}]
        /\ pizza_spot' = pizza_spot /\ table_quan' = table_quan /\ reg'[d] = table_quan
    BY DEF Take, Typed, MemoryTypeOK
  <2>3. \A x \in Workers \ {d} :
         pc[x] \notin {"put_table", "take", "count_table", "uncount_table"}
    BY <1>2, Others DEF Held
  <2>4. OnTable' = OnTable - 1 /\ OnTable \in Nat
    BY <2>1, <2>2, ClearSlot, SlotsFinite, TotalsTyped DEF OnTable
  <2>5. table_quan = OnTable
    BY <1>2, <2>3 DEF TableCounted
  <2>6. TableFound'
    BY <1>2, <2>3 DEF TableFound
  <2> QED
    BY <1>2, <2>2, <2>3, <2>4, <2>5, <2>6 DEF TableCounted
<1>7. Permits'
  <2>1. \A s \in Semaphores : sem'[s] = sem[s] /\ sem[s] \in Nat
    BY TotalsTyped DEF Take
  <2>2. /\ Total("OVEN_USED")' = Total("OVEN_USED")
        /\ Total("OVEN_SPACE")' = Total("OVEN_SPACE")
        /\ Total("TABLE_USED")' = Total("TABLE_USED")
    BY <1>1, <2>1, TotalKept DEF Held, Semaphores
  <2>3. /\ Total("TABLE_SPACE")' = Total("TABLE_SPACE") + 1
        /\ Total("TABLE_SPACE") \in Nat
    <3> DEFINE n == Cardinality(At(Held["TABLE_SPACE"]))
    <3>1. n \in Nat /\ n' = n + 1
      BY <1>1, CountMoves DEF Held
    <3>2. /\ Total("TABLE_SPACE") = sem["TABLE_SPACE"] + n
          /\ Total("TABLE_SPACE")' = sem'["TABLE_SPACE"] + n'
      BY DEF Total, Held
    <3> HIDE DEF n
    <3> QED
      BY <2>1, <3>1, <3>2 DEF Semaphores
  <2>4. /\ Total("TABLE_READY")' = Total("TABLE_READY") - 1
        /\ Total("TABLE_READY") \in Nat
    <3> DEFINE n == Cardinality(At(Held["TABLE_READY"]))
    <3>1. n \in Nat /\ n' = n - 1
      BY <1>1, CountMoves DEF Held
    <3>2. /\ Total("TABLE_READY") = sem["TABLE_READY"] + n
          /\ Total("TABLE_READY")' = sem'["TABLE_READY"] + n'
      BY DEF Total, Held
    <3> HIDE DEF n
    <3> QED
      BY <2>1, <3>1, <3>2 DEF Semaphores
  <2>5. OnTable \in Nat
    BY TotalsTyped
  <2> QED
    BY <1>6, <2>2, <2>3, <2>4, <2>5 DEF Permits
<1> QED
  BY <1>3, <1>4, <1>5, <1>6, <1>7

\* The counter of the table is put right again.
LEMMA UncountTableKeeps ==
  ASSUME IInv, NEW d \in Deliverers, UncountTable(d, "post_space")
  PROVE  IInv'
<1> USE DEF IInv
<1>1. Moves(d, "uncount_table", "post_space")
  BY DEF UncountTable
<1>2. /\ pc[d] = "uncount_table"
      /\ \A x \in Workers : pc'[x] = IF x = d THEN "post_space" ELSE pc[x]
  BY <1>1 DEF Moves, Typed
<1>3. Typed'
  <2>1. MemoryTypeOK'
    BY DEF UncountTable, Moves, memory, Typed, MemoryTypeOK
  <2> QED
    BY <1>1, <2>1, TypedKept DEF CookSteps, DelivererSteps, Baking, Carrying
<1>4. PizzasKnown'
  BY <1>1, <1>2, PizzasKept DEF UncountTable, memory, PizzasKnown, Delivering
<1>5. OvenOwned' /\ OvenCounted'
  BY <1>1, OvenKept DEF UncountTable, memory, Baking, Typed, MemoryTypeOK
<1>6. TableFound' /\ TableCounted' /\ OnTable' = OnTable
  <2>1. table' = table /\ table_quan' = reg[d] - 1 /\ pizza_spot' = pizza_spot
    BY DEF UncountTable
  <2>2. \A x \in Workers \ {d} :
         pc[x] \notin {"put_table", "take", "count_table", "uncount_table"}
    BY <1>2, Others DEF Held
  <2>3. OnTable' = OnTable /\ reg[d] - 1 = OnTable
    BY <1>2, <2>1 DEF OnTable, TableCounted
  <2>4. TableFound'
    BY <1>2, <2>2 DEF TableFound
  <2> QED
    BY <1>2, <2>1, <2>2, <2>3, <2>4 DEF TableCounted
<1>7. Permits'
  BY <1>1, <1>2, <1>6, PermitsKept DEF UncountTable, memory, Held, Semaphores
<1> QED
  BY <1>3, <1>4, <1>5, <1>6, <1>7

\* A deliverer that has delivered knows no pizza any more.
LEMMA DeliverKeeps ==
  ASSUME IInv, NEW d \in Deliverers, Deliver(d, "wait_ready")
  PROVE  IInv'
<1> USE DEF IInv
<1>1. Moves(d, "deliver", "wait_ready")
  BY DEF Deliver
<1>2. /\ pc[d] = "deliver"
      /\ \A x \in Workers : pc'[x] = IF x = d THEN "wait_ready" ELSE pc[x]
  BY <1>1 DEF Moves, Typed
<1>0. /\ pizza_type' = [pizza_type EXCEPT ![d] = NoPizza]
      /\ pizza_spot' = [pizza_spot EXCEPT ![d] = NoSpot]
  BY DEF Deliver, Returns
<1>3. Typed'
  <2>1. MemoryTypeOK'
    BY <1>0 DEF Deliver, Moves, memory, Typed, MemoryTypeOK
  <2> QED
    BY <1>1, <2>1, TypedKept DEF CookSteps, DelivererSteps, Baking, Carrying
<1>4. PizzasKnown'
  BY <1>0, <1>1, PizzasKept DEF Delivering, Typed, MemoryTypeOK
<1>5. OvenOwned' /\ OvenCounted'
  BY <1>0, <1>1, OvenKept DEF Deliver, memory, Baking, Typed, MemoryTypeOK
<1>6. TableFound' /\ TableCounted' /\ OnTable' = OnTable
  BY <1>0, <1>1, TableKept DEF Deliver, memory, Typed, MemoryTypeOK
<1>7. Permits'
  BY <1>1, <1>2, <1>6, PermitsKept DEF Deliver, Held, Semaphores
<1> QED
  BY <1>3, <1>4, <1>5, <1>6, <1>7

-----------------------------------------------------------------------------
(* The invariant is inductive. *)

\* make_pizza returns with TABLE_USED given back.
LEMMA ReturnKeeps ==
  ASSUME IInv, NEW c \in Cooks, Moves(c, "post_table_used", "prepare"),
         sem_post("TABLE_USED"), Returns(c), UNCHANGED <<memory, reg>>
  PROVE  IInv'
<1> USE DEF IInv
<1>1. /\ sem' \in [Semaphores -> Nat] /\ sem'["TABLE_USED"] = sem["TABLE_USED"] + 1
      /\ \A s \in Semaphores \ {"TABLE_USED"} : sem'[s] = sem[s]
  <2>1. sem \in [Semaphores -> Nat]
    BY TotalsTyped
  <2> QED
    BY <2>1 DEF sem_post, Semaphores
<1>2. /\ \A x \in Workers \ {c} : pizza_spot'[x] = pizza_spot[x] /\ pizza_type'[x] = pizza_type[x]
      /\ reg' = reg
  BY DEF Returns, Typed, MemoryTypeOK
<1>3. Typed'
  <2>1. MemoryTypeOK'
    BY <1>1, SemDomain DEF Returns, Moves, memory, Typed, MemoryTypeOK
  <2> QED
    BY <2>1, TypedKept DEF CookSteps
<1>4. PizzasKnown'
  BY <1>2, PizzasKept
<1>5. OvenOwned' /\ OvenCounted'
  BY <1>2, OvenKept DEF memory, Baking
<1>6. TableFound' /\ TableCounted' /\ OnTable' = OnTable
  BY <1>2, TableKept DEF memory
<1>7. Permits'
  BY <1>1, <1>6, PermitsKept DEF Held, Semaphores
<1> QED
  BY <1>3, <1>4, <1>5, <1>6, <1>7

\* Each step of make_pizza keeps the invariant ...
LEMMA CookIInv ==
  ASSUME IInv, NEW c \in Cooks, make_pizza(c)
  PROVE  IInv'
<1> USE DEF Held, Semaphores, Busy, Baking, Carrying, CookSteps
<1>1. CASE Waits(c, "wait_oven_space", "OVEN_SPACE", "wait_oven_used")
  BY <1>1, SemStep DEF Waits
<1>2. CASE Waits(c, "wait_oven_used", "OVEN_USED", "find_oven")
  BY <1>2, SemStep DEF Waits
<1>3. CASE Posts(c, "post_oven_used", "OVEN_USED", "rewait_oven_used")
  BY <1>3, SemStep DEF Posts
<1>4. CASE Waits(c, "rewait_oven_used", "OVEN_USED", "take_out")
  BY <1>4, SemStep DEF Waits
<1>5. CASE Posts(c, "post_oven_space", "OVEN_SPACE", "wait_table_space")
  BY <1>5, SemStep DEF Posts
<1>6. CASE Waits(c, "wait_table_space", "TABLE_SPACE", "wait_table_used")
  BY <1>6, SemStep DEF Waits
<1>7. CASE Waits(c, "wait_table_used", "TABLE_USED", "find_table")
  BY <1>7, SemStep DEF Waits
<1>8. CASE Posts(c, "post_ready", "TABLE_READY", "post_oven_used_again")
  BY <1>8, SemStep DEF Posts
<1>9. CASE Posts(c, "post_oven_used_again", "OVEN_USED", "post_table_used")
  BY <1>9, SemStep DEF Posts
<1>10. ASSUME Moves(c, "post_table_used", "prepare"), sem_post("TABLE_USED"), Returns(c),
              UNCHANGED <<memory, reg>>
       PROVE  IInv'
  BY <1>10, ReturnKeeps
<1> QED
  BY <1>1, <1>2, <1>3, <1>4, <1>5, <1>6, <1>7, <1>8, <1>9, <1>10,
     PrepareKeeps, FindOvenKeeps, PutOvenKeeps, CountOvenKeeps, TakeOutKeeps,
     UncountOvenKeeps, FindTableKeeps, PutTableKeeps, CountTableKeeps
     DEF make_pizza, EnterOven, LeaveOven, ReenterOven, FreeOvenSpace, EnterTable, LeaveBoth

\* ... each step of deliver_pizza ...
LEMMA DelivererIInv ==
  ASSUME IInv, NEW d \in Deliverers, deliver_pizza(d)
  PROVE  IInv'
<1> USE DEF Held, Semaphores, Busy, Baking, Delivering, DelivererSteps
<1>1. CASE Waits(d, "wait_ready", "TABLE_READY", "wait_used")
  BY <1>1, SemStep DEF Waits
<1>2. CASE Waits(d, "wait_used", "TABLE_USED", "find_taken")
  BY <1>2, SemStep DEF Waits
<1>3. CASE Posts(d, "post_space", "TABLE_SPACE", "post_used")
  BY <1>3, SemStep DEF Posts
<1>4. CASE Posts(d, "post_used", "TABLE_USED", "deliver")
  BY <1>4, SemStep DEF Posts
<1> QED
  BY <1>1, <1>2, <1>3, <1>4, FindTakenKeeps, TakeKeeps, UncountTableKeeps,
     DeliverKeeps DEF deliver_pizza, Come, Leave

\* ... and each death, which leaves what the worker holds in its program counter.
LEMMA NextIInv == IInv /\ [Next]_vars => IInv'
<1> SUFFICES ASSUME IInv, [Next]_vars PROVE IInv'
  OBVIOUS
<1>1. ASSUME UNCHANGED <<sem, memory, pc, locals>>, alive' \in [Workers -> BOOLEAN] PROVE IInv'
  <2> USE <1>1 DEF memory, locals, IInv
  <2>1. Typed'
    BY DEF Typed, MemoryTypeOK
  <2>2. PizzasKnown' /\ OvenOwned' /\ TableFound'
    BY DEF PizzasKnown, OvenOwned, TableFound
  <2>3. InOven' = InOven /\ OnTable' = OnTable
    BY DEF InOven, OnTable
  <2>4. OvenCounted' /\ TableCounted'
    BY <2>3 DEF OvenCounted, TableCounted
  <2>5. \A s : Total(s)' = Total(s)
    BY DEF Total, At, Held
  <2>6. Permits'
    BY <2>3, <2>5 DEF Permits
  <2> QED
    BY <2>1, <2>2, <2>4, <2>6
<1>2. ASSUME NEW w \in Workers, HangUp(w) PROVE IInv'
  <2>1. alive' \in [Workers -> BOOLEAN]
    BY <1>2 DEF HangUp, IInv, Typed, MemoryTypeOK
  <2> QED
    BY <1>1, <1>2, <2>1 DEF HangUp
<1>3. CASE UNCHANGED vars
  <2>1. alive' \in [Workers -> BOOLEAN]
    BY <1>3 DEF vars, IInv, Typed, MemoryTypeOK
  <2> QED
    BY <1>1, <1>3, <2>1 DEF vars
<1> QED
  BY <1>2, <1>3, CookIInv, DelivererIInv DEF Next

\* The state main sets up before the first fork satisfies it.
LEMMA InitIInv == Init => IInv
<1> SUFFICES ASSUME Init PROVE IInv
  OBVIOUS
<1> USE DEF Init, InitMemory, InitialSem
<1>1. /\ \A c \in Cooks : pc[c] = "prepare"
      /\ \A d \in Deliverers : pc[d] = "wait_ready"
      /\ \A w \in Workers : pc[w] \in {"prepare", "wait_ready"}
  OBVIOUS
<1>2. Typed
  BY DEF Typed, MemoryTypeOK, CookSteps, DelivererSteps, NoSpot
<1>3. PizzasKnown /\ OvenOwned /\ TableFound
  BY <1>1 DEF PizzasKnown, OvenOwned, TableFound, Delivering, Baking
<1>4. Occupied(oven, OvenSlots) = {} /\ Occupied(table, TableSlots) = {}
  BY DEF Occupied
<1>5. InOven = 0 /\ OnTable = 0
  BY <1>4, FS_EmptySet DEF InOven, OnTable
<1>6. \A s \in Semaphores : At(Held[s]) = {}
  BY <1>1 DEF At, Held, Semaphores
<1>7. \A s \in Semaphores : Total(s) = sem[s]
  BY <1>2, <1>6, TotalsTyped, FS_EmptySet DEF Total
<1>8. Permits
  BY <1>5, <1>7 DEF Permits, Semaphores
<1>9. OvenCounted /\ TableCounted
  BY <1>1, <1>5 DEF OvenCounted, TableCounted
<1> QED
  BY <1>2, <1>3, <1>8, <1>9 DEF IInv

-----------------------------------------------------------------------------
(* The theorems. *)

\* IInv, with the meaning of all five semaphores, holds in every reachable state,
\* though each sem_wait takes one semaphore only and others may come in between.
THEOREM Invariance == Spec => []IInv
BY InitIInv, NextIInv, PTL DEF Spec

\* Types, and the bounds of every semaphore: no sem_post is one too many.
THEOREM TypeCorrect == Spec => []TypeOK
<1>1. IInv => TypeOK
  <2> SUFFICES ASSUME IInv PROVE TypeOK
    OBVIOUS
  <2>1. Typed /\ DOMAIN InitialSem = Semaphores
    BY SemDomain DEF IInv
  <2>2. \A s \in Semaphores : sem[s] \in Nat /\ Cardinality(At(Held[s])) \in Nat
    BY <2>1, TotalsTyped
  <2>3. OnTable \in Nat
    BY <2>1, TotalsTyped
  <2>4. \A s \in Semaphores : Total(s) >= sem[s] /\ Total(s) \in Nat
    BY <2>2 DEF Total
  <2>5. /\ sem["OVEN_USED"] <= 1 /\ sem["OVEN_SPACE"] <= OvenSize /\ sem["TABLE_USED"] <= 1
        /\ sem["TABLE_SPACE"] <= TableSize /\ sem["TABLE_READY"] <= TableSize
    BY <2>2, <2>3, <2>4 DEF IInv, Permits, Semaphores
  <2>6. SemLimit = [OVEN_USED |-> 1, OVEN_SPACE |-> OvenSize,
                    TABLE_USED |-> 1, TABLE_SPACE |-> TableSize, TABLE_READY |-> TableSize]
    BY DEF SemLimit, InitialSem
  <2>7. \A s \in DOMAIN InitialSem : sem[s] <= SemLimit[s]
    BY <2>1, <2>5, <2>6 DEF Semaphores
  <2> QED
    BY <2>1, <2>7 DEF TypeOK, Typed
<1> QED
  BY <1>1, Invariance, PTL

\* No increment or decrement of oven_quan and table_quan is ever lost.
THEOREM CountersAreRight == Spec => []CountersAgree
<1>1. IInv => CountersAgree
  BY DEF IInv, OvenCounted, TableCounted, InOven, OnTable, CountersAgree, CooksAt, At
<1> QED
  BY <1>1, Invariance, PTL

-----------------------------------------------------------------------------
(* Deadlock.                                                                  *)

\* Where a worker waits for the semaphore s; at the other steps it waits for nothing.
WaitsFor ==
  [OVEN_USED |-> {"wait_oven_used", "rewait_oven_used"},
   OVEN_SPACE |-> {"wait_oven_space"},
   TABLE_USED |-> {"wait_table_used", "wait_used"},
   TABLE_SPACE |-> {"wait_table_space"},
   TABLE_READY |-> {"wait_ready"}]
CanGoOn(w) == alive[w] /\ \A s \in Semaphores : pc[w] \in WaitsFor[s] => sem[s] > 0

\* Whoever was ended by a signal had no permit and no place at that moment.
LeftNothing ==
  \A w \in Workers : alive[w] \/ pc[w] \in {"prepare", "wait_oven_space", "wait_ready", "deliver"}
SomeoneWorks == (\E c \in Cooks : alive[c]) /\ (\E d \in Deliverers : alive[d])

NeverStuck == LeftNothing /\ SomeoneWorks => \E w \in Workers : CanGoOn(w)

\* A semaphore that nobody holds has all its permits.
LEMMA NobodyHolds ==
  ASSUME IInv, NEW s \in Semaphores, \A w \in Workers : pc[w] \notin Held[s]
  PROVE  Total(s) = sem[s] /\ sem[s] \in Nat
<1>1. At(Held[s]) = {}
  BY DEF At
<1>2. sem[s] \in Nat
  BY SemDomain DEF IInv, Typed, MemoryTypeOK
<1> QED
  BY <1>1, <1>2, FS_EmptySet DEF Total

\* The workers never all wait for one another, although each takes one semaphore after
\* the other: as long as a cook and a deliverer are there, and nobody was ended with a
\* permit in hand, some worker can go on.
THEOREM NobodyIsStuck == Spec => []NeverStuck
<1>1. IInv => NeverStuck
  <2> SUFFICES ASSUME IInv, LeftNothing, SomeoneWorks, \A w \in Workers : ~CanGoOn(w)
               PROVE  FALSE
    BY DEF NeverStuck
  <2> DEFINE Idle == {"prepare", "wait_oven_space", "wait_ready", "deliver"}
             Wait == {"wait_oven_space", "wait_oven_used", "rewait_oven_used",
                      "wait_table_space", "wait_table_used", "wait_ready", "wait_used"}
  <2>1. \A w \in Workers :
          \/ alive[w] /\ pc[w] \in Wait /\ \E s \in Semaphores : pc[w] \in WaitsFor[s] /\ ~(sem[s] > 0)
          \/ ~alive[w] /\ pc[w] \in Idle
    BY DEF CanGoOn, LeftNothing, IInv, Typed, MemoryTypeOK, WaitsFor, Semaphores
  <2>2. /\ \A w \in Workers : pc[w] \in WaitsFor["OVEN_USED"] => ~(sem["OVEN_USED"] > 0)
        /\ \A w \in Workers : pc[w] \in WaitsFor["TABLE_USED"] => ~(sem["TABLE_USED"] > 0)
        /\ \A w \in Workers : pc[w] \in WaitsFor["TABLE_SPACE"] => ~(sem["TABLE_SPACE"] > 0)
    BY <2>1 DEF WaitsFor, Semaphores
  <2>3. sem["TABLE_USED"] = 1
    <3>1. \A w \in Workers : pc[w] \notin Held["TABLE_USED"]
      BY <2>1 DEF Held
    <3> QED
      BY <3>1, NobodyHolds DEF IInv, Permits, Semaphores
  <2>4. \A w \in Workers : pc[w] \notin {"wait_table_used", "wait_used"}
    BY <2>2, <2>3 DEF WaitsFor
  <2>5. OnTable = 0
    <3>1. PICK d \in Deliverers : alive[d]
      BY DEF SomeoneWorks
    <3>2. pc[d] = "wait_ready"
      BY <2>1, <2>4, <3>1 DEF IInv, Typed, DelivererSteps
    <3>3. ~(sem["TABLE_READY"] > 0)
      BY <2>1, <3>1, <3>2 DEF WaitsFor, Semaphores
    <3>4. \A w \in Workers : pc[w] \notin Held["TABLE_READY"]
      BY <2>1, <2>4 DEF Held
    <3> QED
      BY <3>3, <3>4, NobodyHolds DEF IInv, Permits, Semaphores
  <2>6. \A w \in Workers : pc[w] # "wait_table_space"
    <3>1. \A w \in Workers : pc[w] \notin Held["TABLE_SPACE"]
      BY <2>1, <2>4 DEF Held
    <3>2. sem["TABLE_SPACE"] = TableSize
      BY <2>5, <3>1, NobodyHolds DEF IInv, Permits, Semaphores
    <3> QED
      BY <2>2, <3>2, PizzeriaAssumption DEF WaitsFor
  <2>7. \A w \in Workers : pc[w] \notin {"wait_oven_used", "rewait_oven_used"}
    <3>1. \A w \in Workers : pc[w] \notin Held["OVEN_USED"]
      BY <2>1, <2>4, <2>6 DEF Held
    <3>2. sem["OVEN_USED"] = 1
      BY <3>1, NobodyHolds DEF IInv, Permits, Semaphores
    <3> QED
      BY <2>2, <3>2 DEF WaitsFor
  <2>8. sem["OVEN_SPACE"] = OvenSize
    <3>1. \A w \in Workers : pc[w] \notin Held["OVEN_SPACE"]
      BY <2>1, <2>7 DEF Held
    <3> QED
      BY <3>1, NobodyHolds DEF IInv, Permits, Semaphores
  <2>9. PICK c \in Cooks : alive[c]
    BY DEF SomeoneWorks
  <2>10. pc[c] = "wait_oven_space"
    BY <2>1, <2>4, <2>6, <2>7, <2>9 DEF IInv, Typed, CookSteps, Baking, Carrying
  <2> QED
    BY <2>1, <2>8, <2>9, <2>10, PizzeriaAssumption DEF WaitsFor, Semaphores
<1> QED
  BY <1>1, Invariance, PTL

-----------------------------------------------------------------------------
(* The pizzeria implements PizzaLine.  Five steps of it are the five steps of *)
(* the line, and the others change nothing that the line shows.               *)

Hands == Carrying \union Delivering

\* A move changes the program counter of one worker.
LEMMA LineView ==
  ASSUME NEW w \in Workers, NEW from, NEW to, Typed, Moves(w, from, to)
  PROVE  /\ pc[w] = from
         /\ \A x \in Workers : pc'[x] = IF x = w THEN to ELSE pc[x]
BY DEF Moves, Typed

\* The steps that the line does not show.
LEMMA StutterSteps ==
  ASSUME Typed, NEW w \in Workers, NEW from, NEW to, Moves(w, from, to),
         oven' = oven, table' = table,
         from \in Baking <=> to \in Baking, from \in Hands <=> to \in Hands,
         \A x \in Workers : (x # w \/ from \in Baking) => pizza_spot'[x] = pizza_spot[x],
         \A x \in Workers : (x # w \/ from \in Hands) => pizza_type'[x] = pizza_type[x]
  PROVE  UNCHANGED Line!vars
<1>1. /\ pc[w] = from
      /\ \A x \in Workers : pc'[x] = IF x = w THEN to ELSE pc[x]
  BY LineView
<1>2. \A c \in Cooks : (IF pc'[c] \in Baking THEN pizza_spot'[c] ELSE NoSpot)
                        = (IF pc[c] \in Baking THEN pizza_spot[c] ELSE NoSpot)
  BY <1>1
<1>3. baking' = baking
  BY <1>2 DEF baking
<1>4. \A x \in Workers : (IF pc'[x] \in Hands THEN pizza_type'[x] ELSE NoPizza)
                          = (IF pc[x] \in Hands THEN pizza_type[x] ELSE NoPizza)
  BY <1>1
<1>5. carried' = carried
  BY <1>4 DEF carried, Hands
<1> QED
  BY <1>3, <1>5 DEF Line!vars

\* A sem_wait or a sem_post is one of them.
LEMMA SemStutters ==
  ASSUME Typed, NEW w \in Workers, NEW from, NEW to, Moves(w, from, to),
         UNCHANGED <<memory, locals>>,
         from \in Baking <=> to \in Baking, from \in Hands <=> to \in Hands
  PROVE  UNCHANGED Line!vars
BY StutterSteps DEF memory, locals

\* Each step of make_pizza is Bake, TakeOut or Serve of the line, or a stutter.
LEMMA CookLine ==
  ASSUME IInv, NEW c \in Cooks, make_pizza(c)
  PROVE  [Line!Next]_(Line!vars)
<1> Typed
  BY DEF IInv
<1>1. CASE Prepare(c, "wait_oven_space")
  <2>1. Moves(c, "prepare", "wait_oven_space")
    BY <1>1 DEF Prepare
  <2>2. /\ oven' = oven /\ table' = table
        /\ \A x \in Workers : (x # c \/ "prepare" \in Baking) => pizza_spot'[x] = pizza_spot[x]
        /\ \A x \in Workers : (x # c \/ "prepare" \in Hands) => pizza_type'[x] = pizza_type[x]
    BY <1>1 DEF Prepare, memory, Baking, Hands, Carrying, Delivering, Typed, MemoryTypeOK
  <2> QED
    BY <2>1, <2>2, StutterSteps DEF Baking, Hands, Carrying, Delivering
<1>2. CASE FindOven(c)
  <2>1. Moves(c, "find_oven", "put_oven")
    BY <1>2 DEF FindOven
  <2>2. /\ oven' = oven /\ table' = table
        /\ \A x \in Workers : (x # c \/ "find_oven" \in Baking) => pizza_spot'[x] = pizza_spot[x]
        /\ \A x \in Workers : (x # c \/ "find_oven" \in Hands) => pizza_type'[x] = pizza_type[x]
    BY <1>2 DEF FindOven, memory, Baking, Hands, Carrying, Delivering, Typed, MemoryTypeOK
  <2> QED
    BY <2>1, <2>2, StutterSteps DEF Baking, Hands, Carrying, Delivering
<1>3. CASE PutOven(c)
  <2>1. Moves(c, "put_oven", "count_oven")
    BY <1>3 DEF PutOven
  <2>0. /\ pc[c] = "put_oven"
        /\ \A x \in Workers : pc'[x] = IF x = c THEN "count_oven" ELSE pc[x]
    BY <2>1, LineView
  <2>2. /\ pizza_spot[c] \in OvenSlots /\ oven[pizza_spot[c]] = NoPizza
        /\ pizza_type[c] \in Pizzas
    BY <2>0 DEF IInv, OvenOwned, PizzasKnown
  <2>3. /\ oven' = [oven EXCEPT ![pizza_spot[c]] = pizza_type[c]]
        /\ table' = table /\ pizza_spot' = pizza_spot /\ pizza_type' = pizza_type
    BY <1>3 DEF PutOven
  <2>4. baking[c] = NoSpot /\ carried[c] = NoPizza
    BY <2>0 DEF baking, carried, Baking, Carrying, Delivering
  <2>5. baking' = [baking EXCEPT ![c] = pizza_spot[c]]
    BY <2>0, <2>3 DEF baking, Baking
  <2>6. carried' = carried
    BY <2>0, <2>3 DEF carried, Carrying, Delivering
  <2>7. Line!Bake(c)
    BY <2>2, <2>3, <2>4, <2>5, <2>6 DEF Line!Bake, Line!OvenSlots, Line!NoSlot, OvenSlots, NoSpot
  <2> QED
    BY <2>7 DEF Line!Next
<1>4. CASE CountOven(c, "post_oven_used")
  <2>1. Moves(c, "count_oven", "post_oven_used")
    BY <1>4 DEF CountOven
  <2>2. /\ oven' = oven /\ table' = table
        /\ \A x \in Workers : (x # c \/ "count_oven" \in Baking) => pizza_spot'[x] = pizza_spot[x]
        /\ \A x \in Workers : (x # c \/ "count_oven" \in Hands) => pizza_type'[x] = pizza_type[x]
    BY <1>4 DEF CountOven, memory, Baking, Hands, Carrying, Delivering, Typed, MemoryTypeOK
  <2> QED
    BY <2>1, <2>2, StutterSteps DEF Baking, Hands, Carrying, Delivering
<1>5. CASE TakeOut(c)
  <2>1. Moves(c, "take_out", "uncount_oven")
    BY <1>5 DEF TakeOut
  <2>0. /\ pc[c] = "take_out"
        /\ \A x \in Workers : pc'[x] = IF x = c THEN "uncount_oven" ELSE pc[x]
    BY <2>1, LineView
  <2>2. /\ pizza_spot[c] \in OvenSlots /\ oven[pizza_spot[c]] = pizza_type[c]
    BY <2>0 DEF IInv, OvenOwned, Baking
  <2>3. /\ oven' = [oven EXCEPT ![pizza_spot[c]] = NoPizza]
        /\ table' = table /\ pizza_spot' = pizza_spot /\ pizza_type' = pizza_type
    BY <1>5 DEF TakeOut
  <2>4. baking[c] = pizza_spot[c] /\ pizza_spot[c] # NoSpot
    BY <2>0, <2>2 DEF baking, Baking, OvenSlots, NoSpot
  <2>5. \A other \in Cooks : carried[other] = NoPizza
    <3>1. \A other \in Cooks \ {c} : pc[other] \notin Held["OVEN_USED"]
      BY <2>0, Others DEF IInv, Held
    <3>2. \A other \in Cooks : pc[other] \notin Carrying \union Delivering
      BY <2>0, <3>1 DEF Carrying, Delivering, Held, Typed, CookSteps, Baking
    <3> QED
      BY <3>2 DEF carried
  <2>6. baking' = [baking EXCEPT ![c] = NoSpot]
    BY <2>0, <2>3 DEF baking, Baking
  <2>7. carried' = [carried EXCEPT ![c] = pizza_type[c]]
    BY <2>0, <2>3 DEF carried, Carrying, Delivering
  <2>8. Line!TakeOut(c)
    BY <2>2, <2>3, <2>4, <2>5, <2>6, <2>7 DEF Line!TakeOut, Line!NoSlot, NoSpot
  <2> QED
    BY <2>8 DEF Line!Next
<1>6. CASE UncountOven(c, "post_oven_space")
  <2>1. Moves(c, "uncount_oven", "post_oven_space")
    BY <1>6 DEF UncountOven
  <2>2. /\ oven' = oven /\ table' = table
        /\ \A x \in Workers : (x # c \/ "uncount_oven" \in Baking) => pizza_spot'[x] = pizza_spot[x]
        /\ \A x \in Workers : (x # c \/ "uncount_oven" \in Hands) => pizza_type'[x] = pizza_type[x]
    BY <1>6 DEF UncountOven, memory, Baking, Hands, Carrying, Delivering, Typed, MemoryTypeOK
  <2> QED
    BY <2>1, <2>2, StutterSteps DEF Baking, Hands, Carrying, Delivering
<1>7. CASE FindTable(c)
  <2>1. Moves(c, "find_table", "put_table")
    BY <1>7 DEF FindTable
  <2>2. /\ oven' = oven /\ table' = table
        /\ \A x \in Workers : (x # c \/ "find_table" \in Baking) => pizza_spot'[x] = pizza_spot[x]
        /\ \A x \in Workers : (x # c \/ "find_table" \in Hands) => pizza_type'[x] = pizza_type[x]
    BY <1>7 DEF FindTable, memory, Baking, Hands, Carrying, Delivering, Typed, MemoryTypeOK
  <2> QED
    BY <2>1, <2>2, StutterSteps DEF Baking, Hands, Carrying, Delivering
<1>8. CASE PutTable(c)
  <2>1. Moves(c, "put_table", "count_table")
    BY <1>8 DEF PutTable
  <2>0. /\ pc[c] = "put_table"
        /\ \A x \in Workers : pc'[x] = IF x = c THEN "count_table" ELSE pc[x]
    BY <2>1, LineView
  <2>2. /\ pizza_spot[c] \in TableSlots /\ table[pizza_spot[c]] = NoPizza
        /\ pizza_type[c] \in Pizzas
    BY <2>0 DEF IInv, TableFound, PizzasKnown
  <2>3. /\ table' = [table EXCEPT ![pizza_spot[c]] = pizza_type[c]]
        /\ oven' = oven /\ pizza_spot' = pizza_spot /\ pizza_type' = pizza_type
    BY <1>8 DEF PutTable
  <2>4. carried[c] = pizza_type[c] /\ pizza_type[c] # NoPizza
    BY <2>0, <2>2 DEF carried, Carrying
  <2>5. baking' = baking
    BY <2>0, <2>3 DEF baking, Baking
  <2>6. carried' = [carried EXCEPT ![c] = NoPizza]
    BY <2>0, <2>3 DEF carried, Carrying, Delivering
  <2>7. Line!Serve(c)
    BY <2>2, <2>3, <2>4, <2>5, <2>6 DEF Line!Serve, Line!TableSlots, TableSlots
  <2> QED
    BY <2>7 DEF Line!Next
<1>9. CASE CountTable(c, "post_ready")
  <2>1. Moves(c, "count_table", "post_ready")
    BY <1>9 DEF CountTable
  <2>2. /\ oven' = oven /\ table' = table
        /\ \A x \in Workers : (x # c \/ "count_table" \in Baking) => pizza_spot'[x] = pizza_spot[x]
        /\ \A x \in Workers : (x # c \/ "count_table" \in Hands) => pizza_type'[x] = pizza_type[x]
    BY <1>9 DEF CountTable, memory, Baking, Hands, Carrying, Delivering, Typed, MemoryTypeOK
  <2> QED
    BY <2>1, <2>2, StutterSteps DEF Baking, Hands, Carrying, Delivering
<1>10. CASE Waits(c, "wait_oven_space", "OVEN_SPACE", "wait_oven_used")
  BY <1>10, SemStutters DEF Waits, Baking, Hands, Carrying, Delivering
<1>11. CASE Waits(c, "wait_oven_used", "OVEN_USED", "find_oven")
  BY <1>11, SemStutters DEF Waits, Baking, Hands, Carrying, Delivering
<1>12. CASE Posts(c, "post_oven_used", "OVEN_USED", "rewait_oven_used")
  BY <1>12, SemStutters DEF Posts, Baking, Hands, Carrying, Delivering
<1>13. CASE Waits(c, "rewait_oven_used", "OVEN_USED", "take_out")
  BY <1>13, SemStutters DEF Waits, Baking, Hands, Carrying, Delivering
<1>14. CASE Posts(c, "post_oven_space", "OVEN_SPACE", "wait_table_space")
  BY <1>14, SemStutters DEF Posts, Baking, Hands, Carrying, Delivering
<1>15. CASE Waits(c, "wait_table_space", "TABLE_SPACE", "wait_table_used")
  BY <1>15, SemStutters DEF Waits, Baking, Hands, Carrying, Delivering
<1>16. CASE Waits(c, "wait_table_used", "TABLE_USED", "find_table")
  BY <1>16, SemStutters DEF Waits, Baking, Hands, Carrying, Delivering
<1>17. CASE Posts(c, "post_ready", "TABLE_READY", "post_oven_used_again")
  BY <1>17, SemStutters DEF Posts, Baking, Hands, Carrying, Delivering
<1>18. CASE Posts(c, "post_oven_used_again", "OVEN_USED", "post_table_used")
  BY <1>18, SemStutters DEF Posts, Baking, Hands, Carrying, Delivering
<1>19. ASSUME Moves(c, "post_table_used", "prepare"), Returns(c), UNCHANGED <<memory, reg>>
       PROVE  UNCHANGED Line!vars
  <2>1. /\ oven' = oven /\ table' = table
        /\ \A x \in Workers \ {c} : pizza_spot'[x] = pizza_spot[x] /\ pizza_type'[x] = pizza_type[x]
    BY <1>19 DEF Returns, memory, Typed, MemoryTypeOK
  <2> QED
    BY <1>19, <2>1, StutterSteps DEF Baking, Hands, Carrying, Delivering
<1> QED
  BY <1>1, <1>2, <1>3, <1>4, <1>5, <1>6, <1>7, <1>8, <1>9, <1>10,
     <1>11, <1>12, <1>13, <1>14, <1>15, <1>16, <1>17, <1>18, <1>19
     DEF make_pizza, EnterOven, LeaveOven, ReenterOven, FreeOvenSpace, EnterTable, LeaveBoth

\* Each step of deliver_pizza is Take or Deliver of the line, or a stutter.
LEMMA DelivererLine ==
  ASSUME IInv, NEW d \in Deliverers, deliver_pizza(d)
  PROVE  [Line!Next]_(Line!vars)
<1> Typed
  BY DEF IInv
<1>1. CASE Waits(d, "wait_ready", "TABLE_READY", "wait_used")
  BY <1>1, SemStutters DEF Waits, Baking, Hands, Carrying, Delivering
<1>2. CASE Waits(d, "wait_used", "TABLE_USED", "find_taken")
  BY <1>2, SemStutters DEF Waits, Baking, Hands, Carrying, Delivering
<1>3. CASE Posts(d, "post_space", "TABLE_SPACE", "post_used")
  BY <1>3, SemStutters DEF Posts, Baking, Hands, Carrying, Delivering
<1>4. CASE Posts(d, "post_used", "TABLE_USED", "deliver")
  BY <1>4, SemStutters DEF Posts, Baking, Hands, Carrying, Delivering
<1>5. CASE FindTaken(d)
  <2>1. Moves(d, "find_taken", "take")
    BY <1>5 DEF FindTaken
  <2>2. /\ oven' = oven /\ table' = table
        /\ \A x \in Workers : (x # d \/ "find_taken" \in Baking) => pizza_spot'[x] = pizza_spot[x]
        /\ \A x \in Workers : (x # d \/ "find_taken" \in Hands) => pizza_type'[x] = pizza_type[x]
    BY <1>5 DEF FindTaken, memory, Baking, Hands, Carrying, Delivering, Typed, MemoryTypeOK
  <2> QED
    BY <2>1, <2>2, StutterSteps DEF Baking, Hands, Carrying, Delivering
<1>6. CASE Take(d)
  <2>1. Moves(d, "take", "uncount_table")
    BY <1>6 DEF Take
  <2>0. /\ pc[d] = "take"
        /\ \A x \in Workers : pc'[x] = IF x = d THEN "uncount_table" ELSE pc[x]
    BY <2>1, LineView
  <2>2. pizza_spot[d] \in TableSlots /\ table[pizza_spot[d]] # NoPizza
    BY <2>0 DEF IInv, TableFound
  <2>3. /\ table' = [table EXCEPT ![pizza_spot[d]] = NoPizza]
        /\ oven' = oven /\ pizza_spot' = pizza_spot
        /\ pizza_type' = [pizza_type EXCEPT ![d] = table[pizza_spot[d]]]
    BY <1>6, <2>2 DEF Take
  <2>4. carried[d] = NoPizza
    BY <2>0 DEF carried, Carrying, Delivering
  <2>5. baking' = baking
    BY <2>0, <2>3 DEF baking, Baking
  <2>6. carried' = [carried EXCEPT ![d] = table[pizza_spot[d]]]
    BY <2>0, <2>3 DEF carried, Carrying, Delivering, Typed, MemoryTypeOK
  <2>7. Line!Take(d)
    BY <2>2, <2>3, <2>4, <2>5, <2>6 DEF Line!Take, Line!TableSlots, TableSlots
  <2> QED
    BY <2>7 DEF Line!Next
<1>7. CASE UncountTable(d, "post_space")
  <2>1. Moves(d, "uncount_table", "post_space")
    BY <1>7 DEF UncountTable
  <2>2. /\ oven' = oven /\ table' = table
        /\ \A x \in Workers : (x # d \/ "uncount_table" \in Baking) => pizza_spot'[x] = pizza_spot[x]
        /\ \A x \in Workers : (x # d \/ "uncount_table" \in Hands) => pizza_type'[x] = pizza_type[x]
    BY <1>7 DEF UncountTable, memory, Baking, Hands, Carrying, Delivering, Typed, MemoryTypeOK
  <2> QED
    BY <2>1, <2>2, StutterSteps DEF Baking, Hands, Carrying, Delivering
<1>8. CASE Deliver(d, "wait_ready")
  <2>1. Moves(d, "deliver", "wait_ready")
    BY <1>8 DEF Deliver
  <2>0. /\ pc[d] = "deliver"
        /\ \A x \in Workers : pc'[x] = IF x = d THEN "wait_ready" ELSE pc[x]
    BY <2>1, LineView
  <2>2. pizza_type[d] \in Pizzas
    BY <2>0 DEF IInv, PizzasKnown, Delivering
  <2>3. /\ oven' = oven /\ table' = table
        /\ pizza_spot' = [pizza_spot EXCEPT ![d] = NoSpot]
        /\ pizza_type' = [pizza_type EXCEPT ![d] = NoPizza]
    BY <1>8 DEF Deliver, Returns, memory
  <2>4. carried[d] # NoPizza
    BY <2>0, <2>2 DEF carried, Delivering
  <2>5. baking' = baking
    BY <2>0, <2>3 DEF baking, Baking, Typed, MemoryTypeOK
  <2>6. carried' = [carried EXCEPT ![d] = NoPizza]
    BY <2>0, <2>3 DEF carried, Carrying, Delivering, Typed, MemoryTypeOK
  <2>7. Line!Deliver(d)
    BY <2>3, <2>4, <2>5, <2>6 DEF Line!Deliver
  <2> QED
    BY <2>7 DEF Line!Next
<1> QED
  BY <1>1, <1>2, <1>3, <1>4, <1>5, <1>6, <1>7, <1>8 DEF deliver_pizza, Come, Leave

\* Whatever the sizes and the numbers of workers, and whoever is killed, the
\* pizzeria is a PizzaLine: property LineSpec.
THEOREM Refinement == Spec => LineSpec
<1>1. Init => Line!Init
  BY DEF Init, InitMemory, Line!Init, Line!OvenSlots, Line!TableSlots, Line!NoSlot, Line!Workers,
         OvenSlots, TableSlots, NoSpot, baking, carried, Baking, Carrying, Delivering
<1>2. IInv /\ [Next]_vars => [Line!Next]_(Line!vars)
  <2> SUFFICES ASSUME IInv, [Next]_vars PROVE [Line!Next]_(Line!vars)
    OBVIOUS
  <2>1. ASSUME UNCHANGED <<sem, memory, pc, locals>> PROVE UNCHANGED Line!vars
    BY <2>1 DEF memory, locals, baking, carried, Line!vars
  <2> QED
    BY <2>1, CookLine, DelivererLine DEF Next, HangUp, vars
<1> QED
  BY <1>1, <1>2, Invariance, PTL DEF Spec, LineSpec, Line!Spec
=============================================================================
