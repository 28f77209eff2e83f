-------------------------- MODULE OvenTable_proofs ---------------------------
(****************************************************************************)
(* What the proofs about both pizzerias of cw07 need to know of the memory  *)
(* they share: what the scans of the arrays return, and how many pizzas are *)
(* in an array after a slot is filled or cleared.                           *)
(****************************************************************************)
EXTENDS OvenTable, FiniteSetTheorems, WellFoundedInduction, TLAPS

USE PizzeriaAssumption DEF Workers

-----------------------------------------------------------------------------
(* The semaphores. *)

Semaphores == {"OVEN_USED", "OVEN_SPACE", "TABLE_USED", "TABLE_SPACE", "TABLE_READY"}

\* The program has five semaphores.
LEMMA SemDomain == DOMAIN InitialSem = Semaphores
BY DEF InitialSem, Semaphores

-----------------------------------------------------------------------------
(* The scans. *)

\* First returns a member of a set of naturals, the least one, unless it is empty.
LEMMA FirstMember ==
  ASSUME NEW found \in SUBSET Nat, found # {}
  PROVE  First(found) \in found /\ First(found) # NoSpot
<1> DEFINE Less == {ss \in Nat \X Nat : ss[1] < ss[2]}
<1>1. IsWellFoundedOn(Less, Nat)
  BY NatLessThanWellFounded DEF OpToRel
<1>2. PICK i \in found : \A j \in found : ~ (<<j, i>> \in Less)
  <2> HIDE DEF Less
  <2> QED BY <1>1, WFMin
<1>3. ASSUME NEW j \in found, j < i PROVE FALSE
  <2>1. <<j, i>> \in Less
    BY <1>3
  <2> QED BY <2>1, <1>2
<1>4. \E k \in found : \A j \in found : k <= j
  BY <1>3
<1>5. (CHOOSE k \in found : \A j \in found : k <= j) \in found
  BY <1>4
<1>6. First(found) \in found
  BY <1>5 DEF First
<1> QED
  BY <1>6 DEF NoSpot

\* find_free and find_taken return a slot of their array, or -1.
LEMMA SpotsAreSlots ==
  /\ find_free(oven, OvenSlots) \in OvenSlots \union {NoSpot}
  /\ find_free(table, TableSlots) \in TableSlots \union {NoSpot}
  /\ find_taken \in TableSlots \union {NoSpot}
<1>1. OvenSlots \subseteq Nat /\ TableSlots \subseteq Nat
  BY DEF OvenSlots, TableSlots
<1>2. \A found \in SUBSET Nat : First(found) \in found \union {NoSpot}
  BY FirstMember DEF First
<1> QED
  BY <1>1, <1>2 DEF find_free, find_taken, Occupied

\* find_free finds a free slot as long as not all of them are occupied.
LEMMA FreeFound ==
  ASSUME NEW n \in Nat, NEW shelf, NEW slots, slots = 0 .. n - 1,
         Cardinality(Occupied(shelf, slots)) < n
  PROVE  /\ find_free(shelf, slots) \in slots
         /\ shelf[find_free(shelf, slots)] = NoPizza
<1> DEFINE free == {i \in slots : shelf[i] = NoPizza}
<1>1. Cardinality(slots) = n
  BY FS_Interval
<1>2. free # {}
  <2> SUFFICES ASSUME free = {} PROVE FALSE
    OBVIOUS
  <2>1. Occupied(shelf, slots) = slots
    BY DEF Occupied
  <2> QED
    BY <1>1, <2>1
<1>3. free \in SUBSET Nat
  OBVIOUS
<1>4. First(free) \in free
  BY <1>2, <1>3, FirstMember
<1> QED
  BY <1>4 DEF find_free

\* find_taken finds a pizza as long as there is one on the table.
LEMMA TakenFound ==
  ASSUME Occupied(table, TableSlots) # {}
  PROVE  find_taken \in TableSlots /\ table[find_taken] # NoPizza
<1>1. Occupied(table, TableSlots) \in SUBSET Nat
  BY DEF Occupied, TableSlots
<1>2. First(Occupied(table, TableSlots)) \in Occupied(table, TableSlots)
  BY <1>1, FirstMember
<1> QED
  BY <1>2 DEF find_taken, Occupied

-----------------------------------------------------------------------------
(* Slots that are filled and cleared. *)

\* The arrays have as many slots as OVEN_SIZE and TABLE_SIZE say.
LEMMA SlotsFinite ==
  /\ IsFiniteSet(OvenSlots) /\ Cardinality(OvenSlots) = OvenSize
  /\ IsFiniteSet(TableSlots) /\ Cardinality(TableSlots) = TableSize
BY FS_Interval, SMTT(60) DEF OvenSlots, TableSlots

\* The pizzas on a shelf can be counted, and are no more than its slots.
LEMMA OccupiedFinite ==
  ASSUME NEW shelf, NEW slots, IsFiniteSet(slots)
  PROVE  /\ IsFiniteSet(Occupied(shelf, slots))
         /\ Cardinality(Occupied(shelf, slots)) \in Nat
         /\ Cardinality(Occupied(shelf, slots)) <= Cardinality(slots)
<1>1. Occupied(shelf, slots) \in SUBSET slots
  BY DEF Occupied
<1> QED
  BY <1>1, FS_Subset, FS_CardinalityType

\* A pizza put into a free slot makes one more.
LEMMA FillSlot ==
  ASSUME NEW slots, IsFiniteSet(slots), NEW shelf \in [slots -> Pizzas \union {NoPizza}],
         NEW i \in slots, NEW p \in Pizzas, shelf[i] = NoPizza
  PROVE  Cardinality(Occupied([shelf EXCEPT ![i] = p], slots)) =
           Cardinality(Occupied(shelf, slots)) + 1
<1>1. Occupied([shelf EXCEPT ![i] = p], slots) = Occupied(shelf, slots) \union {i}
  BY DEF Occupied
<1>2. i \notin Occupied(shelf, slots)
  BY DEF Occupied
<1> QED
  BY <1>1, <1>2, OccupiedFinite, FS_AddElement

\* A slot that held a pizza, set to -1, makes one less.
LEMMA ClearSlot ==
  ASSUME NEW slots, IsFiniteSet(slots), NEW shelf \in [slots -> Pizzas \union {NoPizza}],
         NEW i \in slots, shelf[i] # NoPizza
  PROVE  Cardinality(Occupied([shelf EXCEPT ![i] = NoPizza], slots)) =
           Cardinality(Occupied(shelf, slots)) - 1
<1>1. Occupied([shelf EXCEPT ![i] = NoPizza], slots) = Occupied(shelf, slots) \ {i}
  BY DEF Occupied
<1>2. i \in Occupied(shelf, slots)
  BY DEF Occupied
<1> DEFINE occupied == Occupied(shelf, slots)
<1>3. IsFiniteSet(occupied)
  BY OccupiedFinite
<1> HIDE DEF occupied
<1>4. Cardinality(occupied \ {i}) =
        IF i \in occupied THEN Cardinality(occupied) - 1 ELSE Cardinality(occupied)
  BY <1>3, FS_RemoveElement
<1> QED
  BY <1>1, <1>2, <1>4 DEF occupied
=============================================================================
